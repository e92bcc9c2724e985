------------------------------- MODULE Batches -------------------------------
(***************************************************************************)
(* IRCv3 batches in ircevent: handleBatchCommand, handleBatchedCommand,     *)
(* HandleBatch, handleBatchNaively, expireBatches and the part of           *)
(* runCallbacks that leads to them (irc_callback.go), the expiry check of   *)
(* readLoop and the reset in Connect (irc.go).  Batches are trees that grow *)
(* through the table irc.batches; labels and ages tie them to the pending   *)
(* requests.  Both capabilities are negotiated.                            *)
(*                                                                         *)
(* The server (external) follows the IRCv3 batch and labeled-response       *)
(* specifications: it nests batches properly and tags the start and the end *)
(* of a nested batch with its parent, but it may take any time.  A line is  *)
(* sent and handled in one step: the stream is ordered, and only the        *)
(* client's clock matters.                                                 *)
(***************************************************************************)
EXTENDS Naturals, Sequences, FiniteSets, SequencesExt

CONSTANTS
    BatchIDs,  \* batch IDs of the server
    NoBatch,   \* no batch tag
    KeepAlive, Timeout,  \* in ticks of the clock
    MaxTime, MaxLines, MaxLabels, MaxGen  \* bounds

ASSUME NoBatchAssumption == NoBatch \notin BatchIDs
ASSUME DurationAssumption == Timeout \in Nat \ {0} /\ KeepAlive \in Nat /\ KeepAlive >= Timeout
ASSUME BoundsAssumption == {MaxTime, MaxLines, MaxLabels, MaxGen} \subseteq Nat

VARIABLES
    now,             \* the clock
    gen,             \* number of the connection
    up,              \* readLoop is running
    checking,        \* readLoop is between a message and its look at the clock
    lastExpireCheck, \* local variable of readLoop
    nodes,           \* the *Batch objects, one per line with a batch or label, see Node
    batches,         \* irc.batches
    labelCallbacks,  \* irc.labelCallbacks: label to createdAt
    labelCounter,    \* irc.labelCounter
    open,            \* the server's open batches
    answered,        \* the labels it has begun to answer
    delivered        \* history: what the client was given

clockVars  == <<now, gen, up>>
loopVars   == <<checking, lastExpireCheck>>
tableVars  == <<nodes, batches, labelCallbacks>>
serverVars == <<open, answered>>
vars == <<clockVars, loopVars, tableVars, labelCounter, serverVars, delivered>>

\* A *Batch: items are the numbers of its Items.  home (history) is the node of the batch
\* the server put it into, 0 for none.
Node(isBatch, home) == [isBatch |-> isBatch, items |-> <<>>, home |-> home, gen |-> gen]

Empty == [x \in {} |-> 0]
With(f, key, value) == [k \in DOMAIN f \cup {key} |-> IF k = key THEN value ELSE f[k]]
Without(f, keys) == [k \in DOMAIN f \ keys |-> f[k]]

Init ==
    /\ now = 0 /\ gen = 1 /\ up = TRUE /\ checking = FALSE /\ lastExpireCheck = 0
    /\ nodes = <<>> /\ batches = Empty /\ labelCallbacks = Empty /\ labelCounter = 0
    /\ open = Empty /\ answered = {} /\ delivered = <<>>

-----------------------------------------------------------------------------
(* What the client is given                                                *)

\* The ordinary lines below a node, in the order in which handleBatchNaively comes to them.
Flatten(heap, root) ==
    LET lines[n \in DOMAIN heap] ==
            IF heap[n].isBatch
            THEN FlattenSeq([i \in DOMAIN heap[n].items |-> lines[heap[n].items[i]]])
            ELSE <<n>>
    IN  lines[root]

\* to: "handlers", "batch callback" or "label"; node 0 is nil.
Give(to, label, node) ==
    [to |-> to, gen |-> gen, label |-> label, node |-> node,
     lines |-> IF node = 0 THEN <<>> ELSE Flatten(nodes', node)]

\* HandleBatch: a batch callback takes the batch as a whole, or its lines are dispatched.
HandleBatch(node) ==
    \E to \in {"batch callback", "handlers"} :
        delivered' = Append(delivered, Give(to, 0, node))

-----------------------------------------------------------------------------
(* runCallbacks                                                            *)

\* readLoop takes a line; it looks at the clock when it has dealt with it.
Receive ==
    /\ up /\ ~checking /\ checking' = TRUE
    /\ UNCHANGED <<clockVars, lastExpireCheck, labelCounter>>

\* BATCH +id.  The new batch is in the table before its parent is looked up; without a
\* parent it stays there.
handleBatchStart(id, parent, label, home) ==
    LET n == Len(nodes) + 1
        table == With(batches, id, [createdAt |-> now, batch |-> n, label |-> label])
        grown == Append(nodes, Node(TRUE, home))
    IN  /\ IF id \in DOMAIN batches  \* errorDuplicateBatchID
           THEN nodes' = grown /\ UNCHANGED batches
           ELSE /\ batches' = table
                /\ nodes' = IF parent \in DOMAIN table  \* else errorNoParentBatchID
                            THEN [grown EXCEPT ![table[parent].batch].items = Append(@, n)]
                            ELSE grown
        /\ UNCHANGED <<labelCallbacks, delivered>>

\* Mutant: a nested batch that ends is handled like any other.
handleBatchEndNested(id, nested) ==
    IF id \notin DOMAIN batches
    THEN UNCHANGED <<tableVars, delivered>>
    ELSE /\ batches' = Without(batches, {id})
         /\ UNCHANGED <<nodes, labelCallbacks>>
         /\ HandleBatch(batches[id].batch)

\* BATCH -id.  Only an outermost batch is handed on.
handleBatchEnd(id, nested) ==
    IF id \notin DOMAIN batches  \* errorBatchNotOpen
    THEN UNCHANGED <<tableVars, delivered>>
    ELSE LET bip == batches[id] IN
         /\ batches' = Without(batches, {id})
         /\ UNCHANGED nodes
         /\ IF nested \/ (bip.label # 0 /\ bip.label \notin DOMAIN labelCallbacks)
            THEN UNCHANGED <<labelCallbacks, delivered>>  \* also errorUnknownLabel
            ELSE IF bip.label # 0
            THEN /\ labelCallbacks' = Without(labelCallbacks, {bip.label})
                 /\ delivered' = Append(delivered, Give("label", bip.label, bip.batch))
            ELSE HandleBatch(bip.batch) /\ UNCHANGED labelCallbacks

\* Mutant: a line keeps its batch alive.
handleBatchedCommandRefresh(id, home) ==
    /\ IF id \in DOMAIN batches
       THEN /\ nodes' = [Append(nodes, Node(FALSE, home)) EXCEPT
                            ![batches[id].batch].items = Append(@, Len(nodes) + 1)]
            /\ batches' = [batches EXCEPT ![id].createdAt = now]
       ELSE nodes' = Append(nodes, Node(FALSE, home)) /\ UNCHANGED batches
    /\ UNCHANGED <<labelCallbacks, delivered>>

\* A line with a batch tag; one of an unknown batch is ignored.
handleBatchedCommand(id, home) ==
    /\ nodes' = LET grown == Append(nodes, Node(FALSE, home))
                IN  IF id \in DOMAIN batches
                    THEN [grown EXCEPT ![batches[id].batch].items = Append(@, Len(grown))]
                    ELSE grown
    /\ UNCHANGED <<batches, labelCallbacks, delivered>>

\* A labeled line, or a labeled ACK.
handleLabeled(label) ==
    /\ nodes' = Append(nodes, Node(FALSE, 0))
    /\ IF label \in DOMAIN labelCallbacks
       THEN /\ labelCallbacks' = Without(labelCallbacks, {label})
            /\ delivered' = Append(delivered, Give("label", label, Len(nodes) + 1))
       ELSE UNCHANGED <<labelCallbacks, delivered>>
    /\ UNCHANGED batches

-----------------------------------------------------------------------------
(* The server's lines                                                      *)

\* A batch of its own, nested in an open one, or the response to a request.
BatchStart(id, parent, label) ==
    /\ Len(nodes) < MaxLines /\ id \notin DOMAIN open /\ parent \in DOMAIN open \cup {NoBatch}
    /\ label = 0 \/ (parent = NoBatch /\ label \in 1 .. labelCounter \ answered)
    /\ Receive
    /\ open' = With(open, id, [parent |-> parent, label |-> label, node |-> Len(nodes) + 1])
    /\ answered' = answered \cup ({label} \ {0})
    /\ handleBatchStart(id, parent, label, IF parent = NoBatch THEN 0 ELSE open[parent].node)

BatchedLine(id) ==
    /\ Len(nodes) < MaxLines /\ id \in DOMAIN open /\ Receive
    /\ handleBatchedCommand(id, open[id].node)
    /\ UNCHANGED serverVars

BatchEnd(id) ==
    /\ id \in DOMAIN open /\ \A c \in DOMAIN open : open[c].parent # id
    /\ Receive
    /\ open' = Without(open, {id})
    /\ handleBatchEnd(id, open[id].parent # NoBatch)
    /\ UNCHANGED answered

LabeledLine(label) ==
    /\ Len(nodes) < MaxLines /\ label \in 1 .. labelCounter \ answered /\ Receive
    /\ answered' = answered \cup {label}
    /\ handleLabeled(label)
    /\ UNCHANGED open

\* A line without tags: it is dispatched and leaves no trace here.
OtherLine == Receive /\ UNCHANGED <<tableVars, serverVars, delivered>>

-----------------------------------------------------------------------------
(* Requests, expiry, the connection                                        *)

\* registerLabel; the request is sent at once.
RegisterLabel ==
    /\ up /\ labelCounter < MaxLabels
    /\ labelCounter' = labelCounter + 1
    /\ labelCallbacks' = With(labelCallbacks, labelCounter + 1, now)
    /\ UNCHANGED <<clockVars, loopVars, nodes, batches, serverVars, delivered>>

Tick ==
    /\ now < MaxTime /\ now' = now + 1
    /\ UNCHANGED <<gen, up, loopVars, tableVars, labelCounter, serverVars, delivered>>

\* Mutant: labels expire only when the connection ends.
expireBatchesLabelsStay(force) ==
    /\ delivered' = delivered \o
          (IF force THEN [i \in 1 .. Cardinality(DOMAIN labelCallbacks) |->
                             Give("label", SetToSeq(DOMAIN labelCallbacks)[i], 0)] ELSE <<>>)
    /\ labelCallbacks' = IF force THEN Empty ELSE labelCallbacks
    /\ batches' = Without(batches, {id \in DOMAIN batches : now - batches[id].createdAt > KeepAlive})
    /\ UNCHANGED nodes

\* Old labels (all, if forced) are given nil, old batches are dropped.
expireBatches(force) ==
    LET old(t) == now - t > KeepAlive
        expired == {l \in DOMAIN labelCallbacks : force \/ old(labelCallbacks[l])}
        calls == SetToSeq(expired)
    IN  /\ labelCallbacks' = Without(labelCallbacks, expired)
        /\ batches' = Without(batches, {id \in DOMAIN batches : old(batches[id].createdAt)})
        /\ delivered' = delivered \o [i \in DOMAIN calls |-> Give("label", calls[i], 0)]
        /\ UNCHANGED nodes

\* Mutant: every message restarts the interval.
ExpireCheckRestarts ==
    /\ checking /\ checking' = FALSE /\ lastExpireCheck' = now
    /\ IF now - lastExpireCheck > Timeout
       THEN expireBatches(FALSE)
       ELSE UNCHANGED <<tableVars, delivered>>
    /\ UNCHANGED <<clockVars, labelCounter, serverVars>>

\* The end of readLoop's loop body.
ExpireCheck ==
    /\ checking /\ checking' = FALSE
    /\ IF now - lastExpireCheck > Timeout
       THEN expireBatches(FALSE) /\ lastExpireCheck' = now
       ELSE UNCHANGED <<tableVars, delivered, lastExpireCheck>>
    /\ UNCHANGED <<clockVars, labelCounter, serverVars>>

\* readLoop has stopped; waitForStop expires the labels.
Stop ==
    /\ up /\ ~checking /\ up' = FALSE
    /\ expireBatches(TRUE)
    /\ UNCHANGED <<now, gen, loopVars, labelCounter, serverVars>>

\* Connect resets the tables and starts readLoop; the server starts afresh.
Reconnect ==
    /\ ~up /\ gen < MaxGen /\ up' = TRUE /\ gen' = gen + 1
    /\ batches' = Empty /\ labelCallbacks' = Empty /\ labelCounter' = 0
    /\ lastExpireCheck' = now
    /\ open' = Empty /\ answered' = {}
    /\ UNCHANGED <<now, checking, nodes, delivered>>

-----------------------------------------------------------------------------
Next ==
    \/ \E id \in BatchIDs, parent \in BatchIDs \cup {NoBatch}, label \in 0 .. MaxLabels :
          BatchStart(id, parent, label)
    \/ \E id \in BatchIDs : BatchedLine(id) \/ BatchEnd(id)
    \/ \E label \in 1 .. MaxLabels : LabeledLine(label)
    \/ OtherLine \/ RegisterLabel \/ Tick \/ ExpireCheck \/ Stop \/ Reconnect

Spec == Init /\ [][Next]_vars

-----------------------------------------------------------------------------
\* No request is answered twice, be it with the response or with nil.
AnsweredOnce ==
    \A i, j \in DOMAIN delivered :
        i # j /\ delivered[i].to = "label" /\ delivered[j].to = "label" =>
            <<delivered[i].gen, delivered[i].label>> # <<delivered[j].gen, delivered[j].label>>

\* Nothing reaches the client twice: no line, whatever batch it was in (that a nested batch
\* ends must not hand it on before its parent does), and no answer to a request.
DeliveredOnce ==
    /\ IsInjective(FlattenSeq([i \in DOMAIN delivered |-> delivered[i].lines]))
    /\ AnsweredOnce

\* Every node with the batches it is in, over all levels, and itself.
Path(heap) ==
    LET path[n \in DOMAIN heap] ==
            {n} \cup (IF heap[n].home = 0 THEN {} ELSE path[heap[n].home])
    IN  path

\* The lines the server has put below a node.
Below(root) == {n \in DOMAIN nodes : ~nodes[n].isBatch /\ root \in Path(nodes)[n]}

\* What is handed on is complete, although parts of it may have expired on their own clocks:
\* a batch comes with all lines the server put into it or into batches nested in it, lines
\* of the same batch in the order of arrival, and none of another batch or connection.
CompleteBatch ==
    \A i \in DOMAIN delivered : delivered[i].node # 0 =>
        LET lines == delivered[i].lines IN
        /\ ToSet(lines) = Below(delivered[i].node)
        /\ \A j, k \in DOMAIN lines :
              j < k /\ nodes[lines[j]].home = nodes[lines[k]].home => lines[j] < lines[k]

\* While a request waits, the batch that answers it does not expire: the label is at least
\* as old as its batch, so nil comes first and the end of the batch is not mistaken for
\* something else.
ResponseOutlivesLabel ==
    up => \A id \in DOMAIN open :
              open[id].label \in DOMAIN labelCallbacks => id \in DOMAIN batches

\* "expire open batches from the server that weren't closed in a timely fashion": when
\* readLoop has dealt with a message, no batch is older than KeepAlive and one Timeout.
NoStaleBatch ==
    [][ExpireCheck => \A id \in DOMAIN batches' : now - batches'[id].createdAt <= KeepAlive + Timeout]_vars
=============================================================================
