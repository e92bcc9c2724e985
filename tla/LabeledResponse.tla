--------------------------- MODULE LabeledResponse ---------------------------
(***************************************************************************)
(* Labeled responses in ircevent: SendWithLabel and GetLabeledResponse      *)
(* (irc.go), registerLabel, unregisterLabel, getLabelCallback,             *)
(* expireBatches and the labeled part of runCallbacks and                  *)
(* handleBatchCommand (irc_callback.go), across reconnections.  Critical    *)
(* sections of batchMutex and stateMutex are actions.  The lifecycle of the *)
(* connection is reduced to the steps that touch labels; module Connection *)
(* has all of it.                                                          *)
(***************************************************************************)
EXTENDS Integers, FiniteSets

CONSTANTS
    Requests,    \* calls of SendWithLabel
    None,        \* no callback
    MaxGen       \* bound: number of connections

ASSUME RequestsAssumption == IsFiniteSet(Requests)
ASSUME NoneAssumption == None \notin Requests
ASSUME MaxGenAssumption == MaxGen \in Nat \ {0}

VARIABLES
    gen,            \* number of the connection, 0 before the first
    phase,          \* where Connect and Loop are, see below
    running,        \* irc.running: end is open
    negotiated,     \* capFlags has capFlagLabeledResponse
    labelCallbacks, \* irc.labelCallbacks, label to request
    labelCounter,   \* irc.labelCounter
    batches,        \* requests whose labeled batch is open in irc.batches
    pc,             \* position of each call
    label,          \* its label
    home,           \* history: the numbering its label belongs to
    snap,           \* the connection whose end and pwrite it uses
    wire,           \* the connection the message was queued for, 0: none
    calls,          \* how often its callback ran
    got             \* what the callback was given: a response or nil

vars == <<gen, phase, running, negotiated, labelCallbacks, labelCounter, batches, pc, label, home,
          snap, wire, calls, got>>
connVars == <<gen, phase, running, negotiated>>
labelVars == <<labelCallbacks, labelCounter, batches>>
callVars == <<pc, label, home, snap, wire>>
doneVars == <<calls, got>>

\* Phases. down: stopped; dialed: the labels are not reset yet; negotiating: readLoop runs, the
\* capabilities are not settled; up: in Connect or Loop until waitForStop is through.
Reading == phase \in {"negotiating", "up"}

Labels == 1 .. Cardinality(Requests)
InCall == {"register", "send", "blocked", "unregister"}

\* Labels are numbered anew for every connection, from ResetLabels on.
Numbering == IF phase = "dialed" THEN gen - 1 ELSE gen

Init ==
    /\ gen = 0 /\ phase = "down" /\ running = FALSE /\ negotiated = FALSE
    /\ labelCallbacks = [l \in Labels |-> None] /\ labelCounter = 0 /\ batches = {}
    /\ pc = [r \in Requests |-> "idle"] /\ label = [r \in Requests |-> 0]
    /\ home = [r \in Requests |-> 0] /\ snap = [r \in Requests |-> 0]
    /\ wire = [r \in Requests |-> 0]
    /\ calls = [r \in Requests |-> 0] /\ got = [r \in Requests |-> "none"]

-----------------------------------------------------------------------------
(* SendWithLabel                                                           *)

\* labelNegotiated reads flags that survive the connection they were negotiated on.
Check(r) ==
    /\ pc[r] = "idle"
    /\ pc' = [pc EXCEPT ![r] = IF negotiated THEN "register" ELSE "refused"]
    /\ UNCHANGED <<connVars, labelVars, label, home, snap, wire, doneVars>>

\* Mutant: the counter is not advanced.
RegisterSameLabel(r) ==
    /\ pc[r] = "register"
    /\ labelCallbacks' = [labelCallbacks EXCEPT ![labelCounter + 1] = r]
    /\ label' = [label EXCEPT ![r] = labelCounter + 1]
    /\ home' = [home EXCEPT ![r] = Numbering]
    /\ pc' = [pc EXCEPT ![r] = "send"]
    /\ UNCHANGED <<connVars, labelCounter, batches, snap, wire, doneVars>>

RegisterLabel(r) ==
    /\ pc[r] = "register"
    /\ labelCounter' = labelCounter + 1
    /\ labelCallbacks' = [labelCallbacks EXCEPT ![labelCounter + 1] = r]
    /\ label' = [label EXCEPT ![r] = labelCounter + 1]
    /\ home' = [home EXCEPT ![r] = Numbering]
    /\ pc' = [pc EXCEPT ![r] = "send"]
    /\ UNCHANGED <<connVars, batches, snap, wire, doneVars>>

\* SendIRCMessage cannot assemble the message: an error, the connection may be fine.
AssemblyFailed(r) ==
    /\ pc[r] = "send"
    /\ pc' = [pc EXCEPT ![r] = "unregister"]
    /\ UNCHANGED <<connVars, labelVars, label, home, snap, wire, doneVars>>

\* sendInternal: the locked part, then the select.
SendStart(r) ==
    /\ pc[r] = "send"
    /\ pc' = [pc EXCEPT ![r] = IF running THEN "blocked" ELSE "unregister"]
    /\ snap' = [snap EXCEPT ![r] = gen]
    /\ UNCHANGED <<connVars, labelVars, label, home, wire, doneVars>>

\* A pwrite with room takes the message, also when its connection is gone.  What is queued
\* before CAP LS comes too early for the server to answer it with a label.
SendQueued(r) ==
    /\ pc[r] = "blocked"
    /\ pc' = [pc EXCEPT ![r] = "sent"]
    /\ wire' = [wire EXCEPT ![r] = IF snap[r] = gen /\ phase = "dialed" THEN 0 ELSE snap[r]]
    /\ UNCHANGED <<connVars, labelVars, label, home, snap, doneVars>>

SendAborted(r) ==
    /\ pc[r] = "blocked" /\ ~(snap[r] = gen /\ running)
    /\ pc' = [pc EXCEPT ![r] = "unregister"]
    /\ UNCHANGED <<connVars, labelVars, label, home, snap, wire, doneVars>>

UnregisterLabel(r) ==
    /\ pc[r] = "unregister"
    /\ labelCallbacks' = [labelCallbacks EXCEPT ![label[r]] = None]
    /\ pc' = [pc EXCEPT ![r] = "failed"]
    /\ UNCHANGED <<connVars, labelCounter, batches, label, home, snap, wire, doneVars>>

-----------------------------------------------------------------------------
(* Callbacks                                                               *)

\* Mutant: the callback stays in the table.
DeliverAndKeep(l, value) ==
    LET r == labelCallbacks[l]
    IN  /\ UNCHANGED labelCallbacks
        /\ IF r = None
           THEN UNCHANGED doneVars
           ELSE /\ calls' = [calls EXCEPT ![r] = @ + 1]
                /\ got' = [got EXCEPT ![r] = value]

\* getLabelCallback takes the callback out of the table, then it is run with the value.
Deliver(l, value) ==
    LET r == labelCallbacks[l]
    IN  IF r = None
        THEN UNCHANGED <<labelCallbacks, doneVars>>
        ELSE /\ labelCallbacks' = [labelCallbacks EXCEPT ![l] = None]
             /\ calls' = [calls EXCEPT ![r] = @ + 1]
             /\ got' = [got EXCEPT ![r] = value]

\* The server answers a message of this connection once; readLoop may handle a line it
\* received although end is closed by now.  Without the capability, the tag of a response
\* is not looked at (`batch' and `labeled-response' are taken to come together).
Answerable(r) == wire[r] = gen /\ wire[r] # 0 /\ Reading /\ negotiated /\ r \notin batches

\* A labeled line, or a labeled ACK.
Respond(r) ==
    /\ Answerable(r)
    /\ Deliver(label[r], r)
    /\ wire' = [wire EXCEPT ![r] = 0]
    /\ UNCHANGED <<connVars, labelCounter, batches, pc, label, home, snap>>

\* A labeled batch: the label is kept when the batch opens and looked up when it closes.
BatchStart(r) ==
    /\ Answerable(r)
    /\ batches' = batches \cup {r}
    /\ UNCHANGED <<connVars, labelCallbacks, labelCounter, callVars, doneVars>>

BatchEnd(r) ==
    /\ r \in batches /\ wire[r] = gen /\ Reading /\ negotiated
    /\ batches' = batches \ {r}
    /\ Deliver(label[r], r)
    /\ wire' = [wire EXCEPT ![r] = 0]
    /\ UNCHANGED <<connVars, labelCounter, pc, label, home, snap>>

\* Mutant: batches expire, labels do not.
ExpireBatchesOnly(l) ==
    /\ Reading /\ negotiated /\ labelCallbacks[l] # None /\ batches # {}
    /\ batches' = {}
    /\ UNCHANGED <<connVars, labelCounter, callVars, labelCallbacks, doneVars>>

\* expireBatches(false), run by readLoop between two messages, on a label older than
\* KeepAlive; batches of that age go with it, and their end will not be recognised.
Expire(l) ==
    /\ Reading /\ negotiated /\ labelCallbacks[l] # None
    /\ Deliver(l, "nil")
    /\ \E old \in SUBSET batches :
          /\ batches' = batches \ old
          /\ wire' = [r \in Requests |-> IF r \in old THEN 0 ELSE wire[r]]
    /\ UNCHANGED <<connVars, labelCounter, pc, label, home, snap>>

-----------------------------------------------------------------------------
(* Connect and Loop                                                        *)

\* The second critical section of Connect on stateMutex...
Dialed ==
    /\ phase = "down" /\ gen < MaxGen
    /\ phase' = "dialed" /\ gen' = gen + 1 /\ running' = TRUE
    /\ UNCHANGED <<negotiated, labelVars, callVars, doneVars>>

\* ... and the one on batchMutex that follows it.
ResetLabels ==
    /\ phase = "dialed" /\ phase' = "negotiating"
    /\ labelCallbacks' = [l \in Labels |-> None] /\ labelCounter' = 0 /\ batches' = {}
    /\ UNCHANGED <<gen, running, negotiated, callVars, doneVars>>

\* processAckedCaps at the end of the negotiation, failed or not.
ProcessAckedCaps ==
    /\ phase = "negotiating" /\ phase' = "up"
    /\ negotiated' \in BOOLEAN
    /\ UNCHANGED <<gen, running, labelVars, callVars, doneVars>>

\* Any error, Reconnect or Quit.
CloseEnd ==
    /\ running /\ running' = FALSE
    /\ UNCHANGED <<gen, phase, negotiated, labelVars, callVars, doneVars>>

\* Mutant: the labels are forgotten without a word.
ExpireAllSilently ==
    /\ phase \in {"up", "down"} /\ ~running /\ phase' = "down"
    /\ labelCallbacks' = [l \in Labels |-> None]
    /\ UNCHANGED <<gen, running, negotiated, labelCounter, batches, callVars, doneVars>>

\* expireBatches(true) at the end of waitForStop: every callback is given nil.
ExpireAll ==
    /\ phase \in {"up", "down"} /\ ~running /\ phase' = "down"
    /\ LET expired == {r \in Requests : \E l \in Labels : labelCallbacks[l] = r}
       IN  /\ calls' = [r \in Requests |-> IF r \in expired THEN calls[r] + 1 ELSE calls[r]]
           /\ got' = [r \in Requests |-> IF r \in expired THEN "nil" ELSE got[r]]
    /\ labelCallbacks' = [l \in Labels |-> None]
    /\ UNCHANGED <<gen, running, negotiated, labelCounter, batches, callVars>>

-----------------------------------------------------------------------------
SendWithLabel(r) ==
    Check(r) \/ RegisterLabel(r) \/ AssemblyFailed(r) \/ SendStart(r) \/ SendQueued(r)
    \/ SendAborted(r) \/ UnregisterLabel(r)

Next ==
    \/ \E r \in Requests : SendWithLabel(r) \/ Respond(r) \/ BatchStart(r) \/ BatchEnd(r)
    \/ \E l \in Labels : Expire(l)
    \/ Dialed \/ ResetLabels \/ ProcessAckedCaps \/ CloseEnd \/ ExpireAll

\* Loop always reaches waitForStop once end is closed (and again after a Connect that fails,
\* which nothing guarantees), and keepalive PONGs keep readLoop checking the age of the
\* labels.  The server need not answer anything.
Fairness ==
    /\ WF_vars(phase = "up" /\ ExpireAll)
    /\ \A l \in Labels : WF_vars(Expire(l))

Spec == Init /\ [][Next]_vars /\ Fairness

-----------------------------------------------------------------------------
\* A callback runs at most once, whatever races between the response, the expiry, the
\* loss of the connection and the failure of the send (GetLabeledResponse closes a
\* channel in it: a second run would panic).
AtMostOnce == \A r \in Requests : calls[r] <= 1

\* The call straddled a reconnection: its label was numbered for one connection and its
\* message sent on another, where the same number is given out again.
Straddled(r) == snap[r] # home[r]

\* The failed call of another numbering has unregistered the label of r by its own number.
Robbed(r) == \E q \in Requests : pc[q] = "failed" /\ label[q] = label[r] /\ home[q] # home[r]

\* A callback is given its own response or nil.  Only a call that straddled a reconnection
\* can have its response taken for that of another: labels repeat on no connection, and no
\* expiry, failure or late line makes them.
OwnResponse ==
    \A r \in Requests : got[r] \in {"none", "nil", r} \/ Straddled(got[r])

\* "If the server fails to respond correctly, the callback will be invoked with nil": after
\* SendWithLabel returned nil, the callback has run or is still in the table, where a
\* response, the expiry or the end of the connection finds it.  The two ways to lose it are
\* to straddle a reconnection, and a call that did and failed.
CallbackNotLost ==
    \A r \in Requests : pc[r] = "sent" =>
        calls[r] = 1 \/ (\E l \in Labels : labelCallbacks[l] = r) \/ Straddled(r) \/ Robbed(r)

\* So GetLabeledResponse returns, whether the server answers or not, on a connection that
\* has negotiated labels or is lost.
CallbackRuns ==
    \A r \in Requests :
        /\ pc[r] = "sent" /\ ~Straddled(r) /\ snap[r] = gen
        /\ phase = "up" /\ (negotiated \/ ~running)
        ~> calls[r] = 1 \/ Robbed(r)

\* "the server response to the command will be collected into a *Batch and passed to the
\* provided callback": when a response has been passed to some callback, the one of the
\* request it answers has been run.
ResponsePassed == \A r, q \in Requests : got[q] = r => calls[r] = 1
=============================================================================
