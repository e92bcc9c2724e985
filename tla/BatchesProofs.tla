---------------------------- MODULE BatchesProofs ----------------------------
(***************************************************************************)
(* Batches and labels, for every set of batch IDs, every KeepAlive and      *)
(* Timeout and any number of lines, labels and connections.  By their ages: *)
(* a request outlasts no batch that answers it, none is answered twice, and *)
(* no batch lingers.  By their tree: a batch is handed on with all that is  *)
(* below it and nothing else, and no line is handed on twice.               *)
(***************************************************************************)
EXTENDS Batches, SequenceLemmas

Clocks ==
    /\ {now, gen, labelCounter, lastExpireCheck} \subseteq Nat
    /\ lastExpireCheck <= now

LabelTable ==
    /\ DOMAIN labelCallbacks \subseteq 1 .. labelCounter
    /\ \A l \in DOMAIN labelCallbacks : labelCallbacks[l] \in 0 .. now

\* A batch the client knows is open, and was not too old when readLoop last looked.
BatchTable ==
    /\ DOMAIN batches \subseteq DOMAIN open
    /\ \A id \in DOMAIN batches :
          batches[id].createdAt \in 0 .. now /\ lastExpireCheck <= batches[id].createdAt + KeepAlive

OpenLabels == \A id \in DOMAIN open : open[id].label \in 0 .. labelCounter

\* The batch that answers a waiting request is younger than the request.
YoungerThanLabel ==
    \A id \in DOMAIN open : open[id].label \in DOMAIN labelCallbacks =>
        id \in DOMAIN batches /\ labelCallbacks[open[id].label] <= batches[id].createdAt

\* What has been answered on this connection does not wait any more.
AnsweredNotWaiting ==
    /\ delivered \in Seq(Range(delivered))
    /\ \A i \in DOMAIN delivered : delivered[i].to = "label" =>
          /\ delivered[i].gen \in 0 .. gen
          /\ delivered[i].gen = gen =>
                delivered[i].label \in 1 .. labelCounter \ DOMAIN labelCallbacks

(***************************************************************************)
(* The tree of batches.                                                    *)
(***************************************************************************)

NodeSet == [isBatch : BOOLEAN, items : Seq(Nat), home : Nat, gen : Nat]

\* The items of a node are nodes the server has put into it, in the order of arrival.
Tree(heap) ==
    /\ heap \in Seq(NodeSet)
    /\ \A n \in DOMAIN heap :
          /\ heap[n].home < n /\ (heap[n].home # 0 => heap[heap[n].home].isBatch)
          /\ \A i \in DOMAIN heap[n].items :
                heap[n].items[i] \in DOMAIN heap /\ heap[heap[n].items[i]].home = n
          /\ \A i, j \in DOMAIN heap[n].items : i < j => heap[n].items[i] < heap[n].items[j]

\* What the server has put into a batch that is not lost is there, and is not lost itself.
Whole(heap, lost) ==
    \A n \in DOMAIN heap : heap[n].home \notin lost \cup {0} =>
        n \in Range(heap[heap[n].home].items) /\ n \notin lost

\* The server's open batches: a nested one is below its parent.
OpenTree ==
    /\ DOMAIN open \subseteq BatchIDs
    /\ \A id \in DOMAIN open :
          /\ open[id].node \in DOMAIN nodes /\ nodes[open[id].node].isBatch
          /\ IF open[id].parent = NoBatch THEN nodes[open[id].node].home = 0
             ELSE /\ open[id].parent \in DOMAIN open
                  /\ nodes[open[id].node].home = open[open[id].parent].node
    /\ \A i, j \in DOMAIN open : open[i].node = open[j].node => i = j

\* The client's table has those that are not lost; a parent is at least as old as its child.
Known(lost) ==
    /\ \A id \in DOMAIN batches : batches[id].batch = open[id].node
    /\ \A id \in DOMAIN open : id \in DOMAIN batches <=> open[id].node \notin lost
    /\ \A id \in DOMAIN batches : open[id].parent \in DOMAIN batches =>
          batches[open[id].parent].createdAt <= batches[id].createdAt

\* The lines below a node, each once, those of the same batch in the order of arrival.
Handed(heap, root, lines) ==
    /\ lines \in Seq(Nat) /\ IsInjective(lines)
    /\ Range(lines) = {n \in DOMAIN heap : ~heap[n].isBatch /\ root \in Path(heap)[n]}
    /\ \A j, k \in DOMAIN lines :
          j < k /\ heap[lines[j]].home = heap[lines[k]].home => lines[j] < lines[k]

\* What was delivered is an outermost node, complete, and closed to further lines.
Placed(d) ==
    IF d.node = 0 THEN d.lines = <<>>
    ELSE /\ d.node \in DOMAIN nodes /\ nodes[d.node].home = 0
         /\ \A id \in DOMAIN open : open[id].node # d.node
         /\ Handed(nodes, d.node, d.lines)

Handing ==
    /\ \A i \in DOMAIN delivered : Placed(delivered[i])
    /\ \A i, j \in DOMAIN delivered :
          delivered[i].node = delivered[j].node /\ delivered[i].node # 0 => i = j

\* The batches that are lost are those that expired before the server closed them, and what
\* is in them.
Forest ==
    /\ Tree(nodes) /\ OpenTree /\ Handing
    /\ \E lost \in SUBSET DOMAIN nodes : Whole(nodes, lost) /\ Known(lost)

\* The inductive invariant of the ages; together with Forest it is that of the tree.
IInv ==
    /\ Clocks /\ LabelTable /\ BatchTable /\ OpenLabels /\ YoungerThanLabel
    /\ AnsweredNotWaiting /\ AnsweredOnce

-----------------------------------------------------------------------------
(* Trees                                                                   *)

\* A node comes after the batch it is in.
LEMMA TreeFacts ==
    ASSUME NEW heap, Tree(heap)
    PROVE  /\ Len(heap) \in Nat /\ DOMAIN heap = 1 .. Len(heap)
           /\ \A n \in DOMAIN heap : /\ n \in Nat \ {0} /\ heap[n].home \in 0 .. n - 1
                                     /\ heap[n].isBatch \in BOOLEAN /\ heap[n].items \in Seq(Nat)
                                     /\ heap[n].home # 0 => heap[n].home \in DOMAIN heap
<1>1. heap \in Seq(NodeSet)
  BY DEF Tree
<1>2. Len(heap) \in Nat /\ DOMAIN heap = 1 .. Len(heap)
  BY <1>1
<1>3. \A n \in DOMAIN heap : /\ n \in Nat \ {0} /\ heap[n].home \in Nat /\ heap[n].home < n
                             /\ heap[n].isBatch \in BOOLEAN /\ heap[n].items \in Seq(Nat)
  <2> TAKE n \in DOMAIN heap
  <2>1. heap[n] \in NodeSet
    BY <1>1
  <2>2. /\ heap[n].isBatch \in BOOLEAN /\ heap[n].items \in Seq(Nat) /\ heap[n].home \in Nat
    BY <2>1 DEF NodeSet
  <2>3. heap[n].home < n
    BY DEF Tree
  <2>4. n \in Nat \ {0}
    BY <1>2
  <2> QED
    BY <2>2, <2>3, <2>4
<1> QED
  BY <1>2, <1>3

\* What holds of a node if it holds of the batch it is in, holds of every node.
LEMMA TreeInduction ==
    ASSUME NEW heap, Tree(heap), NEW S,
           \A n \in DOMAIN heap : (heap[n].home = 0 \/ heap[n].home \in S) => n \in S
    PROVE  \A n \in DOMAIN heap : n \in S
<1> DEFINE D == DOMAIN heap \ S
<1>1. SUFFICES ASSUME D # {} PROVE FALSE
  OBVIOUS
<1>2. D \subseteq Nat
  BY TreeFacts
<1>3. PICK x \in D : \A y \in D : x <= y
  BY <1>1, <1>2, Least
<1>4. heap[x].home \in 0 .. x - 1 /\ (heap[x].home # 0 => heap[x].home \in DOMAIN heap) /\ x \in Nat
  BY TreeFacts
<1> QED
  BY <1>3, <1>4

\* What holds of a node if it holds of those after it, holds of every node.
LEMMA TreeDescent ==
    ASSUME NEW heap, Tree(heap), NEW S,
           \A n \in DOMAIN heap : (\A c \in DOMAIN heap : n < c => c \in S) => n \in S
    PROVE  \A n \in DOMAIN heap : n \in S
<1>1. PICK l \in Nat : l = Len(heap) /\ DOMAIN heap = 1 .. l
  BY TreeFacts
<1> DEFINE D == {k \in Nat : k < l /\ l - k \notin S}
<1>2. SUFFICES ASSUME NEW n \in DOMAIN heap, n \notin S PROVE FALSE
  OBVIOUS
<1>3. l - n \in D
  <2>1. n \in 1 .. l /\ l - n \in Nat /\ l - n < l /\ l - (l - n) = n
    BY <1>1
  <2> QED
    BY <1>2, <2>1
<1>4. PICK x \in D : \A y \in D : x <= y
  <2>1. D \subseteq Nat /\ D # {}
    BY <1>3
  <2> HIDE DEF D
  <2> QED
    BY <2>1, Least
<1>5. x \in Nat /\ x < l /\ l - x \notin S /\ l - x \in DOMAIN heap
  BY <1>1, <1>4
<1>6. ASSUME NEW c \in DOMAIN heap, l - x < c PROVE c \in S
  <2>1. c \in 1 .. l /\ l - c \in Nat /\ l - c < l /\ l - (l - c) = c /\ ~(x <= l - c)
    BY <1>1, <1>5, <1>6
  <2> QED
    BY <1>4, <2>1
<1> QED
  BY <1>5, <1>6

\* One turn of the recursion of Path.
PathStep(f, n, heap) == {n} \cup (IF heap[n].home = 0 THEN {} ELSE f[heap[n].home])

\* The recursion has a result ...
LEMMA PathExists ==
    ASSUME NEW heap, Tree(heap)
    PROVE  \E f : f = [n \in DOMAIN heap |-> PathStep(f, n, heap)]
<1>1. PICK l \in Nat : l = Len(heap) /\ DOMAIN heap = 1 .. l
  BY TreeFacts
<1> DEFINE S == {m \in Nat : m <= l => \E f : f = [n \in 1 .. m |-> PathStep(f, n, heap)]}
<1>2. 0 \in S
  <2> DEFINE f == [n \in 1 .. 0 |-> {}]
  <2>1. f = [n \in 1 .. 0 |-> PathStep(f, n, heap)]
    OBVIOUS
  <2> QED
    BY <2>1
<1>3. ASSUME NEW m \in Nat, m \in S PROVE m + 1 \in S
  <2> SUFFICES ASSUME m + 1 <= l PROVE \E f : f = [n \in 1 .. m + 1 |-> PathStep(f, n, heap)]
    OBVIOUS
  <2>1. PICK f : f = [n \in 1 .. m |-> PathStep(f, n, heap)]
    BY <1>3
  <2> DEFINE g == [n \in 1 .. m + 1 |-> IF n = m + 1 THEN PathStep(f, m + 1, heap) ELSE f[n]]
  <2>2. ASSUME NEW n \in 1 .. m + 1 PROVE g[n] = PathStep(g, n, heap)
    <3>1. n \in DOMAIN heap
      BY <1>1
    <3>2. heap[n].home \in 0 .. n - 1
      BY <3>1, TreeFacts
    <3>3. heap[n].home # 0 => g[heap[n].home] = f[heap[n].home]
      BY <3>2
    <3>4. g[n] = PathStep(f, n, heap)
      BY <2>1
    <3> HIDE DEF g
    <3> QED
      BY <3>3, <3>4 DEF PathStep
  <2>3. g = [n \in 1 .. m + 1 |-> PathStep(g, n, heap)]
    BY <2>2
  <2> HIDE DEF g
  <2> QED
    BY <2>3
<1>4. l \in S
  <2> HIDE DEF S
  <2> QED
    BY <1>2, <1>3, Induction
<1> QED
  BY <1>1, <1>4

\* ... which is Path.
LEMMA PathUnfolds ==
    ASSUME NEW heap, Tree(heap), NEW n \in DOMAIN heap
    PROVE  Path(heap)[n] = {n} \cup (IF heap[n].home = 0 THEN {} ELSE Path(heap)[heap[n].home])
<1> DEFINE f == CHOOSE path : path = [k \in DOMAIN heap |-> PathStep(path, k, heap)]
<1>1. f = [k \in DOMAIN heap |-> PathStep(f, k, heap)]
  BY PathExists
<1>2. Path(heap) = f
  BY DEF Path, PathStep
<1> HIDE DEF f
<1>3. f[n] = PathStep(f, n, heap)
  BY <1>1
<1> QED
  BY <1>2, <1>3 DEF PathStep

\* What a node is in comes before it.
LEMMA PathBounds ==
    ASSUME NEW heap, Tree(heap)
    PROVE  \A n \in DOMAIN heap : n \in Path(heap)[n] /\ Path(heap)[n] \subseteq 1 .. n
<1> DEFINE path == Path(heap)
           S == {n \in DOMAIN heap : n \in path[n] /\ path[n] \subseteq 1 .. n}
<1> HIDE DEF path
<1>1. ASSUME NEW n \in DOMAIN heap, heap[n].home = 0 \/ heap[n].home \in S PROVE n \in S
  <2>1. path[n] = {n} \cup (IF heap[n].home = 0 THEN {} ELSE path[heap[n].home])
    BY PathUnfolds DEF path
  <2>2. n \in Nat \ {0} /\ heap[n].home \in 0 .. n - 1
    BY TreeFacts
  <2>3. heap[n].home # 0 => path[heap[n].home] \subseteq 1 .. heap[n].home
    BY <1>1
  <2>4. path[n] \subseteq 1 .. n
    BY <2>1, <2>2, <2>3
  <2> QED
    BY <2>1, <2>4
<1>2. \A n \in DOMAIN heap : n \in S
  <2> HIDE DEF S
  <2> QED
    BY <1>1, TreeInduction
<1> QED
  BY <1>2 DEF path

\* A set that has the batch of each of its nodes has all that they are in.
LEMMA PathClosed ==
    ASSUME NEW heap, Tree(heap), NEW C, C \subseteq DOMAIN heap,
           \A n \in C : heap[n].home = 0 \/ heap[n].home \in C
    PROVE  \A n \in C : Path(heap)[n] \subseteq C
<1> DEFINE path == Path(heap)
           S == {n \in DOMAIN heap : n \in C => path[n] \subseteq C}
<1> HIDE DEF path
<1>1. ASSUME NEW n \in DOMAIN heap, heap[n].home = 0 \/ heap[n].home \in S PROVE n \in S
  <2>1. path[n] = {n} \cup (IF heap[n].home = 0 THEN {} ELSE path[heap[n].home])
    BY PathUnfolds DEF path
  <2> QED
    BY <1>1, <2>1
<1>2. \A n \in DOMAIN heap : n \in S
  <2> HIDE DEF S
  <2> QED
    BY <1>1, TreeInduction
<1> QED
  BY <1>2 DEF path

\* Of two nodes a third is in, the later one is in the earlier one.
LEMMA PathTotal ==
    ASSUME NEW heap, Tree(heap)
    PROVE  \A n \in DOMAIN heap : \A q, r \in Path(heap)[n] : q <= r => q \in Path(heap)[r]
<1> DEFINE path == Path(heap)
           S == {n \in DOMAIN heap : \A q, r \in path[n] : q <= r => q \in path[r]}
<1> HIDE DEF path
<1>1. ASSUME NEW n \in DOMAIN heap, heap[n].home = 0 \/ heap[n].home \in S PROVE n \in S
  <2>1. path[n] = {n} \cup (IF heap[n].home = 0 THEN {} ELSE path[heap[n].home])
    BY PathUnfolds DEF path
  <2>2. n \in Nat \ {0} /\ heap[n].home \in 0 .. n - 1 /\ (heap[n].home # 0 => heap[n].home \in DOMAIN heap)
    BY TreeFacts
  <2>3. heap[n].home # 0 => path[heap[n].home] \subseteq 1 .. heap[n].home
    BY <2>2, PathBounds DEF path
  <2>4. ASSUME NEW q \in path[n], NEW r \in path[n], q <= r PROVE q \in path[r]
    <3>1. CASE r = n
      BY <3>1
    <3>2. CASE r # n
      <4>1. heap[n].home # 0 /\ r \in path[heap[n].home]
        BY <2>1, <3>2
      <4>2. q # n
        BY <2>2, <2>3, <2>4, <4>1
      <4>3. q \in path[heap[n].home]
        BY <2>1, <4>1, <4>2
      <4> QED
        BY <1>1, <2>4, <4>1, <4>3
    <3> QED
      BY <3>1, <3>2
  <2> QED
    BY <2>4
<1>2. \A n \in DOMAIN heap : n \in S
  <2> HIDE DEF S
  <2> QED
    BY <1>1, TreeInduction
<1> QED
  BY <1>2 DEF path

\* A node is in what the batch it is in is in.
LEMMA PathThrough ==
    ASSUME NEW heap, Tree(heap)
    PROVE  \A n \in DOMAIN heap : \A r \in Path(heap)[n] : Path(heap)[r] \subseteq Path(heap)[n]
<1> DEFINE path == Path(heap)
           S == {n \in DOMAIN heap : \A r \in path[n] : path[r] \subseteq path[n]}
<1> HIDE DEF path
<1>1. ASSUME NEW n \in DOMAIN heap, heap[n].home = 0 \/ heap[n].home \in S PROVE n \in S
  <2>1. path[n] = {n} \cup (IF heap[n].home = 0 THEN {} ELSE path[heap[n].home])
    BY PathUnfolds DEF path
  <2>2. ASSUME NEW r \in path[n] PROVE path[r] \subseteq path[n]
    <3>1. CASE r = n
      BY <3>1
    <3>2. CASE r # n
      <4>1. heap[n].home # 0 /\ r \in path[heap[n].home]
        BY <2>1, <3>2
      <4>2. path[r] \subseteq path[heap[n].home]
        BY <1>1, <4>1
      <4> QED
        BY <2>1, <4>1, <4>2
    <3> QED
      BY <3>1, <3>2
  <2> QED
    BY <2>2
<1>2. \A n \in DOMAIN heap : n \in S
  <2> HIDE DEF S
  <2> QED
    BY <1>1, TreeInduction
<1> QED
  BY <1>2 DEF path

\* The way from a batch to a node in it begins with one the server put into the batch.
LEMMA PathChild ==
    ASSUME NEW heap, Tree(heap)
    PROVE  \A n \in DOMAIN heap : \A r \in Path(heap)[n] :
              r # n => \E c \in DOMAIN heap : heap[c].home = r /\ c \in Path(heap)[n]
<1> DEFINE path == Path(heap)
           S == {n \in DOMAIN heap : \A r \in path[n] :
                    r # n => \E c \in DOMAIN heap : heap[c].home = r /\ c \in path[n]}
<1> HIDE DEF path
<1>1. ASSUME NEW n \in DOMAIN heap, heap[n].home = 0 \/ heap[n].home \in S PROVE n \in S
  <2>1. path[n] = {n} \cup (IF heap[n].home = 0 THEN {} ELSE path[heap[n].home])
    BY PathUnfolds DEF path
  <2>2. ASSUME NEW r \in path[n], r # n
        PROVE  \E c \in DOMAIN heap : heap[c].home = r /\ c \in path[n]
    <3>1. heap[n].home # 0 /\ r \in path[heap[n].home]
      BY <2>1, <2>2
    <3>2. CASE r = heap[n].home
      BY <2>1, <3>2
    <3>3. CASE r # heap[n].home
      <4>1. PICK c \in DOMAIN heap : heap[c].home = r /\ c \in path[heap[n].home]
        BY <1>1, <3>1, <3>3
      <4> QED
        BY <2>1, <3>1, <4>1
    <3> QED
      BY <3>2, <3>3
  <2> QED
    BY <2>2
<1>2. \A n \in DOMAIN heap : n \in S
  <2> HIDE DEF S
  <2> QED
    BY <1>1, TreeInduction
<1> QED
  BY <1>2 DEF path

\* Nodes that come later change nothing above those that are there.
LEMMA PathGrows ==
    ASSUME NEW heap, Tree(heap), NEW more, Tree(more), DOMAIN heap \subseteq DOMAIN more,
           \A n \in DOMAIN heap : more[n].home = heap[n].home
    PROVE  \A n \in DOMAIN heap : Path(more)[n] = Path(heap)[n]
<1> DEFINE path == Path(heap)
           long == Path(more)
           S == {n \in DOMAIN heap : long[n] = path[n]}
<1> HIDE DEF path, long
<1>1. ASSUME NEW n \in DOMAIN heap, heap[n].home = 0 \/ heap[n].home \in S PROVE n \in S
  <2>1. path[n] = {n} \cup (IF heap[n].home = 0 THEN {} ELSE path[heap[n].home])
    BY PathUnfolds DEF path
  <2>2. long[n] = {n} \cup (IF heap[n].home = 0 THEN {} ELSE long[heap[n].home])
    <3>1. n \in DOMAIN more /\ more[n].home = heap[n].home
      OBVIOUS
    <3> QED
      BY <3>1, PathUnfolds DEF long
  <2> QED
    BY <1>1, <2>1, <2>2
<1>2. \A n \in DOMAIN heap : n \in S
  <2> HIDE DEF S
  <2> QED
    BY <1>1, TreeInduction
<1> QED
  BY <1>2 DEF path, long

\* No node is in two that are in the same batch, or in none.
LEMMA SiblingsApart ==
    ASSUME NEW heap, Tree(heap), NEW n \in DOMAIN heap,
           NEW c \in Path(heap)[n], NEW d \in Path(heap)[n], heap[c].home = heap[d].home
    PROVE  c = d
<1>1. {c, d} \subseteq DOMAIN heap
  BY PathBounds, TreeFacts
<1>2. ASSUME NEW a \in {c, d}, NEW b \in {c, d} PROVE ~(a < b)
  <2>1. SUFFICES ASSUME a < b PROVE FALSE
    OBVIOUS
  <2>2. a \in DOMAIN heap /\ b \in DOMAIN heap /\ heap[a].home = heap[b].home
    BY <1>1
  <2>3. a \in Nat /\ b \in Nat /\ heap[a].home \in 0 .. a - 1
    BY <2>2, TreeFacts
  <2>4. a \in Path(heap)[b]
    BY <2>1, <2>3, PathTotal
  <2>5. Path(heap)[b] = {b} \cup (IF heap[b].home = 0 THEN {} ELSE Path(heap)[heap[b].home])
    BY <2>2, PathUnfolds
  <2>6. heap[a].home # 0 /\ a \in Path(heap)[heap[a].home]
    BY <2>1, <2>2, <2>3, <2>4, <2>5
  <2>7. heap[a].home \in DOMAIN heap
    BY <2>2, <2>6, TreeFacts
  <2>8. a \in 1 .. heap[a].home
    BY <2>6, <2>7, PathBounds
  <2> QED
    BY <2>3, <2>8
<1>3. c \in Nat /\ d \in Nat
  BY <1>1, TreeFacts
<1> QED
  BY <1>2, <1>3

-----------------------------------------------------------------------------
(* What handleBatchNaively comes to                                        *)

\* One turn of the recursion of Flatten.
LinesStep(f, n, heap) ==
    IF heap[n].isBatch THEN FlattenSeq([i \in DOMAIN heap[n].items |-> f[heap[n].items[i]]])
    ELSE <<n>>

\* The recursion has a result, from any node to the last ...
LEMMA LinesExist ==
    ASSUME NEW heap, Tree(heap)
    PROVE  \E f : f = [n \in DOMAIN heap |-> LinesStep(f, n, heap)]
<1>1. PICK l \in Nat : l = Len(heap) /\ DOMAIN heap = 1 .. l
  BY TreeFacts
<1> DEFINE From(m) == (l - m) + 1 .. l
           S == {m \in Nat : m <= l => \E f : f = [n \in From(m) |-> LinesStep(f, n, heap)]}
<1>2. 0 \in S
  <2> DEFINE f == [n \in From(0) |-> {}]
  <2>1. From(0) = {}
    OBVIOUS
  <2>2. f = [n \in From(0) |-> LinesStep(f, n, heap)]
    BY <2>1
  <2> QED
    BY <2>2
<1>3. ASSUME NEW m \in Nat, m \in S PROVE m + 1 \in S
  <2> SUFFICES ASSUME m + 1 <= l PROVE \E f : f = [n \in From(m + 1) |-> LinesStep(f, n, heap)]
    OBVIOUS
  <2>1. PICK f : f = [n \in From(m) |-> LinesStep(f, n, heap)]
    BY <1>3
  <2>2. PICK k \in 1 .. l : k = l - m
    BY <1>3
  <2>3. From(m + 1) = k .. l /\ From(m) = k + 1 .. l
    BY <2>2
  <2> HIDE DEF From
  <2> DEFINE g == [n \in k .. l |-> IF n = k THEN LinesStep(f, k, heap) ELSE f[n]]
  <2>4. ASSUME NEW n \in k .. l PROVE g[n] = LinesStep(g, n, heap)
    <3>1. n \in DOMAIN heap
      BY <1>1
    <3>2. PICK its \in Seq(Nat) : its = heap[n].items
      BY <3>1, TreeFacts
    <3>3. ASSUME NEW i \in DOMAIN its PROVE g[its[i]] = f[its[i]]
      <4>1. its[i] \in 1 .. l /\ heap[its[i]].home = n
        BY <1>1, <3>1, <3>2 DEF Tree
      <4>2. n < its[i]
        <5>1. its[i] \in DOMAIN heap
          BY <1>1, <4>1
        <5>2. its[i] \in Nat /\ heap[its[i]].home \in 0 .. its[i] - 1
          BY <5>1, TreeFacts
        <5> QED
          BY <4>1, <5>2
      <4>3. its[i] \in k .. l /\ its[i] # k
        BY <2>2, <4>1, <4>2
      <4> QED
        BY <4>3
    <3>4. g[n] = LinesStep(f, n, heap)
      BY <2>1, <2>3
    <3> HIDE DEF g
    <3>5. [i \in DOMAIN its |-> g[its[i]]] = [i \in DOMAIN its |-> f[its[i]]]
      BY <3>3
    <3>6. LinesStep(g, n, heap) = LinesStep(f, n, heap)
      BY <3>2, <3>5 DEF LinesStep
    <3> QED
      BY <3>4, <3>6
  <2>5. g = [n \in k .. l |-> LinesStep(g, n, heap)]
    BY <2>4
  <2> HIDE DEF g
  <2> QED
    BY <2>3, <2>5
<1>4. l \in S
  <2> HIDE DEF S
  <2> QED
    BY <1>2, <1>3, Induction
<1>5. From(l) = 1 .. l
  OBVIOUS
<1> HIDE DEF From
<1> QED
  BY <1>1, <1>4, <1>5

\* ... which is Flatten.
LEMMA LinesUnfold ==
    ASSUME NEW heap, Tree(heap)
    PROVE  \E f : /\ \A n \in DOMAIN heap : f[n] = LinesStep(f, n, heap)
                  /\ \A root : Flatten(heap, root) = f[root]
<1> DEFINE f == CHOOSE lines : lines = [n \in DOMAIN heap |-> LinesStep(lines, n, heap)]
<1>1. f = [n \in DOMAIN heap |-> LinesStep(f, n, heap)]
  BY LinesExist
<1>2. \A root : Flatten(heap, root) = f[root]
  BY DEF Flatten, LinesStep
<1> HIDE DEF f
<1>3. \A n \in DOMAIN heap : f[n] = LinesStep(f, n, heap)
  BY <1>1
<1> QED
  BY <1>2, <1>3

\* An ordinary line is all there is below it.
LEMMA LineHanded ==
    ASSUME NEW heap, Tree(heap), NEW n \in DOMAIN heap, ~heap[n].isBatch
    PROVE  Handed(heap, n, <<n>>)
<1>1. n \in Nat
  BY TreeFacts
<1>2. DOMAIN <<n>> = 1 .. 1 /\ \A i \in DOMAIN <<n>> : <<n>>[i] = n
  BY SingleFacts
<1>3. \A i \in 1 .. 1 : i = 1
  OBVIOUS
<1>4. ASSUME NEW k \in DOMAIN heap, n \in Path(heap)[k] PROVE k = n
  <2>1. SUFFICES ASSUME k # n PROVE FALSE
    OBVIOUS
  <2>2. PICK c \in DOMAIN heap : heap[c].home = n
    BY <1>4, <2>1, PathChild
  <2>3. heap[n].isBatch
    <3>1. n # 0
      BY TreeFacts
    <3> QED
      BY <2>2, <3>1 DEF Tree
  <2> QED
    BY <2>3
<1>5. n \in Path(heap)[n]
  BY PathBounds
<1>6. Range(<<n>>) = {n}
  BY <1>2 DEF Range
<1>7. {k \in DOMAIN heap : ~heap[k].isBatch /\ n \in Path(heap)[k]} = {n}
  BY <1>4, <1>5
<1>8. <<n>> \in Seq(Nat)
  BY <1>1
<1>9. IsInjective(<<n>>)
  BY <1>2, <1>3 DEF IsInjective
<1>10. \A j, k \in DOMAIN <<n>> : ~(j < k)
  BY <1>2, <1>3
<1> QED
  BY <1>6, <1>7, <1>8, <1>9, <1>10 DEF Handed

\* A batch has the lines of all that is in it.
LEMMA BatchHanded ==
    ASSUME NEW heap, Tree(heap), NEW n \in DOMAIN heap, heap[n].isBatch, NEW its \in Seq(Nat),
           its = heap[n].items, NEW s, s \in [DOMAIN its -> Seq(Nat)],
           \A c \in DOMAIN heap : heap[c].home = n => c \in Range(its),
           \A i \in DOMAIN its : Handed(heap, its[i], s[i])
    PROVE  Handed(heap, n, FlattenSeq(s))
<1> DEFINE path == Path(heap)
<1>1. PICK l \in Nat : l = Len(its) /\ DOMAIN its = 1 .. l
  OBVIOUS
<1>2. s \in Seq(Seq(Nat)) /\ Len(s) = l /\ DOMAIN s = 1 .. l
  <2>1. PICK T : T = Seq(Nat)
    OBVIOUS
  <2>2. s \in [1 .. l -> T]
    BY <1>1, <2>1
  <2>3. s \in Seq(T) /\ Len(s) = l /\ DOMAIN s = 1 .. l
    BY <2>2
  <2> QED
    BY <2>1, <2>3
<1>3. PICK t \in Seq(Nat) : t = FlattenSeq(s)
  BY <1>2, FlattenFacts
<1>4. PICK row, col : Flattened(s, l, t, row, col)
  BY <1>2, <1>3, FlattenFacts
<1> HIDE DEF path
<1>5. ASSUME NEW i \in 1 .. l
      PROVE  its[i] \in DOMAIN heap /\ heap[its[i]].home = n
  BY <1>1 DEF Tree
<1>6. ASSUME NEW i \in 1 .. l, NEW j \in 1 .. l, i < j PROVE its[i] < its[j]
  BY <1>1, <1>6 DEF Tree
<1>7. \A i, j \in 1 .. l : its[i] = its[j] => i = j
  <2> SUFFICES ASSUME NEW i \in 1 .. l, NEW j \in 1 .. l, its[i] = its[j], i # j PROVE FALSE
    OBVIOUS
  <2>1. its[i] \in Nat
    BY <1>1
  <2>2. i < j \/ j < i
    OBVIOUS
  <2> QED
    BY <1>6, <2>1, <2>2
<1>8. ASSUME NEW i \in 1 .. l
      PROVE  /\ s[i] \in Seq(Nat) /\ IsInjective(s[i])
             /\ \A k \in DOMAIN s[i] : /\ s[i][k] \in DOMAIN heap /\ ~heap[s[i][k]].isBatch
                                       /\ its[i] \in path[s[i][k]]
             /\ \A x \in DOMAIN heap : ~heap[x].isBatch /\ its[i] \in path[x] =>
                   \E k \in DOMAIN s[i] : s[i][k] = x
             /\ \A j, k \in DOMAIN s[i] :
                   j < k /\ heap[s[i][j]].home = heap[s[i][k]].home => s[i][j] < s[i][k]
  <2>1. Handed(heap, its[i], s[i])
    BY <1>1
  <2>2. Range(s[i]) = {k \in DOMAIN heap : ~heap[k].isBatch /\ its[i] \in path[k]}
    BY <2>1 DEF Handed, path
  <2>3. \A x : x \in Range(s[i]) <=> \E k \in DOMAIN s[i] : s[i][k] = x
    BY DEF Range
  <2>4. /\ s[i] \in Seq(Nat) /\ IsInjective(s[i])
        /\ \A j, k \in DOMAIN s[i] :
              j < k /\ heap[s[i][j]].home = heap[s[i][k]].home => s[i][j] < s[i][k]
    BY <2>1 DEF Handed
  <2> QED
    BY <2>2, <2>3, <2>4
<1>9. ASSUME NEW x \in DOMAIN heap, NEW i \in 1 .. l, NEW j \in 1 .. l,
             its[i] \in path[x], its[j] \in path[x]
      PROVE  i = j
  <2>1. its[i] = its[j]
    BY <1>5, <1>9, SiblingsApart DEF path
  <2> QED
    BY <1>7, <2>1
<1>10. IsInjective(t)
  <2>1. \A i \in DOMAIN s : IsInjective(s[i])
    BY <1>2, <1>8
  <2>2. \A i, j \in DOMAIN s : \A k \in DOMAIN s[i], m \in DOMAIN s[j] : s[i][k] = s[j][m] => i = j
    <3> TAKE i, j \in DOMAIN s
    <3> TAKE k \in DOMAIN s[i], m \in DOMAIN s[j]
    <3> HAVE s[i][k] = s[j][m]
    <3>1. PICK x \in DOMAIN heap : x = s[i][k] /\ its[i] \in path[x] /\ its[j] \in path[x]
      BY <1>2, <1>8
    <3> QED
      BY <1>2, <1>9, <3>1
  <2> QED
    BY <1>2, <1>3, <2>1, <2>2, FlattenInjective
<1>11. ASSUME NEW p \in DOMAIN t
       PROVE  /\ row[p] \in 1 .. l /\ col[p] \in DOMAIN s[row[p]] /\ t[p] = s[row[p]][col[p]]
              /\ t[p] \in DOMAIN heap /\ ~heap[t[p]].isBatch /\ its[row[p]] \in path[t[p]]
  <2>1. row[p] \in 1 .. l /\ col[p] \in DOMAIN s[row[p]] /\ t[p] = s[row[p]][col[p]]
    BY <1>4 DEF Flattened
  <2> QED
    BY <1>8, <2>1
<1>12. Range(t) = {x \in DOMAIN heap : ~heap[x].isBatch /\ n \in path[x]}
  <2>1. ASSUME NEW p \in DOMAIN t PROVE n \in path[t[p]]
    <3>1. PICK c \in DOMAIN heap : c = its[row[p]] /\ heap[c].home = n /\ c \in path[t[p]]
      BY <1>5, <1>11
    <3>2. n # 0
      BY TreeFacts
    <3>3. path[c] = {c} \cup path[n]
      BY <3>1, <3>2, PathUnfolds DEF path
    <3>4. n \in path[n]
      BY PathBounds DEF path
    <3>5. path[c] \subseteq path[t[p]]
      BY <1>11, <3>1, PathThrough DEF path
    <3> QED
      BY <3>3, <3>4, <3>5
  <2>2. ASSUME NEW x \in DOMAIN heap, ~heap[x].isBatch, n \in path[x] PROVE \E p \in DOMAIN t : t[p] = x
    <3>1. PICK c \in DOMAIN heap : heap[c].home = n /\ c \in path[x]
      <4>1. x # n
        BY <2>2
      <4> QED
        BY <2>2, <4>1, PathChild DEF path
    <3>2. PICK i \in 1 .. l : c = its[i]
      BY <1>1, <3>1 DEF Range
    <3>3. PICK k \in DOMAIN s[i] : s[i][k] = x
      BY <1>8, <2>2, <3>1, <3>2
    <3>4. PICK p \in DOMAIN t : row[p] = i /\ col[p] = k
      BY <1>4 DEF Flattened
    <3> QED
      BY <1>11, <3>3, <3>4
  <2>3. \A x : x \in Range(t) <=> \E p \in DOMAIN t : t[p] = x
    BY DEF Range
  <2> QED
    BY <1>11, <2>1, <2>2, <2>3
<1>13. ASSUME NEW j \in DOMAIN t, NEW k \in DOMAIN t, j < k, heap[t[j]].home = heap[t[k]].home
       PROVE  t[j] < t[k]
  <2>1. row[j] < row[k] \/ (row[j] = row[k] /\ col[j] < col[k])
    BY <1>4, <1>13 DEF Flattened
  <2>2. CASE row[j] = row[k] /\ col[j] < col[k]
    <3>1. PICK i \in 1 .. l : i = row[j] /\ i = row[k]
      BY <1>11, <2>2
    <3>2. col[j] \in DOMAIN s[i] /\ col[k] \in DOMAIN s[i] /\ t[j] = s[i][col[j]] /\ t[k] = s[i][col[k]]
      BY <1>11, <3>1
    <3> QED
      BY <1>8, <1>13, <2>2, <3>2
  <2>3. CASE row[j] < row[k]
    <3>1. PICK x \in DOMAIN heap, y \in DOMAIN heap : x = t[j] /\ y = t[k]
      BY <1>11
    <3>2. PICK a, b : a = its[row[j]] /\ b = its[row[k]]
      OBVIOUS
    <3>3. /\ a \in path[x] /\ b \in path[y] /\ a < b /\ a \in DOMAIN heap /\ b \in DOMAIN heap
          /\ heap[a].home = n /\ heap[b].home = n
      BY <1>5, <1>6, <1>11, <2>3, <3>1, <3>2
    <3>4. PICK above : above = IF heap[x].home = 0 THEN {} ELSE path[heap[x].home]
      OBVIOUS
    <3>5. path[x] = {x} \cup above /\ path[y] = {y} \cup above
      BY <1>13, <3>1, <3>4, PathUnfolds DEF path
    <3>6. a # b
      BY <3>3, TreeFacts
    <3>7. a \notin above
      BY <3>1, <3>3, <3>5, <3>6, SiblingsApart DEF path
    <3>8. b \notin above
      BY <3>1, <3>3, <3>5, <3>6, SiblingsApart DEF path
    <3> QED
      BY <3>1, <3>3, <3>5, <3>7, <3>8
  <2> QED
    BY <2>1, <2>2, <2>3
<1>14. Handed(heap, n, t)
  BY <1>10, <1>12, <1>13 DEF Handed, path
<1> QED
  BY <1>3, <1>14

\* What is not lost is handed on with everything the server put into it.
LEMMA FlattenComplete ==
    ASSUME NEW heap, Tree(heap), NEW lost, Whole(heap, lost)
    PROVE  \A n \in DOMAIN heap : n \notin lost => Handed(heap, n, Flatten(heap, n))
<1>1. PICK f : /\ \A n \in DOMAIN heap : f[n] = LinesStep(f, n, heap)
               /\ \A root : Flatten(heap, root) = f[root]
  BY LinesUnfold
<1> DEFINE S == {n \in DOMAIN heap : n \notin lost => Handed(heap, n, f[n])}
<1>2. ASSUME NEW n \in DOMAIN heap, \A c \in DOMAIN heap : n < c => c \in S PROVE n \in S
  <2> SUFFICES ASSUME n \notin lost PROVE Handed(heap, n, f[n])
    OBVIOUS
  <2>1. CASE ~heap[n].isBatch
    BY <1>1, <2>1, LineHanded DEF LinesStep
  <2>2. CASE heap[n].isBatch
    <3>1. PICK its \in Seq(Nat) : its = heap[n].items
      BY TreeFacts
    <3>2. PICK s : s = [i \in DOMAIN its |-> f[its[i]]]
      OBVIOUS
    <3>3. f[n] = FlattenSeq(s)
      BY <1>1, <2>2, <3>1, <3>2 DEF LinesStep
    <3>4. n # 0
      BY TreeFacts
    <3>5. \A c \in DOMAIN heap : heap[c].home = n => c \in Range(its) /\ c \notin lost
      BY <3>1, <3>4 DEF Whole
    <3>6. ASSUME NEW i \in DOMAIN its PROVE Handed(heap, its[i], s[i])
      <4>1. its[i] \in DOMAIN heap /\ heap[its[i]].home = n
        BY <3>1 DEF Tree
      <4>2. n < its[i]
        BY <4>1, TreeFacts
      <4> QED
        BY <1>2, <3>2, <3>5, <4>1, <4>2
    <3>7. s \in [DOMAIN its -> Seq(Nat)]
      BY <3>2, <3>6 DEF Handed
    <3> HIDE DEF S
    <3> QED
      BY <2>2, <3>1, <3>3, <3>5, <3>6, <3>7, BatchHanded
  <2> QED
    BY <2>1, <2>2
<1>3. \A n \in DOMAIN heap : n \in S
  <2> HIDE DEF S
  <2> QED
    BY <1>2, TreeDescent
<1> QED
  BY <1>1, <1>3

-----------------------------------------------------------------------------
(* The tree, step by step                                                  *)

\* more has the nodes of heap where they were, perhaps with more items, and others after them.
Grows(heap, more) ==
    /\ DOMAIN heap \subseteq DOMAIN more
    /\ \A n \in DOMAIN heap : more[n].home = heap[n].home /\ more[n].isBatch = heap[n].isBatch

\* A new node, put into the batch it is in, or, if the client does not know that, into none.
Grown(heap, new, into) ==
    IF into = 0 THEN Append(heap, new)
    ELSE [Append(heap, new) EXCEPT ![into].items = Append(@, Len(heap) + 1)]

\* What a new node changes.
Extended(heap, more, new, into, l) ==
    /\ more \in Seq(NodeSet)
    /\ DOMAIN more = 1 .. l + 1 /\ DOMAIN heap = 1 .. l
    /\ Grows(heap, more) /\ more[l + 1] = new
    /\ \A n \in 1 .. l : more[n].items =
          IF n = into THEN Append(heap[n].items, l + 1) ELSE heap[n].items

\* Grown does that.
LEMMA GrownFacts ==
    ASSUME NEW heap, Tree(heap), NEW new \in NodeSet, NEW into, into # 0 => into \in DOMAIN heap
    PROVE  Extended(heap, Grown(heap, new, into), new, into, Len(heap))
<1>1. PICK l \in Nat : l = Len(heap)
  BY TreeFacts
<1>5. PICK more : more = Grown(heap, new, into)
  OBVIOUS
<1>2. heap \in Seq(NodeSet) /\ new \in NodeSet
  BY DEF Tree
<1>3. PICK long : long = Append(heap, new)
  OBVIOUS
<1>4. /\ long \in Seq(NodeSet) /\ DOMAIN heap = 1 .. l /\ DOMAIN long = 1 .. l + 1
      /\ long[l + 1] = new /\ \A n \in 1 .. l : long[n] = heap[n]
  <2>1. long \in Seq(NodeSet)
    BY <1>2, <1>3
  <2>2. heap \in Seq(Range(heap))
    BY <1>2, OfOwnElements
  <2> QED
    BY <1>1, <1>3, <2>1, <2>2, AppendFacts
<1>6. CASE into = 0
  <2>1. more = long
    BY <1>3, <1>5, <1>6 DEF Grown
  <2>2. Grows(heap, more)
    BY <1>4, <2>1 DEF Grows
  <2> QED
    BY <1>1, <1>4, <1>5, <1>6, <2>1, <2>2 DEF Extended
<1>7. CASE into # 0
  <2>1. PICK h \in 1 .. l : h = into
    BY <1>4, <1>7
  <2>2. more = [long EXCEPT ![h].items = Append(@, l + 1)]
    BY <1>1, <1>3, <1>5, <1>7, <2>1 DEF Grown
  <2>3. long[h] \in NodeSet /\ long[h] = heap[h] /\ h \in 1 .. l + 1 /\ h # l + 1
    <3>1. h \in 1 .. l + 1 /\ h # l + 1
      BY <2>1
    <3> QED
      BY <1>4, <3>1
  <2>4. PICK x : x = [long[h] EXCEPT !.items = Append(@, l + 1)]
    OBVIOUS
  <2>5. /\ x \in NodeSet
        /\ x.home = heap[h].home /\ x.isBatch = heap[h].isBatch
        /\ x.items = Append(heap[h].items, l + 1)
    <3>1. PICK y \in NodeSet : y = heap[h]
      BY <2>3
    <3>2. x = [y EXCEPT !.items = Append(@, l + 1)]
      BY <2>3, <2>4, <3>1
    <3>3. Append(y.items, l + 1) \in Seq(Nat)
      BY DEF NodeSet
    <3> QED
      BY <3>1, <3>2, <3>3 DEF NodeSet
  <2>6. more = [long EXCEPT ![h] = x]
    BY <2>2, <2>4
  <2>7. /\ DOMAIN more = 1 .. l + 1 /\ more[h] = x
        /\ \A n \in 1 .. l + 1 : n # h => more[n] = long[n]
    BY <1>4, <2>3, <2>6
  <2>8. more \in Seq(NodeSet)
    <3>1. x \in NodeSet
      BY <2>5
    <3>2. \A n \in 1 .. l + 1 : more[n] \in NodeSet
      BY <1>4, <2>7, <3>1
    <3>3. more \in [1 .. l + 1 -> NodeSet]
      BY <2>6, <2>7, <3>2, <1>4
    <3>4. l + 1 \in Nat
      OBVIOUS
    <3>5. PICK k \in Nat : k = l + 1
      BY <3>4
    <3>6. more \in [1 .. k -> NodeSet]
      BY <3>3, <3>5
    <3> QED
      BY <3>6
  <2>9. Grows(heap, more)
    <3>1. \A n \in 1 .. l : more[n].home = heap[n].home /\ more[n].isBatch = heap[n].isBatch
      <4> TAKE n \in 1 .. l
      <4>1. CASE n = h
        BY <2>5, <2>7, <4>1
      <4>2. CASE n # h
        <5>1. n \in 1 .. l + 1
          OBVIOUS
        <5>2. more[n] = heap[n]
          BY <1>4, <2>7, <4>2, <5>1
        <5> QED
          BY <5>2
      <4> QED
        BY <4>1, <4>2
    <3> QED
      BY <1>4, <2>7, <3>1 DEF Grows
  <2>10. more[l + 1] = new
    <3>1. l + 1 \in 1 .. l + 1
      OBVIOUS
    <3> QED
      BY <1>4, <2>3, <2>7, <3>1
  <2>11. ASSUME NEW n \in 1 .. l
         PROVE  more[n].items = IF n = h THEN Append(heap[n].items, l + 1) ELSE heap[n].items
    <3>1. n \in 1 .. l + 1
      OBVIOUS
    <3>2. CASE n = h
      BY <2>5, <2>7, <3>2
    <3>3. CASE n # h
      <4>1. more[n] = heap[n]
        BY <1>4, <2>7, <3>1, <3>3
      <4> QED
        BY <3>3, <4>1
    <3> QED
      BY <3>2, <3>3
  <2> QED
    BY <1>1, <1>4, <1>5, <1>7, <2>1, <2>7, <2>8, <2>9, <2>10, <2>11 DEF Extended
<1> QED
  BY <1>6, <1>7

\* It leaves a tree.
LEMMA GrownTree ==
    ASSUME NEW heap, Tree(heap),
           NEW new \in NodeSet,
           new.items = <<>>, new.home # 0 => new.home \in DOMAIN heap /\ heap[new.home].isBatch,
           NEW into \in {0, new.home}
    PROVE  Tree(Grown(heap, new, into))
<1>1. PICK l \in Nat : l = Len(heap)
  BY TreeFacts
<1>2. PICK more : more = Grown(heap, new, into)
  OBVIOUS
<1>3. into # 0 => into \in DOMAIN heap
  OBVIOUS
<1>4. /\ more \in Seq(NodeSet)
      /\ DOMAIN more = 1 .. l + 1 /\ DOMAIN heap = 1 .. l /\ Grows(heap, more) /\ more[l + 1] = new
      /\ \A n \in 1 .. l : more[n].items =
            IF n = into THEN Append(heap[n].items, l + 1) ELSE heap[n].items
  <2>1. Extended(heap, more, new, into, l)
    BY <1>1, <1>2, <1>3, GrownFacts
  <2> QED
    BY <2>1 DEF Extended
<1>5. \A n \in 1 .. l + 1 : n \in 1 .. l \/ n = l + 1
  OBVIOUS
<1>6. new.home \in Nat
  BY DEF NodeSet
<1>7. ASSUME NEW n \in 1 .. l + 1
      PROVE  more[n].home < n /\ (more[n].home # 0 => more[more[n].home].isBatch)
  <2>1. CASE n \in 1 .. l
    <3>1. heap[n].home \in 0 .. n - 1 /\ (heap[n].home # 0 => heap[n].home \in 1 .. l /\ heap[heap[n].home].isBatch)
      BY <1>4, <2>1, TreeFacts DEF Tree
    <3>2. more[n].home = heap[n].home
      BY <1>4, <2>1 DEF Grows
    <3>3. heap[n].home # 0 => more[heap[n].home].isBatch
      BY <1>4, <3>1 DEF Grows
    <3> QED
      BY <2>1, <3>1, <3>2, <3>3
  <2>2. CASE n = l + 1
    BY <1>4, <1>6, <2>2 DEF Grows
  <2> QED
    BY <1>5, <2>1, <2>2
<1>8. ASSUME NEW n \in 1 .. l + 1
      PROVE  /\ \A i \in DOMAIN more[n].items :
                   more[n].items[i] \in 1 .. l + 1 /\ more[more[n].items[i]].home = n
             /\ \A i, j \in DOMAIN more[n].items : i < j => more[n].items[i] < more[n].items[j]
  <2>1. CASE n = l + 1
    BY <1>4, <2>1
  <2>2. CASE n \in 1 .. l
    <3>1. PICK its \in Seq(Nat) : its = heap[n].items
      BY <1>4, <2>2, TreeFacts
    <3>2. /\ \A i \in DOMAIN its : its[i] \in 1 .. l /\ heap[its[i]].home = n
          /\ \A i, j \in DOMAIN its : i < j => its[i] < its[j]
      BY <1>4, <2>2, <3>1 DEF Tree
    <3>3. \A i \in DOMAIN its : its[i] \in 1 .. l + 1 /\ more[its[i]].home = n
      BY <1>4, <3>2 DEF Grows
    <3>4. CASE n # into
      <4>1. more[n].items = its
        BY <1>4, <2>2, <3>1, <3>4
      <4> QED
        BY <3>2, <3>3, <4>1
    <3>5. CASE n = into
      <4>1. PICK m \in Nat : m = Len(its) /\ DOMAIN its = 1 .. m
        BY <3>1
      <4>2. PICK u : u = Append(its, l + 1)
        OBVIOUS
      <4>3. /\ more[n].items = u /\ DOMAIN u = 1 .. m + 1 /\ u[m + 1] = l + 1
            /\ \A i \in 1 .. m : u[i] = its[i]
        <5>1. more[n].items = u
          BY <1>4, <2>2, <3>1, <3>5, <4>2
        <5>2. l + 1 \in Nat
          OBVIOUS
        <5> QED
          BY <4>1, <4>2, <5>1, <5>2
      <4>4. \A i \in 1 .. m + 1 : i \in 1 .. m \/ i = m + 1
        OBVIOUS
      <4>5. ASSUME NEW i \in 1 .. m + 1 PROVE u[i] \in 1 .. l + 1 /\ more[u[i]].home = n
        <5>1. CASE i = m + 1
          <6>1. l + 1 \in 1 .. l + 1 /\ n # 0
            BY <2>2
          <6>2. new.home = n
            BY <3>5, <6>1
          <6> QED
            BY <1>4, <4>3, <5>1, <6>1, <6>2
        <5>2. CASE i \in 1 .. m
          BY <3>3, <4>1, <4>3, <5>2
        <5> QED
          BY <4>4, <5>1, <5>2
      <4>6. ASSUME NEW i \in 1 .. m + 1, NEW j \in 1 .. m + 1, i < j PROVE u[i] < u[j]
        <5>1. i \in 1 .. m
          BY <4>6
        <5>2. CASE j \in 1 .. m
          BY <3>2, <4>1, <4>3, <4>6, <5>1, <5>2
        <5>3. CASE j = m + 1
          <6>1. u[i] \in 1 .. l
            BY <3>2, <4>1, <4>3, <5>1
          <6> QED
            BY <4>3, <5>3, <6>1
        <5> QED
          BY <4>4, <5>2, <5>3
      <4> QED
        BY <4>3, <4>5, <4>6
    <3> QED
      BY <3>4, <3>5
  <2> QED
    BY <1>5, <2>1, <2>2
<1>9. Tree(more)
  BY <1>4, <1>7, <1>8 DEF Tree
<1> QED
  BY <1>2, <1>9

\* Nothing that is not lost misses it.
LEMMA GrownWhole ==
    ASSUME NEW heap, Tree(heap), NEW lost \in SUBSET DOMAIN heap, Whole(heap, lost),
           NEW new \in NodeSet,
           new.home # 0 => new.home \in DOMAIN heap,
           NEW into \in {0, new.home}, into = 0 => new.home \in lost \cup {0}
    PROVE  Whole(Grown(heap, new, into), lost)
<1>1. PICK l \in Nat : l = Len(heap)
  BY TreeFacts
<1>2. PICK more : more = Grown(heap, new, into)
  OBVIOUS
<1>3. into # 0 => into \in DOMAIN heap
  OBVIOUS
<1>4. /\ DOMAIN more = 1 .. l + 1 /\ DOMAIN heap = 1 .. l /\ Grows(heap, more) /\ more[l + 1] = new
      /\ \A n \in 1 .. l : more[n].items =
            IF n = into THEN Append(heap[n].items, l + 1) ELSE heap[n].items
  <2>1. Extended(heap, more, new, into, l)
    BY <1>1, <1>2, <1>3, GrownFacts
  <2> QED
    BY <2>1 DEF Extended
<1>5. ASSUME NEW h \in 1 .. l PROVE Range(heap[h].items) \subseteq Range(more[h].items)
  <2>1. PICK its \in Seq(Nat) : its = heap[h].items
    BY <1>4, TreeFacts
  <2>2. \A i \in DOMAIN its : i \in DOMAIN Append(its, l + 1) /\ Append(its, l + 1)[i] = its[i]
    OBVIOUS
  <2>3. Range(its) \subseteq Range(Append(its, l + 1))
    BY <2>2 DEF Range
  <2> QED
    BY <1>4, <2>1, <2>3
<1>6. ASSUME NEW n \in 1 .. l + 1, more[n].home \notin lost \cup {0}
      PROVE  n \in Range(more[more[n].home].items) /\ n \notin lost
  <2>1. CASE n \in 1 .. l
    <3>1. PICK h : h = heap[n].home /\ more[n].home = h
      BY <1>4, <2>1 DEF Grows
    <3>2. h \in 1 .. l
      BY <1>4, <1>6, <2>1, <3>1, TreeFacts
    <3>3. n \in Range(heap[h].items) /\ n \notin lost
      BY <1>4, <1>6, <2>1, <3>1 DEF Whole
    <3> QED
      BY <1>5, <3>1, <3>2, <3>3
  <2>2. CASE n = l + 1
    <3>1. into = new.home /\ new.home \in 1 .. l /\ more[n].home = new.home
      BY <1>4, <1>6, <2>2
    <3>2. PICK its \in Seq(Nat) : its = heap[new.home].items
      BY <1>4, <3>1, TreeFacts
    <3>3. more[new.home].items = Append(its, l + 1)
      BY <1>4, <3>1, <3>2
    <3>4. l + 1 \in Range(Append(its, l + 1))
      <4>1. Len(its) + 1 \in DOMAIN Append(its, l + 1) /\ Append(its, l + 1)[Len(its) + 1] = l + 1
        OBVIOUS
      <4> QED
        BY <4>1 DEF Range
    <3>5. l + 1 \notin lost
      BY <1>4
    <3> QED
      BY <2>2, <3>1, <3>3, <3>4, <3>5
  <2> QED
    BY <2>1, <2>2
<1>7. Whole(more, lost)
  BY <1>4, <1>6 DEF Whole
<1> QED
  BY <1>2, <1>7

\* What was handed on stays complete if the new nodes are elsewhere.
LEMMA HandedGrows ==
    ASSUME NEW heap, Tree(heap), NEW more, Tree(more), Grows(heap, more),
           NEW root \in DOMAIN heap, NEW lines, Handed(heap, root, lines),
           \A n \in DOMAIN more : n \notin DOMAIN heap => root \notin Path(more)[n]
    PROVE  Handed(more, root, lines)
<1>1. \A n \in DOMAIN heap : Path(more)[n] = Path(heap)[n]
  BY PathGrows DEF Grows
<1>2. {n \in DOMAIN more : ~more[n].isBatch /\ root \in Path(more)[n]}
        = {n \in DOMAIN heap : ~heap[n].isBatch /\ root \in Path(heap)[n]}
  BY <1>1 DEF Grows
<1>3. Range(lines) = {n \in DOMAIN more : ~more[n].isBatch /\ root \in Path(more)[n]}
  BY <1>2 DEF Handed
<1>4. \A j \in DOMAIN lines : lines[j] \in DOMAIN heap
  <2>1. \A j \in DOMAIN lines : lines[j] \in Range(lines)
    BY DEF Range
  <2> QED
    BY <2>1 DEF Handed
<1>5. \A j \in DOMAIN lines : more[lines[j]].home = heap[lines[j]].home
  BY <1>4 DEF Grows
<1>6. \A j, k \in DOMAIN lines :
         j < k /\ more[lines[j]].home = more[lines[k]].home => lines[j] < lines[k]
  BY <1>5 DEF Handed
<1>7. lines \in Seq(Nat) /\ IsInjective(lines)
  BY DEF Handed
<1> QED
  BY <1>3, <1>6, <1>7 DEF Handed

\* An open batch is in open batches only.
LEMMA OpenPaths ==
    ASSUME Tree(nodes), OpenTree, NEW id \in DOMAIN open
    PROVE  Path(nodes)[open[id].node] \subseteq {open[k].node : k \in DOMAIN open}
<1> DEFINE C == {open[k].node : k \in DOMAIN open}
<1>1. C \subseteq DOMAIN nodes
  BY DEF OpenTree
<1>2. \A n \in C : nodes[n].home = 0 \/ nodes[n].home \in C
  BY DEF OpenTree
<1>3. open[id].node \in C
  OBVIOUS
<1> HIDE DEF C
<1>4. Path(nodes)[open[id].node] \subseteq C
  BY <1>1, <1>2, <1>3, PathClosed
<1> QED
  BY <1>4 DEF C

\* What was delivered keeps its place while lines and batches come to open batches or to none.
LEMMA PlacedKept ==
    ASSUME Tree(nodes), Tree(nodes'), Grows(nodes, nodes'), NEW d, Placed(d),
           d.node # 0 => \A n \in DOMAIN nodes' : n \notin DOMAIN nodes => d.node \notin Path(nodes')[n],
           \A id \in DOMAIN open' : \/ open'[id].node \notin DOMAIN nodes
                                    \/ \E k \in DOMAIN open : open[k].node = open'[id].node
    PROVE  Placed(d)'
<1>1. CASE d.node = 0
  BY <1>1 DEF Placed
<1>2. CASE d.node # 0
  <2>1. /\ d.node \in DOMAIN nodes /\ nodes[d.node].home = 0 /\ Handed(nodes, d.node, d.lines)
        /\ \A id \in DOMAIN open : open[id].node # d.node
    BY <1>2 DEF Placed
  <2>2. Handed(nodes', d.node, d.lines)
    BY <1>2, <2>1, HandedGrows
  <2>3. d.node \in DOMAIN nodes' /\ nodes'[d.node].home = 0
    BY <2>1 DEF Grows
  <2>4. \A id \in DOMAIN open' : open'[id].node # d.node
    BY <2>1
  <2> QED
    BY <1>2, <2>2, <2>3, <2>4 DEF Placed
<1> QED
  BY <1>1, <1>2

\* If nothing comes, it is enough that no batch is opened.
LEMMA PlacedSame ==
    ASSUME Tree(nodes), nodes' = nodes,
           \A id \in DOMAIN open' : \E k \in DOMAIN open : open[k].node = open'[id].node
    PROVE  \A d : Placed(d) => Placed(d)'
<1> SUFFICES ASSUME NEW d, Placed(d) PROVE Placed(d)'
  OBVIOUS
<1>1. Grows(nodes, nodes') /\ Tree(nodes')
  BY DEF Grows
<1> QED
  BY <1>1, PlacedKept

\* A new node keeps the tree, and what was delivered.
LEMMA GrownForest ==
    ASSUME Tree(nodes), OpenTree, NEW lost \in SUBSET DOMAIN nodes, Whole(nodes, lost),
           NEW new \in NodeSet, new.items = <<>>,
           new.home = 0 \/ \E id \in DOMAIN open : new.home = open[id].node,
           NEW into \in {0, new.home}, into = 0 => new.home \in lost \cup {0},
           NEW l, l = Len(nodes), nodes' = Grown(nodes, new, into),
           \A id \in DOMAIN open' : \/ open'[id].node = l + 1
                                    \/ \E k \in DOMAIN open : open[k].node = open'[id].node
    PROVE  /\ Tree(nodes') /\ Whole(nodes', lost) /\ lost \in SUBSET DOMAIN nodes'
           /\ Extended(nodes, nodes', new, into, l) /\ l \in Nat
           /\ \A d : Placed(d) => Placed(d)'
<1>1. new.home # 0 => new.home \in DOMAIN nodes /\ nodes[new.home].isBatch
  BY DEF OpenTree
<1>2. into # 0 => into \in DOMAIN nodes
  BY <1>1
<1>3. PICK more : more = nodes'
  OBVIOUS
<1>4. Extended(nodes, more, new, into, l) /\ l \in Nat
  BY <1>2, <1>3, GrownFacts, TreeFacts
<1>5. Tree(more)
  BY <1>1, <1>3, GrownTree
<1>6. Whole(more, lost)
  BY <1>1, <1>3, GrownWhole
<1>7. /\ DOMAIN more = 1 .. l + 1 /\ DOMAIN nodes = 1 .. l /\ Grows(nodes, more)
      /\ more[l + 1] = new
  BY <1>4 DEF Extended
<1>8. l + 1 \in DOMAIN more /\ \A n \in DOMAIN more : n \notin DOMAIN nodes => n = l + 1
  BY <1>4, <1>7
<1>9. \A n \in DOMAIN nodes : Path(more)[n] = Path(nodes)[n]
  BY <1>5, <1>7, PathGrows DEF Grows
<1>10. Path(more)[l + 1] \subseteq {l + 1} \cup {open[k].node : k \in DOMAIN open}
  <2>1. Path(more)[l + 1] = {l + 1} \cup (IF new.home = 0 THEN {} ELSE Path(more)[new.home])
    BY <1>5, <1>7, <1>8, PathUnfolds
  <2>2. CASE new.home = 0
    BY <2>1, <2>2
  <2>3. CASE new.home # 0
    <3>1. PICK id \in DOMAIN open : new.home = open[id].node
      BY <2>3
    <3>2. Path(nodes)[new.home] \subseteq {open[k].node : k \in DOMAIN open}
      BY <3>1, OpenPaths
    <3> QED
      BY <1>1, <1>9, <2>1, <2>3, <3>2
  <2> QED
    BY <2>2, <2>3
<1>11. ASSUME NEW d, Placed(d) PROVE Placed(d)'
  <2>1. d.node # 0 => d.node \in 1 .. l /\ \A id \in DOMAIN open : open[id].node # d.node
    BY <1>7, <1>11 DEF Placed
  <2>2. l + 1 \notin 1 .. l
    BY <1>4
  <2>3. d.node # 0 => \A n \in DOMAIN more : n \notin DOMAIN nodes => d.node \notin Path(more)[n]
    BY <1>8, <1>10, <2>1, <2>2
  <2>4. \A id \in DOMAIN open' : \/ open'[id].node \notin DOMAIN nodes
                                 \/ \E k \in DOMAIN open : open[k].node = open'[id].node
    BY <1>7, <2>2
  <2> QED
    BY <1>3, <1>5, <1>7, <1>11, <2>3, <2>4, PlacedKept
<1>12. lost \in SUBSET DOMAIN more
  BY <1>4, <1>7
<1> QED
  BY <1>3, <1>4, <1>5, <1>6, <1>11, <1>12

\* Nothing is delivered.
LEMMA HandingSame ==
    ASSUME Handing, delivered' = delivered, \A d : Placed(d) => Placed(d)'
    PROVE  Handing'
<1>1. ASSUME NEW i \in DOMAIN delivered' PROVE Placed(delivered[i])'
  <2>1. PICK d : d = delivered[i]
    OBVIOUS
  <2>2. Placed(d)
    BY <2>1 DEF Handing
  <2>3. Placed(d)'
    BY <2>2
  <2>4. d = delivered'[i]
    BY <2>1
  <2> QED
    BY <2>3, <2>4 DEF Placed
<1> QED
  BY <1>1 DEF Handing

-----------------------------------------------------------------------------
USE NoBatchAssumption, DurationAssumption, BoundsAssumption
USE DEF clockVars, loopVars, tableVars, serverVars

-----------------------------------------------------------------------------
(* Steps                                                                   *)

\* The first connection starts with empty tables.
LEMMA InitIInv == Init => IInv
<1> SUFFICES ASSUME Init PROVE IInv
  OBVIOUS
<1>1. DOMAIN Empty = {}
  BY DEF Empty
<1>2. Clocks /\ LabelTable /\ BatchTable /\ OpenLabels /\ YoungerThanLabel
  BY <1>1 DEF Init, Clocks, LabelTable, BatchTable, OpenLabels, YoungerThanLabel
<1>3. AnsweredNotWaiting /\ AnsweredOnce
  BY DEF Init, AnsweredNotWaiting, AnsweredOnce
<1> QED
  BY <1>2, <1>3 DEF IInv

\* Answers to waiting requests that wait no longer, each once, answer none twice.
LEMMA AnswersIInv ==
    ASSUME IInv, NEW n \in Nat, delivered' \in Seq(Range(delivered')),
           DOMAIN delivered' = 1 .. Len(delivered) + n,
           \A i \in DOMAIN delivered : delivered'[i] = delivered[i],
           \A i \in 1 .. n : delivered'[Len(delivered) + i].to = "label" =>
              /\ delivered'[Len(delivered) + i].gen = gen
              /\ delivered'[Len(delivered) + i].label \in
                    DOMAIN labelCallbacks \ DOMAIN labelCallbacks',
           \A i, j \in 1 .. n :
              /\ delivered'[Len(delivered) + i].to = "label"
              /\ delivered'[Len(delivered) + j].to = "label"
              /\ delivered'[Len(delivered) + i].label = delivered'[Len(delivered) + j].label
              => i = j,
           DOMAIN labelCallbacks' \subseteq DOMAIN labelCallbacks,
           UNCHANGED <<gen, labelCounter>>
    PROVE  AnsweredNotWaiting' /\ AnsweredOnce'
<1> DEFINE m == Len(delivered)
<1>1. m \in Nat /\ DOMAIN delivered = 1 .. m
  BY DEF IInv, AnsweredNotWaiting
<1>2. gen \in Nat /\ labelCounter \in Nat /\ DOMAIN labelCallbacks \subseteq 1 .. labelCounter
  BY DEF IInv, Clocks, LabelTable
<1>3. \A i \in DOMAIN delivered' : i \in 1 .. m \/ \E k \in 1 .. n : i = m + k
  <2> SUFFICES ASSUME NEW i \in 1 .. m + n, ~(i \in 1 .. m) PROVE \E k \in 1 .. n : i = m + k
    OBVIOUS
  <2>1. i - m \in 1 .. n /\ i = m + (i - m)
    BY <1>1
  <2> QED
    BY <2>1
<1> HIDE DEF m
<1>4. AnsweredNotWaiting'
  <2> SUFFICES ASSUME NEW i \in DOMAIN delivered', delivered'[i].to = "label"
               PROVE  /\ delivered'[i].gen \in 0 .. gen
                      /\ delivered'[i].gen = gen =>
                            delivered'[i].label \in 1 .. labelCounter \ DOMAIN labelCallbacks'
    BY DEF AnsweredNotWaiting
  <2>1. CASE i \in 1 .. m
    BY <1>1, <2>1 DEF IInv, AnsweredNotWaiting
  <2>2. ASSUME NEW k \in 1 .. n, i = m + k
        PROVE  delivered'[i].gen = gen /\ delivered'[i].label \in DOMAIN labelCallbacks \ DOMAIN labelCallbacks'
    BY <2>2 DEF m
  <2> QED
    BY <1>2, <1>3, <2>1, <2>2
<1>5. AnsweredOnce'
  <2> SUFFICES ASSUME NEW i \in DOMAIN delivered', NEW j \in DOMAIN delivered', i # j,
                      delivered'[i].to = "label", delivered'[j].to = "label",
                      delivered'[i].gen = delivered'[j].gen,
                      delivered'[i].label = delivered'[j].label
               PROVE  FALSE
    BY DEF AnsweredOnce
  <2>1. CASE i \in 1 .. m /\ j \in 1 .. m
    BY <1>1, <2>1 DEF IInv, AnsweredOnce
  <2>2. ASSUME NEW k \in 1 .. m, NEW l \in DOMAIN delivered' \ (1 .. m),
               delivered'[k].to = "label", delivered'[l].to = "label",
               delivered'[k].gen = delivered'[l].gen
        PROVE  delivered'[k].label # delivered'[l].label
    <3>1. delivered'[l].gen = gen /\ delivered'[l].label \in DOMAIN labelCallbacks
      BY <1>3, <2>2 DEF m
    <3> QED
      BY <1>1, <2>2, <3>1 DEF IInv, AnsweredNotWaiting
  <2>3. CASE i \in 1 .. m /\ j \notin 1 .. m
    BY <2>3, <2>2
  <2>4. CASE i \notin 1 .. m /\ j \in 1 .. m
    BY <2>4, <2>2
  <2>5. CASE i \notin 1 .. m /\ j \notin 1 .. m
    BY <1>1, <1>3, <2>5 DEF m
  <2> QED
    BY <2>1, <2>3, <2>4, <2>5
<1> QED
  BY <1>4, <1>5

\* The same for a step that gives the client one thing, or nothing.
LEMMA OneAnswerIInv ==
    ASSUME IInv, DOMAIN labelCallbacks' \subseteq DOMAIN labelCallbacks,
           UNCHANGED <<gen, labelCounter>>,
           \/ delivered' = delivered
           \/ \E x : /\ delivered' = Append(delivered, x)
                     /\ x.to = "label" =>
                           x.gen = gen /\ x.label \in DOMAIN labelCallbacks \ DOMAIN labelCallbacks'
    PROVE  AnsweredNotWaiting' /\ AnsweredOnce'
<1>1. CASE delivered' = delivered
  BY <1>1 DEF IInv, AnsweredNotWaiting, AnsweredOnce
<1>2. ASSUME NEW x, delivered' = Append(delivered, x),
             x.to = "label" =>
                 x.gen = gen /\ x.label \in DOMAIN labelCallbacks \ DOMAIN labelCallbacks'
      PROVE  AnsweredNotWaiting' /\ AnsweredOnce'
  <2>1. delivered \in Seq(Range(delivered))
    BY DEF IInv, AnsweredNotWaiting
  <2>2. /\ delivered' \in Seq(Range(delivered'))
        /\ DOMAIN delivered' = 1 .. Len(delivered) + 1
        /\ \A i \in DOMAIN delivered : delivered'[i] = delivered[i]
        /\ delivered'[Len(delivered) + 1] = x
    BY <1>2, <2>1, AppendFacts
  <2>3. \A i \in 1 .. 1 : i = 1
    OBVIOUS
  <2> QED
    BY <1>2, <2>2, <2>3, AnswersIInv
<1> QED
  BY <1>1, <1>2
\* BATCH +id: the new batch is younger than any request.
LEMMA BatchStartIInv ==
    ASSUME IInv, NEW id \in BatchIDs, NEW parent \in BatchIDs \cup {NoBatch},
           NEW label \in 0 .. MaxLabels, BatchStart(id, parent, label)
    PROVE  IInv'
<1> DEFINE b == [createdAt |-> now, batch |-> Len(nodes) + 1, label |-> label]
           o == [parent |-> parent, label |-> label, node |-> Len(nodes) + 1]
<1>1. id \notin DOMAIN open /\ id \notin DOMAIN batches
  BY DEF BatchStart, IInv, BatchTable
<1>2. batches' = With(batches, id, b) /\ open' = With(open, id, o)
  BY <1>1 DEF BatchStart, handleBatchStart
<1>3. UNCHANGED <<now, gen, labelCounter, lastExpireCheck, labelCallbacks, delivered>>
  BY DEF BatchStart, Receive, handleBatchStart
<1>4. label \in 0 .. labelCounter
  BY DEF BatchStart, IInv, Clocks
<1>5. b.createdAt = now /\ o.label = label
  OBVIOUS
<1> HIDE DEF b, o
<1>6. /\ DOMAIN batches' = DOMAIN batches \cup {id} /\ batches'[id] = b
      /\ \A k \in DOMAIN batches : batches'[k] = batches[k]
  BY <1>1, <1>2 DEF With
<1>7. /\ DOMAIN open' = DOMAIN open \cup {id} /\ open'[id] = o
      /\ \A k \in DOMAIN open : open'[k] = open[k]
  BY <1>1, <1>2 DEF With
<1>8. Clocks' /\ LabelTable' /\ AnsweredNotWaiting' /\ AnsweredOnce'
  BY <1>3 DEF IInv, Clocks, LabelTable, AnsweredNotWaiting, AnsweredOnce
<1>9. BatchTable'
  BY <1>3, <1>5, <1>6, <1>7 DEF IInv, Clocks, BatchTable
<1>10. OpenLabels'
  BY <1>3, <1>4, <1>5, <1>7 DEF IInv, OpenLabels
<1>11. YoungerThanLabel'
  BY <1>3, <1>5, <1>6, <1>7 DEF IInv, Clocks, LabelTable, YoungerThanLabel
<1> QED
  BY <1>8, <1>9, <1>10, <1>11 DEF IInv

\* BATCH -id: the batch is gone on both sides, and with it the label it answers.
LEMMA BatchEndIInv == ASSUME IInv, NEW id \in BatchIDs, BatchEnd(id) PROVE IInv'
<1>1. UNCHANGED <<now, gen, labelCounter, lastExpireCheck>> /\ open' = Without(open, {id})
  BY DEF BatchEnd, Receive
<1>2. CASE id \notin DOMAIN batches
  <2>1. UNCHANGED <<batches, labelCallbacks, delivered>>
    BY <1>2 DEF BatchEnd, handleBatchEnd
  <2>2. DOMAIN open' = DOMAIN open \ {id} /\ \A k \in DOMAIN open' : open'[k] = open[k]
    BY <1>1 DEF Without
  <2> QED
    BY <1>1, <1>2, <2>1, <2>2 DEF IInv, Clocks, LabelTable, BatchTable, OpenLabels,
       YoungerThanLabel, AnsweredNotWaiting, AnsweredOnce
<1>3. CASE id \in DOMAIN batches
  <2>1. batches' = Without(batches, {id})
    BY <1>3 DEF BatchEnd, handleBatchEnd
  <2>2. \/ UNCHANGED <<labelCallbacks, delivered>>
        \/ /\ UNCHANGED labelCallbacks
           /\ \E to \in {"batch callback", "handlers"} :
                 delivered' = Append(delivered, Give(to, 0, batches[id].batch))
        \/ /\ labelCallbacks' = Without(labelCallbacks, {batches[id].label})
           /\ batches[id].label \in DOMAIN labelCallbacks
           /\ delivered' = Append(delivered, Give("label", batches[id].label, batches[id].batch))
    BY <1>3 DEF BatchEnd, handleBatchEnd, HandleBatch
  <2>3. /\ DOMAIN labelCallbacks' \subseteq DOMAIN labelCallbacks
        /\ \A l \in DOMAIN labelCallbacks' : labelCallbacks'[l] = labelCallbacks[l]
    BY <2>2 DEF Without
  <2>4. AnsweredNotWaiting' /\ AnsweredOnce'
    <3>1. \/ delivered' = delivered
          \/ \E x : /\ delivered' = Append(delivered, x)
                    /\ x.to = "label" =>
                          x.gen = gen /\ x.label \in DOMAIN labelCallbacks \ DOMAIN labelCallbacks'
      <4>1. CASE delivered' = delivered
        BY <4>1
      <4>2. CASE \E to \in {"batch callback", "handlers"} :
                    delivered' = Append(delivered, Give(to, 0, batches[id].batch))
        <5>1. PICK to \in {"batch callback", "handlers"} :
                 delivered' = Append(delivered, Give(to, 0, batches[id].batch))
          BY <4>2
        <5>2. PICK x : x = Give(to, 0, batches[id].batch)
          OBVIOUS
        <5>3. x.to # "label"
          BY <5>2 DEF Give
        <5> QED
          BY <5>1, <5>2, <5>3
      <4>3. CASE /\ labelCallbacks' = Without(labelCallbacks, {batches[id].label})
                 /\ batches[id].label \in DOMAIN labelCallbacks
                 /\ delivered' = Append(delivered, Give("label", batches[id].label, batches[id].batch))
        <5>1. batches[id].label \in DOMAIN labelCallbacks \ DOMAIN labelCallbacks'
          BY <4>3 DEF Without
        <5>2. PICK x : x = Give("label", batches[id].label, batches[id].batch)
          OBVIOUS
        <5>3. x.gen = gen /\ x.label = batches[id].label
          BY <5>2 DEF Give
        <5> QED
          BY <4>3, <5>1, <5>2, <5>3
      <4> QED
        BY <2>2, <4>1, <4>2, <4>3
    <3> QED
      BY <1>1, <2>3, <3>1, OneAnswerIInv
  <2>5. DOMAIN open' = DOMAIN open \ {id} /\ \A k \in DOMAIN open' : open'[k] = open[k]
    BY <1>1 DEF Without
  <2>6. DOMAIN batches' = DOMAIN batches \ {id} /\ \A k \in DOMAIN batches' : batches'[k] = batches[k]
    BY <2>1 DEF Without
  <2>7. Clocks' /\ LabelTable' /\ OpenLabels'
    BY <1>1, <2>3, <2>5 DEF IInv, Clocks, LabelTable, OpenLabels
  <2>8. BatchTable'
    BY <1>1, <2>5, <2>6 DEF IInv, BatchTable
  <2>9. YoungerThanLabel'
    <3> SUFFICES ASSUME NEW k \in DOMAIN open', open'[k].label \in DOMAIN labelCallbacks'
                 PROVE  /\ k \in DOMAIN batches'
                        /\ labelCallbacks'[open'[k].label] <= batches'[k].createdAt
      BY DEF YoungerThanLabel
    <3>1. k \in DOMAIN open /\ k # id /\ open'[k] = open[k]
      BY <2>5
    <3>2. k \in DOMAIN batches /\ labelCallbacks[open[k].label] <= batches[k].createdAt
      BY <2>3, <3>1 DEF IInv, YoungerThanLabel
    <3> QED
      BY <2>3, <2>6, <3>1, <3>2
  <2> QED
    BY <2>4, <2>7, <2>8, <2>9 DEF IInv
<1> QED
  BY <1>2, <1>3
\* expireBatches: who is still waiting when a batch expires has been given nil, once.
LEMMA ExpireIInv ==
    ASSUME IInv, NEW force \in BOOLEAN, expireBatches(force),
           lastExpireCheck' \in {lastExpireCheck, now}, UNCHANGED <<now, gen, labelCounter, open>>
    PROVE  IInv'
<1> DEFINE expired == {l \in DOMAIN labelCallbacks : force \/ now - labelCallbacks[l] > KeepAlive}
           dropped == {id \in DOMAIN batches : now - batches[id].createdAt > KeepAlive}
           calls == SetToSeq(expired)
           n == Cardinality(expired)
           nils == [i \in DOMAIN calls |-> Give("label", calls[i], 0)]
<1>1. /\ labelCallbacks' = Without(labelCallbacks, expired)
      /\ batches' = Without(batches, dropped)
      /\ delivered' = delivered \o nils
  BY DEF expireBatches
<1>2. IsFiniteSet(expired)
  <2>1. labelCounter \in Nat /\ expired \subseteq 1 .. labelCounter
    BY DEF IInv, Clocks, LabelTable
  <2> HIDE DEF expired
  <2>2. IsFiniteSet(1 .. labelCounter)
    BY <2>1, FS_Interval
  <2> QED
    BY <2>1, <2>2, FS_Subset
<1>3. n \in Nat /\ calls \in [1 .. n -> expired] /\ IsInjective(calls)
  <2> HIDE DEF expired
  <2> QED
    BY <1>2, SetToSeqFacts
<1>4. /\ DOMAIN labelCallbacks' = DOMAIN labelCallbacks \ expired
      /\ \A l \in DOMAIN labelCallbacks' : labelCallbacks'[l] = labelCallbacks[l]
  BY <1>1 DEF Without
<1>5. /\ DOMAIN batches' = DOMAIN batches \ dropped
      /\ \A id \in DOMAIN batches' : batches'[id] = batches[id]
  BY <1>1 DEF Without
<1>6. Clocks' /\ LabelTable' /\ OpenLabels'
  BY <1>4 DEF IInv, Clocks, LabelTable, OpenLabels
<1>7. BatchTable'
  BY <1>5 DEF IInv, Clocks, BatchTable
<1>8. YoungerThanLabel'
  <2> SUFFICES ASSUME NEW id \in DOMAIN open, open[id].label \in DOMAIN labelCallbacks'
               PROVE  /\ id \in DOMAIN batches'
                      /\ labelCallbacks'[open[id].label] <= batches'[id].createdAt
    BY DEF YoungerThanLabel
  <2> DEFINE t == labelCallbacks[open[id].label]
  <2>1. id \in DOMAIN batches /\ t <= batches[id].createdAt /\ t \in Nat /\ now - t <= KeepAlive
    BY <1>4 DEF IInv, Clocks, LabelTable, YoungerThanLabel
  <2>2. now \in Nat /\ batches[id].createdAt \in Nat
    BY <2>1 DEF IInv, Clocks, BatchTable
  <2>3. id \notin dropped
    BY <2>1, <2>2
  <2> QED
    BY <1>4, <1>5, <2>1, <2>3
<1>9. AnsweredNotWaiting' /\ AnsweredOnce'
  <2>1. \A i \in 1 .. n : calls[i] \in DOMAIN labelCallbacks \ DOMAIN labelCallbacks'
    BY <1>3, <1>4
  <2>2. \A i, j \in 1 .. n : calls[i] = calls[j] => i = j
    <3> HIDE DEF calls, n
    <3> QED
      BY <1>3 DEF IsInjective
  <2>3. DOMAIN nils = 1 .. n
    BY <1>3
  <2>4. \A i \in 1 .. n : nils[i].to = "label" /\ nils[i].gen = gen /\ nils[i].label = calls[i]
    BY <2>3 DEF Give
  <2>5. delivered \in Seq(Range(delivered))
    BY DEF IInv, AnsweredNotWaiting
  <2> HIDE DEF nils, calls, n, expired, dropped
  <2>6. nils \in Seq(Range(nils))
    <3>1. nils \in [1 .. n -> Range(nils)]
      BY <2>3 DEF Range, nils
    <3>2. \A T : nils \in [1 .. n -> T] => nils \in Seq(T)
      BY <1>3
    <3> QED
      BY <3>1, <3>2
  <2>7. /\ delivered' \in Seq(Range(delivered'))
        /\ DOMAIN delivered' = 1 .. Len(delivered) + n
        /\ \A i \in DOMAIN delivered : delivered'[i] = delivered[i]
        /\ \A i \in 1 .. n : delivered'[Len(delivered) + i] = nils[i]
    BY <1>1, <1>3, <2>3, <2>5, <2>6, ConcatFacts
  <2>8. PICK m \in Nat : m = n
    BY <1>3
  <2>9. \A i \in 1 .. m : /\ delivered'[Len(delivered) + i].gen = gen
                          /\ delivered'[Len(delivered) + i].label \in
                                DOMAIN labelCallbacks \ DOMAIN labelCallbacks'
    <3> TAKE i \in 1 .. m
    <3>1. delivered'[Len(delivered) + i] = nils[i]
      BY <2>7, <2>8
    <3> QED
      BY <2>1, <2>4, <2>8, <3>1
  <2>10. \A i, j \in 1 .. m :
            delivered'[Len(delivered) + i].label = delivered'[Len(delivered) + j].label => i = j
    <3> TAKE i, j \in 1 .. m
    <3>1. delivered'[Len(delivered) + i] = nils[i] /\ delivered'[Len(delivered) + j] = nils[j]
      BY <2>7, <2>8
    <3> QED
      BY <2>2, <2>4, <2>8, <3>1
  <2>11. DOMAIN labelCallbacks' \subseteq DOMAIN labelCallbacks
    BY <1>4
  <2> QED
    BY <2>7, <2>8, <2>9, <2>10, <2>11, AnswersIInv
<1> QED
  BY <1>6, <1>7, <1>8, <1>9 DEF IInv

\* Lines that are not about a batch as a whole.
LEMMA LineIInv ==
    ASSUME IInv,
           \/ \E id \in BatchIDs : BatchedLine(id)
           \/ \E label \in 1 .. MaxLabels : LabeledLine(label)
           \/ OtherLine
    PROVE  IInv'
<1>1. UNCHANGED <<now, gen, labelCounter, lastExpireCheck, batches, open>>
  BY DEF BatchedLine, LabeledLine, OtherLine, Receive, handleBatchedCommand, handleLabeled
<1>2. CASE UNCHANGED <<labelCallbacks, delivered>>
  BY <1>1, <1>2 DEF IInv, Clocks, LabelTable, BatchTable, OpenLabels, YoungerThanLabel,
                    AnsweredNotWaiting, AnsweredOnce
<1>3. ASSUME NEW label \in 1 .. MaxLabels, label \in DOMAIN labelCallbacks, handleLabeled(label)
      PROVE  IInv'
  <2>1. /\ labelCallbacks' = Without(labelCallbacks, {label})
        /\ delivered' = Append(delivered, Give("label", label, Len(nodes) + 1))
    BY <1>3 DEF handleLabeled
  <2>2. /\ DOMAIN labelCallbacks' = DOMAIN labelCallbacks \ {label}
        /\ \A l \in DOMAIN labelCallbacks' : labelCallbacks'[l] = labelCallbacks[l]
    BY <2>1 DEF Without
  <2>3. PICK x : x = Give("label", label, Len(nodes) + 1)
    OBVIOUS
  <2>4. x.gen = gen /\ x.label = label
    BY <2>3 DEF Give
  <2>5. AnsweredNotWaiting' /\ AnsweredOnce'
    BY <1>1, <1>3, <2>1, <2>2, <2>3, <2>4, OneAnswerIInv
  <2>6. Clocks' /\ LabelTable' /\ BatchTable' /\ OpenLabels'
    BY <1>1, <2>2 DEF IInv, Clocks, LabelTable, BatchTable, OpenLabels
  <2>7. YoungerThanLabel'
    BY <1>1, <2>2 DEF IInv, YoungerThanLabel
  <2> QED
    BY <2>5, <2>6, <2>7 DEF IInv
<1> QED
  BY <1>2, <1>3 DEF BatchedLine, LabeledLine, OtherLine, handleBatchedCommand, handleLabeled
\* registerLabel: a new label is no open batch's and has not been answered.
LEMMA RegisterIInv == ASSUME IInv, RegisterLabel PROVE IInv'
<1>1. /\ UNCHANGED <<now, gen, lastExpireCheck, batches, open, delivered>>
      /\ labelCounter' = labelCounter + 1
  BY DEF RegisterLabel
<1>2. {now, gen, labelCounter, lastExpireCheck} \subseteq Nat
  BY DEF IInv, Clocks
<1>3. /\ DOMAIN labelCallbacks' = DOMAIN labelCallbacks \cup {labelCounter + 1}
      /\ labelCallbacks'[labelCounter + 1] = now
      /\ \A l \in DOMAIN labelCallbacks : l # labelCounter + 1 => labelCallbacks'[l] = labelCallbacks[l]
  BY DEF RegisterLabel, With
<1>4. Clocks' /\ LabelTable' /\ BatchTable' /\ OpenLabels'
  BY <1>1, <1>2, <1>3 DEF IInv, Clocks, LabelTable, BatchTable, OpenLabels
<1>5. YoungerThanLabel'
  BY <1>1, <1>2, <1>3 DEF IInv, OpenLabels, YoungerThanLabel
<1>6. AnsweredNotWaiting'
  BY <1>1, <1>2, <1>3 DEF IInv, AnsweredNotWaiting
<1>7. AnsweredOnce'
  BY <1>1 DEF IInv, AnsweredOnce
<1> QED
  BY <1>4, <1>5, <1>6, <1>7 DEF IInv

\* Connect starts with empty tables and a new number.
LEMMA ReconnectIInv == ASSUME IInv, Reconnect PROVE IInv'
<1>1. /\ UNCHANGED <<now, delivered>> /\ gen' = gen + 1 /\ labelCounter' = 0 /\ lastExpireCheck' = now
      /\ batches' = Empty /\ labelCallbacks' = Empty /\ open' = Empty
  BY DEF Reconnect
<1>2. {now, gen} \subseteq Nat
  BY DEF IInv, Clocks
<1>3. DOMAIN Empty = {}
  BY DEF Empty
<1>4. Clocks' /\ LabelTable' /\ BatchTable' /\ OpenLabels' /\ YoungerThanLabel'
  BY <1>1, <1>2, <1>3 DEF Clocks, LabelTable, BatchTable, OpenLabels, YoungerThanLabel
<1>5. AnsweredNotWaiting'
  BY <1>1, <1>2 DEF IInv, AnsweredNotWaiting
<1>6. AnsweredOnce'
  BY <1>1 DEF IInv, AnsweredOnce
<1> QED
  BY <1>4, <1>5, <1>6 DEF IInv

\* Every step preserves the invariant.
LEMMA NextIInv == IInv /\ [Next]_vars => IInv'
<1> SUFFICES ASSUME IInv, [Next]_vars PROVE IInv'
  OBVIOUS
<1>1. ASSUME NEW id \in BatchIDs, NEW parent \in BatchIDs \cup {NoBatch},
             NEW label \in 0 .. MaxLabels, BatchStart(id, parent, label)
      PROVE  IInv'
  BY <1>1, BatchStartIInv
<1>2. ASSUME NEW id \in BatchIDs, BatchEnd(id) PROVE IInv'
  BY <1>2, BatchEndIInv
<1>3. CASE \/ \E id \in BatchIDs : BatchedLine(id)
           \/ \E label \in 1 .. MaxLabels : LabeledLine(label)
           \/ OtherLine
  BY <1>3, LineIInv
<1>4. CASE RegisterLabel
  BY <1>4, RegisterIInv
<1>5. CASE Tick
  BY <1>5 DEF Tick, IInv, Clocks, LabelTable, BatchTable, OpenLabels, YoungerThanLabel,
              AnsweredNotWaiting, AnsweredOnce
<1>6. CASE ExpireCheck
  <2>1. CASE now - lastExpireCheck > Timeout
    BY <1>6, <2>1, ExpireIInv DEF ExpireCheck
  <2>2. CASE ~(now - lastExpireCheck > Timeout)
    BY <1>6, <2>2 DEF ExpireCheck, IInv, Clocks, LabelTable, BatchTable, OpenLabels,
                      YoungerThanLabel, AnsweredNotWaiting, AnsweredOnce
  <2> QED
    BY <2>1, <2>2
<1>7. CASE Stop
  BY <1>7, ExpireIInv DEF Stop
<1>8. CASE Reconnect
  BY <1>8, ReconnectIInv
<1>9. CASE UNCHANGED vars
  BY <1>9 DEF vars, IInv, Clocks, LabelTable, BatchTable, OpenLabels, YoungerThanLabel,
              AnsweredNotWaiting, AnsweredOnce
<1> QED
  BY <1>1, <1>2, <1>3, <1>4, <1>5, <1>6, <1>7, <1>8, <1>9 DEF Next

-----------------------------------------------------------------------------
(* The tree, action by action                                              *)

\* One more thing is delivered.
LEMMA HandingMore ==
    ASSUME Handing, delivered \in Seq(Range(delivered)), \A d : Placed(d) => Placed(d)',
           NEW x, delivered' = Append(delivered, x), Placed(x)',
           x.node # 0 => \A i \in DOMAIN delivered : delivered[i].node # x.node
    PROVE  Handing'
<1>1. PICK l \in Nat : l = Len(delivered)
  BY AppendFacts
<1>2. /\ DOMAIN delivered = 1 .. l /\ DOMAIN delivered' = 1 .. l + 1 /\ delivered'[l + 1] = x
      /\ \A i \in 1 .. l : delivered'[i] = delivered[i]
  BY <1>1, AppendFacts
<1>3. ASSUME NEW i \in DOMAIN delivered' PROVE Placed(delivered[i])'
  <2>1. PICK d : d = delivered'[i]
    OBVIOUS
  <2>2. Placed(d)'
    <3>1. CASE i \in 1 .. l
      BY <1>2, <2>1, <3>1 DEF Handing
    <3>2. CASE i \notin 1 .. l
      <4>1. i = l + 1
        BY <1>2, <3>2
      <4> QED
        BY <1>2, <2>1, <4>1
    <3> QED
      BY <3>1, <3>2
  <2> QED
    BY <2>1, <2>2 DEF Placed
<1>4. ASSUME NEW i \in DOMAIN delivered', NEW j \in DOMAIN delivered', i # j,
             delivered'[i].node = delivered'[j].node, delivered'[i].node # 0
      PROVE  FALSE
  <2>1. (i \in 1 .. l \/ i = l + 1) /\ (j \in 1 .. l \/ j = l + 1)
    BY <1>2
  <2> QED
    BY <1>2, <1>4, <2>1 DEF Handing
<1> QED
  BY <1>3, <1>4 DEF Handing

\* Only nil is delivered.
LEMMA HandingNils ==
    ASSUME Handing, \A d : Placed(d) => Placed(d)', NEW l \in Nat, NEW n \in Nat,
           DOMAIN delivered = 1 .. l, DOMAIN delivered' = 1 .. l + n,
           \A i \in 1 .. l : delivered'[i] = delivered[i],
           \A i \in 1 .. n : delivered'[l + i].node = 0 /\ delivered'[l + i].lines = <<>>
    PROVE  Handing'
<1>1. \A i \in 1 .. l + n : i \in 1 .. l \/ (delivered'[i].node = 0 /\ delivered'[i].lines = <<>>)
  <2> SUFFICES ASSUME NEW i \in 1 .. l + n, i \notin 1 .. l
               PROVE  delivered'[i].node = 0 /\ delivered'[i].lines = <<>>
    OBVIOUS
  <2>1. i - l \in 1 .. n /\ i = l + (i - l)
    OBVIOUS
  <2> QED
    BY <2>1
<1>2. ASSUME NEW i \in DOMAIN delivered' PROVE Placed(delivered[i])'
  <2>1. PICK d : d = delivered'[i]
    OBVIOUS
  <2>2. Placed(d)'
    <3>1. CASE i \in 1 .. l
      BY <2>1, <3>1 DEF Handing
    <3>2. CASE i \notin 1 .. l
      <4>1. d.node = 0 /\ d.lines = <<>>
        BY <1>1, <2>1, <3>2
      <4> QED
        BY <4>1 DEF Placed
    <3> QED
      BY <3>1, <3>2
  <2> QED
    BY <2>1, <2>2 DEF Placed
<1>3. ASSUME NEW i \in DOMAIN delivered', NEW j \in DOMAIN delivered', i # j,
             delivered'[i].node = delivered'[j].node, delivered'[i].node # 0
      PROVE  FALSE
  BY <1>1, <1>3 DEF Handing
<1> QED
  BY <1>2, <1>3 DEF Handing

\* BATCH +id: the new batch goes into its parent, unless that is lost.
LEMMA BatchStartForest ==
    ASSUME IInv, Forest, NEW id \in BatchIDs, NEW parent \in BatchIDs \cup {NoBatch},
           NEW label \in 0 .. MaxLabels, BatchStart(id, parent, label)
    PROVE  Forest'
<1>1. PICK lost \in SUBSET DOMAIN nodes : Whole(nodes, lost) /\ Known(lost)
  BY DEF Forest
<1>2. PICK l \in Nat : l = Len(nodes) /\ DOMAIN nodes = 1 .. l
  BY TreeFacts DEF Forest
<1>3. PICK home : home = IF parent = NoBatch THEN 0 ELSE open[parent].node
  OBVIOUS
<1>4. PICK new : new = Node(TRUE, home)
  OBVIOUS
<1>5. id \notin DOMAIN open /\ id \notin DOMAIN batches /\ parent # id /\ parent \in DOMAIN open \cup {NoBatch}
  BY DEF BatchStart, IInv, BatchTable
<1>6. NoBatch \notin DOMAIN open /\ DOMAIN batches \subseteq DOMAIN open
  BY DEF Forest, OpenTree, IInv, BatchTable
<1>7. home = 0 \/ \E k \in DOMAIN open : home = open[k].node
  BY <1>3, <1>5
<1>8. home = 0 \/ home \in 1 .. l
  BY <1>2, <1>7 DEF Forest, OpenTree
<1>9. new \in NodeSet /\ new.items = <<>> /\ new.home = home /\ new.isBatch = TRUE
  BY <1>4, <1>8 DEF Node, NodeSet, IInv, Clocks
<1>10. PICK into : into = IF parent \in DOMAIN batches THEN home ELSE 0
  OBVIOUS
<1>11. into = 0 => home \in lost \cup {0}
  BY <1>3, <1>5, <1>8, <1>10, <1>6, <1>1 DEF Known
<1> DEFINE b == [createdAt |-> now, batch |-> l + 1, label |-> label]
           o == [parent |-> parent, label |-> label, node |-> l + 1]
<1>12. batches' = With(batches, id, b) /\ open' = With(open, id, o) /\ delivered' = delivered
  BY <1>2, <1>5 DEF BatchStart, handleBatchStart
<1>13. b.createdAt = now /\ b.batch = l + 1 /\ o.parent = parent /\ o.node = l + 1
  OBVIOUS
<1>14. nodes' = Grown(nodes, new, into)
  <2>1. PICK table : table = With(batches, id, b)
    OBVIOUS
  <2>2. nodes' = IF parent \in DOMAIN table
                 THEN [Append(nodes, new) EXCEPT ![table[parent].batch].items = Append(@, l + 1)]
                 ELSE Append(nodes, new)
    BY <1>2, <1>3, <1>4, <1>5, <2>1 DEF BatchStart, handleBatchStart
  <2>3. parent \in DOMAIN table <=> parent \in DOMAIN batches
    BY <1>5, <2>1 DEF With
  <2>4. CASE parent \in DOMAIN batches
    <3>1. table[parent].batch = home
      BY <1>1, <1>3, <1>5, <1>6, <2>1, <2>4 DEF With, Known
    <3>2. home # 0
      BY <1>2, <1>3, <1>6, <2>4 DEF Forest, OpenTree
    <3> QED
      BY <1>2, <1>10, <2>2, <2>3, <2>4, <3>1, <3>2 DEF Grown
  <2>5. CASE parent \notin DOMAIN batches
    BY <1>10, <2>2, <2>3, <2>5 DEF Grown
  <2> QED
    BY <2>4, <2>5
<1> HIDE DEF b, o
<1>15. /\ DOMAIN batches' = DOMAIN batches \cup {id} /\ batches'[id] = b
       /\ \A k \in DOMAIN batches : batches'[k] = batches[k]
  BY <1>5, <1>12 DEF With
<1>16. /\ DOMAIN open' = DOMAIN open \cup {id} /\ open'[id] = o
       /\ \A k \in DOMAIN open : open'[k] = open[k]
  BY <1>5, <1>12 DEF With
<1>17. /\ Tree(nodes') /\ Whole(nodes', lost) /\ lost \in SUBSET DOMAIN nodes'
       /\ Extended(nodes, nodes', new, into, l)
       /\ \A d : Placed(d) => Placed(d)'
  <2>1. \A k \in DOMAIN open' : \/ open'[k].node = l + 1
                                \/ \E m \in DOMAIN open : open[m].node = open'[k].node
    BY <1>13, <1>16
  <2>2. new.home = 0 \/ \E k \in DOMAIN open : new.home = open[k].node
    BY <1>7, <1>9
  <2>3. into \in {0, new.home} /\ (into = 0 => new.home \in lost \cup {0})
    BY <1>9, <1>10, <1>11
  <2> QED
    BY <1>1, <1>2, <1>9, <1>14, <2>1, <2>2, <2>3, GrownForest DEF Forest
<1>18. /\ DOMAIN nodes' = 1 .. l + 1 /\ nodes'[l + 1] = new
       /\ \A n \in 1 .. l : nodes'[n].home = nodes[n].home /\ nodes'[n].isBatch = nodes[n].isBatch
  BY <1>17 DEF Extended, Grows
<1>19. OpenTree'
  <2>1. DOMAIN open' \subseteq BatchIDs
    BY <1>16 DEF Forest, OpenTree
  <2>2. ASSUME NEW k \in DOMAIN open'
        PROVE  /\ open'[k].node \in DOMAIN nodes' /\ nodes'[open'[k].node].isBatch
               /\ IF open'[k].parent = NoBatch THEN nodes'[open'[k].node].home = 0
                  ELSE /\ open'[k].parent \in DOMAIN open'
                       /\ nodes'[open'[k].node].home = open'[open'[k].parent].node
    <3>1. CASE k = id
      BY <1>3, <1>5, <1>9, <1>13, <1>16, <1>18, <3>1
    <3>2. CASE k # id
      <4>1. k \in DOMAIN open /\ open'[k] = open[k] /\ open[k].node \in 1 .. l
        BY <1>2, <1>16, <3>2 DEF Forest, OpenTree
      <4> QED
        BY <1>2, <1>16, <1>18, <4>1 DEF Forest, OpenTree
    <3> QED
      BY <3>1, <3>2
  <2>3. ASSUME NEW i \in DOMAIN open', NEW j \in DOMAIN open', open'[i].node = open'[j].node
        PROVE  i = j
    <3>1. \A k \in DOMAIN open : open[k].node # l + 1
      BY <1>2 DEF Forest, OpenTree
    <3> QED
      BY <1>13, <1>16, <2>3, <3>1 DEF Forest, OpenTree
  <2> QED
    BY <2>1, <2>2, <2>3 DEF OpenTree
<1>20. Known(lost)'
  <2>1. \A k \in DOMAIN batches' : batches'[k].batch = open'[k].node
    BY <1>1, <1>6, <1>13, <1>15, <1>16 DEF Known
  <2>2. \A k \in DOMAIN open' : k \in DOMAIN batches' <=> open'[k].node \notin lost
    <3>1. l + 1 \notin lost
      BY <1>2
    <3> QED
      BY <1>1, <1>5, <1>13, <1>15, <1>16, <3>1 DEF Known
  <2>3. ASSUME NEW k \in DOMAIN batches', open'[k].parent \in DOMAIN batches'
        PROVE  batches'[open'[k].parent].createdAt <= batches'[k].createdAt
    <3>1. CASE k = id
      BY <1>5, <1>13, <1>15, <1>16, <2>3, <3>1 DEF IInv, Clocks, BatchTable
    <3>2. CASE k # id
      <4>1. k \in DOMAIN batches /\ k \in DOMAIN open /\ open'[k] = open[k] /\ batches'[k] = batches[k]
        BY <1>6, <1>15, <1>16, <3>2
      <4>2. open[k].parent # id
        BY <1>5, <4>1 DEF Forest, OpenTree
      <4> QED
        BY <1>1, <1>15, <2>3, <4>1, <4>2 DEF Known
    <3> QED
      BY <3>1, <3>2
  <2> QED
    BY <2>1, <2>2, <2>3 DEF Known
<1>21. Handing'
  BY <1>12, <1>17, HandingSame DEF Forest
<1> QED
  BY <1>17, <1>19, <1>20, <1>21 DEF Forest

\* The open batches are where they were when a line comes.
LEMMA LineOpenTree ==
    ASSUME Forest, NEW lost, Known(lost), NEW new, NEW into, NEW l, Extended(nodes, nodes', new, into, l),
           UNCHANGED <<open, batches>>
    PROVE  OpenTree' /\ Known(lost)'
<1>1. /\ DOMAIN nodes = 1 .. l
      /\ \A n \in DOMAIN nodes : /\ n \in DOMAIN nodes' /\ nodes'[n].home = nodes[n].home
                                 /\ nodes'[n].isBatch = nodes[n].isBatch
  BY DEF Extended, Grows
<1>2. OpenTree'
  BY <1>1 DEF Forest, OpenTree
<1>3. Known(lost)'
  BY DEF Known
<1> QED
  BY <1>2, <1>3

\* A line of a batch goes into it, unless it is lost.
LEMMA BatchedLineForest == ASSUME IInv, Forest, NEW id \in BatchIDs, BatchedLine(id) PROVE Forest'
<1>1. PICK lost \in SUBSET DOMAIN nodes : Whole(nodes, lost) /\ Known(lost)
  BY DEF Forest
<1>2. PICK l \in Nat : l = Len(nodes) /\ DOMAIN nodes = 1 .. l
  BY TreeFacts DEF Forest
<1>3. PICK home : home = open[id].node
  OBVIOUS
<1>4. PICK new : new = Node(FALSE, home)
  OBVIOUS
<1>5. id \in DOMAIN open /\ UNCHANGED <<open, batches, delivered>>
  BY DEF BatchedLine, handleBatchedCommand
<1>6. home \in 1 .. l
  BY <1>2, <1>3, <1>5 DEF Forest, OpenTree
<1>7. new \in NodeSet /\ new.items = <<>> /\ new.home = home
  BY <1>4, <1>6 DEF Node, NodeSet, IInv, Clocks
<1>8. PICK into : into = IF id \in DOMAIN batches THEN home ELSE 0
  OBVIOUS
<1>9. into \in {0, new.home} /\ (into = 0 => new.home \in lost \cup {0})
  BY <1>1, <1>3, <1>5, <1>6, <1>7, <1>8 DEF Known
<1>10. nodes' = Grown(nodes, new, into)
  <2>1. PICK grown : grown = Append(nodes, new)
    OBVIOUS
  <2>2. Len(grown) = l + 1
    <3>1. nodes \in Seq(NodeSet)
      BY DEF Forest, Tree
    <3> QED
      BY <1>2, <1>7, <2>1, <3>1
  <2>3. nodes' = IF id \in DOMAIN batches
                 THEN [grown EXCEPT ![batches[id].batch].items = Append(@, Len(grown))] ELSE grown
    BY <1>3, <1>4, <2>1 DEF BatchedLine, handleBatchedCommand
  <2>4. id \in DOMAIN batches => batches[id].batch = home
    BY <1>1, <1>3 DEF Known
  <2>5. home # 0
    BY <1>6
  <2> QED
    BY <1>2, <1>8, <2>1, <2>2, <2>3, <2>4, <2>5 DEF Grown
<1>11. /\ Tree(nodes') /\ Whole(nodes', lost) /\ lost \in SUBSET DOMAIN nodes'
       /\ Extended(nodes, nodes', new, into, l)
       /\ \A d : Placed(d) => Placed(d)'
  <2>1. \A k \in DOMAIN open' : \E m \in DOMAIN open : open[m].node = open'[k].node
    BY <1>5
  <2>2. \E k \in DOMAIN open : new.home = open[k].node
    BY <1>3, <1>5, <1>7
  <2> QED
    BY <1>1, <1>2, <1>7, <1>9, <1>10, <2>1, <2>2, GrownForest DEF Forest
<1>12. OpenTree' /\ Known(lost)'
  BY <1>1, <1>5, <1>11, LineOpenTree
<1>13. Handing'
  BY <1>5, <1>11, HandingSame DEF Forest
<1> QED
  BY <1>11, <1>12, <1>13 DEF Forest

\* A labeled line is a node of its own, handed on at once or never.
LEMMA LabeledLineForest ==
    ASSUME IInv, Forest, NEW label \in 1 .. MaxLabels, LabeledLine(label) PROVE Forest'
<1>1. PICK lost \in SUBSET DOMAIN nodes : Whole(nodes, lost) /\ Known(lost)
  BY DEF Forest
<1>2. PICK l \in Nat : l = Len(nodes) /\ DOMAIN nodes = 1 .. l
  BY TreeFacts DEF Forest
<1>3. PICK new : new = Node(FALSE, 0)
  OBVIOUS
<1>4. new \in NodeSet /\ new.items = <<>> /\ new.home = 0
  BY <1>3 DEF Node, NodeSet, IInv, Clocks
<1>5. nodes' = Grown(nodes, new, 0) /\ UNCHANGED <<open, batches>>
  BY <1>3 DEF LabeledLine, handleLabeled, Grown
<1>6. /\ Tree(nodes') /\ Whole(nodes', lost) /\ lost \in SUBSET DOMAIN nodes'
      /\ Extended(nodes, nodes', new, 0, l)
      /\ \A d : Placed(d) => Placed(d)'
  <2>1. \A k \in DOMAIN open' : \E m \in DOMAIN open : open[m].node = open'[k].node
    BY <1>5
  <2> QED
    BY <1>1, <1>2, <1>4, <1>5, <2>1, GrownForest DEF Forest
<1>7. OpenTree' /\ Known(lost)'
  BY <1>1, <1>5, <1>6, LineOpenTree
<1>8. Handing'
  <2>1. CASE delivered' = delivered
    BY <1>6, <2>1, HandingSame DEF Forest
  <2>2. CASE delivered' = Append(delivered, Give("label", label, l + 1))
    <3>1. PICK x : x = Give("label", label, l + 1)
      OBVIOUS
    <3>2. x.node = l + 1 /\ x.lines = Flatten(nodes', l + 1)
      BY <3>1 DEF Give
    <3>3. l + 1 \in DOMAIN nodes' /\ nodes'[l + 1] = new /\ l + 1 \notin lost
      BY <1>2, <1>6 DEF Extended
    <3>4. Handed(nodes', l + 1, Flatten(nodes', l + 1))
      BY <1>6, <3>3, FlattenComplete
    <3>5. \A id \in DOMAIN open' : open'[id].node # l + 1
      BY <1>2, <1>5 DEF Forest, OpenTree
    <3>6. Placed(x)'
      BY <1>4, <3>2, <3>3, <3>4, <3>5 DEF Placed
    <3>7. \A i \in DOMAIN delivered : delivered[i].node # l + 1
      BY <1>2 DEF Forest, Handing, Placed
    <3>8. delivered \in Seq(Range(delivered))
      BY DEF IInv, AnsweredNotWaiting
    <3> QED
      BY <1>6, <2>2, <3>1, <3>2, <3>6, <3>7, <3>8, HandingMore DEF Forest
  <2> QED
    BY <1>2, <2>1, <2>2 DEF LabeledLine, handleLabeled
<1> QED
  BY <1>6, <1>7, <1>8 DEF Forest

\* BATCH -id: an outermost batch the client knows is complete.
LEMMA BatchEndForest == ASSUME IInv, Forest, NEW id \in BatchIDs, BatchEnd(id) PROVE Forest'
<1>1. PICK lost \in SUBSET DOMAIN nodes : Whole(nodes, lost) /\ Known(lost)
  BY DEF Forest
<1>2. id \in DOMAIN open /\ (\A c \in DOMAIN open : open[c].parent # id) /\ nodes' = nodes
  BY DEF BatchEnd, handleBatchEnd
<1>3. DOMAIN open' = DOMAIN open \ {id} /\ \A k \in DOMAIN open' : open'[k] = open[k]
  BY DEF BatchEnd, Without
<1>4. DOMAIN batches' = DOMAIN batches \ {id} /\ \A k \in DOMAIN batches' : batches'[k] = batches[k]
  BY DEF BatchEnd, handleBatchEnd, Without
<1>5. OpenTree'
  BY <1>2, <1>3 DEF Forest, OpenTree
<1>6. Known(lost)'
  <2>1. DOMAIN batches' \subseteq DOMAIN open'
    BY <1>3, <1>4 DEF IInv, BatchTable
  <2> QED
    BY <1>1, <1>3, <1>4, <2>1 DEF Known
<1>7. \A d : Placed(d) => Placed(d)'
  <2>1. \A k \in DOMAIN open' : \E m \in DOMAIN open : open[m].node = open'[k].node
    BY <1>3
  <2> QED
    BY <1>2, <2>1, PlacedSame DEF Forest
<1>8. Handing'
  <2>1. CASE delivered' = delivered
    BY <1>7, <2>1, HandingSame DEF Forest
  <2>2. ASSUME NEW to, NEW label, id \in DOMAIN batches, open[id].parent = NoBatch,
               delivered' = Append(delivered, Give(to, label, batches[id].batch))
        PROVE  Handing'
    <3>1. PICK n : n = open[id].node
      OBVIOUS
    <3>2. PICK x : x = Give(to, label, n)
      OBVIOUS
    <3>3. batches[id].batch = n /\ n \notin lost
      BY <1>1, <1>2, <2>2, <3>1 DEF Known
    <3>4. n \in DOMAIN nodes /\ nodes[n].home = 0
      BY <1>2, <2>2, <3>1 DEF Forest, OpenTree
    <3>5. n # 0
      BY <3>4, TreeFacts DEF Forest
    <3>6. x.node = n /\ x.lines = Flatten(nodes, n)
      BY <1>2, <3>2, <3>5 DEF Give
    <3>7. Handed(nodes, n, Flatten(nodes, n))
      BY <1>1, <3>3, <3>4, FlattenComplete DEF Forest
    <3>8. \A k \in DOMAIN open' : open'[k].node # n
      BY <1>2, <1>3, <3>1 DEF Forest, OpenTree
    <3>9. Placed(x)'
      <4>1. n \in DOMAIN nodes' /\ nodes'[n].home = 0 /\ Handed(nodes', n, x.lines)
        BY <1>2, <3>4, <3>6, <3>7
      <4> QED
        BY <3>5, <3>6, <3>8, <4>1 DEF Placed
    <3>10. \A i \in DOMAIN delivered : delivered[i].node # n
      BY <1>2, <3>1, <3>5 DEF Forest, Handing, Placed
    <3>11. delivered \in Seq(Range(delivered))
      BY DEF IInv, AnsweredNotWaiting
    <3> QED
      BY <1>7, <2>2, <3>2, <3>3, <3>6, <3>9, <3>10, <3>11, HandingMore DEF Forest
  <2> QED
    BY <2>1, <2>2 DEF BatchEnd, handleBatchEnd, HandleBatch
<1> QED
  BY <1>1, <1>2, <1>5, <1>6, <1>8 DEF Forest


\* expireBatches: a batch is lost no sooner than the batch it is nested in.
LEMMA ExpireForest ==
    ASSUME IInv, Forest, NEW force \in BOOLEAN, expireBatches(force), UNCHANGED <<now, gen, open>>
    PROVE  Forest'
<1>1. PICK lost \in SUBSET DOMAIN nodes : Whole(nodes, lost) /\ Known(lost)
  BY DEF Forest
<1> DEFINE dropped == {id \in DOMAIN batches : now - batches[id].createdAt > KeepAlive}
           more == lost \cup {open[id].node : id \in dropped}
<1>2. nodes' = nodes /\ batches' = Without(batches, dropped)
  BY DEF expireBatches
<1>3. /\ DOMAIN batches' = DOMAIN batches \ dropped
      /\ \A id \in DOMAIN batches' : batches'[id] = batches[id]
  BY <1>2 DEF Without
<1>4. DOMAIN batches \subseteq DOMAIN open
  BY DEF IInv, BatchTable
<1>5. more \in SUBSET DOMAIN nodes
  BY <1>4 DEF Forest, OpenTree
<1>6. Whole(nodes, more)
  <2> SUFFICES ASSUME NEW n \in DOMAIN nodes, nodes[n].home \notin more \cup {0}
               PROVE  n \in Range(nodes[nodes[n].home].items) /\ n \notin more
    BY DEF Whole
  <2>1. n \in Range(nodes[nodes[n].home].items) /\ n \notin lost
    BY <1>1 DEF Whole
  <2>2. ASSUME NEW id \in dropped, n = open[id].node PROVE FALSE
    <3>1. PICK parent : parent = open[id].parent
      OBVIOUS
    <3>2. id \in DOMAIN open /\ parent \in DOMAIN open /\ nodes[n].home = open[parent].node
      BY <1>4, <2>2, <3>1 DEF Forest, OpenTree
    <3>3. parent \in DOMAIN batches
      BY <1>1, <3>2 DEF Known
    <3>4. batches[parent].createdAt <= batches[id].createdAt
      BY <1>1, <3>1, <3>3 DEF Known
    <3>5. now \in Nat /\ batches[parent].createdAt \in Nat /\ batches[id].createdAt \in Nat
      BY <3>3 DEF IInv, Clocks, BatchTable
    <3>6. parent \in dropped
      BY <3>3, <3>4, <3>5
    <3> QED
      BY <3>2, <3>6
  <2> QED
    BY <2>1, <2>2
<1>7. \A id \in DOMAIN open : id \in DOMAIN batches' <=> open[id].node \notin more
  <2> TAKE id \in DOMAIN open
  <2>1. id \in DOMAIN batches <=> open[id].node \notin lost
    BY <1>1 DEF Known
  <2>2. \A k \in dropped : open[k].node = open[id].node => k = id
    BY <1>4 DEF Forest, OpenTree
  <2> QED
    BY <1>3, <2>1, <2>2
<1>8. PICK gone \in SUBSET DOMAIN nodes : gone = more
  BY <1>5
<1> HIDE DEF more, dropped
<1>9. Known(gone)'
  BY <1>1, <1>3, <1>7, <1>8 DEF Known
<1>10. Tree(nodes') /\ OpenTree' /\ Whole(nodes', gone) /\ gone \in SUBSET DOMAIN nodes'
  BY <1>2, <1>6, <1>8 DEF Forest, OpenTree
<1>11. \A d : Placed(d) => Placed(d)'
  <2>1. \A id \in DOMAIN open' : \E k \in DOMAIN open : open[k].node = open'[id].node
    OBVIOUS
  <2> QED
    BY <1>2, <2>1, PlacedSame DEF Forest
<1>12. Handing'
  <2> DEFINE expired == {l \in DOMAIN labelCallbacks : force \/ now - labelCallbacks[l] > KeepAlive}
             calls == SetToSeq(expired)
             n == Cardinality(expired)
             nils == [i \in DOMAIN calls |-> Give("label", calls[i], 0)]
  <2>1. delivered' = delivered \o nils
    BY DEF expireBatches
  <2>2. n \in Nat /\ DOMAIN calls = 1 .. n
    <3>1. labelCounter \in Nat /\ expired \subseteq 1 .. labelCounter
      BY DEF IInv, Clocks, LabelTable
    <3> HIDE DEF expired
    <3>2. IsFiniteSet(1 .. labelCounter)
      BY <3>1, FS_Interval
    <3> QED
      BY <3>1, <3>2, FS_Subset, SetToSeqFacts
  <2>3. DOMAIN nils = 1 .. n /\ \A i \in 1 .. n : nils[i].node = 0 /\ nils[i].lines = <<>>
    BY <2>2 DEF Give
  <2>4. delivered \in Seq(Range(delivered))
    BY DEF IInv, AnsweredNotWaiting
  <2> HIDE DEF nils, calls, n, expired
  <2>5. nils \in Seq(Range(nils))
    <3>1. nils \in [1 .. n -> Range(nils)]
      BY <2>3 DEF Range, nils
    <3>2. \A T : nils \in [1 .. n -> T] => nils \in Seq(T)
      BY <2>2
    <3> QED
      BY <3>1, <3>2
  <2>6. PICK l \in Nat : l = Len(delivered)
    BY <2>4
  <2>7. PICK m \in Nat : m = n
    BY <2>2
  <2>8. /\ DOMAIN delivered = 1 .. l /\ DOMAIN delivered' = 1 .. l + m
        /\ \A i \in 1 .. l : delivered'[i] = delivered[i]
        /\ \A i \in 1 .. m : delivered'[l + i] = nils[i]
    BY <2>1, <2>2, <2>3, <2>4, <2>5, <2>6, <2>7, ConcatFacts
  <2>9. \A i \in 1 .. m : delivered'[l + i].node = 0 /\ delivered'[l + i].lines = <<>>
    BY <2>3, <2>7, <2>8
  <2> QED
    BY <1>11, <2>8, <2>9, HandingNils DEF Forest
<1> QED
  BY <1>9, <1>10, <1>12 DEF Forest

\* A step that does not touch the batches.
LEMMA SameForest ==
    ASSUME Forest, UNCHANGED <<nodes, open, batches, delivered>> PROVE Forest'
<1>1. PICK lost \in SUBSET DOMAIN nodes : Whole(nodes, lost) /\ Known(lost)
  BY DEF Forest
<1>2. Known(lost)' /\ OpenTree'
  BY <1>1 DEF Forest, Known, OpenTree
<1>3. \A d : Placed(d) => Placed(d)'
  BY PlacedSame DEF Forest
<1>4. Handing'
  BY <1>3, HandingSame DEF Forest
<1> QED
  BY <1>1, <1>2, <1>4 DEF Forest

\* Connect forgets the open batches, and so does the server.
LEMMA ReconnectForest == ASSUME Forest, Reconnect PROVE Forest'
<1>1. UNCHANGED <<nodes, delivered>> /\ batches' = Empty /\ open' = Empty /\ DOMAIN Empty = {}
  BY DEF Reconnect, Empty
<1>2. PICK lost \in SUBSET DOMAIN nodes : Whole(nodes, lost)
  BY DEF Forest
<1>3. OpenTree' /\ Known(lost)'
  BY <1>1 DEF OpenTree, Known
<1>4. \A d : Placed(d) => Placed(d)'
  BY <1>1, PlacedSame DEF Forest
<1>5. Handing'
  BY <1>1, <1>4, HandingSame DEF Forest
<1> QED
  BY <1>1, <1>2, <1>3, <1>5 DEF Forest

\* There is nothing when the connection is made.
LEMMA InitForest == Init => Forest
<1> SUFFICES ASSUME Init PROVE Forest
  OBVIOUS
<1>1. nodes = <<>> /\ delivered = <<>> /\ batches = Empty /\ open = Empty /\ DOMAIN Empty = {}
  BY DEF Init, Empty
<1>2. nodes \in Seq(NodeSet) /\ DOMAIN nodes = {} /\ DOMAIN delivered = {}
  BY <1>1
<1>3. Tree(nodes) /\ OpenTree /\ Handing
  BY <1>1, <1>2 DEF Tree, OpenTree, Handing
<1>4. Whole(nodes, {}) /\ Known({})
  BY <1>1, <1>2 DEF Whole, Known
<1> QED
  BY <1>3, <1>4 DEF Forest

\* Every step preserves the tree.
LEMMA NextForest == IInv /\ Forest /\ [Next]_vars => Forest'
<1> SUFFICES ASSUME IInv, Forest, [Next]_vars PROVE Forest'
  OBVIOUS
<1>1. ASSUME NEW id \in BatchIDs, NEW parent \in BatchIDs \cup {NoBatch},
             NEW label \in 0 .. MaxLabels, BatchStart(id, parent, label)
      PROVE  Forest'
  BY <1>1, BatchStartForest
<1>2. ASSUME NEW id \in BatchIDs, BatchedLine(id) \/ BatchEnd(id) PROVE Forest'
  BY <1>2, BatchedLineForest, BatchEndForest
<1>3. ASSUME NEW label \in 1 .. MaxLabels, LabeledLine(label) PROVE Forest'
  BY <1>3, LabeledLineForest
<1>4. CASE OtherLine \/ RegisterLabel \/ Tick \/ UNCHANGED vars
  BY <1>4, SameForest DEF OtherLine, RegisterLabel, Tick, vars
<1>5. CASE ExpireCheck
  BY <1>5, ExpireForest, SameForest DEF ExpireCheck
<1>6. CASE Stop
  BY <1>6, ExpireForest DEF Stop
<1>7. CASE Reconnect
  BY <1>7, ReconnectForest
<1> QED
  BY <1>1, <1>2, <1>3, <1>4, <1>5, <1>6, <1>7 DEF Next

-----------------------------------------------------------------------------
\* The invariant holds in every reachable state.
THEOREM Invariance == Spec => []IInv
  BY InitIInv, NextIInv, PTL DEF Spec

\* The batch that answers a waiting request is in irc.batches: it cannot expire before the
\* request does, whatever the clock, the server and expireBatches do.
THEOREM BatchOutlivesLabel == Spec => []ResponseOutlivesLabel
<1>1. IInv => ResponseOutlivesLabel
  BY DEF IInv, YoungerThanLabel, ResponseOutlivesLabel
<1> QED
  BY <1>1, Invariance, PTL

\* No label of a connection is answered twice, by a line, a batch or nil.
THEOREM OneAnswer == Spec => []AnsweredOnce
<1>1. IInv => AnsweredOnce
  BY DEF IInv
<1> QED
  BY <1>1, Invariance, PTL

\* The tree is kept in every reachable state.
THEOREM TreeInvariance == Spec => []Forest
  BY InitIInv, NextIInv, InitForest, NextForest, PTL DEF Spec

\* A batch is handed on with every line the server put into it or into a batch nested in it,
\* lines of the same batch in the order of arrival, and with no other line, although every
\* nested batch has an age of its own and expireBatches may run between any two lines.
THEOREM BatchesComplete == Spec => []CompleteBatch
<1>1. ASSUME Forest PROVE CompleteBatch
  <2> SUFFICES ASSUME NEW i \in DOMAIN delivered, delivered[i].node # 0, NEW lines,
                      lines = delivered[i].lines
               PROVE  /\ ToSet(lines) = Below(delivered[i].node)
                      /\ \A j, k \in DOMAIN lines :
                            j < k /\ nodes[lines[j]].home = nodes[lines[k]].home => lines[j] < lines[k]
    BY DEF CompleteBatch
  <2>1. PICK root : root = delivered[i].node
    OBVIOUS
  <2>2. Handed(nodes, root, lines)
    BY <1>1, <2>1 DEF Forest, Handing, Placed
  <2>3. ToSet(lines) = Range(lines)
    BY DEF ToSet, Range
  <2> QED
    BY <2>1, <2>2, <2>3 DEF Handed, Below
<1> QED
  BY <1>1, TreeInvariance, PTL

\* Nothing reaches the client twice: no line, whatever batches it is in, since only outermost
\* batches and single lines are handed on and each of them once; and no answer to a request.
THEOREM NothingTwice == Spec => []DeliveredOnce
<1>1. ASSUME Forest, delivered \in Seq(Range(delivered))
      PROVE  IsInjective(FlattenSeq([i \in DOMAIN delivered |-> delivered[i].lines]))
  <2>1. PICK l \in Nat : l = Len(delivered) /\ DOMAIN delivered = 1 .. l
    BY <1>1
  <2>2. PICK s : s = [i \in 1 .. l |-> delivered[i].lines]
    OBVIOUS
  <2>3. ASSUME NEW i \in 1 .. l
        PROVE  /\ s[i] \in Seq(Nat) /\ IsInjective(s[i])
               /\ \A k \in DOMAIN s[i] :
                     /\ delivered[i].node # 0 /\ nodes[delivered[i].node].home = 0
                     /\ s[i][k] \in DOMAIN nodes /\ delivered[i].node \in Path(nodes)[s[i][k]]
    <3>1. PICK d : d = delivered[i]
      OBVIOUS
    <3>2. Placed(d) /\ s[i] = d.lines
      BY <1>1, <2>1, <2>2, <3>1 DEF Forest, Handing
    <3>3. CASE d.node = 0
      <4>1. s[i] = <<>>
        BY <3>2, <3>3 DEF Placed
      <4> QED
        BY <4>1 DEF IsInjective
    <3>4. CASE d.node # 0
      <4>1. nodes[d.node].home = 0 /\ Handed(nodes, d.node, s[i])
        BY <3>2, <3>4 DEF Placed
      <4>2. \A k \in DOMAIN s[i] : s[i][k] \in Range(s[i])
        BY DEF Range
      <4> QED
        BY <3>1, <3>4, <4>1, <4>2 DEF Handed
    <3> QED
      BY <3>3, <3>4
  <2>4. s \in Seq(Seq(Nat)) /\ DOMAIN s = 1 .. l
    <3>1. PICK T : T = Seq(Nat)
      OBVIOUS
    <3>2. s \in [1 .. l -> T]
      BY <2>2, <2>3, <3>1
    <3>3. s \in Seq(T) /\ DOMAIN s = 1 .. l
      BY <3>2
    <3> QED
      BY <3>1, <3>3
  <2>5. ASSUME NEW i \in 1 .. l, NEW j \in 1 .. l, NEW k \in DOMAIN s[i], NEW m \in DOMAIN s[j],
               s[i][k] = s[j][m]
        PROVE  i = j
    <3>1. delivered[i].node = delivered[j].node
      <4>1. PICK n, c, d : n = s[i][k] /\ c = delivered[i].node /\ d = delivered[j].node
        OBVIOUS
      <4>2. n \in DOMAIN nodes /\ c \in Path(nodes)[n] /\ nodes[c].home = 0
        BY <2>3, <4>1
      <4>3. n = s[j][m]
        BY <2>5, <4>1
      <4>4. d \in Path(nodes)[n] /\ nodes[d].home = 0
        BY <2>3, <4>1, <4>3
      <4> QED
        BY <1>1, <4>1, <4>2, <4>4, SiblingsApart DEF Forest
    <3>2. delivered[i].node # 0
      BY <2>3
    <3> QED
      BY <1>1, <2>1, <3>1, <3>2 DEF Forest, Handing
  <2>6. IsInjective(FlattenSeq(s))
    <3>1. \A i \in DOMAIN s : IsInjective(s[i])
      BY <2>3, <2>4
    <3>2. \A i, j \in DOMAIN s : \A k \in DOMAIN s[i], m \in DOMAIN s[j] : s[i][k] = s[j][m] => i = j
      BY <2>4, <2>5
    <3> QED
      BY <2>4, <3>1, <3>2, FlattenInjective
  <2> QED
    BY <2>1, <2>2, <2>6
<1>2. IInv /\ Forest => DeliveredOnce
  BY <1>1 DEF IInv, AnsweredNotWaiting, DeliveredOnce
<1> QED
  BY <1>2, Invariance, TreeInvariance, PTL

\* After readLoop has dealt with a message, no batch is older than KeepAlive and one Timeout.
THEOREM BatchesExpire == Spec => NoStaleBatch
<1>1. ASSUME IInv, ExpireCheck, NEW id \in DOMAIN batches'
      PROVE  now - batches'[id].createdAt <= KeepAlive + Timeout
  <2>1. now \in Nat /\ lastExpireCheck \in Nat
    BY <1>1 DEF IInv, Clocks
  <2>2. CASE now - lastExpireCheck > Timeout
    <3>1. batches' = Without(batches, {k \in DOMAIN batches : now - batches[k].createdAt > KeepAlive})
      BY <1>1, <2>2 DEF ExpireCheck, expireBatches
    <3>2. id \in DOMAIN batches /\ batches'[id] = batches[id] /\ ~(now - batches[id].createdAt > KeepAlive)
      BY <1>1, <3>1 DEF Without
    <3>3. batches[id].createdAt \in Nat
      BY <1>1, <3>2 DEF IInv, Clocks, BatchTable
    <3> QED
      BY <2>1, <3>2, <3>3
  <2>3. CASE ~(now - lastExpireCheck > Timeout)
    <3>1. batches' = batches
      BY <1>1, <2>3 DEF ExpireCheck
    <3>2. batches[id].createdAt \in Nat /\ lastExpireCheck <= batches[id].createdAt + KeepAlive
      BY <1>1, <3>1 DEF IInv, Clocks, BatchTable
    <3> QED
      BY <2>1, <2>3, <3>1, <3>2
  <2> QED
    BY <2>2, <2>3
<1>2. IInv /\ [Next]_vars =>
        [ExpireCheck => \A id \in DOMAIN batches' : now - batches'[id].createdAt <= KeepAlive + Timeout]_vars
  BY <1>1
<1> QED
  BY <1>2, Invariance, PTL DEF Spec, NoStaleBatch
=============================================================================
