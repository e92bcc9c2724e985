------------------------ MODULE LabeledResponseProofs ------------------------
(***************************************************************************)
(* The callbacks of labeled requests, for every set of requests and every   *)
(* number of connections: none runs twice, and unless a call straddles a    *)
(* reconnection none is lost and none is given the answer to another.       *)
(***************************************************************************)
EXTENDS LabeledResponse, FiniteSetTheorems, TLAPS

\* Requests that have no label yet.
Fresh(r) == pc[r] \in {"idle", "refused", "register"}

InTable(r) == \E l \in Labels : labelCallbacks[l] = r

Types ==
    /\ gen \in Nat /\ phase \in {"down", "dialed", "negotiating", "up"}
    /\ labelCallbacks \in [Labels -> Requests \cup {None}] /\ labelCounter \in Nat
    /\ batches \in SUBSET Requests
    /\ pc \in [Requests -> InCall \cup {"idle", "refused", "sent", "failed"}]
    /\ label \in [Requests -> Nat] /\ home \in [Requests -> Int]
    /\ snap \in [Requests -> Nat] /\ wire \in [Requests -> Nat]
    /\ calls \in [Requests -> {0, 1}] /\ got \in [Requests -> Requests \cup {"none", "nil"}]

\* A connection gives out at most one label for each request that has one.
CounterBounded == labelCounter <= Cardinality({r \in Requests : ~Fresh(r)})

\* Before registerLabel there is nothing to be answered, and nothing has been.
FreshUntouched ==
    \A r \in Requests : Fresh(r) =>
        calls[r] = 0 /\ wire[r] = 0 /\ r \notin batches /\ ~InTable(r)

LabelGiven == \A r \in Requests : ~Fresh(r) => label[r] \in Labels

\* What is in the table has not run, and is there once.
TableNotRun == \A r \in Requests : InTable(r) => calls[r] = 0

TableInjective ==
    \A k, l \in Labels : labelCallbacks[k] = labelCallbacks[l] /\ labelCallbacks[k] # None => k = l

\* The inductive invariant behind AtMostOnce.
IInv ==
    /\ Types /\ CounterBounded /\ FreshUntouched /\ LabelGiven /\ TableNotRun /\ TableInjective

-----------------------------------------------------------------------------
\* Connections are counted from 1, and expireBatches(true) finds end closed.
Begun == (phase # "down" => gen > 0) /\ (phase = "down" => ~running)

\* Within one numbering a label belongs to one request, and the counter is at the last one.
LabelsBelow ==
    \A r \in Requests : ~Fresh(r) =>
        home[r] <= Numbering /\ (home[r] = Numbering => label[r] <= labelCounter)

LabelsUnique ==
    \A r, q \in Requests :
        ~Fresh(r) /\ ~Fresh(q) /\ home[r] = home[q] /\ label[r] = label[q] => r = q

\* The table has requests of the present numbering, each under its own label.
TableNumbered ==
    \A l \in Labels, r \in Requests :
        labelCallbacks[l] = r => label[r] = l /\ home[r] = Numbering

\* What the server may answer was sent on the connection the call had looked up ...
WireSent == \A r \in Requests : wire[r] # 0 => pc[r] = "sent" /\ wire[r] = snap[r]

\* ... and what was answered had been sent.
AnsweredSent == \A r \in Requests : got[r] \in {"none", "nil"} \/ pc[got[r]] = "sent"

\* Once expireBatches(true) ran, only calls that will fail or straddle are in the table.
StoppedTable ==
    phase \in {"down", "dialed"} =>
        \A r \in Requests : InTable(r) /\ pc[r] \in {"blocked", "sent"} => Straddled(r)

\* Calls that have sent on the connection of their label, or may still do so.
Waiting(r) ==
    \/ pc[r] \in {"blocked", "sent"} /\ ~Straddled(r)
    \/ pc[r] = "send" /\ home[r] = gen /\ running /\ Reading

\* Their callbacks have run or are in the table, unless another call took them out.
Kept == \A r \in Requests : Waiting(r) => calls[r] = 1 \/ InTable(r) \/ Robbed(r)

\* The inductive invariant behind OwnResponse and CallbackNotLost.
LInv ==
    /\ Begun /\ LabelsBelow /\ LabelsUnique /\ TableNumbered /\ WireSent /\ AnsweredSent
    /\ StoppedTable /\ Kept /\ OwnResponse

-----------------------------------------------------------------------------
USE RequestsAssumption, NoneAssumption, MaxGenAssumption
USE DEF connVars, labelVars, callVars, doneVars

\* There are finitely many requests, and as many labels.
LEMMA LabelsFacts == Cardinality(Requests) \in Nat /\ Labels \subseteq Nat \ {0}
  BY FS_CardinalityType DEF Labels

\* Nothing has happened before the first Connect.
LEMMA InitIInv == Init => IInv
<1> SUFFICES ASSUME Init PROVE IInv
  OBVIOUS
<1>1. {r \in Requests : ~Fresh(r)} = {}
  BY DEF Init, Fresh
<1>2. CounterBounded
  BY <1>1, FS_EmptySet DEF Init, CounterBounded
<1> QED
  BY <1>2 DEF Init, IInv, Types, InCall, FreshUntouched, LabelGiven, TableNotRun, TableInjective,
              Fresh, InTable

\* registerLabel: the next label is free to be given out, whatever the table holds.
LEMMA NextLabel ==
    ASSUME IInv, NEW r \in Requests, RegisterLabel(r)
    PROVE  labelCounter + 1 \in Labels /\ CounterBounded'
<1> DEFINE S == {q \in Requests : ~Fresh(q)}
<1>1. S \subseteq Requests /\ IsFiniteSet(S) /\ Cardinality(S) \in Nat
  BY FS_Subset, FS_CardinalityType
<1>2. {q \in Requests : ~Fresh(q)}' = S \cup {r}
  BY DEF IInv, Types, RegisterLabel, Fresh
<1>3. r \notin S
  BY DEF RegisterLabel, Fresh
<1>4. Cardinality(S \cup {r}) = Cardinality(S) + 1
  BY <1>1, <1>3, FS_AddElement
<1>5. Cardinality(S \cup {r}) <= Cardinality(Requests)
  BY <1>1, FS_Subset
<1>6. labelCounter \in Nat /\ labelCounter <= Cardinality(S)
  BY DEF IInv, Types, CounterBounded
<1> HIDE DEF S
<1>7. labelCounter' = labelCounter + 1
  BY DEF RegisterLabel
<1>8. labelCounter + 1 \in Labels
  BY <1>1, <1>4, <1>5, <1>6, LabelsFacts DEF Labels
<1>9. labelCounter + 1 <= Cardinality(S \cup {r})
  BY <1>1, <1>4, <1>6
<1>10. CounterBounded'
  BY <1>2, <1>7, <1>9 DEF CounterBounded
<1> QED
  BY <1>8, <1>10

\* registerLabel puts a callback that is not in the table yet under one label.
LEMMA RegisterIInv == ASSUME IInv, NEW r \in Requests, RegisterLabel(r) PROVE IInv'
<1>1. labelCounter + 1 \in Labels /\ CounterBounded'
  BY NextLabel
<1> USE DEF IInv, Types, Fresh, InTable, InCall
<1>2. Types'
  BY <1>1, LabelsFacts DEF RegisterLabel, Numbering
<1>3. ~InTable(r) /\ calls[r] = 0
  BY DEF RegisterLabel, FreshUntouched
<1>4. \A l \in Labels : labelCallbacks'[l] = IF l = labelCounter + 1 THEN r ELSE labelCallbacks[l]
  BY <1>1 DEF RegisterLabel
<1>5. TableInjective'
  BY <1>3, <1>4 DEF TableInjective
<1>6. TableNotRun' /\ FreshUntouched'
  BY <1>1, <1>3, <1>4 DEF TableNotRun, FreshUntouched, RegisterLabel
<1>7. LabelGiven'
  BY <1>1 DEF LabelGiven, RegisterLabel
<1> QED
  BY <1>1, <1>2, <1>5, <1>6, <1>7

\* Taking a callback out of the table and running it once keeps both sides in step.
LEMMA DeliverFacts ==
    ASSUME IInv, NEW l \in Labels, NEW value \in Requests \cup {"nil"}, Deliver(l, value)
    PROVE  /\ labelCallbacks' \in [Labels -> Requests \cup {None}]
           /\ calls' \in [Requests -> {0, 1}] /\ got' \in [Requests -> Requests \cup {"none", "nil"}]
           /\ \A k \in Labels : labelCallbacks'[k] = IF k = l THEN None ELSE labelCallbacks[k]
           /\ \A r \in Requests : InTable(r)' <=> InTable(r) /\ labelCallbacks[l] # r
           /\ \A r \in Requests : calls'[r] = IF labelCallbacks[l] = r THEN 1 ELSE calls[r]
           /\ \A r \in Requests : got'[r] = IF labelCallbacks[l] = r THEN value ELSE got[r]
<1> USE DEF IInv, Types, InTable
<1>1. CASE labelCallbacks[l] = None
  BY <1>1 DEF Deliver
<1>2. CASE labelCallbacks[l] # None
  <2> DEFINE q == labelCallbacks[l]
  <2>1. q \in Requests /\ calls[q] = 0
    BY <1>2 DEF TableNotRun
  <2>2. /\ labelCallbacks' = [labelCallbacks EXCEPT ![l] = None]
        /\ calls' = [calls EXCEPT ![q] = @ + 1] /\ got' = [got EXCEPT ![q] = value]
    BY <1>2 DEF Deliver
  <2>3. \A k \in Labels : labelCallbacks[k] = q => k = l
    BY <1>2 DEF TableInjective
  <2>4. labelCallbacks' \in [Labels -> Requests \cup {None}]
    BY <2>2
  <2>5. \A k \in Labels : labelCallbacks'[k] = IF k = l THEN None ELSE labelCallbacks[k]
    BY <2>2
  <2>6. \A r \in Requests : InTable(r)' <=> InTable(r) /\ labelCallbacks[l] # r
    BY <2>3, <2>5
  <2>7. /\ calls' \in [Requests -> {0, 1}]
        /\ \A r \in Requests : calls'[r] = IF q = r THEN 1 ELSE calls[r]
    BY <2>1, <2>2
  <2>8. /\ got' \in [Requests -> Requests \cup {"none", "nil"}]
        /\ \A r \in Requests : got'[r] = IF q = r THEN value ELSE got[r]
    BY <2>1, <2>2
  <2> QED
    BY <2>4, <2>5, <2>6, <2>7, <2>8
<1> QED
  BY <1>1, <1>2

\* Delivering keeps the invariant, whatever becomes of the message and the open batches.
LEMMA DeliverIInv ==
    ASSUME IInv, NEW l \in Labels, NEW value \in Requests \cup {"nil"}, Deliver(l, value),
           batches' \subseteq batches, wire' \in [Requests -> Nat],
           \A r \in Requests : wire'[r] \in {wire[r], 0},
           UNCHANGED <<connVars, labelCounter, pc, label, home, snap>>
    PROVE  IInv'
<1>1. /\ labelCallbacks' \in [Labels -> Requests \cup {None}]
      /\ calls' \in [Requests -> {0, 1}] /\ got' \in [Requests -> Requests \cup {"none", "nil"}]
      /\ \A k \in Labels : labelCallbacks'[k] = IF k = l THEN None ELSE labelCallbacks[k]
      /\ \A r \in Requests : InTable(r)' <=> InTable(r) /\ labelCallbacks[l] # r
      /\ \A r \in Requests : calls'[r] = IF labelCallbacks[l] = r THEN 1 ELSE calls[r]
  BY DeliverFacts
<1>2. Types'
  BY <1>1 DEF IInv, Types
<1>3. \A r \in Requests : Fresh(r)' <=> Fresh(r)
  BY DEF Fresh
<1>4. CounterBounded'
  BY DEF IInv, CounterBounded, Fresh
<1>5. FreshUntouched'
  BY <1>1, <1>3 DEF IInv, FreshUntouched, InTable
<1>6. LabelGiven'
  BY <1>3 DEF IInv, LabelGiven
<1>7. TableNotRun' /\ TableInjective'
  BY <1>1 DEF IInv, TableNotRun, TableInjective
<1> QED
  BY <1>2, <1>4, <1>5, <1>6, <1>7 DEF IInv

\* A step that moves one call and leaves the table and the callbacks alone.
LEMMA MoveIInv ==
    ASSUME IInv, NEW r \in Requests, NEW p \in InCall \cup {"idle", "refused", "sent", "failed"},
           pc' = [pc EXCEPT ![r] = p],
           Fresh(r) <=> p \in {"idle", "refused", "register"},
           snap' \in [Requests -> Nat], wire' \in [Requests -> Nat],
           \A q \in Requests : wire'[q] # wire[q] => ~Fresh(q),
           UNCHANGED <<connVars, labelVars, label, home, doneVars>>
    PROVE  IInv'
<1>1. \A q \in Requests : Fresh(q)' <=> Fresh(q)
  BY DEF Fresh, IInv, Types
<1>2. Types'
  BY DEF IInv, Types
<1>3. {q \in Requests : ~Fresh(q)}' = {q \in Requests : ~Fresh(q)}
  BY <1>1
<1>4. CounterBounded'
  BY <1>3 DEF IInv, CounterBounded
<1>5. FreshUntouched'
  BY <1>1 DEF IInv, FreshUntouched, InTable
<1>6. LabelGiven' /\ TableNotRun' /\ TableInjective'
  BY <1>1 DEF IInv, LabelGiven, TableNotRun, TableInjective, InTable
<1> QED
  BY <1>2, <1>4, <1>5, <1>6 DEF IInv

\* unregisterLabel empties one slot, whoever is in it.
LEMMA UnregisterIInv == ASSUME IInv, NEW r \in Requests, UnregisterLabel(r) PROVE IInv'
<1>1. \A q \in Requests : Fresh(q)' <=> Fresh(q)
  BY DEF UnregisterLabel, Fresh, IInv, Types
<1>2. Types'
  BY DEF UnregisterLabel, IInv, Types
<1>3. {q \in Requests : ~Fresh(q)}' = {q \in Requests : ~Fresh(q)}
  BY <1>1
<1>4. CounterBounded'
  BY <1>3 DEF UnregisterLabel, IInv, CounterBounded
<1>5. label[r] \in Labels
  BY DEF UnregisterLabel, IInv, LabelGiven, Fresh
<1>6. \A k \in Labels : labelCallbacks'[k] = IF k = label[r] THEN None ELSE labelCallbacks[k]
  BY <1>5 DEF UnregisterLabel, IInv, Types
<1>7. \A q \in Requests : InTable(q)' => InTable(q)
  BY <1>6 DEF InTable
<1>8. FreshUntouched' /\ LabelGiven' /\ TableNotRun'
  BY <1>1, <1>7 DEF UnregisterLabel, IInv, FreshUntouched, LabelGiven, TableNotRun
<1>9. TableInjective'
  BY <1>6 DEF IInv, TableInjective
<1> QED
  BY <1>2, <1>4, <1>8, <1>9 DEF IInv

\* Each step of SendWithLabel preserves the invariant.
LEMMA SendWithLabelIInv == ASSUME IInv, NEW r \in Requests, SendWithLabel(r) PROVE IInv'
<1>1. CASE Check(r)
  BY <1>1, MoveIInv DEF Check, IInv, Types, Fresh, InCall
<1>2. CASE RegisterLabel(r)
  BY <1>2, RegisterIInv
<1>3. CASE SendStart(r)
  BY <1>3, MoveIInv DEF SendStart, IInv, Types, Fresh, InCall
<1>4. CASE SendQueued(r)
  BY <1>4, MoveIInv DEF SendQueued, IInv, Types, Fresh, InCall
<1>5. CASE SendAborted(r)
  BY <1>5, MoveIInv DEF SendAborted, IInv, Types, Fresh, InCall
<1>6. CASE UnregisterLabel(r)
  BY <1>6, UnregisterIInv
<1>7. CASE AssemblyFailed(r)
  BY <1>7, MoveIInv DEF AssemblyFailed, IInv, Types, Fresh, InCall
<1> QED
  BY <1>1, <1>2, <1>3, <1>4, <1>5, <1>6, <1>7 DEF SendWithLabel

\* So does each step of readLoop: the answer to a request finds some callback or none.
LEMMA AnswerIInv ==
    ASSUME IInv, NEW r \in Requests, Respond(r) \/ BatchStart(r) \/ BatchEnd(r)
    PROVE  IInv'
<1>1. r \in batches \/ Answerable(r)
  BY DEF Respond, BatchStart, BatchEnd
<1>2. ~Fresh(r) /\ label[r] \in Labels
  BY <1>1 DEF IInv, FreshUntouched, LabelGiven, Answerable
<1>3. CASE Respond(r)
  BY <1>2, <1>3, DeliverIInv DEF Respond, IInv, Types
<1>4. CASE BatchEnd(r)
  BY <1>2, <1>4, DeliverIInv DEF BatchEnd, IInv, Types
<1>5. CASE BatchStart(r)
  <2> USE <1>5 DEF BatchStart
  <2>1. Types'
    BY DEF IInv, Types
  <2>2. CounterBounded'
    BY DEF IInv, CounterBounded, Fresh
  <2>3. FreshUntouched' /\ LabelGiven' /\ TableNotRun' /\ TableInjective'
    BY <1>2 DEF IInv, FreshUntouched, LabelGiven, TableNotRun, TableInjective, InTable, Fresh
  <2> QED
    BY <2>1, <2>2, <2>3 DEF IInv
<1> QED
  BY <1>3, <1>4, <1>5

\* So does expireBatches(false).
LEMMA ExpireIInv == ASSUME IInv, NEW l \in Labels, Expire(l) PROVE IInv'
<1>1. PICK old \in SUBSET batches : wire' = [r \in Requests |-> IF r \in old THEN 0 ELSE wire[r]]
  BY DEF Expire
<1>2. batches' \subseteq batches
  BY DEF Expire
<1>3. wire' \in [Requests -> Nat] /\ \A r \in Requests : wire'[r] \in {wire[r], 0}
  BY <1>1 DEF IInv, Types
<1> QED
  BY <1>2, <1>3, DeliverIInv DEF Expire

\* And so do Connect and Loop: waitForStop runs what is in the table, Connect empties it.
LEMMA LifecycleIInv ==
    ASSUME IInv, Dialed \/ ResetLabels \/ ProcessAckedCaps \/ CloseEnd \/ ExpireAll
    PROVE  IInv'
<1>1. pc' = pc /\ label' = label /\ wire' = wire
  BY DEF Dialed, ResetLabels, ProcessAckedCaps, CloseEnd, ExpireAll
<1>2. labelCounter' \in {0, labelCounter} /\ batches' \subseteq batches
  BY DEF Dialed, ResetLabels, ProcessAckedCaps, CloseEnd, ExpireAll
<1>3. Cardinality({q \in Requests : ~Fresh(q)}) \in Nat
  BY FS_Subset, FS_CardinalityType
<1>4. CounterBounded' /\ LabelGiven'
  BY <1>1, <1>2, <1>3 DEF IInv, Types, CounterBounded, LabelGiven, Fresh
<1>5. labelCallbacks' = labelCallbacks \/ labelCallbacks' = [l \in Labels |-> None]
  BY DEF Dialed, ResetLabels, ProcessAckedCaps, CloseEnd, ExpireAll
<1>6. TableInjective'
  BY <1>5 DEF IInv, TableInjective
<1>7. \A r \in Requests : InTable(r)' => InTable(r)
  BY <1>5 DEF InTable
<1>8. CASE calls' = calls /\ got' = got
  <2>1. FreshUntouched' /\ TableNotRun'
    BY <1>1, <1>2, <1>7, <1>8 DEF IInv, FreshUntouched, TableNotRun, Fresh
  <2>2. Types'
    BY <1>5, <1>8 DEF IInv, Types, Dialed, ResetLabels, ProcessAckedCaps, CloseEnd, ExpireAll
  <2> QED
    BY <1>4, <1>6, <2>1, <2>2 DEF IInv
<1>9. CASE ExpireAll
  <2>1. \A r \in Requests : calls'[r] = IF InTable(r) THEN 1 ELSE calls[r]
    BY <1>9 DEF ExpireAll, InTable, IInv, TableNotRun
  <2>2. FreshUntouched'
    BY <1>1, <1>2, <1>7, <2>1 DEF IInv, FreshUntouched, Fresh
  <2>3. TableNotRun'
    BY <1>9 DEF ExpireAll, TableNotRun, InTable
  <2>4. calls' \in [Requests -> {0, 1}] /\ got' \in [Requests -> Requests \cup {"none", "nil"}]
    BY <1>9, <2>1 DEF ExpireAll, IInv, Types
  <2>5. Types'
    BY <1>5, <1>9, <2>4 DEF IInv, Types, ExpireAll
  <2> QED
    BY <1>4, <1>6, <2>2, <2>3, <2>5 DEF IInv
<1> QED
  BY <1>8, <1>9 DEF Dialed, ResetLabels, ProcessAckedCaps, CloseEnd

\* Every step preserves the invariant.
LEMMA NextIInv == IInv /\ [Next]_vars => IInv'
<1> SUFFICES ASSUME IInv, [Next]_vars PROVE IInv'
  OBVIOUS
<1>1. ASSUME NEW r \in Requests, SendWithLabel(r) PROVE IInv'
  BY <1>1, SendWithLabelIInv
<1>2. ASSUME NEW r \in Requests, Respond(r) \/ BatchStart(r) \/ BatchEnd(r) PROVE IInv'
  BY <1>2, AnswerIInv
<1>3. ASSUME NEW l \in Labels, Expire(l) PROVE IInv'
  BY <1>3, ExpireIInv
<1>4. CASE Dialed \/ ResetLabels \/ ProcessAckedCaps \/ CloseEnd \/ ExpireAll
  BY <1>4, LifecycleIInv
<1>5. CASE UNCHANGED vars
  BY <1>5 DEF vars, IInv, Types, CounterBounded, FreshUntouched, LabelGiven, TableNotRun,
              TableInjective, InTable, Fresh
<1> QED
  BY <1>1, <1>2, <1>3, <1>4, <1>5 DEF Next

\* The invariant holds in every reachable state.
THEOREM Invariance == Spec => []IInv
  BY InitIInv, NextIInv, PTL DEF Spec

\* No callback runs twice, however responses, expiry, lost connections and failing sends
\* race, and however calls and reconnections overlap.
THEOREM RunsAtMostOnce == Spec => []AtMostOnce
<1>1. IInv => AtMostOnce
  BY DEF IInv, Types, AtMostOnce
<1> QED
  BY <1>1, Invariance, PTL

-----------------------------------------------------------------------------
(* Labels and numberings                                                   *)

\* Before the first Connect there are no labels.
LEMMA InitLInv == Init => LInv
  BY DEF Init, LInv, Begun, LabelsBelow, LabelsUnique, TableNumbered, WireSent, AnsweredSent,
         StoppedTable, Kept, OwnResponse, Waiting, InTable, Fresh, Numbering

\* registerLabel gives out a label that nobody has in this numbering, so it displaces no
\* callback.
LEMMA RegisterLInv == ASSUME IInv, LInv, NEW r \in Requests, RegisterLabel(r) PROVE LInv'
<1> USE DEF IInv, Types, LInv
<1>1. labelCounter + 1 \in Labels /\ labelCounter \in Nat
  BY NextLabel
<1>2. \A l \in Labels : labelCallbacks'[l] = IF l = labelCounter + 1 THEN r ELSE labelCallbacks[l]
  BY <1>1 DEF RegisterLabel
<1>3. /\ label' = [label EXCEPT ![r] = labelCounter + 1]
      /\ home' = [home EXCEPT ![r] = Numbering] /\ pc' = [pc EXCEPT ![r] = "send"]
      /\ labelCounter' = labelCounter + 1
      /\ UNCHANGED <<gen, phase, running, snap, wire, calls, got>>
  BY DEF RegisterLabel
<1>4. Numbering' = Numbering /\ Numbering \in Int
  BY <1>3 DEF Numbering
<1>5. Fresh(r) /\ \A q \in Requests : Fresh(q)' <=> Fresh(q) /\ q # r
  BY <1>3 DEF Fresh, RegisterLabel
<1>6. \A l \in Labels, q \in Requests : labelCallbacks[l] = q => ~Fresh(q) /\ l <= labelCounter
  BY LabelsFacts DEF FreshUntouched, InTable, TableNumbered, LabelsBelow
<1>7. \A q \in Requests : InTable(q)' <=> q = r \/ InTable(q)
  BY <1>1, <1>2, <1>6 DEF InTable
<1>8. Begun' /\ LabelsBelow'
  BY <1>1, <1>3, <1>4, <1>5 DEF Begun, LabelsBelow
<1>9. LabelsUnique'
  BY <1>1, <1>3, <1>4, <1>5 DEF LabelsBelow, LabelsUnique
<1>10. TableNumbered'
  BY <1>1, <1>2, <1>3, <1>4, <1>5, <1>6 DEF TableNumbered
<1>11. WireSent' /\ AnsweredSent' /\ OwnResponse'
  BY <1>3, <1>5 DEF WireSent, AnsweredSent, OwnResponse, Straddled, RegisterLabel
<1>12. StoppedTable'
  BY <1>3, <1>7 DEF StoppedTable, Straddled
<1>13. \A q \in Requests : q # r /\ Robbed(q) => Robbed(q)'
  BY <1>3 DEF Robbed, RegisterLabel
<1>14. Kept'
  BY <1>3, <1>7, <1>13 DEF Kept, Waiting, Straddled, Reading
<1> QED
  BY <1>8, <1>9, <1>10, <1>11, <1>12, <1>14

\* The other steps of SendWithLabel leave labels and table alone; a call that takes the
\* connection of its label is one whose callback the table has.
LEMMA MoveLInv ==
    ASSUME IInv, LInv, NEW r \in Requests,
           Check(r) \/ AssemblyFailed(r) \/ SendStart(r) \/ SendQueued(r) \/ SendAborted(r)
    PROVE  LInv'
<1> USE DEF IInv, Types, LInv
<1> USE DEF Check, AssemblyFailed, SendStart, SendQueued, SendAborted
<1>1. UNCHANGED <<labelCallbacks, labelCounter, label, home, gen, phase, running, calls, got>>
  OBVIOUS
<1>2. \A q \in Requests : q # r => pc'[q] = pc[q] /\ wire'[q] = wire[q] /\ snap'[q] = snap[q]
  OBVIOUS
<1>3. /\ pc[r] \notin {"sent", "failed"} /\ \A q \in Requests : Fresh(q)' <=> Fresh(q)
  BY <1>2 DEF Fresh
<1>4. Numbering' = Numbering /\ \A q \in Requests : InTable(q)' <=> InTable(q)
  BY <1>1 DEF Numbering, InTable
<1>5. Begun' /\ LabelsBelow' /\ LabelsUnique' /\ TableNumbered'
  BY <1>1, <1>3, <1>4 DEF Begun, LabelsBelow, LabelsUnique, TableNumbered
<1>6. WireSent'
  BY <1>2 DEF WireSent
<1>7. AnsweredSent' /\ OwnResponse'
  <2>1. ASSUME NEW q \in Requests, got[q] \notin {"none", "nil"}
        PROVE  got[q] \in Requests /\ got[q] # r /\ pc[got[q]] = "sent"
    BY <1>3, <2>1 DEF AnsweredSent
  <2> QED
    BY <1>1, <1>2, <2>1 DEF AnsweredSent, OwnResponse, Straddled
<1>8. \A q \in Requests : Robbed(q) => Robbed(q)'
  BY <1>1, <1>2, <1>3 DEF Robbed
<1>9. SendStart(r) /\ running /\ home[r] = gen => Reading
  BY <1>3 DEF Begun, LabelsBelow, Numbering, Reading, Fresh
<1>10. StoppedTable'
  BY <1>1, <1>2, <1>4, <1>9 DEF StoppedTable, Straddled, Begun, Reading
<1>11. \A q \in Requests : Waiting(q)' => Waiting(q)
  BY <1>1, <1>2, <1>9 DEF Waiting, Straddled, Reading
<1>12. Kept'
  BY <1>1, <1>4, <1>8, <1>11 DEF Kept
<1> QED
  BY <1>5, <1>6, <1>7, <1>10, <1>12

\* unregisterLabel takes out its own callback or robs a call of a later numbering.
LEMMA UnregisterLInv == ASSUME IInv, LInv, NEW r \in Requests, UnregisterLabel(r) PROVE LInv'
<1> USE DEF IInv, Types, LInv
<1>1. label[r] \in Labels /\ ~Fresh(r)
  BY DEF UnregisterLabel, LabelGiven, Fresh
<1>2. \A k \in Labels : labelCallbacks'[k] = IF k = label[r] THEN None ELSE labelCallbacks[k]
  BY <1>1 DEF UnregisterLabel
<1>3. /\ pc[r] = "unregister" /\ pc' = [pc EXCEPT ![r] = "failed"]
      /\ UNCHANGED <<labelCounter, label, home, snap, wire, gen, phase, running, calls, got>>
  BY DEF UnregisterLabel
<1>4. Numbering' = Numbering /\ \A q \in Requests : Fresh(q)' <=> Fresh(q)
  BY <1>3 DEF Numbering, Fresh
<1>5. \A q \in Requests : InTable(q)' => InTable(q)
  BY <1>2 DEF InTable
<1>6. ASSUME NEW q \in Requests, q # r, InTable(q), ~InTable(q)' PROVE Robbed(q)'
  <2>1. labelCallbacks[label[r]] = q
    BY <1>2, <1>6 DEF InTable
  <2>2. ~Fresh(q) /\ label[q] = label[r]
    BY <1>1, <1>6, <2>1 DEF FreshUntouched, TableNumbered
  <2>3. home[q] # home[r]
    BY <1>1, <1>6, <2>2 DEF LabelsUnique
  <2> QED
    BY <1>3, <2>2, <2>3 DEF Robbed
<1>7. Begun' /\ LabelsBelow' /\ LabelsUnique'
  BY <1>3, <1>4 DEF Begun, LabelsBelow, LabelsUnique
<1>8. TableNumbered'
  BY <1>2, <1>3, <1>4 DEF TableNumbered
<1>9. WireSent' /\ AnsweredSent' /\ OwnResponse'
  BY <1>3 DEF WireSent, AnsweredSent, OwnResponse, Straddled
<1>10. StoppedTable'
  BY <1>3, <1>5 DEF StoppedTable, Straddled
<1>11. \A q \in Requests : Robbed(q) => Robbed(q)'
  BY <1>3 DEF Robbed
<1>12. \A q \in Requests : Waiting(q)' => Waiting(q) /\ q # r
  BY <1>3 DEF Waiting, Straddled, Reading
<1>13. Kept'
  BY <1>3, <1>6, <1>11, <1>12 DEF Kept
<1> QED
  BY <1>7, <1>8, <1>9, <1>10, <1>13

\* Taking a callback out of the table and running it, with nil or with a response that may be
\* another's only if that one straddled.
LEMMA DeliverLInv ==
    ASSUME IInv, LInv, NEW l \in Labels, NEW value \in Requests \cup {"nil"}, Deliver(l, value),
           value = "nil" \/ pc[value] = "sent",
           value = "nil" \/ labelCallbacks[l] \in {value, None} \/ Straddled(value),
           wire' \in [Requests -> Nat], \A r \in Requests : wire'[r] \in {wire[r], 0},
           UNCHANGED <<connVars, labelCounter, pc, label, home, snap>>
    PROVE  LInv'
<1>1. /\ \A k \in Labels : labelCallbacks'[k] = IF k = l THEN None ELSE labelCallbacks[k]
      /\ \A r \in Requests : InTable(r)' <=> InTable(r) /\ labelCallbacks[l] # r
      /\ \A r \in Requests : calls'[r] = IF labelCallbacks[l] = r THEN 1 ELSE calls[r]
      /\ \A r \in Requests : got'[r] = IF labelCallbacks[l] = r THEN value ELSE got[r]
  BY DeliverFacts
<1> USE DEF IInv, Types, LInv
<1>2. Begun' /\ LabelsBelow' /\ LabelsUnique'
  BY DEF Begun, LabelsBelow, LabelsUnique, Fresh, Numbering
<1>3. TableNumbered'
  BY <1>1 DEF TableNumbered, Numbering
<1>4. WireSent'
  BY DEF WireSent
<1>5. AnsweredSent'
  BY <1>1 DEF AnsweredSent
<1>6. OwnResponse'
  BY <1>1 DEF OwnResponse, Straddled
<1>7. StoppedTable'
  BY <1>1 DEF StoppedTable, Straddled
<1>8. Kept'
  BY <1>1 DEF Kept, Waiting, Straddled, Robbed, Reading
<1> QED
  BY <1>2, <1>3, <1>4, <1>5, <1>6, <1>7, <1>8

\* A response finds the callback of the request it answers, or none, or its call straddled:
\* had it been sent on the connection of its label, the label would be its own.
LEMMA AnswerLInv ==
    ASSUME IInv, LInv, NEW r \in Requests, Respond(r) \/ BatchStart(r) \/ BatchEnd(r)
    PROVE  LInv'
<1> USE DEF IInv, Types
<1>1. wire[r] = gen /\ gen > 0 /\ Reading
  BY DEF Respond, BatchStart, BatchEnd, Answerable, Reading, LInv, Begun
<1>2. pc[r] = "sent" /\ snap[r] = gen
  BY <1>1 DEF LInv, WireSent
<1>3. ~Fresh(r) /\ label[r] \in Labels /\ Numbering = gen
  BY <1>1, <1>2 DEF LabelGiven, Fresh, Numbering, Reading
<1>4. labelCallbacks[label[r]] \in {r, None} \/ Straddled(r)
  <2>1. SUFFICES ASSUME labelCallbacks[label[r]] # None, home[r] = gen
                 PROVE  labelCallbacks[label[r]] = r
    BY <1>2 DEF Straddled
  <2>2. PICK q \in Requests : labelCallbacks[label[r]] = q
    BY <1>3, <2>1
  <2>3. ~Fresh(q) /\ label[q] = label[r] /\ home[q] = gen
    BY <1>3, <2>2 DEF FreshUntouched, InTable, LInv, TableNumbered
  <2> QED
    BY <1>3, <2>1, <2>2, <2>3 DEF LInv, LabelsUnique
<1>5. CASE Respond(r)
  BY <1>2, <1>3, <1>4, <1>5, DeliverLInv DEF Respond
<1>6. CASE BatchEnd(r)
  BY <1>2, <1>3, <1>4, <1>6, DeliverLInv DEF BatchEnd
<1>7. CASE BatchStart(r)
  BY <1>7 DEF BatchStart, LInv, Begun, LabelsBelow, LabelsUnique, TableNumbered, WireSent,
              AnsweredSent, StoppedTable, Kept, OwnResponse, Waiting, InTable, Fresh, Numbering,
              Straddled, Robbed, Reading
<1> QED
  BY <1>5, <1>6, <1>7

\* expireBatches(false) gives nil.
LEMMA ExpireLInv == ASSUME IInv, LInv, NEW l \in Labels, Expire(l) PROVE LInv'
<1>1. PICK old \in SUBSET batches : wire' = [r \in Requests |-> IF r \in old THEN 0 ELSE wire[r]]
  BY DEF Expire
<1>2. wire' \in [Requests -> Nat] /\ \A r \in Requests : wire'[r] \in {wire[r], 0}
  BY <1>1 DEF IInv, Types
<1> QED
  BY <1>2, DeliverLInv DEF Expire

\* Connect starts a numbering of its own, and waitForStop runs every callback it takes out of
\* the table.
LEMMA LifecycleLInv ==
    ASSUME IInv, LInv, Dialed \/ ResetLabels \/ ProcessAckedCaps \/ CloseEnd \/ ExpireAll
    PROVE  LInv'
<1> USE DEF IInv, Types, LInv
<1>1. UNCHANGED <<pc, label, home, snap, wire>>
  BY DEF Dialed, ResetLabels, ProcessAckedCaps, CloseEnd, ExpireAll
<1>2. \A r \in Requests : /\ Fresh(r)' <=> Fresh(r)
                          /\ Straddled(r)' <=> Straddled(r)
                          /\ Robbed(r)' <=> Robbed(r)
  BY <1>1 DEF Fresh, Straddled, Robbed
<1>3. WireSent' /\ LabelsUnique'
  BY <1>1, <1>2 DEF WireSent, LabelsUnique
<1>4. CASE ResetLabels
  <2>1. Numbering' = gen /\ Numbering = gen - 1 /\ gen' = gen /\ gen > 0
    BY <1>4 DEF ResetLabels, Numbering, Begun
  <2>2. \A r \in Requests : ~Fresh(r) => home[r] < gen
    BY <2>1 DEF LabelsBelow
  <2>3. \A r \in Requests : ~InTable(r)'
    BY <1>4 DEF ResetLabels, InTable
  <2>4. Begun' /\ LabelsBelow' /\ TableNumbered' /\ StoppedTable'
    BY <1>1, <1>2, <1>4, <2>1, <2>2, <2>3
       DEF ResetLabels, Begun, LabelsBelow, TableNumbered, StoppedTable, InTable
  <2>5. AnsweredSent' /\ OwnResponse'
    BY <1>1, <1>2, <1>4 DEF ResetLabels, AnsweredSent, OwnResponse, Straddled
  <2>6. \A r \in Requests : Waiting(r)' => Waiting(r) /\ ~InTable(r)
    BY <1>1, <1>2, <1>4, <2>1, <2>2 DEF ResetLabels, Waiting, StoppedTable, Fresh
  <2>7. Kept'
    BY <1>1, <1>2, <1>4, <2>6 DEF Kept, ResetLabels
  <2> QED
    BY <1>3, <2>4, <2>5, <2>7
<1>5. CASE ExpireAll
  <2>1. Numbering' = Numbering
    BY <1>5 DEF ExpireAll, Numbering
  <2>2. \A r \in Requests : ~InTable(r)'
    BY <1>5 DEF ExpireAll, InTable
  <2>3. Begun' /\ LabelsBelow' /\ TableNumbered' /\ StoppedTable'
    BY <1>1, <1>2, <1>5, <2>1, <2>2
       DEF ExpireAll, Begun, LabelsBelow, TableNumbered, StoppedTable, InTable
  <2>4. \A r \in Requests : /\ calls'[r] = IF InTable(r) THEN 1 ELSE calls[r]
                            /\ got'[r] = IF InTable(r) THEN "nil" ELSE got[r]
    BY <1>5 DEF ExpireAll, InTable, TableNotRun
  <2>5. AnsweredSent' /\ OwnResponse'
    BY <1>1, <1>2, <2>4 DEF AnsweredSent, OwnResponse, Straddled
  <2>6. \A r \in Requests : Waiting(r)' => Waiting(r)
    BY <1>1, <1>2, <1>5 DEF ExpireAll, Waiting, Reading
  <2>7. Kept'
    BY <1>2, <2>4, <2>6 DEF Kept
  <2> QED
    BY <1>3, <2>3, <2>5, <2>7
<1>6. CASE Dialed \/ ProcessAckedCaps \/ CloseEnd
  <2>1. Numbering' = Numbering
    BY <1>6 DEF Dialed, ProcessAckedCaps, CloseEnd, Numbering
  <2>2. UNCHANGED <<labelCallbacks, labelCounter, calls, got>>
    BY <1>6 DEF Dialed, ProcessAckedCaps, CloseEnd
  <2>3. Begun'
    BY <1>6 DEF Dialed, ProcessAckedCaps, CloseEnd, Begun
  <2>4. LabelsBelow' /\ TableNumbered'
    BY <1>1, <1>2, <2>1, <2>2 DEF LabelsBelow, TableNumbered
  <2>5. AnsweredSent' /\ OwnResponse'
    BY <1>1, <1>2, <2>2 DEF AnsweredSent, OwnResponse, Straddled
  <2>6. StoppedTable'
    BY <1>1, <1>2, <1>6, <2>2
       DEF StoppedTable, InTable, Dialed, ProcessAckedCaps, CloseEnd
  <2>7. \A r \in Requests : Waiting(r)' => Waiting(r)
    BY <1>1, <1>2, <1>6 DEF Dialed, ProcessAckedCaps, CloseEnd, Waiting, Reading
  <2>8. Kept'
    BY <1>2, <2>2, <2>7 DEF Kept, InTable
  <2> QED
    BY <1>3, <2>3, <2>4, <2>5, <2>6, <2>8
<1> QED
  BY <1>4, <1>5, <1>6

\* Every step preserves the invariant.
LEMMA NextLInv == IInv /\ LInv /\ [Next]_vars => LInv'
<1> SUFFICES ASSUME IInv, LInv, [Next]_vars PROVE LInv'
  OBVIOUS
<1>1. ASSUME NEW r \in Requests, SendWithLabel(r) PROVE LInv'
  BY <1>1, RegisterLInv, MoveLInv, UnregisterLInv DEF SendWithLabel
<1>2. ASSUME NEW r \in Requests, Respond(r) \/ BatchStart(r) \/ BatchEnd(r) PROVE LInv'
  BY <1>2, AnswerLInv
<1>3. ASSUME NEW l \in Labels, Expire(l) PROVE LInv'
  BY <1>3, ExpireLInv
<1>4. CASE Dialed \/ ResetLabels \/ ProcessAckedCaps \/ CloseEnd \/ ExpireAll
  BY <1>4, LifecycleLInv
<1>5. CASE UNCHANGED vars
  BY <1>5 DEF vars, LInv, Begun, LabelsBelow, LabelsUnique, TableNumbered, WireSent, AnsweredSent,
              StoppedTable, Kept, OwnResponse, Waiting, InTable, Fresh, Numbering, Straddled,
              Robbed, Reading
<1> QED
  BY <1>1, <1>2, <1>3, <1>4, <1>5 DEF Next

\* Both invariants hold in every reachable state.
THEOREM LabelInvariance == Spec => []LInv
  BY Invariance, InitLInv, NextLInv, PTL DEF Spec

\* A callback is given the response to another request only if the call of that one straddled
\* a reconnection, for any number of requests and connections and any interleaving.
THEOREM AnswersMatch == Spec => []OwnResponse
<1>1. LInv => OwnResponse
  BY DEF LInv
<1> QED
  BY <1>1, LabelInvariance, PTL

\* And after SendWithLabel returned nil, the callback has run or a response, the expiry or the
\* end of the connection will find it, unless its call straddled a reconnection or was robbed
\* by one that did.
THEOREM NotLost == Spec => []CallbackNotLost
<1>1. LInv => CallbackNotLost
  BY DEF LInv, Kept, Waiting, CallbackNotLost, InTable
<1> QED
  BY <1>1, LabelInvariance, PTL
=============================================================================
