-------------------------- MODULE LineReaderProofs --------------------------
(***************************************************************************)
(* LineReader keeps its buffer invariant and implements LineStream, for     *)
(* every stream and every 2 <= InitialSize <= MaxSize.                     *)
(***************************************************************************)
EXTENDS LineReader, TLAPS

\* When Read is called, everything in the buffer has been searched.
ReadAfterSearch == pc = "read" => searchFrom = end

\* The inductive invariant.
IInv == TypeOK /\ BufferIsWindow /\ ReadHasRoom /\ ReadAfterSearch

USE ByteAssumption, NULAssumption, LengthAssumption, SizeAssumption, RoundUpAssumption
USE DEF Index

\* A new buffer is longer than the old one, and within the limit.
LEMMA NewLenFacts ==
    ASSUME cap \in 0 .. MaxSize, cap < MaxSize
    PROVE  NewLen \in 1 .. MaxSize /\ NewLen > cap
<1>1. RoundUp(cap + 1) \in Nat /\ cap + 1 <= RoundUp(cap + 1)
  OBVIOUS
<1> QED
  BY <1>1 DEF NewLen

\* A fresh Reader satisfies the invariant.
LEMMA InitIInv == Init => IInv
<1> SUFFICES ASSUME Init PROVE IInv
  OBVIOUS
<1>1. buf \in [Index -> Byte \cup {NUL}] /\ eof \in BOOLEAN
  BY DEF Init
<1>2. TypeOK
  BY <1>1 DEF Init, TypeOK
<1>3. BufferIsWindow /\ ReadHasRoom /\ ReadAfterSearch
  BY DEF Init, BufferIsWindow, ReadHasRoom, ReadAfterSearch
<1> QED
  BY <1>2, <1>3 DEF IInv

\* Making room leaves room: the buffer grows, or there was free space in it, or the data
\* moves to the front.
LEMMA MakeRoomIInv == ASSUME IInv, MakeRoom PROVE IInv'
<1> USE DEF IInv, TypeOK, BufferIsWindow, ReadHasRoom, ReadAfterSearch
<1>1. cap' \in 0 .. MaxSize /\ end - start < cap'
  <2>1. CASE cap < MaxSize /\ cap - (end - start) < InitialSize \div 2
    BY <2>1, NewLenFacts DEF MakeRoom
  <2>2. CASE ~(cap < MaxSize /\ cap - (end - start) < InitialSize \div 2)
    <3>1. cap' = cap
      BY <2>2 DEF MakeRoom
    <3>2. CASE cap < MaxSize
      <4>1. InitialSize \div 2 >= 1
        OBVIOUS
      <4> QED
        BY <2>2, <3>1, <3>2, <4>1
    <3>3. CASE cap = MaxSize
      BY <3>1, <3>3 DEF MakeRoom, OutOfSpace
    <3> QED
      BY <3>2, <3>3
  <2> QED
    BY <2>1, <2>2
<1>2. /\ end' = end - start /\ start' = 0 /\ searchFrom' = end'
      /\ \A i \in Index : i < end - start => buf'[i] = buf[start + i]
  BY DEF MakeRoom
<1>3. TypeOK'
  <2>1. buf' \in [Index -> Byte \cup {NUL}]
    BY DEF MakeRoom
  <2> QED
    BY <1>1, <1>2, <2>1 DEF MakeRoom
<1>4. BufferIsWindow'
  <2>1. \A i \in start .. end - 1 : buf[i] # LF
    BY DEF MakeRoom, NoNewline
  <2> QED
    BY <1>1, <1>2, <2>1 DEF MakeRoom
<1> QED
  BY <1>1, <1>2, <1>3, <1>4 DEF MakeRoom

\* Reading extends the window by the bytes that were read.
LEMMA ReadIInv ==
    ASSUME IInv, NEW n \in 0 .. MaxSize, NEW e \in {"nil", "eof", "err"}, Read(n, e)
    PROVE  IInv'
<1> USE DEF IInv, TypeOK, BufferIsWindow, ReadHasRoom, ReadAfterSearch
<1>1. TypeOK'
  <2>1. buf' \in [Index -> Byte \cup {NUL}]
    BY DEF Read
  <2>2. eof' \in BOOLEAN
    BY DEF Read
  <2> QED
    BY <2>1, <2>2 DEF Read
<1>2. BufferIsWindow'
  BY DEF Read
<1> QED
  BY <1>1, <1>2 DEF Read

\* Every step preserves the invariant.
LEMMA NextIInv == IInv /\ [Next]_vars => IInv'
<1> SUFFICES ASSUME IInv, [Next]_vars PROVE IInv'
  OBVIOUS
<1> USE DEF IInv, TypeOK, BufferIsWindow, ReadHasRoom, ReadAfterSearch
<1>1. CASE Call
  BY <1>1 DEF Call
<1>2. CASE ReturnLine
  BY <1>2 DEF ReturnLine, FirstNewline
<1>3. CASE ReturnReadQ
  BY <1>3 DEF ReturnReadQ
<1>4. CASE ReturnEOF
  BY <1>4 DEF ReturnEOF
<1>5. CASE MakeRoom
  BY <1>5, MakeRoomIInv
<1>6. ASSUME NEW n \in 0 .. MaxSize, NEW e \in {"nil", "eof", "err"}, Read(n, e) PROVE IInv'
  BY <1>6, ReadIInv
<1>7. CASE UNCHANGED vars
  BY <1>7 DEF vars
<1> QED
  BY <1>1, <1>2, <1>3, <1>4, <1>5, <1>6, <1>7 DEF Next

\* The invariant holds in every reachable state.
THEOREM Invariance == Spec => []IInv
  BY InitIInv, NextIInv, PTL DEF Spec

\* The indices of the buffer stay ordered and within the hard limit.
THEOREM TypeCorrect == Spec => []TypeOK
  BY Invariance, PTL DEF IInv

\* No byte is lost, duplicated or reordered by growing and sliding the buffer.
THEOREM WindowCorrect == Spec => []BufferIsWindow
  BY Invariance, PTL DEF IInv

\* ReadLine never asks the connection for zero bytes.
THEOREM ReadAlwaysHasRoom == Spec => []ReadHasRoom
  BY Invariance, PTL DEF IInv

-----------------------------------------------------------------------------
(* Refinement                                                              *)

\* How much of the stream was returned as lines: the refinement mapping of pos.
Pos == got - (end - start)

\* With everything in the buffer searched, the stream has no complete line to return.
LEMMA NothingPending ==
    ASSUME IInv, \A i \in start .. end - 1 : buf[i] # LF
    PROVE  ~Stream!LinePending
<1> USE DEF IInv, TypeOK, BufferIsWindow
<1> SUFFICES ASSUME NEW k \in Pos .. got - 1, input[k] = LF PROVE FALSE
  BY DEF Stream!LinePending, Pos
<1>1. PICK i \in start .. end - 1 : k = got - end + i
  <2>1. k - got + end \in start .. end - 1 /\ k = got - end + (k - got + end)
    BY DEF Pos
  <2> QED
    BY <2>1
<1>2. buf[i] = input[k]
  BY <1>1
<1> QED
  BY <1>1, <1>2

\* The line cut out of the buffer is the line of the stream.
LEMMA SameLine ==
    ASSUME IInv, NEW k \in start .. end - 1
    PROVE  Chomp(k) = Stream!Text(Pos, got - end + k)
<1> USE DEF IInv, TypeOK, BufferIsWindow
<1> DEFINE j == got - end + k
<1>1. /\ Pos < j <=> start < k
      /\ start < k => buf[k - 1] = input[j - 1]
  BY DEF Pos
<1> DEFINE stopB == IF start < k /\ buf[k - 1] = CR THEN k - 1 ELSE k
           stopS == IF Pos < j /\ input[j - 1] = CR THEN j - 1 ELSE j
<1>2. /\ stopB - start = stopS - Pos
      /\ stopB \in start .. end - 1
  BY <1>1 DEF Pos
<1>3. \A i \in 1 .. stopB - start : buf[start + i - 1] = input[Pos + i - 1]
  <2> SUFFICES ASSUME NEW i \in 1 .. stopB - start PROVE buf[start + i - 1] = input[Pos + i - 1]
    OBVIOUS
  <2>1. start + i - 1 \in start .. end - 1
    BY <1>2
  <2>2. got - end + (start + i - 1) = Pos + i - 1
    BY DEF Pos
  <2> QED
    BY <2>1, <2>2
<1> HIDE DEF stopB, stopS
<1>4. [i \in 1 .. stopB - start |-> buf[start + i - 1]]
        = [i \in 1 .. stopS - Pos |-> input[Pos + i - 1]]
  BY <1>2, <1>3
<1> QED
  BY <1>4 DEF Chomp, Stream!Text, stopB, stopS

\* The initial states of the Reader are initial states of the stream.
LEMMA InitRefines == Init => Stream!Init
  BY DEF Init, Stream!Init

\* Returning a line is returning the next line of the stream.
LEMMA ReturnLineRefines == ASSUME IInv, ReturnLine PROVE Stream!ReturnLine
<1> USE DEF IInv, TypeOK, BufferIsWindow
<1>1. PICK k \in searchFrom .. end - 1 :
         FirstNewline(k) /\ line' = Chomp(k) /\ start' = k + 1 /\ searchFrom' = k + 1
  BY DEF ReturnLine
<1> DEFINE j == got - end + k
<1>2. j \in Pos .. got - 1 /\ input[j] = LF
  BY <1>1 DEF FirstNewline, Pos
<1>3. \A i \in Pos .. j - 1 : input[i] # LF
  <2> SUFFICES ASSUME NEW i \in Pos .. j - 1 PROVE input[i] # LF
    OBVIOUS
  <2> DEFINE b == i - got + end
  <2>1. b \in start .. k - 1 /\ b \in start .. end - 1 /\ got - end + b = i
    BY DEF Pos
  <2>2. buf[b] = input[i]
    BY <2>1
  <2>3. buf[b] # LF
    BY <1>1, <2>1 DEF FirstNewline
  <2> QED
    BY <2>2, <2>3
<1>4. line' = Stream!Text(Pos, j)
  BY <1>1, SameLine
<1>5. got' - (end' - start') = j + 1
  BY <1>1 DEF ReturnLine
<1> QED
  BY <1>2, <1>3, <1>4, <1>5 DEF ReturnLine, Stream!ReturnLine, Pos

\* Giving up happens only with MaxSize bytes and no newline in them.
LEMMA ReturnReadQRefines == ASSUME IInv, ReturnReadQ PROVE Stream!ReturnReadQ
<1>1. \A i \in start .. end - 1 : buf[i] # LF
  BY DEF IInv, TypeOK, BufferIsWindow, ReturnReadQ, NoNewline
<1>2. got - Pos = MaxSize
  BY DEF IInv, TypeOK, ReturnReadQ, OutOfSpace, Pos
<1> QED
  BY <1>1, <1>2, NothingPending DEF ReturnReadQ, Stream!ReturnReadQ, Pos

\* End of file is reported only when no complete line is left.
LEMMA ReturnEOFRefines == ASSUME IInv, ReturnEOF PROVE Stream!ReturnError
<1>1. \A i \in start .. end - 1 : buf[i] # LF
  BY DEF IInv, TypeOK, BufferIsWindow, ReturnEOF, NoNewline
<1>2. got \in got .. Length /\ got - Pos <= MaxSize
  BY DEF IInv, TypeOK, Pos
<1> QED
  BY <1>1, <1>2, NothingPending DEF ReturnEOF, Stream!ReturnError, Pos

\* Making room is invisible to the caller.
LEMMA MakeRoomRefines == ASSUME IInv, MakeRoom PROVE UNCHANGED Stream!streamVars
  BY DEF IInv, TypeOK, MakeRoom, Stream!streamVars

\* A Read that fails ends the call; any other receives bytes.
LEMMA ReadRefines ==
    ASSUME IInv, NEW n \in 0 .. MaxSize, NEW e \in {"nil", "eof", "err"}, Read(n, e)
    PROVE  Stream!Receive \/ Stream!ReturnError
<1>1. \A i \in start .. end - 1 : buf[i] # LF
  BY DEF IInv, TypeOK, BufferIsWindow, ReadAfterSearch, Read
<1>2. /\ got' \in got .. Length /\ got' - Pos <= MaxSize
      /\ got' - (end' - start') = Pos
  BY DEF IInv, TypeOK, Read, Pos
<1>3. n = 0 => got' = got
  BY DEF IInv, TypeOK, Read
<1>4. CASE e = "nil" \/ (n # 0 /\ e = "eof")
  BY <1>1, <1>2, <1>4, NothingPending DEF Read, Stream!Receive, Pos
<1>5. CASE ~(e = "nil" \/ (n # 0 /\ e = "eof"))
  BY <1>1, <1>2, <1>3, <1>5, NothingPending DEF Read, Stream!ReturnError, Pos
<1> QED
  BY <1>4, <1>5

\* The Reader implements the stream of lines: every behaviour of ReadLine, whatever the
\* sizes of the buffer and of the chunks, is one of LineStream.
THEOREM Refinement == Spec => StreamSpec
<1>1. Init => Stream!Init
  BY InitRefines
<1>2. IInv /\ [Next]_vars => [Stream!Next]_(Stream!streamVars)
  <2> SUFFICES ASSUME IInv, [Next]_vars PROVE [Stream!Next]_(Stream!streamVars)
    OBVIOUS
  <2>1. CASE Call
    BY <2>1 DEF Call, Stream!Next, Stream!Call
  <2>2. CASE ReturnLine
    BY <2>2, ReturnLineRefines DEF Stream!Next
  <2>3. CASE ReturnReadQ
    BY <2>3, ReturnReadQRefines DEF Stream!Next
  <2>4. CASE ReturnEOF
    BY <2>4, ReturnEOFRefines DEF Stream!Next
  <2>5. CASE MakeRoom
    BY <2>5, MakeRoomRefines
  <2>6. ASSUME NEW n \in 0 .. MaxSize, NEW e \in {"nil", "eof", "err"}, Read(n, e)
        PROVE  [Stream!Next]_(Stream!streamVars)
    BY <2>6, ReadRefines DEF Stream!Next
  <2>7. CASE UNCHANGED vars
    BY <2>7 DEF vars, Stream!streamVars
  <2> QED
    BY <2>1, <2>2, <2>3, <2>4, <2>5, <2>6, <2>7 DEF Next
<1> QED
  BY Invariance, <1>1, <1>2, PTL DEF Spec, StreamSpec, Stream!Spec

=============================================================================
