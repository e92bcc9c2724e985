----------------------------- MODULE LineReader -----------------------------
(***************************************************************************)
(* ircreader.Reader (src/ircreader/ircreader.go): the buffered line reader  *)
(* that grows its buffer from InitialSize up to MaxSize.  buf[0 .. cap - 1] *)
(* is the slice; the bytes beyond cap do not exist in the code.  The peer's *)
(* bytes are fixed in the initial state, how Read hands them out is not.   *)
(***************************************************************************)
EXTENDS Integers

CONSTANTS
    Byte, LF, CR, NUL,    \* bytes; the two terminators; the byte of a fresh buffer
    Length,               \* bound: number of bytes the peer sends
    InitialSize, MaxSize, \* the arguments of Initialize
    RoundUp(_)            \* roundUpToPowerOfTwo

ASSUME ByteAssumption == LF \in Byte /\ CR \in Byte /\ LF # CR
ASSUME NULAssumption == NUL # LF
ASSUME LengthAssumption == Length \in Nat
ASSUME SizeAssumption ==
    InitialSize \in Nat /\ MaxSize \in Nat /\ 2 <= InitialSize /\ InitialSize <= MaxSize
ASSUME RoundUpAssumption == \A v \in 1 .. MaxSize : RoundUp(v) \in Nat /\ v <= RoundUp(v)

VARIABLES
    input, got,             \* the connection: its bytes, how many were read
    buf, cap,               \* cc.buf, len(cc.buf)
    start, end, searchFrom, \* cc.start, cc.end, cc.searchFrom
    eof,                    \* cc.eof
    pc,                     \* position in ReadLine, "idle" outside
    result, line            \* what the last call returned

vars == <<input, got, buf, cap, start, end, searchFrom, eof, pc, result, line>>

Index == 0 .. MaxSize - 1

\* Initialize: everything is zero but the limits.
Init ==
    /\ input \in [0 .. Length - 1 -> Byte] /\ got = 0
    /\ buf = [i \in Index |-> NUL] /\ cap = 0
    /\ start = 0 /\ end = 0 /\ searchFrom = 0 /\ eof = FALSE
    /\ pc = "idle" /\ result = "none" /\ line = <<>>

Call ==
    /\ pc = "idle" /\ pc' = "search"
    /\ UNCHANGED <<input, got, buf, cap, start, end, searchFrom, eof, result, line>>

\* bytes.IndexByte on the data that was not searched yet.
FirstNewline(k) ==
    /\ k \in searchFrom .. end - 1 /\ buf[k] = LF
    /\ \A i \in searchFrom .. k - 1 : buf[i] # LF

NoNewline == \A i \in searchFrom .. end - 1 : buf[i] # LF

\* Mutant: the \r stays.
ChompNothing(k) == [i \in 1 .. k - start |-> buf[start + i - 1]]

\* buf[start : k] without a trailing \r.
Chomp(k) ==
    LET stop == IF start < k /\ buf[k - 1] = CR THEN k - 1 ELSE k
    IN  [i \in 1 .. stop - start |-> buf[start + i - 1]]

ReturnLine ==
    /\ pc = "search"
    /\ \E k \in searchFrom .. end - 1 :
          FirstNewline(k) /\ line' = Chomp(k) /\ start' = k + 1 /\ searchFrom' = k + 1
    /\ result' = "line" /\ pc' = "idle"
    /\ UNCHANGED <<input, got, buf, cap, end, eof>>

\* Mutant: the buffer is full only when it has outgrown the limit.
OutOfSpaceLate == start = 0 /\ end = cap /\ cap > MaxSize

OutOfSpace == start = 0 /\ end = cap /\ cap = MaxSize

ReturnReadQ ==
    /\ pc = "search" /\ NoNewline /\ OutOfSpace
    /\ result' = "readq" /\ line' = <<>> /\ pc' = "idle"
    /\ UNCHANGED <<input, got, buf, cap, start, end, searchFrom, eof>>

ReturnEOF ==
    /\ pc = "search" /\ NoNewline /\ ~OutOfSpace /\ eof
    /\ result' = "eof" /\ line' = <<>> /\ pc' = "idle"
    /\ UNCHANGED <<input, got, buf, cap, start, end, searchFrom, eof>>

\* Mutant: the limit is not enforced.
NewLenUnbounded ==
    LET rounded == RoundUp(cap + 1) IN IF rounded < InitialSize THEN InitialSize ELSE rounded

\* The length of the next buffer.
NewLen ==
    LET rounded == RoundUp(cap + 1)
    IN  IF rounded > MaxSize THEN MaxSize
        ELSE IF rounded < InitialSize THEN InitialSize ELSE rounded

\* Mutant: the data is not moved to the front.
MakeRoomNoSlide ==
    /\ pc = "search" /\ NoNewline /\ ~OutOfSpace /\ ~eof
    /\ cap' = IF cap < MaxSize /\ cap - (end - start) < InitialSize \div 2
              THEN NewLen ELSE cap
    /\ end' = end - start /\ start' = 0 /\ searchFrom' = end - start
    /\ pc' = "read"
    /\ UNCHANGED <<input, got, buf, eof, result, line>>

\* Make room: a new buffer, or the old one with its data moved to the front.
MakeRoom ==
    /\ pc = "search" /\ NoNewline /\ ~OutOfSpace /\ ~eof
    /\ IF cap < MaxSize /\ cap - (end - start) < InitialSize \div 2
       THEN /\ cap' = NewLen
            /\ buf' = [i \in Index |-> IF i < end - start THEN buf[start + i] ELSE NUL]
       ELSE /\ UNCHANGED cap
            /\ buf' = [i \in Index |-> IF i < end - start THEN buf[start + i] ELSE buf[i]]
    /\ end' = end - start /\ start' = 0 /\ searchFrom' = end - start
    /\ pc' = "read"
    /\ UNCHANGED <<input, got, eof, result, line>>

\* conn.Read(buf[end:]) returns n bytes and the error e; EOF that comes with data is
\* remembered, any other error is returned at once.
Read(n, e) ==
    /\ pc = "read" /\ n <= cap - end /\ got + n <= Length
    /\ buf' = [i \in Index |-> IF end <= i /\ i < end + n THEN input[got + i - end] ELSE buf[i]]
    /\ got' = got + n /\ end' = end + n
    /\ eof' = (eof \/ (n # 0 /\ e = "eof"))
    /\ IF e = "nil" \/ (n # 0 /\ e = "eof")
       THEN pc' = "search" /\ UNCHANGED <<result, line>>
       ELSE pc' = "idle" /\ result' = e /\ line' = <<>>
    /\ UNCHANGED <<input, cap, start, searchFrom>>

Next ==
    \/ Call \/ ReturnLine \/ ReturnReadQ \/ ReturnEOF \/ MakeRoom
    \/ \E n \in 0 .. MaxSize, e \in {"nil", "eof", "err"} : Read(n, e)

Spec == Init /\ [][Next]_vars

-----------------------------------------------------------------------------
\* Types; the indices are ordered and the buffer keeps within its hard limit, which is
\* what makes the slice expressions of ReadLine safe.
TypeOK ==
    /\ input \in [0 .. Length - 1 -> Byte] /\ got \in 0 .. Length
    /\ buf \in [Index -> Byte \cup {NUL}]
    /\ cap \in 0 .. MaxSize /\ start \in 0 .. MaxSize /\ end \in 0 .. MaxSize
    /\ searchFrom \in 0 .. MaxSize
    /\ start <= searchFrom /\ searchFrom <= end /\ end <= cap
    /\ eof \in BOOLEAN /\ pc \in {"idle", "search", "read"}
    /\ result \in {"none", "line", "readq", "eof", "err"}

\* The unconsumed part of the buffer is exactly what was last read from the connection,
\* whatever was grown, slid or left behind; and what was searched holds no newline.
BufferIsWindow ==
    /\ end - start <= got
    /\ \A i \in start .. end - 1 : buf[i] = input[got - end + i]
    /\ \A i \in start .. searchFrom - 1 : buf[i] # LF

\* Read is never called with an empty slice: it would return 0, nil for ever and ReadLine
\* would spin.
ReadHasRoom == pc = "read" => end < cap

\* The lines the caller sees are those of the stream.
Stream == INSTANCE LineStream WITH pos <- got - (end - start), calling <- (pc # "idle")
StreamSpec == Stream!Spec
=============================================================================
