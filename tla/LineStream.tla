----------------------------- MODULE LineStream -----------------------------
(***************************************************************************)
(* What ircreader.Reader promises its caller, without buffers: ReadLine     *)
(* returns the lines of the byte stream one by one, in order, none lost or *)
(* split; it never holds more than MaxSize bytes, and gives up only when   *)
(* it holds that many without a newline.                                   *)
(***************************************************************************)
EXTENDS Integers

CONSTANTS LF, CR, Length, MaxSize

VARIABLES
    input,   \* the bytes the peer sends, 0 .. Length - 1
    got,     \* how many of them were read from the connection
    pos,     \* how many of them were returned as lines
    calling, \* inside ReadLine
    result,  \* how the last call ended
    line     \* the line it returned

streamVars == <<input, got, pos, calling, result, line>>

\* The bytes from p up to the newline at k, without the \r of a \r\n.
Text(p, k) ==
    LET stop == IF p < k /\ input[k - 1] = CR THEN k - 1 ELSE k
    IN  [i \in 1 .. stop - p |-> input[p + i - 1]]

LinePending == \E k \in pos .. got - 1 : input[k] = LF

Init == got = 0 /\ pos = 0 /\ calling = FALSE /\ result = "none" /\ line = <<>>

Call ==
    /\ ~calling /\ calling' = TRUE
    /\ UNCHANGED <<input, got, pos, result, line>>

\* Nothing is read while a complete line is at hand.
Receive ==
    /\ calling /\ ~LinePending
    /\ got' \in got .. Length /\ got' - pos <= MaxSize
    /\ UNCHANGED <<input, pos, calling, result, line>>

ReturnLine ==
    /\ calling
    /\ \E k \in pos .. got - 1 :
          /\ input[k] = LF /\ \A i \in pos .. k - 1 : input[i] # LF
          /\ line' = Text(pos, k) /\ pos' = k + 1
    /\ result' = "line" /\ calling' = FALSE
    /\ UNCHANGED <<input, got>>

ReturnReadQ ==
    /\ calling /\ ~LinePending /\ got - pos = MaxSize
    /\ result' = "readq" /\ line' = <<>> /\ calling' = FALSE
    /\ UNCHANGED <<input, got, pos>>

\* An error of the connection; bytes may have come with it.
ReturnError ==
    /\ calling /\ ~LinePending
    /\ got' \in got .. Length /\ got' - pos <= MaxSize
    /\ result' \in {"eof", "err"} /\ (result' = "eof" => got' = got)
    /\ line' = <<>> /\ calling' = FALSE
    /\ UNCHANGED <<input, pos>>

Next == Call \/ Receive \/ ReturnLine \/ ReturnReadQ \/ ReturnError

Spec == Init /\ [][Next]_streamVars
=============================================================================
