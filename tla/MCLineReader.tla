---------------------------- MODULE MCLineReader ----------------------------
(* Instance of LineReader for TLC, with the bit arithmetic of               *)
(* roundUpToPowerOfTwo.                                                     *)
EXTENDS LineReader, Bitwise

CONSTANT x  \* an ordinary byte

Smear(v, k) == v | (v \div 2^k)  \* v |= v >> k

roundUpToPowerOfTwo(v) == Smear(Smear(Smear(Smear(Smear(v - 1, 1), 2), 4), 8), 16) + 1

\* The least power of two that is not smaller, for every buffer length up to the
\* 8192 + 1024 bytes of NewIRCReader near the powers of two.
ASSUME RoundUpIsLeastPower ==
    \A i \in 0 .. 13 : \A v \in (2^i - 1) .. (2^i + 1) :
        v >= 1 => roundUpToPowerOfTwo(v) =
                  2^(CHOOSE j \in 0 .. 15 : 2^j >= v /\ \A m \in 0 .. j - 1 : 2^m < v)
=============================================================================
