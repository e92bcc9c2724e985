----------------------------- MODULE SaslBuffer -----------------------------
(***************************************************************************)
(* EncodeSASLResponse and SASLBuffer of ircutils/sasl.go.  Four characters  *)
(* of base64 are one group, the sequence of the one to three bytes they     *)
(* stand for, or <<>> if they are not base64.  A text is the sequence of    *)
(* its groups; a buffer is the sequence of the bytes decoded so far.        *)
(***************************************************************************)
EXTENDS Naturals, Sequences, SequencesExt

CONSTANT ChunkGroups  \* groups in a full chunk: 100 (400 characters)

ASSUME ChunkAssumption == ChunkGroups \in Nat \ {0}

\* The parameter "+".  No group of four is "+", so the empty text can stand for it.
Plus == <<>>

NoError == ""  \* a nil error

GroupCount(n) == (n + 2) \div 3
Upto(n, limit) == IF n < limit THEN n ELSE limit

\* base64.StdEncoding.EncodeToString: groups of three bytes, then what is left.
EncodeToString(raw) ==
    [i \in 1 .. GroupCount(Len(raw)) |-> SubSeq(raw, 3 * i - 2, Upto(3 * i, Len(raw)))]

\* Mutant: the end of a response of full chunks is not marked.
EncodeSASLResponseUnmarked(raw) ==
    LET text == EncodeToString(raw)
        count == (Len(text) + ChunkGroups - 1) \div ChunkGroups
    IN  IF raw = <<>> THEN <<Plus>>
        ELSE [i \in 1 .. count |->
                 SubSeq(text, (i - 1) * ChunkGroups + 1, Upto(i * ChunkGroups, Len(text)))]

\* Full chunks, a shorter one if something is left, "+" if not.
EncodeSASLResponse(raw) ==
    LET text == EncodeToString(raw)
        count == (Len(text) + ChunkGroups - 1) \div ChunkGroups
        chunks == [i \in 1 .. count |->
                      SubSeq(text, (i - 1) * ChunkGroups + 1, Upto(i * ChunkGroups, Len(text)))]
    IN  IF raw = <<>> THEN <<Plus>>
        ELSE chunks \o IF Len(text) % ChunkGroups = 0 THEN <<Plus>> ELSE <<>>

\* Padding ends the text: only the last group may be short.
IsBase64(text) ==
    \A i \in DOMAIN text : text[i] # <<>> /\ (i < Len(text) => Len(text[i]) = 3)

\* What Add returns, and the buffer it leaves.
Result(done, output, err, buf) == [done |-> done, output |-> output, err |-> err, buf |-> buf]

\* Add, with the amount it compares with the limit and what is left after an error: the
\* cases are those of the code, in its order.
AddWith(amount, rest, buf, maxLength, value) ==
    IF value = Plus THEN Result(TRUE, buf, NoError, <<>>)
    ELSE IF Len(value) > ChunkGroups THEN Result(TRUE, <<>>, "ErrSASLTooLong", rest)
    ELSE IF maxLength # 0 /\ amount > maxLength
         THEN Result(TRUE, <<>>, "ErrSASLLimitExceeded", rest)
    ELSE IF ~IsBase64(value) THEN Result(TRUE, <<>>, "CorruptInputError", rest)
    ELSE IF Len(value) < ChunkGroups THEN Result(TRUE, buf \o FlattenSeq(value), NoError, <<>>)
    ELSE Result(FALSE, <<>>, NoError, buf \o FlattenSeq(value))

\* Mutant: the limit is that of one chunk.
AddUnbounded(buf, maxLength, value) ==
    AddWith(3 * Len(value), <<>>, buf, maxLength, value)

\* Mutant: the buffer is not cleared on an error.
AddKeeps(buf, maxLength, value) ==
    AddWith(Len(buf) + 3 * Len(value), buf, buf, maxLength, value)

\* (*SASLBuffer).Add: DecodedLen counts three bytes for every group, padded or not.
Add(buf, maxLength, value) ==
    AddWith(Len(buf) + 3 * Len(value), <<>>, buf, maxLength, value)
=============================================================================
