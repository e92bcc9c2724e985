----------------------------- MODULE Selections -----------------------------
(***************************************************************************)
(* A loop that copies what it wants of a list, as in removeCallbackNoMutex  *)
(* and handleCAPLS.  It is SelectSeq with a set for the test, written as a  *)
(* recursive function so that proofs can unfold it.                        *)
(***************************************************************************)
EXTENDS Naturals, Sequences

\* The elements of list that are in wanted, in their order.
Select(list, wanted) ==
    LET upTo[n \in 0 .. Len(list)] ==
            IF n = 0 THEN <<>>
            ELSE IF list[n] \in wanted THEN Append(upTo[n - 1], list[n]) ELSE upTo[n - 1]
    IN  upTo[Len(list)]
=============================================================================
