------------------------------ MODULE MCBatches ------------------------------
(* Instances of Batches for TLC: batch IDs as model values.                  *)
EXTENDS Batches, TLC

CONSTANTS b1, b2

Symmetry == Permutations(BatchIDs)
=============================================================================
