-------------------------- MODULE MCLabeledResponse --------------------------
(* Instances of LabeledResponse for TLC: requests as model values.           *)
EXTENDS LabeledResponse

CONSTANTS r1, r2
=============================================================================
