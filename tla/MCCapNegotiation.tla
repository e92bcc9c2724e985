-------------------------- MODULE MCCapNegotiation --------------------------
(* Instances of CapNegotiation for TLC. *)
EXTENDS CapNegotiation

ThreeCaps == <<"batch", "labeled-response", "sasl">>
=============================================================================
