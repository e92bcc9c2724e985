---------------------------- MODULE MCCallbacks ----------------------------
(* Instances of Callbacks for TLC. *)
EXTENDS Callbacks, TLC

CONSTANTS f1, f2, f3, d1

MCFuncs == {f1, f2, f3}
MCCommands == {RPL_ENDOFMOTD, ERR_NOMOTD}
Symmetric == Permutations(MCFuncs)
=============================================================================
