--------------------------- MODULE MCClearRequest ---------------------------
(* Small instances of ClearRequest. *)
EXTENDS ClearRequest, TLC

CONSTANTS c1, c2
CallSymmetry == Permutations({c1, c2})
=============================================================================
