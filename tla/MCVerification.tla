--------------------------- MODULE MCVerification ---------------------------
(* Small instances of Verification.                                         *)
EXTENDS Verification, TLC

Symmetry == Permutations(Calls)
==============================================================================
