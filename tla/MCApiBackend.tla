---------------------------- MODULE MCApiBackend ----------------------------
(***************************************************************************)
(* ApiBackend for TLC: two callers and the block numbers pending, latest,  *)
(* an undefined negative one, and every height up to one past the bound.   *)
(***************************************************************************)
EXTENDS ApiBackend, TLC

CONSTANTS c1, c2

MCCallers      == {c1, c2}
MCBlockNumbers == -3 .. 3
CallerSymmetry == Permutations(MCCallers)

=============================================================================
