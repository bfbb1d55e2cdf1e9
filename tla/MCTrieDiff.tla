----------------------------- MODULE MCTrieDiff -----------------------------
(***************************************************************************)
(* TrieDiff for TLC: every pair of tries over three keys and two values,   *)
(* 27 tries and 729 pairs, with every place at which either iterator may   *)
(* fail.  Three keys are what it takes for two tries to agree on their     *)
(* first pair and part at the second.                                      *)
(***************************************************************************)
EXTENDS TrieDiff

CONSTANTS v1, v2

MCKeys   == {1, 2, 3}
MCValues == {v1, v2}

=============================================================================
