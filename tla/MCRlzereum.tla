----------------------------- MODULE MCRlzereum -----------------------------
(* Rlzereum for TLC: two chain configurations that part at block 2, a chain *)
(* of at most three blocks, and peer budgets around the light-peer guard.   *)
EXTENDS Rlzereum, TLC

CONSTANTS OldCfg, NewCfg

MCConfigs    == {OldCfg, NewCfg}
MCPeerCounts == {0, 1, 2}

ConfigSymmetry == Permutations(MCConfigs)
=============================================================================
