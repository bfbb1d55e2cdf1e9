------------------------------ MODULE MCMining ------------------------------
(***************************************************************************)
(* Mining for TLC: two API goroutines, two addresses of which the first    *)
(* wallet holds one, every engine New can create, and at most one pending  *)
(* miner.Start goroutine per address.  Two callers are what every race of the module   *)
(* needs; the second address is one no wallet holds, so that the error     *)
(* return of StartMining is taken.                                         *)
(***************************************************************************)
EXTENDS Mining

CONSTANTS c1, c2, Wallet, Foreign

MCCallers       == {c1, c2}
MCAddresses     == {Wallet, Foreign}
MCLocalAccounts == {Wallet}
MCChainConfigs  == SUBSET {"clique", "alien"}
MCPowModes      == {"normal", "fake", "test", "shared"}

=============================================================================
