---------------------------- MODULE MCLightClient ---------------------------
(***************************************************************************)
(* LightClient for TLC: two chain configurations, a fork at height 2 and   *)
(* chains of up to 3 headers, so that a restart with the other             *)
(* configuration finds the chain below, at and above the fork; one caller  *)
(* and two peers, of which one serves every kind of item and the other     *)
(* headers only, so that a request meets a peer that cannot serve it, a    *)
(* retry and the end of the peers.                                         *)
(***************************************************************************)
EXTENDS LightClient, TLC

CONSTANTS OldCfg, NewCfg, p1, p2, c1

MCConfigs    == {OldCfg, NewCfg}
MCCapability == (p1 :> Kinds) @@ (p2 :> {"header"})

\* pending, latest, a header the chain may hold and one it never does
MCBlockNumbers == {PendingBlockNumber, LatestBlockNumber, 1, 4}

\* a sound proof of what nobody asked for: the genesis block
MCDecoys == {[kind |-> "block", number |-> 0, cfg |-> None]}

\* a header the database may hold, and may lose to a rewind
MCHashes == {[kind |-> "header", number |-> 2, cfg |-> NewCfg]}

=============================================================================
