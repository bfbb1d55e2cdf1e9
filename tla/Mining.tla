------------------------------- MODULE Mining -------------------------------
(***************************************************************************)
(* The reward address and the miner controls of dsp/backend.go:            *)
(* Rlzerbase, SetRlzerbase, StartMining and StopMining, called by          *)
(* concurrent API goroutines.                                              *)
(*                                                                         *)
(* s.dsperbase is read and written under s.lock, one access per critical   *)
(* section, so every critical section is one atomic step here.  What the   *)
(* lock does not cover is what lies between two sections of one call, the  *)
(* calls into the miner, and the goroutine StartMining leaves behind.      *)
(***************************************************************************)
EXTENDS Naturals, FiniteSets

CONSTANTS
    Callers,        \* goroutines that call the API
    Addresses,      \* non-zero account addresses
    NoAddr,         \* common.Address{}
    LocalAccounts,  \* accounts for which accountManager.Find finds a wallet
    ChainConfigs,   \* the engines a chain configuration asks for: chainConfig.Clique
                    \* and chainConfig.Alien, "clique" and "alien" where not nil
    PowModes,       \* values of config.PowMode
    MaxSpawned      \* bound on miner.Start goroutines that have not yet run

ASSUME /\ NoAddr \notin Addresses
       /\ LocalAccounts \subseteq Addresses
       /\ ChainConfigs \subseteq SUBSET {"clique", "alien"}
       /\ PowModes \subseteq {"normal", "fake", "test", "shared"}
       /\ MaxSpawned \in Nat \ {0}

VARIABLES
    wallet,      \* wallets[0].Accounts()[0].Address, NoAddr without one
    engine,      \* s.engine
    dsperbase,   \* s.dsperbase
    minerBase,   \* the miner's reward address
    mining,      \* the miner is running
    signer,      \* the account the sealing engine is authorised for
    acceptTxs,   \* protocolManager.acceptTxs
    spawned,     \* spawned[a]: goroutines "go s.miner.Start(a)" yet to run
    pc,          \* pc[c]: where caller c is in its call
    eb,          \* eb[c]: the address caller c holds in a local variable
    loc          \* loc[c]: the "local" argument of c's StartMining

fixed == <<wallet, engine>>      \* what no call changes
vars  == <<fixed, dsperbase, minerBase, mining, signer, acceptTxs, spawned, pc, eb, loc>>

MaybeAddr == Addresses \cup {NoAddr}
Sealers   == {"clique", "alien"}

\* The engine New creates: proof of authority where the chain configuration
\* asks for it, clique before alien, else the proof of work of the mode.
CreateConsensusEngine(chainConfig, powMode) ==
    CASE "clique" \in chainConfig -> "clique"
      [] "alien" \in chainConfig  -> "alien"
      [] OTHER -> [fake |-> "faker", test |-> "tester", shared |-> "shared",
                   normal |-> "dspash"][powMode]

Goto(c, label) == pc' = [pc EXCEPT ![c] = label]
Hold(c, a)     == eb' = [eb EXCEPT ![c] = a]

-----------------------------------------------------------------------------
(* The miner, outside dsp/backend.go *)

\* miner.Start(a), run by the goroutine StartMining spawned: the miner takes
\* a as its reward address and runs.
MinerStart(a) ==
    /\ spawned[a] > 0
    /\ spawned' = [spawned EXCEPT ![a] = @ - 1]
    /\ minerBase' = a
    /\ mining' = TRUE
    /\ UNCHANGED <<fixed, dsperbase, signer, acceptTxs, pc, eb, loc>>

-----------------------------------------------------------------------------
(* Rlzerbase *)

\* Goes on with the zero address where Rlzerbase returns an error.
ResolveIgnoresError(c, store, after) ==
    /\ Hold(c, IF dsperbase # NoAddr THEN dsperbase ELSE wallet)
    /\ Goto(c, IF dsperbase = NoAddr /\ wallet # NoAddr THEN store ELSE after)

\* Rlzerbase from its read of s.dsperbase to its return, or to the point
\* where it is about to store the first wallet account; "after" is where
\* the caller goes on with an address, "store" where it stores one first.
Resolve(c, store, after) ==
    \/ /\ dsperbase # NoAddr
       /\ Hold(c, dsperbase) /\ Goto(c, after)
    \/ /\ dsperbase = NoAddr /\ wallet # NoAddr
       /\ Hold(c, wallet) /\ Goto(c, store)
    \/ /\ dsperbase = NoAddr /\ wallet = NoAddr             \* error return
       /\ Hold(c, NoAddr) /\ Goto(c, "idle")

Rlzerbase(c) ==
    /\ pc[c] = "idle"
    /\ Resolve(c, "rb_store", "idle")
    /\ UNCHANGED <<fixed, dsperbase, minerBase, mining, signer, acceptTxs, spawned, loc>>

\* The second critical section of Rlzerbase: the automatically configured
\* address is stored, whatever s.dsperbase holds by now.
RlzerbaseStore(c) ==
    /\ pc[c] \in {"rb_store", "sm_store"}
    /\ dsperbase' = eb[c]
    /\ Goto(c, IF pc[c] = "sm_store" THEN "authorize" ELSE "idle")
    /\ UNCHANGED <<fixed, minerBase, mining, signer, acceptTxs, spawned, eb, loc>>

-----------------------------------------------------------------------------
(* SetRlzerbase *)

SetRlzerbase(c, a) ==
    /\ pc[c] = "idle"
    /\ dsperbase' = a
    /\ Hold(c, a) /\ Goto(c, "set_miner")
    /\ UNCHANGED <<fixed, minerBase, mining, signer, acceptTxs, spawned, loc>>

\* s.miner.SetRlzerbase, after the lock was released.
SetMinerBase(c) ==
    /\ pc[c] = "set_miner"
    /\ minerBase' = eb[c]
    /\ Goto(c, "idle")
    /\ UNCHANGED <<fixed, dsperbase, mining, signer, acceptTxs, spawned, eb, loc>>

-----------------------------------------------------------------------------
(* StartMining, StopMining *)

\* Authorises the engine for any address, found in a wallet or not.
AuthorizeUnchecked(c) ==
    /\ pc[c] = "authorize"
    /\ signer' = IF engine \in Sealers THEN eb[c] ELSE signer
    /\ Goto(c, "launch")
    /\ UNCHANGED <<fixed, dsperbase, minerBase, mining, acceptTxs, spawned, eb, loc>>

StartMining(c, local) ==
    /\ pc[c] = "idle"
    /\ loc' = [loc EXCEPT ![c] = local]
    /\ Resolve(c, "sm_store", "authorize")
    /\ UNCHANGED <<fixed, dsperbase, minerBase, mining, signer, acceptTxs, spawned>>

\* A sealing engine (clique, alien) is authorised for the address, if a
\* wallet holds it; StartMining returns an error otherwise.
Authorize(c) ==
    /\ pc[c] = "authorize"
    /\ \/ /\ engine \in Sealers /\ eb[c] \in LocalAccounts
          /\ signer' = eb[c]
          /\ Goto(c, "launch")
       \/ /\ engine \in Sealers /\ eb[c] \notin LocalAccounts
          /\ Goto(c, "idle")
          /\ UNCHANGED signer
       \/ /\ engine \notin Sealers
          /\ Goto(c, "launch")
          /\ UNCHANGED signer
    /\ UNCHANGED <<fixed, dsperbase, minerBase, mining, acceptTxs, spawned, eb, loc>>

\* Transactions are accepted from now on if mining is local, and the miner
\* is started in a goroutine of its own.
Launch(c) ==
    /\ pc[c] = "launch"
    /\ spawned[eb[c]] < MaxSpawned
    /\ acceptTxs' = (acceptTxs \/ loc[c])
    /\ spawned' = [spawned EXCEPT ![eb[c]] = @ + 1]
    /\ Goto(c, "idle")
    /\ UNCHANGED <<fixed, dsperbase, minerBase, mining, signer, eb, loc>>

StopMining(c) ==
    /\ pc[c] = "idle"
    /\ mining' = FALSE
    /\ UNCHANGED <<fixed, dsperbase, minerBase, signer, acceptTxs, spawned, pc, eb, loc>>

-----------------------------------------------------------------------------

Init ==
    /\ wallet \in LocalAccounts \cup {NoAddr}
    /\ engine \in {CreateConsensusEngine(cc, m) : cc \in ChainConfigs, m \in PowModes}
    /\ dsperbase \in MaybeAddr              \* config.Rlzerbase
    /\ minerBase = NoAddr
    /\ mining = FALSE
    /\ signer = NoAddr
    /\ acceptTxs = FALSE
    /\ spawned = [a \in Addresses |-> 0]
    /\ pc = [c \in Callers |-> "idle"]
    /\ eb = [c \in Callers |-> NoAddr]
    /\ loc = [c \in Callers |-> FALSE]

Next ==
    \/ \E c \in Callers :
        \/ Rlzerbase(c)
        \/ RlzerbaseStore(c)
        \/ \E a \in MaybeAddr : SetRlzerbase(c, a)
        \/ SetMinerBase(c)
        \/ \E local \in BOOLEAN : StartMining(c, local)
        \/ Authorize(c)
        \/ Launch(c)
        \/ StopMining(c)
    \/ \E a \in Addresses : MinerStart(a)

Spec == Init /\ [][Next]_vars

-----------------------------------------------------------------------------

TypeOK ==
    /\ wallet \in LocalAccounts \cup {NoAddr}
    /\ engine \in Sealers \cup {"faker", "tester", "shared", "dspash"}
    /\ dsperbase \in MaybeAddr /\ minerBase \in MaybeAddr /\ signer \in MaybeAddr
    /\ mining \in BOOLEAN /\ acceptTxs \in BOOLEAN
    /\ spawned \in [Addresses -> 0..MaxSpawned]
    /\ pc \in [Callers -> {"idle", "rb_store", "sm_store", "set_miner",
                           "authorize", "launch"}]
    /\ eb \in [Callers -> MaybeAddr]
    /\ \A c \in Callers : pc[c] \notin {"idle", "set_miner"} => eb[c] \in Addresses
    /\ loc \in [Callers -> BOOLEAN]

\* No call is in progress and no spawned goroutine is still to run.
Quiet ==
    /\ \A c \in Callers : pc[c] = "idle"
    /\ \A a \in Addresses : spawned[a] = 0

\* With a sealing engine the miner is started, or about to be, only for an
\* account a local wallet can sign with, and only after the engine was
\* authorised: StartMining returns before "go s.miner.Start" when
\* accountManager.Find fails, whichever callers interleave with it.
StartedOnlyAuthorized ==
    engine \in Sealers =>
        /\ \A a \in Addresses : spawned[a] > 0 => a \in LocalAccounts
        /\ (mining \/ \E a \in Addresses : spawned[a] > 0) => signer \in LocalAccounts

\* SetRlzerbase "sets the mining reward address": once every call has
\* returned and every goroutine has run, a running miner pays the address
\* the node reports as its etherbase.
MinerPaysEtherbase ==
    (Quiet /\ mining) => minerBase = dsperbase

\* s.lock "protects" dsperbase: the automatic configuration of Rlzerbase
\* fills in an address only where none is set, and never replaces one.
AutoConfigFillsOnlyUnset ==
    [][\A c \in Callers :
         (pc[c] \in {"rb_store", "sm_store"} /\ pc'[c] # pc[c] /\ dsperbase # NoAddr)
             => dsperbase' = dsperbase]_vars

=============================================================================
