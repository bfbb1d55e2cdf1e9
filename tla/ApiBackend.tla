----------------------------- MODULE ApiBackend -----------------------------
(***************************************************************************)
(* The API backend of the full node, dsp/api_backend.go: the calls of      *)
(* concurrent RPC goroutines that read the chain while it grows and        *)
(* shrinks under them, and SetHead, which rewinds it.  SetHead of the      *)
(* light client, les/api_backend.go, is the same two calls and is taken    *)
(* in here; the reading calls of the light client, which wait for peers,   *)
(* are in LightClient.  A node has one of the two backends.                *)
(*                                                                         *)
(* A block is a natural number given to it when it is created, and its     *)
(* header is known by that number.  A state is known by the header whose   *)
(* root it is opened at.  chain[n+1] is the canonical block of height n,   *)
(* chain[1] the genesis block.  The pending block of the miner is known by *)
(* the block it is built on.                                               *)
(* The synchroniser, the fetcher and the miner are the environment.        *)
(***************************************************************************)
EXTENDS Integers, Sequences, FiniteSets

CONSTANTS
    Backends,       \* the backends a node may have: "full", "light"
    Callers,        \* goroutines that call the API
    BlockNumbers,   \* the rpc.BlockNumber and uint64 arguments of the calls
    UintWidth,      \* bits of a uint64; any width whose range exceeds MaxHeight
    MaxHeight,      \* bound on the height of the chain
    MaxBlocks,      \* bound on the blocks created in a behaviour
    None            \* nil

PendingBlockNumber == -2
LatestBlockNumber  == -1

ASSUME /\ Backends \subseteq {"full", "light"}
       /\ BlockNumbers \subseteq Int
       /\ MaxHeight \in Nat /\ MaxBlocks \in Nat
       /\ 2 ^ UintWidth > MaxHeight + 3

VARIABLES
    backend,     \* the backend of this node
    chain,       \* the canonical chain
    minted,      \* blocks created so far, the genesis block 0 not counted
    pendingOn,   \* the block the miner's pending block and state are built on
    syncing,     \* the synchroniser is in a run
    pc,          \* pc[c]: where caller c is in its call
    held,        \* held[c]: the header, or the number, caller c holds
    ret          \* ret[c]: what the last call of c returned

vars == <<backend, chain, minted, pendingOn, syncing, pc, held, ret>>

\* blockchain.CurrentBlock
CurrentBlock == chain[Len(chain)]

\* The header of block b, and of the pending block the miner built on b.
HeaderOf(b)  == <<"block", b>>
PendingOn(b) == <<"pending", b>>
Headers == {"block", "pending"} \X (0 .. MaxBlocks)

\* The state at header.Root.
StateOf(header) == [root |-> header]
States == [root : Headers]

Goto(c, label) == pc' = [pc EXCEPT ![c] = label]
Hold(c, x)     == held' = [held EXCEPT ![c] = x]
Return(c, s, h, e) == ret' = [ret EXCEPT ![c] = [state |-> s, header |-> h, err |-> e]]

-----------------------------------------------------------------------------
(* The chain, the synchroniser, the fetcher and the miner *)

\* uint64(blockNr)
Uint64(blockNr) == blockNr % (2 ^ UintWidth)

\* core.BlockChain.GetHeaderByNumber
GetHeaderByNumber(number) ==
    IF number < Len(chain) THEN HeaderOf(chain[number + 1]) ELSE None

\* core.BlockChain.SetHead: the blocks above number are removed.
Rewound(c, number) ==
    SubSeq(c, 1, IF number + 1 < Len(c) THEN number + 1 ELSE Len(c))

\* A new block becomes the head.
Extend ==
    /\ Len(chain) <= MaxHeight /\ minted < MaxBlocks
    /\ minted' = minted + 1
    /\ chain' = Append(chain, minted')

\* The synchroniser starts a run, commits a block in it, or ends it.
SyncStart ==
    /\ ~syncing
    /\ syncing' = TRUE
    /\ UNCHANGED <<backend, chain, minted, pendingOn, pc, held, ret>>

SyncCommit ==
    /\ syncing
    /\ Extend
    /\ UNCHANGED <<backend, pendingOn, syncing, pc, held, ret>>

SyncEnd ==
    /\ syncing
    /\ syncing' = FALSE
    /\ UNCHANGED <<backend, chain, minted, pendingOn, pc, held, ret>>

\* The fetcher inserts an announced block.
FetcherInsert ==
    /\ Extend
    /\ UNCHANGED <<backend, pendingOn, syncing, pc, held, ret>>

\* The miner builds a new pending block and state on the head it sees.
MinerUpdate ==
    /\ backend = "full"
    /\ pendingOn # CurrentBlock
    /\ pendingOn' = CurrentBlock
    /\ UNCHANGED <<backend, chain, minted, syncing, pc, held, ret>>

-----------------------------------------------------------------------------
(* SetHead *)

\* downloader.Cancel: the run, if there is one, is over when it returns.
SetHeadCancel(c, number) ==
    /\ pc[c] = "idle"
    /\ syncing' = FALSE
    /\ Hold(c, number) /\ Goto(c, "setHead")
    /\ UNCHANGED <<backend, chain, minted, pendingOn, ret>>

\* blockchain.SetHead(number)
SetHeadRewind(c) ==
    /\ pc[c] = "setHead"
    /\ chain' = Rewound(chain, held[c])
    /\ Hold(c, None) /\ Goto(c, "idle")
    /\ UNCHANGED <<backend, minted, pendingOn, syncing, ret>>

-----------------------------------------------------------------------------
(* HeaderByNumber, BlockByNumber, StateAndHeaderByNumber *)

\* The pending block is known to the miner only.
HeaderByNumber(blockNr) ==
    CASE blockNr = PendingBlockNumber -> PendingOn(pendingOn)
      [] blockNr = LatestBlockNumber  -> HeaderOf(CurrentBlock)
      [] OTHER -> GetHeaderByNumber(Uint64(blockNr))

\* A block is known by its header here, and the resolution is the same.
BlockByNumber(blockNr) ==
    CASE blockNr = PendingBlockNumber -> PendingOn(pendingOn)
      [] blockNr = LatestBlockNumber  -> HeaderOf(CurrentBlock)
      [] OTHER -> GetHeaderByNumber(Uint64(blockNr))

\* Either lookup, as one call.
ByNumber(c, blockNr) ==
    /\ backend = "full" /\ pc[c] = "idle"
    /\ \/ Return(c, None, HeaderByNumber(blockNr), FALSE)
       \/ Return(c, None, BlockByNumber(blockNr), FALSE)
    /\ UNCHANGED <<backend, chain, minted, pendingOn, syncing, pc, held>>

\* Asks for the state of a header it has not looked at.
StateAndHeaderByNumberNoNilCheck(c, blockNr) ==
    /\ backend = "full" /\ pc[c] = "idle"
    /\ Hold(c, HeaderByNumber(blockNr)) /\ Goto(c, "stateAt")
    /\ UNCHANGED <<backend, chain, minted, pendingOn, syncing, ret>>

\* The pending pair comes from the miner in one piece; any other header is
\* resolved first, and nil is returned for one that does not exist.
StateAndHeaderByNumber(c, blockNr) ==
    /\ backend = "full" /\ pc[c] = "idle"
    /\ \/ /\ blockNr = PendingBlockNumber
          /\ Return(c, StateOf(PendingOn(pendingOn)), PendingOn(pendingOn), FALSE)
          /\ UNCHANGED <<pc, held>>
       \/ /\ blockNr # PendingBlockNumber
          /\ HeaderByNumber(blockNr) = None
          /\ Return(c, None, None, FALSE)
          /\ UNCHANGED <<pc, held>>
       \/ /\ blockNr # PendingBlockNumber
          /\ HeaderByNumber(blockNr) # None
          /\ Hold(c, HeaderByNumber(blockNr)) /\ Goto(c, "stateAt")
          /\ UNCHANGED ret
    /\ UNCHANGED <<backend, chain, minted, pendingOn, syncing>>

\* BlockChain.StateAt(header.Root): the state of that root, or an error
\* where the database does not hold it; the header is returned with both.
StateAt(c, ok) ==
    /\ pc[c] = "stateAt"
    /\ Return(c, IF ok THEN StateOf(held[c]) ELSE None, held[c], ~ok)
    /\ Hold(c, None) /\ Goto(c, "idle")
    /\ UNCHANGED <<backend, chain, minted, pendingOn, syncing>>

-----------------------------------------------------------------------------

Init ==
    /\ backend \in Backends
    /\ chain = <<0>>
    /\ minted = 0
    /\ pendingOn = 0
    /\ syncing = FALSE
    /\ pc = [c \in Callers |-> "idle"]
    /\ held = [c \in Callers |-> None]
    /\ ret = [c \in Callers |-> [state |-> None, header |-> None, err |-> FALSE]]

Next ==
    \/ SyncStart \/ SyncCommit \/ SyncEnd
    \/ FetcherInsert
    \/ MinerUpdate
    \/ \E c \in Callers :
        \/ \E number \in BlockNumbers \cap Nat : SetHeadCancel(c, number)
        \/ SetHeadRewind(c)
        \/ \E blockNr \in BlockNumbers : ByNumber(c, blockNr)
        \/ \E blockNr \in BlockNumbers : StateAndHeaderByNumber(c, blockNr)
        \/ \E ok \in BOOLEAN : StateAt(c, ok)

Spec == Init /\ [][Next]_vars

-----------------------------------------------------------------------------

TypeOK ==
    /\ backend \in Backends
    /\ chain \in Seq(0 .. MaxBlocks) /\ Len(chain) \in 1 .. MaxHeight + 1
    /\ minted \in 0 .. MaxBlocks
    /\ pendingOn \in 0 .. MaxBlocks
    /\ syncing \in BOOLEAN
    /\ pc \in [Callers -> {"idle", "setHead", "stateAt"}]
    /\ \A c \in Callers :
        /\ pc[c] = "idle" => held[c] = None
        /\ pc[c] = "setHead" => held[c] \in Nat
        /\ pc[c] = "stateAt" => held[c] \in Headers    \* header.Root of no nil header
    /\ ret \in [Callers -> [state : States \cup {None}, header : Headers \cup {None},
                            err : BOOLEAN]]

\* The chain store has no concurrent writers of the head: SetHead cancels the
\* synchronisation before it rewinds, so that blockchain.SetHead runs while
\* no synchronisation run is under way.
NoRewindUnderSync ==
    [][\A c \in Callers : (pc[c] = "setHead" /\ pc'[c] = "idle") => ~syncing]_vars

=============================================================================
