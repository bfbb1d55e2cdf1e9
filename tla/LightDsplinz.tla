---------------------------- MODULE LightDsplinz ----------------------------
(***************************************************************************)
(* The light client service of les/backend.go over its header database.    *)
(*                                                                         *)
(* New differs from the full node's: there is no database version check,   *)
(* three indexers are created, the bloom indexer is started before the     *)
(* chain is rewound, and the server pool and the protocol manager share    *)
(* one quit channel and one WaitGroup (quitSync and leth.wg), so that      *)
(* stopping the protocol manager ends both and waits for both.  The        *)
(* request distributor is given the quit channel alone: nothing waits for  *)
(* it, it is not given the database, and it is not among the components    *)
(* here (Distributor has what it does).  Stop pauses for 200ms before it   *)
(* closes the database.                                                    *)
(***************************************************************************)
EXTENDS Integers, Sequences, FiniteSets

CONSTANTS
    Configs,     \* chain configurations a genesis may carry
    Fork,        \* first height at which two different Configs disagree
    MaxHeight,   \* bound on the number of headers in the chain
    ProtocolVersions,  \* values of AdvertiseProtocolVersions[0]
    None         \* nil configuration, nil error

ASSUME /\ Fork \in 2..MaxHeight
       /\ None \notin Configs
       /\ ProtocolVersions \subseteq {1, 2}          \* lpv1, lpv2

VARIABLES
    storedCfg,    \* chainDb: the chain configuration stored with the genesis
    chain,        \* chainDb: chain[h] is the configuration header h was accepted under
    pc,           \* where the process is in New / Start / Stop
    chainConfig,  \* leth.chainConfig
    compat,       \* RewindTo of the ConfigCompatError, None without one
    live,         \* components created and not yet stopped
    dbOpen,       \* the chainDb handle is open
    handlers,     \* bloom handler goroutines wait on shutdownChan
    stopIdx       \* number of calls of Stop already made

persistent == <<storedCfg, chain>>
volatile   == <<pc, chainConfig, compat, live, dbOpen, handlers, stopIdx>>
vars       == <<persistent, volatile>>

Indexers == {"bloomIndexer", "chtIndexer", "bloomTrieIndexer"}

\* What New gives quitSync and &leth.wg: it ends, and is waited for, when
\* the protocol manager is stopped.
QuitSyncGroup == {"protocolManager", "serverPool"}

\* What New gives chainDb, or something that holds it: the components that
\* read or write chainDb while they are live.
DbUsers == Indexers \cup QuitSyncGroup \cup {"odr", "blockchain", "txPool"}

-----------------------------------------------------------------------------
(* Collaborators outside les/backend.go *)

\* params.ChainConfig.CheckCompatible
Incompatible(stored, new, height) == stored # new /\ height >= Fork

\* light.LightChain.SetHead
Rewound(c, to) == SubSeq(c, 1, IF to < Len(c) THEN to ELSE Len(c))

\* The light synchronisation accepts a header.
InsertHeader ==
    /\ pc \in {"started", "stopping"}
    /\ {"protocolManager", "blockchain"} \subseteq live
    /\ dbOpen
    /\ Len(chain) < MaxHeight
    /\ chain' = Append(chain, chainConfig)
    /\ UNCHANGED <<storedCfg, volatile>>

\* The process dies, or exits after a failed New or a completed Stop.
Crash ==
    /\ pc # "down"
    /\ pc' = "down"
    /\ chainConfig' = None /\ compat' = None /\ live' = {}
    /\ dbOpen' = FALSE /\ handlers' = FALSE /\ stopIdx' = 0
    /\ UNCHANGED persistent

-----------------------------------------------------------------------------
(* New *)

\* Rewinds to the fork height itself, one header too few.
NewRewindOneShort ==
    /\ pc = "rewind"
    /\ chain' = Rewound(chain, compat + 1)
    /\ pc' = "writeCfg"
    /\ UNCHANGED <<storedCfg, chainConfig, compat, live, dbOpen, handlers, stopIdx>>

\* Rewinds to the genesis header.
NewRewindToGenesis ==
    /\ pc = "rewind"
    /\ chain' = Rewound(chain, 0)
    /\ pc' = "writeCfg"
    /\ UNCHANGED <<storedCfg, chainConfig, compat, live, dbOpen, handlers, stopIdx>>

\* dsp.CreateDB
NewOpen(ok) ==
    /\ pc = "down"
    /\ dbOpen' = ok
    /\ pc' = IF ok THEN "opened" ELSE "failed"
    /\ UNCHANGED <<persistent, chainConfig, compat, live, handlers, stopIdx>>

\* SetupGenesisBlock with genesis configuration cfg, then the service object
\* with its three indexers.
NewGenesis(cfg, genesisOk) ==
    /\ pc = "opened"
    /\ \/ /\ storedCfg # None /\ ~genesisOk           \* genesis mismatch
          /\ pc' = "failed"
          /\ UNCHANGED <<storedCfg, chainConfig, compat, live>>
       \/ /\ storedCfg # None /\ genesisOk
          /\ Incompatible(storedCfg, cfg, Len(chain))
          /\ compat' = Fork - 1
          /\ chainConfig' = cfg
          /\ live' = live \cup Indexers
          /\ pc' = "genesis"
          /\ UNCHANGED storedCfg
       \/ /\ storedCfg = None \/ (genesisOk /\ ~Incompatible(storedCfg, cfg, Len(chain)))
          /\ storedCfg' = cfg
          /\ compat' = None
          /\ chainConfig' = cfg
          /\ live' = live \cup Indexers
          /\ pc' = "genesis"
    /\ UNCHANGED <<chain, dbOpen, handlers, stopIdx>>

\* The relay, the server pool, the retriever and the ODR backend, then
\* light.NewLightChain, on which the bloom indexer is started.
NewLightChain ==
    /\ pc = "genesis"
    /\ \/ /\ live' = live \cup {"odr", "blockchain"}
          /\ pc' = IF compat = None THEN "ready" ELSE "rewind"
       \/ /\ live' = live \cup {"odr"}
          /\ pc' = "failed"
    /\ UNCHANGED <<persistent, chainConfig, compat, dbOpen, handlers, stopIdx>>

\* blockchain.SetHead(compat.RewindTo) of an incompatible upgrade.
NewRewind ==
    /\ pc = "rewind"
    /\ chain' = Rewound(chain, compat)
    /\ pc' = "writeCfg"
    /\ UNCHANGED <<storedCfg, chainConfig, compat, live, dbOpen, handlers, stopIdx>>

\* rawdb.WriteChainConfig after the rewind.
NewWriteConfig ==
    /\ pc = "writeCfg"
    /\ storedCfg' = chainConfig
    /\ pc' = "ready"
    /\ UNCHANGED <<chain, chainConfig, compat, live, dbOpen, handlers, stopIdx>>

\* The transaction pool, the protocol manager, the API backend.
NewFinish ==
    /\ pc = "ready"
    /\ \/ /\ live' = live \cup {"txPool", "protocolManager"}
          /\ pc' = "constructed"
       \/ /\ live' = live \cup {"txPool"}       \* NewProtocolManager failed
          /\ pc' = "failed"
    /\ UNCHANGED <<persistent, chainConfig, compat, dbOpen, handlers, stopIdx>>

-----------------------------------------------------------------------------
(* Start, Stop *)

\* Knows the topic of the first protocol version only.
lesTopicV1(protocolVersion) ==
    IF protocolVersion = 1 THEN "LES" ELSE "panic"

\* The discovery topic of a protocol version, less the genesis hash every
\* topic of one chain ends in.
lesTopic(protocolVersion) ==
    CASE protocolVersion = 1 -> "LES"
      [] protocolVersion = 2 -> "LES2"
      [] OTHER -> "panic"

\* blockchain.ResetWithGenesisBlock: the header chain is purged down to a
\* genesis block.
ResetWithGenesisBlock ==
    /\ pc \in {"constructed", "started", "stopping"}
    /\ "blockchain" \in live
    /\ chain' = <<>>
    /\ UNCHANGED <<storedCfg, volatile>>

\* SetHead of the API backend, which reaches blockchain.SetHead(number).
SetHead(number) ==
    /\ pc \in {"started", "stopping"}
    /\ "blockchain" \in live
    /\ chain' = Rewound(chain, number)
    /\ UNCHANGED <<storedCfg, volatile>>

\* The bloom handlers, the server pool's discovery under the topic of the
\* first advertised protocol version, the protocol manager.  A panic of
\* lesTopic ends Start where it is.
Start(protocolVersion) ==
    /\ pc = "constructed"
    /\ handlers' = TRUE
    /\ IF lesTopic(protocolVersion) = "panic"
         THEN pc' = "panicked" /\ UNCHANGED live
         ELSE pc' = "started" /\ live' = live \cup {"serverPool"}
    /\ UNCHANGED <<persistent, chainConfig, compat, dbOpen, stopIdx>>

\* Closes the database right after the chain is stopped.
StopOrderNoWait ==
    <<"odr", "bloomIndexer", "chtIndexer", "bloomTrieIndexer", "blockchain", "chainDb",
      "protocolManager", "txPool", "eventMux", "sleep", "shutdownChan">>

\* The calls of Stop, in the order it makes them.
StopOrder ==
    <<"odr", "bloomIndexer", "chtIndexer", "bloomTrieIndexer", "blockchain",
      "protocolManager", "txPool", "eventMux", "sleep", "chainDb", "shutdownChan">>

\* What a call of Stop brings to rest.
Stopped(call) == IF call = "protocolManager" THEN QuitSyncGroup ELSE {call}

\* One call of Stop.
Stop ==
    /\ pc \in {"started", "stopping"}
    /\ LET call == StopOrder[stopIdx + 1] IN
        /\ live'     = live \ Stopped(call)
        /\ dbOpen'   = (dbOpen /\ call # "chainDb")
        /\ handlers' = (handlers /\ call # "shutdownChan")
    /\ stopIdx' = stopIdx + 1
    /\ pc' = IF stopIdx + 1 = Len(StopOrder) THEN "stopped" ELSE "stopping"
    /\ UNCHANGED <<persistent, chainConfig, compat>>

-----------------------------------------------------------------------------

Init ==
    /\ storedCfg = None /\ chain = <<>>
    /\ pc = "down"
    /\ chainConfig = None /\ compat = None /\ live = {}
    /\ dbOpen = FALSE /\ handlers = FALSE /\ stopIdx = 0

Next ==
    \/ \E ok \in BOOLEAN : NewOpen(ok)
    \/ \E cfg \in Configs, ok \in BOOLEAN : NewGenesis(cfg, ok)
    \/ NewLightChain
    \/ NewRewind
    \/ NewWriteConfig
    \/ NewFinish
    \/ \E v \in ProtocolVersions : Start(v)
    \/ ResetWithGenesisBlock
    \/ \E number \in 0 .. MaxHeight : SetHead(number)
    \/ Stop
    \/ InsertHeader
    \/ Crash

Spec == Init /\ [][Next]_vars

-----------------------------------------------------------------------------

TypeOK ==
    /\ storedCfg \in Configs \cup {None}
    /\ chain \in Seq(Configs) /\ Len(chain) <= MaxHeight
    /\ pc \in {"down", "opened", "genesis", "rewind", "writeCfg", "ready",
               "constructed", "started", "stopping", "stopped", "failed"}
                                                   \* and never "panicked"
    /\ chainConfig \in Configs \cup {None}
    /\ compat \in Nat \cup {None}
    /\ live \subseteq DbUsers
    /\ dbOpen \in BOOLEAN /\ handlers \in BOOLEAN
    /\ stopIdx \in 0..Len(StopOrder)

\* Every header at or above the fork height was accepted under the stored
\* chain configuration: New rewinds the light chain (SetHead) before it
\* stores the new configuration (WriteChainConfig), and a crash between the
\* two finds the old configuration still stored and repeats the upgrade.
HeadersObeyStoredConfig ==
    \A h \in Fork..Len(chain) : chain[h] = storedCfg

\* Nothing that uses chainDb is live when Stop closes it, the server pool
\* included, which Stop never names: it ends with the protocol manager,
\* through the quit channel and the WaitGroup New gave to both.
NoLiveComponentOnClosedDb ==
    (live \cap DbUsers # {}) => dbOpen

\* The header database as its readers see it; it carries no version.
Db == INSTANCE ChainStore
        WITH version <- 0, BlockChainVersion <- 0,
             config <- IF pc = "writeCfg" THEN chainConfig ELSE storedCfg

\* New implements ChainStore: the rewind of an upgrade removes the headers
\* from the fork on and no others, the new configuration is in force from
\* then on, through a crash before it is stored, and headers are accepted
\* under the stored configuration only.
ImplementsChainStore == Db!Spec

=============================================================================
