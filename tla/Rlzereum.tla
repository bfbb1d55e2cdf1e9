------------------------------ MODULE Rlzereum ------------------------------
(***************************************************************************)
(* The full-node service of dsp/backend.go over its chain database.        *)
(*                                                                         *)
(* New opens the database, reconciles the stored chain configuration with  *)
(* the supplied genesis, stamps the database version, loads the block      *)
(* chain, rewinds it when the configuration was upgraded incompatibly and  *)
(* creates the remaining components.  Start and Stop bring the service up  *)
(* and down.  The process may die between any two steps; the database      *)
(* content survives, everything else is lost.                              *)
(***************************************************************************)
EXTENDS Integers, Sequences, FiniteSets

CONSTANTS
    Configs,            \* chain configurations a genesis may carry
    Fork,               \* first height at which two different Configs disagree
    MaxHeight,          \* bound on the number of blocks in the chain
    BlockChainVersion,  \* core.BlockChainVersion
    PeerCounts,         \* values tried for srvr.MaxPeers and config.LightPeers
    None,               \* "no value": nil configuration, nil error
    ExtraDatas,         \* lengths tried for config.ExtraData
    DefaultExtra,       \* length of the default extra data of this build
    MaximumExtraDataSize

ASSUME /\ Fork \in 2..MaxHeight
       /\ BlockChainVersion \in Nat \ {0, 1}
       /\ PeerCounts \subseteq Nat
       /\ None \notin Configs
       /\ ExtraDatas \subseteq Nat /\ DefaultExtra \in Nat \ {0}
       /\ MaximumExtraDataSize \in Nat

VARIABLES
    dbVersion,     \* chainDb: the stored database version, 0 when absent
    storedCfg,     \* chainDb: the chain configuration stored with the genesis
    chain,         \* chainDb: chain[h] is the configuration block h was imported under
    pc,            \* where the process is in New / Start / Stop
    chainConfig,   \* dsp.chainConfig, as returned by SetupGenesisBlock
    compat,        \* RewindTo of the ConfigCompatError, None without one
    live,          \* components created and not yet stopped
    dbOpen,        \* chainDb handle is open
    handlers,      \* bloom handler goroutines wait on shutdownChan
    pmMaxPeers,    \* the peer limit handed to protocolManager.Start
    stopIdx,       \* number of calls of Stop already made
    minerExtra     \* length of the extra data the miner puts into its blocks

persistent == <<dbVersion, storedCfg, chain>>
volatile   == <<pc, chainConfig, compat, live, dbOpen, handlers, pmMaxPeers, stopIdx,
                minerExtra>>
vars       == <<persistent, volatile>>

SyncModes  == {"full", "fast", "light", "invalid"}

\* The components New gives chainDb, or something that holds it (the chain to
\* the pool, the service to the miner), and the server AddLesServer attaches.
DbUsers == {"bloomIndexer", "blockchain", "protocolManager", "lesServer",
            "txPool", "miner"}

Versions == {0, BlockChainVersion - 1, BlockChainVersion}

-----------------------------------------------------------------------------
(* Collaborators outside dsp/backend.go *)

\* params.ChainConfig.CheckCompatible: the head has passed a block at which
\* the stored and the new configuration disagree.
Incompatible(stored, new, height) == stored # new /\ height >= Fork

\* core.BlockChain.SetHead: drop every block above the given height.
Rewound(c, to) == SubSeq(c, 1, IF to < Len(c) THEN to ELSE Len(c))

\* The protocol manager's synchronisation imports a block through the chain.
InsertBlock ==
    /\ pc \in {"started", "stopping"}
    /\ {"protocolManager", "blockchain"} \subseteq live
    /\ dbOpen
    /\ Len(chain) < MaxHeight
    /\ chain' = Append(chain, chainConfig)
    /\ UNCHANGED <<dbVersion, storedCfg, volatile>>

\* The process dies, or exits after a failed New or a completed Stop.
Crash ==
    /\ pc # "down"
    /\ pc' = "down"
    /\ chainConfig' = None /\ compat' = None /\ live' = {}
    /\ dbOpen' = FALSE /\ handlers' = FALSE /\ pmMaxPeers' = 0 /\ stopIdx' = 0
    /\ minerExtra' = 0
    /\ UNCHANGED persistent

-----------------------------------------------------------------------------
(* New *)

\* Drops blockchain.SetHead: the upgrade continues on the old blocks.
NewRewindDropped ==
    /\ pc = "rewind"
    /\ pc' = "writeCfg"
    /\ UNCHANGED <<persistent, chainConfig, compat, live, dbOpen, handlers,
                   pmMaxPeers, stopIdx, minerExtra>>

\* Stamps the database whatever version it has.
NewVersionUnchecked(skip) ==
    /\ pc = "genesis"
    /\ dbVersion' = IF skip THEN dbVersion ELSE BlockChainVersion
    /\ pc' = "versioned"
    /\ UNCHANGED <<storedCfg, chain, chainConfig, compat, live, dbOpen, handlers,
                   pmMaxPeers, stopIdx, minerExtra>>

\* CreateDB: the handle of ctx.OpenDatabase, when that succeeds.
CreateDB(ok) == dbOpen' = ok

\* The length of the extra data the miner is given: the default when none
\* is configured, and none when it, or the default, is over the limit.
makeExtraData(extra) ==
    LET e == IF extra = 0 THEN DefaultExtra ELSE extra
    IN  IF e > MaximumExtraDataSize THEN 0 ELSE e

\* The sync-mode checks and CreateDB.
NewOpen(mode, ok) ==
    /\ pc = "down"
    /\ \/ /\ mode \in {"full", "fast"}
          /\ CreateDB(ok)
          /\ pc' = IF ok THEN "opened" ELSE "failed"
       \/ /\ mode \notin {"full", "fast"}
          /\ pc' = "failed"
          /\ UNCHANGED dbOpen
    /\ UNCHANGED <<persistent, chainConfig, compat, live, handlers, pmMaxPeers,
                   stopIdx, minerExtra>>

\* SetupGenesisBlock with genesis configuration cfg, then the engine and the
\* bloom indexer of the service object.
NewGenesis(cfg, genesisOk) ==
    /\ pc = "opened"
    /\ \/ /\ storedCfg # None /\ ~genesisOk           \* genesis mismatch
          /\ pc' = "failed"
          /\ UNCHANGED <<storedCfg, chainConfig, compat, live>>
       \/ /\ storedCfg # None /\ genesisOk
          /\ Incompatible(storedCfg, cfg, Len(chain))
          /\ compat' = Fork - 1
          /\ chainConfig' = cfg
          /\ live' = live \cup {"bloomIndexer"}
          /\ pc' = "genesis"
          /\ UNCHANGED storedCfg
       \/ /\ storedCfg = None \/ (genesisOk /\ ~Incompatible(storedCfg, cfg, Len(chain)))
          /\ storedCfg' = cfg
          /\ compat' = None
          /\ chainConfig' = cfg
          /\ live' = live \cup {"bloomIndexer"}
          /\ pc' = "genesis"
    /\ UNCHANGED <<dbVersion, chain, dbOpen, handlers, pmMaxPeers, stopIdx,
                   minerExtra>>

\* The database version check, unless config.SkipBcVersionCheck.
NewVersion(skip) ==
    /\ pc = "genesis"
    /\ \/ /\ skip
          /\ pc' = "versioned"
          /\ UNCHANGED dbVersion
       \/ /\ ~skip /\ dbVersion \in {0, BlockChainVersion}
          /\ dbVersion' = BlockChainVersion
          /\ pc' = "versioned"
       \/ /\ ~skip /\ dbVersion \notin {0, BlockChainVersion}
          /\ pc' = "failed"
          /\ UNCHANGED dbVersion
    /\ UNCHANGED <<storedCfg, chain, chainConfig, compat, live, dbOpen, handlers,
                   pmMaxPeers, stopIdx, minerExtra>>

\* core.NewBlockChain.
NewBlockChain ==
    /\ pc = "versioned"
    /\ \/ /\ live' = live \cup {"blockchain"}
          /\ pc' = IF compat = None THEN "ready" ELSE "rewind"
       \/ /\ pc' = "failed"
          /\ UNCHANGED live
    /\ UNCHANGED <<persistent, chainConfig, compat, dbOpen, handlers, pmMaxPeers,
                   stopIdx, minerExtra>>

\* blockchain.SetHead(compat.RewindTo) of an incompatible upgrade.
NewRewind ==
    /\ pc = "rewind"
    /\ chain' = Rewound(chain, compat)
    /\ pc' = "writeCfg"
    /\ UNCHANGED <<dbVersion, storedCfg, chainConfig, compat, live, dbOpen,
                   handlers, pmMaxPeers, stopIdx,
                   minerExtra>>

\* rawdb.WriteChainConfig after the rewind.
NewWriteConfig ==
    /\ pc = "writeCfg"
    /\ storedCfg' = chainConfig
    /\ pc' = "ready"
    /\ UNCHANGED <<dbVersion, chain, chainConfig, compat, live, dbOpen, handlers,
                   pmMaxPeers, stopIdx, minerExtra>>

\* The bloom indexer is started, then the transaction pool, the protocol
\* manager, the miner and the API backend are created.
NewFinish(extra) ==
    /\ pc = "ready"
    /\ \/ /\ live' = live \cup {"txPool", "protocolManager", "miner"}
          /\ minerExtra' = makeExtraData(extra)
          /\ pc' = "constructed"
       \/ /\ live' = live \cup {"txPool"}       \* NewProtocolManager failed
          /\ pc' = "failed"
          /\ UNCHANGED minerExtra
    /\ UNCHANGED <<persistent, chainConfig, compat, dbOpen, handlers, pmMaxPeers,
                   stopIdx>>

-----------------------------------------------------------------------------
(* AddLesServer, Protocols, Start, Stop *)

\* blockchain.ResetWithGenesisBlock: the chain is purged down to a genesis
\* block.
ResetWithGenesisBlock ==
    /\ pc \in {"constructed", "started", "stopping"}
    /\ "blockchain" \in live
    /\ chain' = <<>>
    /\ UNCHANGED <<dbVersion, storedCfg, volatile>>

\* SetHead of the API backend, which reaches blockchain.SetHead(number).
SetHead(number) ==
    /\ pc \in {"started", "stopping"}
    /\ "blockchain" \in live
    /\ chain' = Rewound(chain, number)
    /\ UNCHANGED <<dbVersion, storedCfg, volatile>>

AddLesServer ==
    /\ pc = "constructed"
    /\ "lesServer" \notin live
    /\ live' = live \cup {"lesServer"}
    /\ UNCHANGED <<persistent, pc, chainConfig, compat, dbOpen, handlers,
                   pmMaxPeers, stopIdx, minerExtra>>

\* The sub-protocols offered to the p2p server, by owner.
Protocols == {"protocolManager"} \cup (live \cap {"lesServer"})

\* Accepts any light-peer share of the peer budget.
StartUnguarded(maxPeers, lightServ, lightPeers) ==
    /\ pc = "constructed"
    /\ handlers' = TRUE
    /\ pmMaxPeers' = IF lightServ THEN maxPeers - lightPeers ELSE maxPeers
    /\ pc' = "started"
    /\ UNCHANGED <<persistent, chainConfig, compat, live, dbOpen, stopIdx, minerExtra>>

Start(maxPeers, lightServ, lightPeers) ==
    /\ pc = "constructed"
    /\ handlers' = TRUE                               \* startBloomHandlers
    /\ \/ /\ lightServ /\ lightPeers >= maxPeers
          /\ pc' = "failed"
          /\ UNCHANGED pmMaxPeers
       \/ /\ ~(lightServ /\ lightPeers >= maxPeers)
          /\ pmMaxPeers' = IF lightServ THEN maxPeers - lightPeers ELSE maxPeers
          /\ pc' = "started"
    /\ UNCHANGED <<persistent, chainConfig, compat, live, dbOpen, stopIdx, minerExtra>>

\* Closes the database before the pool and the miner are stopped.
StopOrderDbEarly ==
    <<"bloomIndexer", "blockchain", "protocolManager", "lesServer", "chainDb",
      "txPool", "miner", "eventMux", "shutdownChan">>

\* The calls of Stop, in the order it makes them.
StopOrder ==
    <<"bloomIndexer", "blockchain", "protocolManager", "lesServer", "txPool",
      "miner", "eventMux", "chainDb", "shutdownChan">>

\* One call of Stop; each returns when its component has come to rest.
Stop ==
    /\ pc \in {"started", "stopping"}
    /\ LET call == StopOrder[stopIdx + 1] IN
        /\ live'     = live \ {call}
        /\ dbOpen'   = (dbOpen /\ call # "chainDb")
        /\ handlers' = (handlers /\ call # "shutdownChan")
    /\ stopIdx' = stopIdx + 1
    /\ pc' = IF stopIdx + 1 = Len(StopOrder) THEN "stopped" ELSE "stopping"
    /\ UNCHANGED <<persistent, chainConfig, compat, pmMaxPeers, minerExtra>>

-----------------------------------------------------------------------------

Init ==
    /\ dbVersion \in Versions
    /\ storedCfg = None
    /\ chain = <<>>
    /\ pc = "down"
    /\ chainConfig = None /\ compat = None /\ live = {}
    /\ dbOpen = FALSE /\ handlers = FALSE /\ pmMaxPeers = 0 /\ stopIdx = 0
    /\ minerExtra = 0

Next ==
    \/ \E mode \in SyncModes, ok \in BOOLEAN : NewOpen(mode, ok)
    \/ \E cfg \in Configs, ok \in BOOLEAN : NewGenesis(cfg, ok)
    \/ \E skip \in BOOLEAN : NewVersion(skip)
    \/ NewBlockChain
    \/ NewRewind
    \/ NewWriteConfig
    \/ \E extra \in ExtraDatas : NewFinish(extra)
    \/ AddLesServer
    \/ ResetWithGenesisBlock
    \/ \E number \in 0 .. MaxHeight : SetHead(number)
    \/ \E m \in PeerCounts, ls \in BOOLEAN, lp \in PeerCounts : Start(m, ls, lp)
    \/ Stop
    \/ InsertBlock
    \/ Crash

Spec == Init /\ [][Next]_vars

-----------------------------------------------------------------------------

TypeOK ==
    /\ dbVersion \in Versions
    /\ storedCfg \in Configs \cup {None}
    /\ chain \in Seq(Configs) /\ Len(chain) <= MaxHeight
    /\ pc \in {"down", "opened", "genesis", "versioned", "rewind", "writeCfg",
               "ready", "constructed", "started", "stopping", "stopped", "failed"}
    /\ chainConfig \in Configs \cup {None}
    /\ compat \in Nat \cup {None}
    /\ live \subseteq DbUsers \cup {"eventMux"}
    /\ dbOpen \in BOOLEAN /\ handlers \in BOOLEAN
    /\ pmMaxPeers \in Nat
    /\ stopIdx \in 0..Len(StopOrder)
    /\ minerExtra \in 0..MaximumExtraDataSize   \* longer extra data makes invalid blocks

\* Every block at or above the fork height was imported under the stored
\* chain configuration.  New keeps this across an incompatible upgrade by
\* rewinding the chain (SetHead) before it stores the new configuration
\* (WriteChainConfig), so that a crash between the two repeats the upgrade
\* instead of leaving old-rule blocks under the new configuration.
ChainObeysStoredConfig ==
    \A h \in Fork..Len(chain) : chain[h] = storedCfg

\* No component that uses chainDb is live while the database is closed: Stop
\* closes chainDb only after it stopped the indexer, the chain, the protocol
\* manager, the light server, the pool and the miner.
NoLiveComponentOnClosedDb ==
    (live \cap DbUsers # {}) => dbOpen

\* The database as its readers see it.  From the rewind on the new
\* configuration is in force, although it is stored one step later.
Db == INSTANCE ChainStore
        WITH version <- dbVersion,
             config <- IF pc = "writeCfg" THEN chainConfig ELSE storedCfg

\* New implements ChainStore: SetHead and WriteChainConfig of an upgrade
\* are one step of the database, a crash between them leaves a chain that
\* agrees with the configuration still stored, blocks are imported under
\* the stored configuration only, and the version check stamps no database
\* written by another version.
ImplementsChainStore == Db!Spec

=============================================================================
