---------------------------- MODULE LightClient -----------------------------
(***************************************************************************)
(* The light client as it runs: the service of les/backend.go, the API     *)
(* backend of les/api_backend.go, whose methods RPC goroutines call while  *)
(* the service is started, and the retrieval distributor that asks peers   *)
(* for what the header database does not hold.                             *)
(*                                                                         *)
(* An item (a header, a block, the receipts or the logs of a block) is     *)
(* known by its kind, its number and the configuration its header was      *)
(* accepted under; a hash stands for the header it is the hash of.  The    *)
(* header a peer proves by number carries no configuration.                *)
(***************************************************************************)
EXTENDS Integers, Sequences, FiniteSets

CONSTANTS
    Configs, Fork, MaxHeight, ProtocolVersions, None,     \* of LightDsplinz
    Peers, Callers, Decoys, Malformed,                    \* of Distributor
    Capability,     \* Capability[p]: the kinds of item peer p serves
    BlockNumbers,   \* the rpc.BlockNumber arguments of the calls
    Hashes,         \* the hash arguments of the calls
    UintWidth       \* bits of a uint64; any width whose range exceeds MaxHeight

VARIABLES
    storedCfg, chain, pc, chainConfig, compat, live, dbOpen, handlers,
    stopIdx,                        \* the service
    connected, removed, request,    \* the distributor
    call                            \* call[c]: the API call of caller c

svcVars == <<storedCfg, chain, pc, chainConfig, compat, live, dbOpen, handlers,
             stopIdx>>
odrVars == <<connected, removed, request>>
vars    == <<svcVars, odrVars, call>>

PendingBlockNumber == -2
LatestBlockNumber  == -1

\* uint64(blockNr)
Uint64(blockNr) == blockNr % (2 ^ UintWidth)

Kinds   == {"header", "block", "receipts", "logs"}
Items   == [kind : Kinds, cfg : Configs \cup {None},
            number : (0 .. MaxHeight) \cup {Uint64(b) : b \in BlockNumbers}]
Headers == {i \in Items : i.kind = "header"}

ASSUME /\ Capability \in [Peers -> SUBSET Kinds]
       /\ BlockNumbers \subseteq Int
       /\ Hashes \subseteq Headers
       /\ 2 ^ UintWidth > MaxHeight + 3

Svc == INSTANCE LightDsplinz
Odr == INSTANCE Distributor
         WITH Queries <- Items,
              Serves <- [p \in Peers |-> {i \in Items : i.kind \in Capability[p]}]

-----------------------------------------------------------------------------
(* The light chain *)

\* The header of height n; the genesis header is there from the start.
Hdr(n) == [kind |-> "header", number |-> n, cfg |-> IF n = 0 THEN None ELSE chain[n]]

\* blockchain.CurrentHeader
CurrentHeader == Hdr(Len(chain))

\* rawdb.ReadHeaderNumber: nil for a hash the database does not know.
ReadHeaderNumber(hash) ==
    IF hash.number <= Len(chain) /\ Hdr(hash.number) = hash THEN hash.number ELSE None

-----------------------------------------------------------------------------
(* The API backend *)

NoCall == [op |-> "idle", header |-> None, value |-> None, err |-> None]

\* The call of c returns value and err.
Return(c, value, err) ==
    /\ call' = [call EXCEPT ![c].op = "returned", ![c].value = value, ![c].err = err]
    /\ request' = [request EXCEPT ![c] = Odr!NoRequest]

\* The call op of c, which holds header, waits for the item of kind.
Retrieve(c, op, header, kind) ==
    /\ call' = [call EXCEPT ![c] = [NoCall EXCEPT !.op = op, !.header = header]]
    /\ request' = [request EXCEPT ![c] = Odr!Asked([header EXCEPT !.kind = kind])]

\* Pending is latest; of the other headers, the light chain has one (and
\* asks ODR for it) or has none (nil here).
HeaderByNumber(blockNr) ==
    IF blockNr \in {LatestBlockNumber, PendingBlockNumber} THEN CurrentHeader
    ELSE IF Uint64(blockNr) <= Len(chain) THEN Hdr(Uint64(blockNr))
    ELSE None

\* Reads the head again when it goes on to the block.
WithHeaderOfHead(c, op, header) ==
    \/ /\ op = "BlockByNumber"
       /\ call' = [call EXCEPT ![c] = [NoCall EXCEPT !.op = op, !.header = header]]
       /\ request' = [request EXCEPT
                         ![c] = Odr!Asked([CurrentHeader EXCEPT !.kind = "block"])]
    \/ /\ op # "BlockByNumber"
       /\ call' = [call EXCEPT ![c] = [NoCall EXCEPT !.op = "returned", !.header = header,
                                                    !.value = header]]
       /\ request' = [request EXCEPT ![c] = Odr!NoRequest]

\* What a call by number does with the header it asked for: BlockByNumber
\* goes on to GetBlock(header.Hash()), HeaderByNumber returns the header,
\* and StateAndHeaderByNumber returns it with a state that reads through
\* ODR at its root.
WithHeader(c, op, header) ==
    \/ /\ op = "BlockByNumber"
       /\ Retrieve(c, op, header, "block")
    \/ /\ op # "BlockByNumber"
       /\ call' = [call EXCEPT ![c] = [NoCall EXCEPT !.op = "returned", !.header = header,
                                                    !.value = header]]
       /\ request' = [request EXCEPT ![c] = Odr!NoRequest]

\* HeaderByNumber, BlockByNumber, StateAndHeaderByNumber.
ByNumber(c, op, blockNr) ==
    /\ pc = "started" /\ call[c].op = "idle"
    /\ \/ /\ HeaderByNumber(blockNr) # None
          /\ WithHeader(c, op, HeaderByNumber(blockNr))
       \/ /\ HeaderByNumber(blockNr) = None
          /\ Retrieve(c, op, [kind |-> "header", number |-> Uint64(blockNr),
                              cfg |-> None], "header")
    /\ UNCHANGED <<svcVars, connected, removed>>

\* GetBlock asks the light chain for the block of the hash; GetReceipts and
\* GetLogs return nil for a hash that has no number in the database.
ByHash(c, op, hash) ==
    /\ pc = "started" /\ call[c].op = "idle"
    /\ \/ /\ op = "GetBlock"
          /\ Retrieve(c, op, hash, "block")
       \/ /\ op \in {"GetReceipts", "GetLogs"}
          /\ ReadHeaderNumber(hash) # None
          /\ Retrieve(c, op, hash, IF op = "GetLogs" THEN "logs" ELSE "receipts")
       \/ /\ op \in {"GetReceipts", "GetLogs"}
          /\ ReadHeaderNumber(hash) = None
          /\ call' = [call EXCEPT ![c] = [NoCall EXCEPT !.op = "returned", !.header = hash]]
          /\ UNCHANGED request
    /\ UNCHANGED <<svcVars, connected, removed>>

\* Goes on when the retrieval succeeded, and waits when it did not.
ResumeOnSuccess(c) ==
    /\ call[c].op \notin {"idle", "returned"}
    /\ request[c].state = "done"
    /\ \/ /\ request[c].query.kind = "header"
          /\ WithHeader(c, call[c].op, request[c].query)
       \/ /\ request[c].query.kind # "header"
          /\ Return(c, request[c].query, None)
    /\ UNCHANGED <<svcVars, connected, removed>>

\* The retrieval is over and the call goes on with what it got, or returns
\* the error.
Resume(c) ==
    /\ call[c].op \notin {"idle", "returned"}
    /\ \/ /\ request[c].state = "done"
          /\ request[c].query.kind = "header"
          /\ WithHeader(c, call[c].op, request[c].query)
       \/ /\ request[c].state = "done"
          /\ request[c].query.kind # "header"
          /\ Return(c, request[c].query, None)
       \/ /\ request[c].state = "failed"
          /\ Return(c, None, IF request[c].cause = None THEN "nopeers"
                             ELSE request[c].cause)
    /\ UNCHANGED <<svcVars, connected, removed>>

\* The RPC layer has sent the reply.
Reply(c) ==
    /\ call[c].op = "returned"
    /\ call' = [call EXCEPT ![c] = NoCall]
    /\ UNCHANGED <<svcVars, odrVars>>

-----------------------------------------------------------------------------
(* The service and the distributor *)

\* The process is gone, and its peers, requests and calls with it.
ProcessEnds ==
    /\ connected' = {} /\ removed' = {}
    /\ request' = [c \in Callers |-> Odr!NoRequest]
    /\ call' = [c \in Callers |-> NoCall]

\* A step of the service.  A crash takes the peers, the requests and the
\* calls with it; when Stop stops the protocol manager the peers are gone.
Service(step) ==
    /\ step
    /\ IF pc' = "down"
         THEN ProcessEnds
         ELSE /\ IF "protocolManager" \in live \ live'
                   THEN Odr!Drop(connected) ELSE UNCHANGED odrVars
              /\ UNCHANGED call

\* Peers connect to a protocol manager that was started.
PeerSet ==
    /\ \E p \in Peers :
        \/ /\ pc \in {"started", "stopping"} /\ "protocolManager" \in live
           /\ Odr!Connect(p)
        \/ Odr!Disconnect(p)
    /\ UNCHANGED <<svcVars, call>>

\* The distributor works on the request of c.
Distribute(c) == Odr!Serve(c) /\ UNCHANGED <<svcVars, call>>

\* The context of the call of c is past its deadline.
Expire(c) == Odr!Deadline(c) /\ UNCHANGED <<svcVars, call>>

\* odr.Stop was called under the retrieval of c, which is given up for it:
\* at once, later, or not before the peers are gone.
Release(c) ==
    /\ pc \in {"stopping", "stopped"}
    /\ Odr!Shutdown(c)
    /\ UNCHANGED <<svcVars, call>>

Init ==
    /\ Svc!Init
    /\ Odr!Init
    /\ call = [c \in Callers |-> NoCall]

Next ==
    \/ \E ok \in BOOLEAN : Service(Svc!NewOpen(ok))
    \/ \E cfg \in Configs, ok \in BOOLEAN : Service(Svc!NewGenesis(cfg, ok))
    \/ Service(Svc!NewLightChain)
    \/ Service(Svc!NewRewind)
    \/ Service(Svc!NewWriteConfig)
    \/ Service(Svc!NewFinish)
    \/ \E v \in ProtocolVersions : Service(Svc!Start(v))
    \/ Service(Svc!ResetWithGenesisBlock)
    \/ \E number \in 0 .. MaxHeight : Service(Svc!SetHead(number))
    \/ Service(Svc!Stop)
    \/ Service(Svc!InsertHeader)
    \/ Service(Svc!Crash)
    \/ PeerSet
    \/ \E c \in Callers :
        \/ \E op \in {"HeaderByNumber", "BlockByNumber", "StateAndHeaderByNumber"},
              blockNr \in BlockNumbers : ByNumber(c, op, blockNr)
        \/ \E op \in {"GetBlock", "GetReceipts", "GetLogs"},
              hash \in Hashes : ByHash(c, op, hash)
        \/ Distribute(c) \/ Expire(c) \/ Release(c)
        \/ Resume(c) \/ Reply(c)

Spec == Init /\ [][Next]_vars

\* The distributor serves every request, and a goroutine that can go on
\* does; nothing is assumed of the service, the peers and the deadlines.
Fairness ==
    \A c \in Callers : WF_vars(Distribute(c)) /\ WF_vars(Resume(c)) /\ WF_vars(Reply(c))

FairSpec == Spec /\ Fairness

-----------------------------------------------------------------------------

TypeOK ==
    /\ Svc!TypeOK
    /\ Odr!TypeOK
    /\ call \in [Callers ->
          [op : {"idle", "returned", "HeaderByNumber", "BlockByNumber",
                 "StateAndHeaderByNumber", "GetBlock", "GetReceipts", "GetLogs"},
           header : Headers \cup {None}, value : Items \cup {None},
           err : {None, "nopeers", "timeout", "invalid", "disconnect", "deadline",
                  "stopped"}]]
    /\ \A c \in Callers :
        call[c].op \in {"idle", "returned"} <=> request[c].state = "idle"

\* Every header at or above the fork height was accepted under the stored
\* chain configuration, also with calls and retrievals under way: New
\* rewinds the light chain before it stores the new configuration.
HeadersObeyStoredConfig == Svc!HeadersObeyStoredConfig

\* Nothing that uses chainDb is live when Stop closes it; the server pool,
\* which Stop never names, ends with the protocol manager.
NoLiveComponentOnClosedDb == Svc!NoLiveComponentOnClosedDb

\* The header database changes only as ChainStore allows: New, SetHead and
\* ResetWithGenesisBlock remove headers, a crash removes none.
ImplementsChainStore == Svc!ImplementsChainStore

\* A call returns the item of the header it was made for: the block that
\* BlockByNumber returns is the block of the header HeaderByNumber gave it,
\* also when the head moved while the retrieval was under way, and the
\* receipts and logs are those of the hash GetReceipts and GetLogs were
\* given, whatever the peers answered.
RetrievedIsRequested ==
    \A c \in Callers :
        call[c].op = "returned" /\ call[c].value # None =>
            /\ call[c].value.number = call[c].header.number
            /\ call[c].value.cfg = call[c].header.cfg

\* A retrieval that waits succeeds, unless its deadline passes, odr.Stop
\* gives it up, or it comes to a point where no connected peer that serves
\* it is left untried: as long as one such peer is there, timeouts, proofs
\* that do not verify and peers that leave send the request on to it and
\* never fail it, and no peer is asked twice.  A crash leaves no peer.
SucceedsUnlessExhausted ==
    \A c \in Callers :
        Odr!Pending(c)
            ~> \/ request[c].state = "done"
               \/ request[c].cause \in {"deadline", "stopped"}
               \/ Odr!Eligible(c) = {} /\ (Odr!Pending(c) \/ connected = {})

\* Every call of the API backend returns: with the item, or with the error
\* of the retrieval when the peers time out, leave or send bad proofs, when
\* there is none, and when the service is stopped under the call.
CallReturns ==
    \A c \in Callers : call[c].op # "idle" ~> call[c].op = "idle"

=============================================================================
