# TLA+ models of dsplinz

This directory holds TLA+ specifications of the parts of dsplinz that are in
`src/`, the TLC configurations that check them, and `PROJECT.json`, which
lists every run, every property with a mutant that breaks it, the source lines
each definition stands for, the findings and the hazards.

Run one check with `tlc -workers 2 -config <cfg> <module>`; the pairs are the
`runs` of `PROJECT.json`.

## 1. The system

dsplinz is a fork of go-ethereum. `spec.md` describes its synchronisation core
(chain synchronizer, block fetcher, state trie sync scheduler, ODR
distributor). The code of that core is in packages that are not part of
`src/`; what `src/` holds is the code around it: the two node services that
own and wire the core, their API backends, the constructor of the state sync
scheduler, a network simulation driver and a test helper.

| Part | Source | State | Operations | Talks to |
|---|---|---|---|---|
| Full node service | `dsp/backend.go` | chainDb (database version, stored chain config, blocks), the components it creates, `shutdownChan`, `lesServer` | `New`, `AddLesServer`, `Protocols`, `Start`, `Stop`, `ResetWithGenesisBlock` | blockchain, protocol manager (which owns downloader and fetcher), tx pool, miner, bloom indexer, LES server |
| Reward address and mining | `dsp/backend.go` | `dsperbase` under `lock`, the miner's address, the engine's signer, `acceptTxs` | `Rlzerbase`, `SetRlzerbase`, `StartMining`, `StopMining` | account manager, consensus engine, miner |
| Engine selection | `dsp/backend.go` | - | `CreateConsensusEngine` | chain configuration, `PowMode` |
| Full node API backend | `dsp/api_backend.go` | none of its own | `SetHead`, `HeaderByNumber`, `BlockByNumber`, `StateAndHeaderByNumber`, `GetEVM`, `SendTx`, pool queries, `ServiceFilter` | downloader, blockchain, miner, tx pool |
| Light client service | `les/backend.go` | chainDb, ODR, indexers, light chain, pool, protocol manager | `New`, `Start`, `Stop`, `ResetWithGenesisBlock` | ODR retriever, server pool, LES protocol manager |
| Light client API backend | `les/api_backend.go` | none of its own | as the full backend; headers above the local height, blocks, receipts and logs are retrieved from peers through ODR | light chain, ODR distributor, light tx pool, downloader |
| ODR distributor and peer set | described in `spec.md` 4.4, code not in `src/` | the peer set, one request per waiting caller | `retrieve`, attempt, validation, retry, failure | LES peers |
| State sync construction | `core/state/sync.go` | the scheduler it returns | `NewStateSync` and its leaf callback | trie sync scheduler |
| Simulation mockers | `p2p/simulations/mocker.go` | nodes up or down, a `WaitGroup`, restart goroutines | `boot`, `startStop`, `probabilistic`, `connectNodesInRing` | simulation `Network` |
| Trie comparison | `light/trie_test.go` | two iterators | `diffTries` | trie iterators over the full and ODR-backed trie |
| Metrics | `dsp/downloader/metrics.go`, `dsp/fetcher/metrics.go` | - | declarations | - |
| `swarm ls` | `cmd/swarm/list.go` | - | one HTTP listing | swarm client |

### What makes it hard

* **Restart over a persistent database.** `New` runs against whatever an
  earlier process left in chainDb. An incompatible configuration upgrade is two
  writes (`SetHead`, `WriteChainConfig`); the process can die between any two
  steps of `New`, `Start` or `Stop`.
* **Shutdown order.** `Stop` takes down seven components and then the database
  they all use; the bloom handlers are released only after that.
* **Locks that cover less than a call.** `Rlzerbase` and `SetRlzerbase` hold
  `s.lock` for single accesses; the calls are made by concurrent RPC
  goroutines. `StartMining` finishes in a goroutine that runs later.
* **Goroutines and a WaitGroup.** The probabilistic mocker spawns one restart
  goroutine per stopped node and waits for all of them; the quit channel can
  close in any state.
* **Two calls where one is meant.** `SetHead` cancels the synchronisation and
  then rewinds the chain; `StateAndHeaderByNumber` resolves a header and then
  opens its state. The chain grows and shrinks between the two.
* **Calls that wait for peers.** A call of the light backend holds a header
  while a peer is asked for the block; attempts time out, peers lie or leave,
  the chain is rewound and the service is stopped under the waiting call.
* **Responses in any order, and restarts.** The state download writes nodes as
  their subtrees complete; accounts share storage tries and code; a restart
  skips whatever the database already holds.
* **Boundaries.** The light-peer share of the peer budget; a hard-coded node
  index; iterators advanced in a loop condition; negative block numbers
  converted to `uint64`; the empty storage root and the hash of no code.

### What must hold

* Full node service: blocks above the fork height agree with the stored chain
  configuration, through crashes; no component that uses the database is live
  when it is closed; the peer limit handed to the protocol manager is never
  negative. The same for the light client, whose `Stop` does not name two of
  the components it has to bring down.
* The chain database of either service: a configuration upgrade is one step to
  its readers and removes exactly the blocks from the fork on; a database
  written under another database version is never stamped as current.
* Mining: a sealing engine is authorised for a local account before the miner
  is started; the miner pays the configured reward address; the automatic
  choice never replaces a configured address.
* Mockers: a round starts only when the restarts of the previous one are over;
  startStop has at most one node down; closing quit ends the mocker; no panic
  after the ring is up.
* diffTries: it reports a difference exactly when there is one.
* API backends: no state is opened for a header that does not exist; the chain is not
  rewound while a synchronisation runs.
* Light client retrieval: a call returns the item of the header it held,
  whatever the peers sent and wherever the head went; a retrieval succeeds
  as long as a peer that serves it is left to ask, its deadline has not
  passed and the service is not stopped; every call returns.
* State download: a node is in the database only with everything it refers to;
  each hash is requested once; the download ends.

## 2. Modules

| Module | Models | Instantiated by |
|---|---|---|
| `Rlzereum` | `New` with `CreateDB` and `makeExtraData`, `AddLesServer`, `Protocols`, `Start`, `Stop`, `ResetWithGenesisBlock` of `dsp/backend.go`; `SetHead` of the API backend, block import and process crash as environment | `MCRlzereum` |
| `Mining` | `Rlzerbase`, `SetRlzerbase`, `StartMining`, `StopMining`, `CreateConsensusEngine` of `dsp/backend.go`, the miner as environment | `MCMining` |
| `Mocker` | all of `p2p/simulations/mocker.go`, the `Network` as environment | `Mocker.cfg` directly |
| `TrieDiff` | `diffTries` of `light/trie_test.go`, the iterators as environment | `MCTrieDiff` |
| `LightDsplinz` | `New`, `lesTopic`, `Start`, `Stop`, `ResetWithGenesisBlock` of `les/backend.go`; `SetHead` of the API backend, header import and process crash as environment | within `LightClient` |
| `Distributor` | the ODR distributor and its peer set as section 4.4 of `spec.md` describes them: `retrieve`, one attempt at a time, validation, retry, failure | within `LightClient` |
| `LightClient` | `LightDsplinz` and `Distributor` composed with `HeaderByNumber`, `BlockByNumber`, `StateAndHeaderByNumber`, `GetBlock`, `GetReceipts`, `GetLogs` of `les/api_backend.go` | `MCLightClient` |
| `ChainStore` | what the chain database of a node promises its readers: the abstract specification `Rlzereum` and `LightDsplinz` implement | instantiated by both |
| `ApiBackend` | `SetHead`, `HeaderByNumber`, `BlockByNumber`, `StateAndHeaderByNumber` of `dsp/api_backend.go`, `SetHead` of `les/api_backend.go`; synchroniser, fetcher and miner as environment | `MCApiBackend` |
| `StateSync` | `NewStateSync` and its leaf callback of `core/state/sync.go`, over the trie scheduler and the downloader's loop as described in `spec.md` | `MCStateSync` |
| `StateStore` | what a state download promises: the abstract specification `StateSync` implements | instantiated by `StateSync` |

The components of `src/` meet each other mostly through packages that are
not in `src/`, and each module carries the part of those packages it needs as
its environment; `PROJECT.json` marks every definition of such an environment
as modelled from the specification. Where two components of `src/` meet
directly, the module of one has the step of the other: `SetHead` of the API
backends is an action of `Rlzereum` and of `LightDsplinz`, where it rewinds the
chain database the lifecycle works on, and the two actions of `ApiBackend`,
where it races the synchroniser. `ChainStore` is shared by the two services.

### Rlzereum

The persistent variables are what chainDb holds: `dbVersion`, `storedCfg` (the
chain configuration stored under the genesis hash) and `chain`, where
`chain[h]` is the configuration under whose rules block `h` was imported.
Everything else is lost by `Crash`. `pc` walks through `New` one call at a
time (`NewOpen`, `NewGenesis`, `NewVersion`, `NewBlockChain`, `NewRewind`,
`NewWriteConfig`, `NewFinish`), so that a crash can fall between any two
writes; `Stop` is one action that makes the next call of `StopOrder`.
`live` is the set of components created and not yet stopped. `minerExtra` is
the length of the extra data `makeExtraData` hands to the miner: the configured
one, the default of the build where none is configured, and none where that is
over `MaximumExtraDataSize`. On a service that `New` has returned,
`ResetWithGenesisBlock` and `SetHead` cut the chain back while the chain is
live.

Assumptions about code outside `src/`: `SetupGenesisBlock` returns a
`ConfigCompatError` with `RewindTo = Fork - 1`, and leaves the stored
configuration alone, when the stored and the supplied configuration differ and
the head is at or above the height `Fork` where they disagree; otherwise it
stores the supplied configuration. `Fork >= 2` because a rewind to block 0 is
not reported as an error upstream. `SetHead(n)` drops the blocks above `n`.
Blocks are imported while the protocol manager and the chain are live.

### ChainStore

`ChainStore` has the three things a reader of the chain database sees: the
database version, the chain configuration in force, and the chain. Its actions
are `Stamp` (an unversioned database gets the version of the program),
`Configure` (a configuration is stored over none, over itself, or over another
while the chain is below the fork), `Upgrade` (another configuration is put in
force over a chain that has passed the fork, and the chain then ends right
below the fork), `Import` (a block is accepted under the configuration in
force) and `Rewind` (the chain is cut back, the configuration stays).

`Rlzereum` instantiates it with `version <- dbVersion`, `chain <- chain` and
`config <- IF pc = "writeCfg" THEN chainConfig ELSE storedCfg`: from `SetHead`
on the new configuration counts as in force, so that `NewRewind` is the
`Upgrade` step and `NewWriteConfig` changes nothing a reader sees. A crash
between the two is a `Configure` back to the stored configuration, which the
abstract specification allows because the chain is below the fork by then; the
next start with the new configuration no longer needs a rewind.
`LightDsplinz` uses the same mapping with the version fixed at 0, since the
light client stamps no version. `ImplementsChainStore` is `ChainStore`'s
specification under these mappings.

### Mining

One action per critical section of `s.lock` and per call into the miner or the
engine: `Rlzerbase` is `Resolve` (read) then `RlzerbaseStore` (write);
`SetRlzerbase` is the locked write then `SetMinerBase`; `StartMining` is
`Resolve`, `RlzerbaseStore` if the address was chosen automatically,
`Authorize`, `Launch`. `Launch` adds a pending `go s.miner.Start(eb)`, which
`MinerStart` runs at any later time. The miner is outside `src/`: `Start(a)`
makes `a` its reward address and starts it, `Stop` stops it. `engine` is what
`CreateConsensusEngine` returns for the chain configuration and the proof-of-work
mode chosen in `Init`.

### Mocker

`mocker` and `nodeCount` are the arguments of a run, chosen in `Init`. `pc` is
the position of the mocker goroutine: `connect`, `loop` (the select at
the head of the loop), `round` (inside a probabilistic round, or at its
`wg.Wait`), `pause` (startStop between stop and start). `restarts` holds the
nodes whose restart goroutine is pending. Timers and sleeps are not modelled:
every interleaving they allow, and more, is explored. `net.Stop` fails exactly
on a node that is down; `net.Start` may fail, at most `MaxStartFailures` times.
`connectNodesInRing` is one step, because nothing runs beside it and a failure
ends the program.

### TrieDiff

A trie is the sequence of key/value pairs its iterator yields, in key order.
`failAt[k]` is the position at which iterator `k` fails (`Next` returns false
and sets `Err`), chosen in `Init`. `Loop` is one evaluation of the loop
condition and body, `Switch` the switch after the loop, including the extra
calls of `Next` its cases make.

### LightDsplinz

Built like `Rlzereum`, with what `les/backend.go` does differently: no database
version check; three indexers; `live` also holds the ODR backend and the server
pool. `DbUsers` are the components `New` gives chainDb, or something that holds
it. `Stop` does not name the server pool: `Stopped("protocolManager")` is the
whole `QuitSyncGroup`, because `New` hands the server pool and the protocol
manager one quit channel and one `WaitGroup`, and the protocol manager's `Stop`
is taken to close the one and wait for the other (its code is outside `src/`).
The request distributor gets the quit channel alone and no database, and is
not among the components. Every call of `Stop` is taken to return when its
component is at rest, so the 200 ms sleep before `chainDb.Close` is a step
without effect. `Start` asks `lesTopic` for the discovery topic of the first
advertised protocol version; for a version it does not know `lesTopic`
panics, and the service is `"panicked"`.

### Distributor

Written from section 4.4 of `spec.md`; `les/distributor.go` and
`les/retrieve.go` are not in `src/`. `request[c]` is the retrieval caller `c`
waits for: the query, the peers tried, the peer of the attempt under way and
the cause of the last failed attempt. `Send` picks any peer of `Eligible(c)`:
connected, not tried for this request, and of a protocol version that serves
the query (`Serves`). `Answer(c, a)` is the validation: `a` is what the answer
proves, and only `a = request[c].query` unblocks the caller; a proof of
something else (a member of `Decoys`) and `Malformed` send the request to
another peer, as `Timeout` and `Drop` do. `Exhaust` fails a request that has
no eligible peer left, `Deadline` one whose overall deadline has passed,
`Shutdown` one whose retriever is stopped. A member of `Peers` is a peer handle
(section 3 of `spec.md`: created on connect, removed on disconnect): `Connect`
takes a handle that was never in use, `Drop` retires it for the life of the
process and takes it out of every request's set of tried peers.
The weights of the choice (latency, load, the penalty of a peer whose proof
did not verify) are left out: where the specification prefers a peer, the
model allows every eligible one, which includes the preferred.

### LightClient

The three groups of variables are those of `LightDsplinz` (instantiated as
`Svc`), of `Distributor` (`Odr`, with the items as queries) and `call[c]`, the
API call of RPC goroutine `c`: its method, the header it holds, and what it
returns. An item is a record of kind, number and the configuration its header
was accepted under, which is what tells the header of height 2 before a
configuration upgrade from the one after it; a hash stands for its header.

* `ByNumber` is `HeaderByNumber`, `BlockByNumber` and `StateAndHeaderByNumber`
  up to the first wait: pending and latest give `CurrentHeader`, a height the
  light chain has gives its header, and any other (`Uint64` of the argument,
  a negative one included) is asked of the distributor. `WithHeader` is what
  each method does with the header: `BlockByNumber` asks for the block of its
  hash, the other two return.
* `ByHash` is `GetBlock`, `GetReceipts` and `GetLogs`: the latter two return
  nil without an error for a hash `ReadHeaderNumber` does not find.
* `Resume` is the return of the wait: with a header the call goes on to
  `WithHeader`, with another item it returns it, with a failure it returns the
  error. `Reply` ends the call.
* `Service(step)` is a step of `LightDsplinz` together with what it does to the
  rest: a crash ends peers, requests and calls (`ProcessEnds`); when `Stop`
  stops the protocol manager the peers are dropped and what was sent to them
  goes back to the queue, where it fails for want of peers. That the protocol
  manager's `Stop` disconnects its peers is an assumption about code outside
  `src/`. Calls start only on a started service and run on while it stops.
* `PeerSet` connects peers while the protocol manager runs and disconnects
  them at any time; `Distribute` is a step of the distributor, `Expire` the
  deadline of a call's context.
* `Release` is what `odr.Stop` (the first call of `Stop`) may do to a retrieval
  that waits. `spec.md` only says that cancellation is signalled over channels
  (section 9), so from that call on the retrieval may be given up at any
  time, or not at all: nothing is assumed of `Release`.

`SetHead` of `les/api_backend.go` is in `LightDsplinz`, as a step of the
service, and in `ApiBackend`, against the synchroniser.

### ApiBackend

A block is a number given to it when it is created; its header is
`<<"block", b>>`, the pending header of the miner `<<"pending", b>>` for the
block `b` it is built on, and a state is `StateOf(h)`, a value of its own, for
the header `h` at whose root it is opened. `chain[n + 1]` is the canonical block of height `n`. `backend` is chosen in
`Init`: a node is full or light, and the light one has `SetHead` only here.

`SetHead` is two actions, `SetHeadCancel` (`downloader.Cancel`, after which no
run is under way) and `SetHeadRewind` (`blockchain.SetHead`). In the full
backend `StateAndHeaderByNumber` returns the miner's pending pair in one step,
returns nil for a header that does not exist, and is otherwise two actions: the
header is held, then `StateAt` opens the state of its root, which may fail.
`Uint64` is the conversion
of the signed `rpc.BlockNumber`, modulo `2^UintWidth`.

Environment: `SyncStart`, `SyncCommit`, `SyncEnd` (the synchroniser of
`spec.md`: one run at a time, commits only within a run), `FetcherInsert`,
`MinerUpdate`.

### StateSync and StateStore

The state to download is a constant: `Kids[h]` are the nodes that node `h`
refers to, `Leaves[h]` the leaf values it holds, accounts with a storage root
and a code hash or storage slots. `callback` is the closure of `NewStateSync`:
it fails on a leaf that is not an account, and else calls `AddSubTrie` for the
storage root, without a callback, and `AddRawEntry` for the code hash, both
with the hash of the node that holds the leaf as parent. The scheduler is
modelled from section 4.3 of `spec.md`: requests by hash, a count of the
requests each one waits for, parents as a bag (an account node may refer to one
storage trie several times), a memory batch. `Missing`, `Process` and `Commit`
are the calls the downloader makes in its loop; `Process` also takes a response
that comes a second time. `Crash` loses the scheduler and keeps the database.

`StateStore` has two variables, the set of stored hashes and a flag for a
completed download. Its one action stores a set of hashes such that the stored
set stays closed under `Refs`, and sets the flag only if the root is stored.
`StateSync` instantiates it with `stored <- db`, `complete <- Done` and
`Refs[h] <- References(h)`, the children of `h` together with the storage roots
and code hashes of its accounts; `ImplementsStateStore` is `StateStore`'s
specification under that mapping.

## 3. Runs

| Run | Module / cfg | Expect | Shows |
|---|---|---|---|
| `rlz_lifecycle` | `MCRlzereum` / `MCRlzereum.cfg` | pass | `TypeOK`, `ChainObeysStoredConfig`, `NoLiveComponentOnClosedDb`, `ImplementsChainStore` |
| `mining` | `MCMining` / `MCMining.cfg` | pass | `TypeOK`, `StartedOnlyAuthorized` |
| `mining_stale_start` | `MCMining` / `MCMiningPays.cfg` | violation | `MinerPaysEtherbase` |
| `mining_autoconfig` | `MCMining` / `MCMiningAuto.cfg` | violation | `AutoConfigFillsOnlyUnset` |
| `mocker` | `Mocker` / `Mocker.cfg` | pass | `TypeOK`, `RoundStartsSettled`, `AtMostOneDown`, `QuitTerminates` |
| `mocker_index` | `Mocker` / `MockerPanic.cfg` | violation | `NoRuntimePanic` |
| `triediff` | `MCTrieDiff` / `MCTrieDiff.cfg` | pass | `TypeOK`, `VerdictIsTrue` |
| `triediff_nil` | `MCTrieDiff` / `MCTrieDiffNil.cfg` | violation | `NilMeansEqual` |
| `light_lifecycle` | `MCLightClient` / `MCLightClient.cfg` | pass | `TypeOK`, `HeadersObeyStoredConfig`, `NoLiveComponentOnClosedDb`, `RetrievedIsRequested`, `ImplementsChainStore`, `SucceedsUnlessExhausted`, `CallReturns` |
| `api_backend` | `MCApiBackend` / `MCApiBackend.cfg` | pass | `TypeOK` |
| `api_sethead` | `MCApiBackend` / `MCApiBackendRewind.cfg` | violation | `NoRewindUnderSync` |
| `state_sync` | `MCStateSync` / `MCStateSync.cfg` | pass | `TypeOK`, `RequestedOnce`, `ImplementsStateStore`, `SyncCompletes` |

What the properties say:

* `ChainObeysStoredConfig`, `HeadersObeyStoredConfig`: every block or header at
  or above the fork height was accepted under the stored configuration. It
  rests on the order of `SetHead` and `WriteChainConfig` in `New` and on what
  a restart finds after a crash between them.
* `ImplementsChainStore`: every change of the chain database is a step of
  `ChainStore`. Beyond the invariant above it says what an upgrade may remove.
  A rewind to the genesis block instead of to the block below the fork keeps
  the invariant and breaks the refinement; so does a version stamp written
  over a database of another version.
* `NoLiveComponentOnClosedDb`: nothing that uses chainDb is live while it is
  closed; it rests on the order of the calls in `Stop`.
* `RetrievedIsRequested`: what a call of the light backend returns is the item
  of the header it held when it asked. It rests on `BlockByNumber` passing the
  hash of its header on (and not reading the head again after the wait), and
  on the distributor checking an answer against what was asked.
* `SucceedsUnlessExhausted`: a retrieval that waits succeeds, unless its
  deadline passes, `odr.Stop` gives it up, or it comes to a point where no
  connected peer that serves it is left untried. While one such peer is there,
  a timeout, a bad proof or a lost peer sends the request on to it and never
  fails it, and no peer is asked twice. This is the test of section 8 of
  `spec.md` with one faulty peer before the sound one; its second faulty peer
  needs a third handle, which the run does not have. A crash leaves no peer.
* `CallReturns`: every call that was started ends, through timeouts, bad
  proofs, peers that leave, a rewind and `Stop`; a crash ends it with the
  process.
* `StartedOnlyAuthorized`: with clique or alien the miner is started, or about
  to be, only for an account a wallet holds and after the engine was authorised.
* `RoundStartsSettled`, `AtMostOneDown`, `QuitTerminates`: see "What must hold".
* `VerdictIsTrue`: a difference `diffTries` reports is a difference.
* `ImplementsStateStore`, `RequestedOnce`, `SyncCompletes`: see above.
* `TypeOK` of a module also carries its boundary conditions: the peer limit is
  a natural number, the miner's extra data is within its limit, the `WaitGroup`
  counter never negative, no state is opened for a nil header, `lesTopic` never panics, a parent of a
  request is itself a pending request.

### Bounds

* `rlz_lifecycle`: two chain configurations (symmetric), `Fork = 2`,
  `MaxHeight = 3`, so that the chain can be below, at and above the fork when a
  restart changes the configuration; database versions 0, current and one
  older; peer counts 0..2, which include the equality
  `LightPeers = MaxPeers`; extra data of 0, 32 and 33 bytes around the limit of
  32, with a default of 26. About 5,900 distinct states.
* `mining`: two callers, which every race of the module needs and suffices for;
  two addresses, one in a local wallet and one not; every chain configuration
  (clique, alien, both, neither) and every proof-of-work mode;
  `MaxSpawned = 1` pending `miner.Start` per address. About 273,000 states.
* `mocker`: four nodes, so that the draws range over 0..2 and rounds stop zero,
  one and two nodes as well as run into the hard-coded 9 and past the slice;
  and eleven nodes, the smallest number with which a draw can be 9, so that
  both branches of the equal draws are taken and a round stops nine nodes
  within the slice. `MaxStartFailures = 1`, which is what it takes for a later
  `net.Stop` to fail. About 34,000 states. The mocker may stop for good, so
  deadlock is not checked.
* `triediff`: keys {1, 2, 3} and two values give 27 tries and 729 pairs, among
  them tries that agree on the first pair and part at the second; each
  iterator fails at any position or not at all. About 37,000 states. Values matter only to
  `NilMeansEqual`.
* `light_lifecycle`: the service as in `rlz_lifecycle`, without versions and
  extra data, with protocol versions 1 and 2 and without symmetry, since the
  run checks liveness. One caller: the calls of two callers share nothing but
  the peer set, and no property relates two calls. Two peer handles, one of a
  peer that serves every kind of item and one of a peer that serves headers
  only, which is what it takes for a request to meet an ineligible peer, a
  retry at a second peer and the end of the peers; a handle is used once in
  the life of a process, so at most two peers connect between two starts. With
  a third handle the run has more than 1.2 million states before liveness
  is checked. Block numbers pending, latest, 1 (a height the chain may
  hold) and 4 (one it never holds, so the header is retrieved);
  `UintWidth = 3`, the smallest width above every height used. One hash, of
  the header of height 2 under the new configuration, which the database
  holds at times and loses to a rewind. A faulty peer answers with `Malformed`
  or with the one decoy, a sound proof of the genesis block. About 342,000
  states, two minutes, most of them for the two liveness properties. TLC reports the steps of the service as the twelve
  disjuncts of `Next` that apply `Service`.
* `api_backend`: a full node (`api_sethead` takes a full and a light one);
  two callers (symmetric), so that one
  can rewind or read while the other is between its two steps; block numbers
  -3..3, which hold pending (-2), latest (-1), a negative number that `uint64`
  turns into a large height (-3), heights on the chain and above it;
  `UintWidth = 4`, the smallest width whose range exceeds every height used;
  `MaxHeight = 2` and `MaxBlocks = 3`, so that a height can be rewound and
  filled again by another block. About 850,000 states.
* `state_sync`: five hashes. The root `R` holds one account and refers to the
  node `A` with three more; three accounts share the storage trie `S`, which
  has a child `T`; three share the code `C`; one account has no storage and
  one no code. `A` therefore refers to `S` twice, and `S` is requested by two
  parents. `MaxCrashes = 2`: a crash with a partly written database, and a
  second crash in the download taken up after it. About 400 states. The
  download stops when it is done, so deadlock is not checked.

### Fairness

`Mocker`, `StateSync` and `LightClient` have liveness properties. The two
services run `New`, `Start` and `Stop` as one sequence of calls each, the API
calls of `Mining` and `ApiBackend` take a bounded number of steps without
waiting for one another, and `diffTries` is a loop over finite iterators: what
they promise is safety.

`LightClient`: `FairSpec` assumes weak fairness, for every caller, of
`Distribute` (the distributor's loop runs for as long as the process does: a
queued request is sent or failed, and an attempt is answered or runs into the
per-attempt timeout of `spec.md` section 5), of `Resume` and of `Reply` (a
goroutine that can go on is scheduled). Nothing is assumed of the service, of
the peers, which may never connect or never answer well, of `odr.Stop`, which
need not release a waiting call, or of the deadline, which need not pass: `CallReturns` and `SucceedsUnlessExhausted` hold through
the per-attempt timeout and the finite set of peers alone.

`Mocker`: `FairSpec` assumes weak fairness of the
steps of the mocker goroutine and of each restart goroutine, for the nodes of
the largest ring (the Go scheduler
runs a runnable goroutine, timers fire), and strong fairness of the quit cases
of the three selects: where quit and a timer are both ready, `select` picks at
random, so a quit case that is ready every time the select is reached is taken
at last. Closing quit is left to the environment and is not fair.

`StateSync`: `FairSpec` assumes weak fairness of `NewStateSync`, of `Commit`
and, for every hash, of `Missing` and `Process`. The downloader runs its loop
for as long as the scheduler has pending requests, asks again for what a peer
did not deliver, and has peers that hold the state; a request that was handed
out is therefore answered at last. `Crash` is not fair and is bounded by
`MaxCrashes`, so `SyncCompletes` speaks of the download after the last crash.

### Findings

* `mining_stale_start`: `StartMining`, then `SetRlzerbase(B)` that returns,
  then the goroutine of `StartMining` runs `miner.Start(A)`: the miner pays `A`
  while the node reports `B`.
* `mining_autoconfig`: `Rlzerbase` reads an unset address, `SetRlzerbase(B)`
  stores `B`, `Rlzerbase` stores the first wallet account over it.
* `mocker_index`: with `nodeCount < 9`, two draws of 0 make the round run from
  0 to 9 and index past the node slice.
* `triediff_nil`: `diffTries` returns nil for different tries. In the trace
  TLC gives, the full trie is exhausted first, the switch has tested `Err` of
  both iterators, and the call of `i2.Next()` in its last case fails: a light
  trie that could not be read passes as equal. The module has two more ways
  to the same verdict, which this trace does not take: the value comparison
  compares `i2.Value` with itself, and a full trie with exactly one more pair
  than the light trie loses that pair to the loop condition.
* `api_sethead`: `spec.md` allows no concurrent writers of the canonical head.
  `SetHead` calls `downloader.Cancel` and then `blockchain.SetHead` and holds
  nothing between them; a run the protocol manager starts after `Cancel` has
  returned is under way when the chain is rewound. Both backends do the same.

## 4. Plan

Done: `Rlzereum`, `Mining`, `Mocker`, `TrieDiff`, `LightDsplinz`, `ApiBackend`,
`StateSync` with `StateStore`, `ChainStore` with the refinement of both
services, and `LightClient`, the light service composed with its API calls
and the `Distributor`. Left, most important first; each item waits for code that is outside
`src/` and that `spec.md` does not describe:

1. The bloom handlers. `Stop` of the full node closes chainDb one call before
   it closes `shutdownChan`, and `Start` leaves the handlers running when it
   returns the peer-configuration error. `Rlzereum` reaches both states
   (`handlers` set with `dbOpen` false, or with `pc = "failed"`); a property
   needs the handler loop and the goroutines `ServiceFilter` spawns.
2. The goroutine of `StartMining` against `Stop`: `Mining` has the goroutine,
   `Rlzereum` the shutdown; their composition needs what the miner does when it
   is started after it was stopped.
3. The pause in `Stop` of the light client: which goroutines may outlive their
   `Stop` call, and whether 200 ms is a bound for them.
4. The bloom indexer of the light client, started before the chain is rewound
   for a configuration upgrade: it may index sections of headers the rewind
   removes. Chain indexing is outside `src/`.
5. `GetEVM`, `SendTx` and the pool queries of the two backends, over a model of
   the transaction pool; `GetReceipts` and `GetLogs` of the full backend, over a
   model of what the database keeps of a block that was rewound.
6. A retry of `New` inside one process after an error return, which finds the
   database still open.
7. The weights and penalties of the distributor's choice among peers, and
   when `odr.Stop` releases a retrieval that waits: `spec.md` is silent on
   it, and `LightClient` allows every moment from the call on.
8. The state `StateAndHeaderByNumber` opens for a header that `SetHead` has
   removed between its two calls: whether it is still in the database is
   decided in `core`.

## 5. Not modelled

* Downloader and fetcher: their code is not in `src/`. They appear as
  environments, modelled from `spec.md`, as far as a module needs them
  (`ApiBackend`, `StateSync`); their pipelines would be models of the
  specification alone. The trie scheduler and the ODR distributor are
  modelled from `spec.md` because code in `src/` runs on them.
* The transaction pool, the miner's internals, the bloom handlers and `rawdb`:
  not in `src/` and not described by `spec.md`, which leaves the transaction
  pool and the RPC surface out by name. The methods of the API backends that
  only hand their arguments to one of them (`SendTx`, the pool queries,
  `ServiceFilter`, `BloomStatus`, `GetTd`, the subscriptions, and `GetBlock`,
  `GetReceipts` and `GetLogs` of the full backend) have no behaviour of their
  own to check.
* `APIs` of the two services, `LightDummyAPI`, `GetMockerList` and the getters:
  they build or return values and change no state.
* In `New`: the network id, which is replaced by the chain id on an alien chain
  with the default id, the journal path of the pool and the default of the gas
  price oracle are values no property tells apart.
* `metrics.go` (two files): declarations.
* `cmd/swarm/list.go`: command-line I/O.
* Time: sleeps, tickers and timeouts are replaced by nondeterministic order.
