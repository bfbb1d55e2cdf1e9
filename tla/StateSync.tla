----------------------------- MODULE StateSync ------------------------------
(***************************************************************************)
(* The state download scheduler NewStateSync of core/state/sync.go builds: *)
(* a trie scheduler for the account trie whose leaf callback decodes each  *)
(* account and registers its storage trie and its code as further targets, *)
(* parented to the node that holds the leaf.                               *)
(*                                                                         *)
(* The state is a constant: Kids[h] are the nodes that node h refers to by *)
(* hash, Leaves[h] the values it holds.  The scheduler itself is outside   *)
(* core/state and modelled from the specification: requests are kept by    *)
(* hash, a request counts the requests it waits for, and a node reaches    *)
(* the memory batch when that count is zero.  The downloader that drives   *)
(* it is one loop: Missing, the network, Process, Commit.                  *)
(***************************************************************************)
EXTENDS Integers, Sequences, FiniteSets, Bags, SequencesExt

CONSTANTS
    Hashes,       \* hashes of the trie nodes and code blobs of the state
    root,         \* the state root to download
    Kids,         \* Kids[h]: hashes of the child nodes of node h
    Leaves,       \* Leaves[h]: the leaf values held in node h, a sequence
    emptyRoot,    \* the root of the empty trie
    emptyState,   \* the hash of no code
    zero,         \* common.Hash{}
    MaxCrashes    \* bound on the crashes of the node in a behaviour

Accounts == [kind : {"account"}, Root : Hashes \cup {emptyRoot},
             CodeHash : Hashes \cup {emptyState}]
Slots    == [kind : {"slot"}]

ASSUME /\ root \in Hashes
       /\ {emptyRoot, emptyState, zero} \cap Hashes = {}
       /\ Kids \in [Hashes -> SUBSET Hashes]
       /\ \A h \in Hashes : Leaves[h] \in Seq(Accounts \cup Slots)
       /\ MaxCrashes \in Nat

VARIABLES
    db,        \* the database: hashes of the nodes and code it holds
    pc,        \* "new", "syncing", or "failed" after an error of Process
    syncer,    \* the scheduler: requests, queue and memory batch
    issued,    \* issued[h]: how often Missing has handed out h in this run
    crashes    \* crashes so far

vars == <<db, pc, syncer, issued, crashes>>

\* A request that nothing has been delivered for.
Request(raw, cb, parents) ==
    [raw |-> raw, cb |-> cb, data |-> FALSE, deps |-> 0, parents |-> parents]

NoSyncer == [requests |-> <<>>, queue |-> {}, membatch |-> {}, err |-> FALSE]

Pending(s) == DOMAIN s.requests

-----------------------------------------------------------------------------
(* The trie scheduler *)

\* Queues the hash of a request again when a second parent refers to it.
scheduleQueuedAgain(s, h, req) ==
    IF h \in Pending(s)
      THEN [s EXCEPT !.requests[h].parents = @ (+) req.parents, !.queue = @ \cup {h}]
      ELSE [s EXCEPT !.requests = [k \in Pending(s) \cup {h} |->
                                      IF k = h THEN req ELSE s.requests[k]],
                     !.queue = @ \cup {h}]

\* A request for a hash that is already requested adds its parents to the
\* request there is; a new one is queued.
schedule(s, h, req) ==
    IF h \in Pending(s)
      THEN [s EXCEPT !.requests[h].parents = @ (+) req.parents]
      ELSE [s EXCEPT !.requests = [k \in Pending(s) \cup {h} |->
                                      IF k = h THEN req ELSE s.requests[k]],
                     !.queue = @ \cup {h}]

\* AddSubTrie and AddRawEntry: nothing for the empty hash and for what the
\* batch or the database holds; else the parent waits for one request more.
AddEntry(s, h, parent, req, empty) ==
    IF h = empty \/ h \in s.membatch \/ h \in db THEN s
    ELSE IF parent = zero THEN schedule(s, h, req)
    ELSE schedule([s EXCEPT !.requests[parent].deps = @ + 1], h,
                  [req EXCEPT !.parents = SetToBag({parent})])

AddSubTrie(s, h, parent, cb) ==
    AddEntry(s, h, parent, Request(FALSE, cb, EmptyBag), emptyRoot)

AddRawEntry(s, h, parent) ==
    AddEntry(s, h, parent, Request(TRUE, FALSE, EmptyBag), emptyState)

\* The requests of todo are done: they move to the batch, each parent waits
\* for one request less per reference, and one that waits for none is done.
RECURSIVE commit(_, _)
commit(s, todo) ==
    IF todo = {} THEN s
    ELSE LET h    == CHOOSE x \in todo : TRUE
             ps   == s.requests[h].parents
             rest == Pending(s) \ {h}
             dec  == [k \in rest |->
                        [s.requests[k] EXCEPT !.deps = @ - CopiesIn(k, ps)]]
             done == {k \in rest : s.requests[k].deps \in 1 .. CopiesIn(k, ps)}
         IN  commit([s EXCEPT !.requests = dec, !.membatch = @ \cup {h}],
                    (todo \ {h}) \cup done)

-----------------------------------------------------------------------------
(* NewStateSync *)

\* Takes the code hash for the storage root and the storage root for it.
callbackSwapped(s, leaf, parent) ==
    IF leaf.kind # "account" THEN [s EXCEPT !.err = TRUE]
    ELSE AddRawEntry(AddSubTrie(s, leaf.CodeHash, parent, FALSE), leaf.Root, parent)

\* Registers storage and code without the node that refers to them.
callbackUnparented(s, leaf, parent) ==
    IF leaf.kind # "account" THEN [s EXCEPT !.err = TRUE]
    ELSE AddRawEntry(AddSubTrie(s, leaf.Root, zero, FALSE), leaf.CodeHash, zero)

\* Hands the storage trie the callback of the account trie.
callbackInherited(s, leaf, parent) ==
    IF leaf.kind # "account" THEN [s EXCEPT !.err = TRUE]
    ELSE AddRawEntry(AddSubTrie(s, leaf.Root, parent, TRUE), leaf.CodeHash, parent)

\* The leaf callback: the leaf is decoded as an account, its storage trie
\* is added without a callback of its own, and its code as a raw entry.
callback(s, leaf, parent) ==
    IF leaf.kind # "account" THEN [s EXCEPT !.err = TRUE]
    ELSE AddRawEntry(AddSubTrie(s, leaf.Root, parent, FALSE), leaf.CodeHash, parent)

\* A scheduler for the account trie under root, with the leaf callback.
NewStateSync ==
    /\ pc = "new"
    /\ syncer' = AddSubTrie(NoSyncer, root, zero, TRUE)
    /\ issued' = [h \in Hashes |-> 0]
    /\ pc' = "syncing"
    /\ UNCHANGED <<db, crashes>>

-----------------------------------------------------------------------------
(* The downloader's loop over the scheduler *)

\* Missing hands out a queued hash, which is then asked of a peer.
Missing(h) ==
    /\ pc = "syncing"
    /\ h \in syncer.queue
    /\ syncer' = [syncer EXCEPT !.queue = @ \ {h}]
    /\ issued' = [issued EXCEPT ![h] = @ + 1]
    /\ UNCHANGED <<db, pc, crashes>>

\* The leaves of h go through the callback, the children of h that are not
\* known become requests; h is done if it waits for nothing.
Expanded(s, h) ==
    LET called == IF s.requests[h].cb
                    THEN FoldLeft(LAMBDA acc, leaf :
                                      IF acc.err THEN acc ELSE callback(acc, leaf, h),
                                  s, Leaves[h])
                    ELSE s
        kids   == Kids[h] \ (called.membatch \cup db)
    IN  IF called.err THEN called
        ELSE IF kids = {} /\ called.requests[h].deps = 0 THEN commit(called, {h})
        ELSE FoldSet(LAMBDA k, acc :
                         schedule(acc, k, Request(FALSE, acc.requests[h].cb,
                                                  SetToBag({h}))),
                     [called EXCEPT !.requests[h].deps = @ + Cardinality(kids)],
                     kids)

\* h is requested and nothing was delivered for it yet.
Awaited(h) == h \in Pending(syncer) /\ ~syncer.requests[h].data

\* Process of one response, the first or a repeated one: it is rejected if
\* h is not requested or is already processed; a raw entry is done at once.
Process(h) ==
    /\ pc = "syncing"
    /\ issued[h] > 0
    /\ \/ /\ ~Awaited(h)
          /\ UNCHANGED <<syncer, pc>>
       \/ /\ Awaited(h)
          /\ LET got == [syncer EXCEPT !.requests[h].data = TRUE] IN
              syncer' = IF got.requests[h].raw THEN commit(got, {h})
                        ELSE Expanded(got, h)
          /\ pc' = IF syncer'.err THEN "failed" ELSE pc
    /\ UNCHANGED <<db, issued, crashes>>

\* Commit writes the memory batch to the database, as one batch.
Commit ==
    /\ pc = "syncing"
    /\ syncer.membatch # {}
    /\ db' = db \cup syncer.membatch
    /\ syncer' = [syncer EXCEPT !.membatch = {}]
    /\ UNCHANGED <<pc, issued, crashes>>

\* The node dies; the database is what is left.
Crash ==
    /\ crashes < MaxCrashes
    /\ pc # "new"
    /\ crashes' = crashes + 1
    /\ pc' = "new"
    /\ syncer' = NoSyncer
    /\ UNCHANGED <<db, issued>>

-----------------------------------------------------------------------------

Init ==
    /\ db = {}
    /\ pc = "new"
    /\ syncer = NoSyncer
    /\ issued = [h \in Hashes |-> 0]
    /\ crashes = 0

Next ==
    \/ NewStateSync
    \/ \E h \in Hashes : Missing(h) \/ Process(h)
    \/ Commit
    \/ Crash

Spec == Init /\ [][Next]_vars

\* The downloader runs its loop for as long as requests are pending, and a
\* request that was handed out is answered in the end, by some peer.
Fairness ==
    /\ WF_vars(NewStateSync)
    /\ WF_vars(Commit)
    /\ \A h \in Hashes : WF_vars(Missing(h)) /\ WF_vars(Process(h))

FairSpec == Spec /\ Fairness

-----------------------------------------------------------------------------

\* What node h refers to: its children, and the storage roots and code
\* hashes of the accounts in its leaves.
References(h) ==
    (Kids[h] \cup UNION {{Leaves[h][i].Root, Leaves[h][i].CodeHash} :
                           i \in {j \in DOMAIN Leaves[h] : Leaves[h][j].kind = "account"}})
        \cap Hashes

\* Pending() is zero and nothing waits to be written.
Done == pc = "syncing" /\ Pending(syncer) = {} /\ syncer.membatch = {}

TypeOK ==
    /\ db \subseteq Hashes
    /\ pc \in {"new", "syncing", "failed"}
    /\ Pending(syncer) \subseteq Hashes
    /\ \A h \in Pending(syncer) :
        /\ syncer.requests[h].deps \in Nat
        /\ BagToSet(syncer.requests[h].parents) \subseteq Pending(syncer)
    /\ syncer.queue \subseteq Pending(syncer)
    /\ syncer.membatch \subseteq Hashes
    /\ issued \in [Hashes -> Nat]
    /\ crashes \in 0 .. MaxCrashes

Store == INSTANCE StateStore
            WITH stored <- db, complete <- Done,
                 Refs <- [h \in Hashes |-> References(h)]

\* The scheduler NewStateSync builds implements StateStore: a node is
\* written only with the children, the storage tries and the code it refers
\* to, because the callback parents them to the node of the leaf, and the
\* download is done only when the root is written; through crashes, and
\* responses in any order.
ImplementsStateStore == Store!Spec

\* The deduplication of the specification: in one run each hash is handed
\* out for retrieval once, however many accounts share a storage trie or a
\* code blob and in whatever order the responses arrive.
RequestedOnce == \A h \in Hashes : issued[h] <= 1

\* The download ends: after the last crash every request is answered, every
\* count of outstanding requests reaches zero, and the last batch is written.
SyncCompletes == <>[]Done

=============================================================================
