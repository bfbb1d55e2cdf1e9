---------------------------- MODULE Distributor -----------------------------
(***************************************************************************)
(* The on-demand retrieval distributor of the light client, as the         *)
(* specification describes it (section 4.4; its code, les/distributor.go   *)
(* and les/retrieve.go, is not among the sources).  A caller asks for one  *)
(* item; the distributor sends the request to one peer at a time, checks   *)
(* what comes back against what was asked for, and goes on to another peer *)
(* when an attempt times out, the peer leaves, or the proof does not       *)
(* verify.  The request fails once no eligible peer is left, or when its   *)
(* overall deadline passes.                                                *)
(*                                                                         *)
(* A peer is known by its handle (section 3): the handle is created when   *)
(* the peer connects and removed when it disconnects, so a peer that comes *)
(* back is a peer that was never asked.  Peers is the set of handles one   *)
(* process gives out.                                                      *)
(*                                                                         *)
(* The weights of the choice among peers (latency, load, the penalty of a  *)
(* peer whose proof did not verify) are left out: any eligible peer may be *)
(* chosen.                                                                 *)
(***************************************************************************)
EXTENDS Integers, FiniteSets

CONSTANTS
    Peers,      \* the peer handles of one process
    Callers,    \* callers of retrieve, each waiting for one request at most
    Queries,    \* what can be asked for, and what an answer can prove
    Serves,     \* Serves[p]: the queries the protocol version of p answers
    Decoys,     \* what a faulty peer may prove instead of what was asked
    Malformed,  \* an answer that proves nothing
    None

ASSUME /\ Serves \in [Peers -> SUBSET Queries]
       /\ Decoys \subseteq Queries
       /\ {Malformed, None} \cap Queries = {}

VARIABLES
    connected,  \* the peer set
    removed,    \* the handles of peers that have left
    request     \* request[c]: the retrieval of caller c

odrVars == <<connected, removed, request>>

NoRequest ==
    [state |-> "idle", query |-> None, tried |-> {}, peer |-> None, cause |-> None]

Pending(c) == request[c].state \in {"queued", "sent"}

\* The connected peers that can answer the request of c and were not asked.
Eligible(c) ==
    {p \in connected \ request[c].tried : request[c].query \in Serves[p]}

\* The attempt at request[c].peer is over, for the given cause.
Retry(c, cause) ==
    [request[c] EXCEPT !.state = "queued", !.tried = @ \cup {request[c].peer},
                       !.peer = None, !.cause = cause]

\* A request for q that no peer has been asked yet.
Asked(q) == [NoRequest EXCEPT !.state = "queued", !.query = q]

\* The request of c is over: a proves what was asked, or it failed.
Done(c, a)       == [NoRequest EXCEPT !.state = "done", !.query = a,
                                      !.peer = request[c].peer]
Failed(c, cause) == [NoRequest EXCEPT !.state = "failed", !.query = request[c].query,
                                      !.cause = cause]

-----------------------------------------------------------------------------

\* retrieve(query): the caller waits from here on.
Retrieve(c, q) ==
    /\ request[c].state = "idle"
    /\ request' = [request EXCEPT ![c] = Asked(q)]
    /\ UNCHANGED <<connected, removed>>

Send(c, p) ==
    /\ request[c].state = "queued"
    /\ p \in Eligible(c)
    /\ request' = [request EXCEPT ![c].state = "sent", ![c].peer = p]
    /\ UNCHANGED <<connected, removed>>

\* The peer answers with a proof of a: the caller gets it if it proves what
\* was asked; if not, another peer is tried.
Answer(c, a) ==
    /\ request[c].state = "sent"
    /\ request' = [request EXCEPT ![c] = IF a = request[c].query THEN Done(c, a)
                                           ELSE Retry(c, "invalid")]
    /\ UNCHANGED <<connected, removed>>

\* The attempt timed out.
Timeout(c) ==
    /\ request[c].state = "sent"
    /\ request' = [request EXCEPT ![c] = Retry(c, "timeout")]
    /\ UNCHANGED <<connected, removed>>

\* Gives up at the first failed attempt.
ExhaustEarly(c) ==
    /\ request[c].state = "queued"
    /\ request[c].tried # {}
    /\ request' = [request EXCEPT ![c] = Failed(c, request[c].cause)]
    /\ UNCHANGED <<connected, removed>>

\* No eligible peer is left: the request fails, for the cause of its last
\* attempt, or for want of peers if there was none.
Exhaust(c) ==
    /\ request[c].state = "queued"
    /\ Eligible(c) = {}
    /\ request' = [request EXCEPT ![c] = Failed(c, request[c].cause)]
    /\ UNCHANGED <<connected, removed>>

\* The deadline of the whole request passes.
Deadline(c) ==
    /\ Pending(c)
    /\ request' = [request EXCEPT ![c] = Failed(c, "deadline")]
    /\ UNCHANGED <<connected, removed>>

\* The caller has taken the result or the error.
Return(c) ==
    /\ request[c].state \in {"done", "failed"}
    /\ request' = [request EXCEPT ![c] = NoRequest]
    /\ UNCHANGED <<connected, removed>>

\* The retriever is stopped under the request, which is given up.
Shutdown(c) ==
    /\ Pending(c)
    /\ request' = [request EXCEPT ![c] = Failed(c, "stopped")]
    /\ UNCHANGED <<connected, removed>>

\* A peer joins, under a handle that was not in use before.
Connect(p) ==
    /\ p \notin connected \cup removed
    /\ connected' = connected \cup {p}
    /\ UNCHANGED <<removed, request>>

\* The peers of ps leave; their handles are removed, from the requests that
\* tried them too, and what was sent to them is tried elsewhere.
Drop(ps) ==
    /\ connected' = connected \ ps
    /\ removed' = removed \cup ps
    /\ request' = [c \in Callers |->
                      [(IF request[c].state = "sent" /\ request[c].peer \in ps
                          THEN Retry(c, "disconnect") ELSE request[c])
                       EXCEPT !.tried = @ \ ps]]

Disconnect(p) == p \in connected /\ Drop({p})

-----------------------------------------------------------------------------

Init ==
    /\ connected = {} /\ removed = {}
    /\ request = [c \in Callers |-> NoRequest]

\* What the distributor does by itself for the request of c.
Serve(c) ==
    \/ \E p \in Peers : Send(c, p)
    \/ \E a \in {request[c].query, Malformed} \cup Decoys : Answer(c, a)
    \/ Timeout(c)
    \/ Exhaust(c)

Next ==
    \/ \E c \in Callers :
        \/ \E q \in Queries : Retrieve(c, q)
        \/ Serve(c)
        \/ Deadline(c) \/ Shutdown(c)
        \/ Return(c)
    \/ \E p \in Peers : Connect(p) \/ Disconnect(p)

Spec == Init /\ [][Next]_odrVars

\* A queued request is sent or failed, and an attempt is answered or times
\* out; the deadline need not pass, the retriever need not stop, and peers
\* come and go as they like.
Fairness == \A c \in Callers : WF_odrVars(Serve(c))

-----------------------------------------------------------------------------

TypeOK ==
    /\ connected \subseteq Peers /\ removed \subseteq Peers \ connected
    /\ request \in [Callers ->
          [state : {"idle", "queued", "sent", "done", "failed"},
           query : Queries \cup {None}, tried : SUBSET Peers,
           peer : Peers \cup {None},
           cause : {None, "timeout", "invalid", "disconnect", "deadline", "stopped"}]]
    /\ \A c \in Callers :
        /\ request[c].tried \subseteq connected
        /\ request[c].peer # None <=> request[c].state \in {"sent", "done"}
        /\ request[c].state = "sent" => request[c].peer \in connected \ request[c].tried

=============================================================================
