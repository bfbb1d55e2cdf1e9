------------------------------- MODULE Mocker -------------------------------
(***************************************************************************)
(* The simulation mockers of p2p/simulations/mocker.go: boot, startStop    *)
(* and probabilistic.  A mocker brings up nodeCount nodes in a ring and    *)
(* then, until the quit channel is closed, stops nodes and starts them     *)
(* again; the probabilistic one restarts each node in a goroutine of its   *)
(* own and waits for all of them on a sync.WaitGroup before the next round.*)
(*                                                                         *)
(* Nodes are the indices 0..nodeCount-1 of the slice connectNodesInRing    *)
(* returns.  The Network is the environment: Stop fails on a node that is  *)
(* not up, Start may fail and leave the node down.  Sleeps and timers are  *)
(* left to the interleaving.  A runtime panic ends the whole program.      *)
(***************************************************************************)
EXTENDS Integers, FiniteSets, FiniteSetsExt

CONSTANTS
    NodeCounts,        \* the values tried for the nodeCount argument
    MockerTypes,       \* the keys of mockerList a run looks up
    MaxStartFailures   \* bound on the net.Start calls that fail in a behaviour

\* The mockers LookupMocker finds by name.
mockerList == {"startStop", "probabilistic", "boot"}

ASSUME /\ NodeCounts \subseteq Nat \ {0, 1}      \* a ring of one refuses to connect
       /\ MockerTypes \subseteq mockerList
       /\ MaxStartFailures \in Nat

VARIABLES
    mocker,     \* the mockerFn that runs
    nodeCount,  \* its nodeCount argument
    pc,         \* where its goroutine is
    quit,       \* the quit channel is closed
    up,         \* up[n]: node n is running in the Network
    i, highid,  \* the loop variable and the bound of a probabilistic round
    wg,         \* the counter of the round's WaitGroup
    restarts,   \* nodes whose restart goroutine has not yet finished
    id,         \* the node startStop stopped and will start
    failures    \* net.Start calls that have failed

\* The arguments of a run.
fixed == <<mocker, nodeCount>>
vars  == <<fixed, pc, quit, up, i, highid, wg, restarts, id, failures>>

Nodes == 0 .. nodeCount - 1
Down  == {n \in Nodes : ~up[n]}

\* lowid and highid, from the two draws of rand.Intn(nodeCount - 1).
Bounds(rand1, rand2) ==
    IF rand1 < rand2 THEN <<rand1, rand2>>
    ELSE IF rand1 > rand2 THEN <<rand2, rand1>>
    ELSE IF rand1 \in {0, 9} THEN <<0, 9>>
    ELSE <<rand1, rand2>>

-----------------------------------------------------------------------------
(* The environment *)

\* close(quit)
Quit ==
    /\ ~quit
    /\ quit' = TRUE
    /\ UNCHANGED <<fixed, pc, up, i, highid, wg, restarts, id, failures>>

\* net.Start(n) of a node that is down: it comes up, or the call fails.
NetStart(n) ==
    \/ up' = [up EXCEPT ![n] = TRUE] /\ UNCHANGED failures
    \/ /\ failures < MaxStartFailures
       /\ failures' = failures + 1
       /\ UNCHANGED up

-----------------------------------------------------------------------------
(* connectNodesInRing, and boot *)

\* Every node is created, started and connected to its successor; one
\* failure and the mocker panics.  boot returns after it.
ConnectNodesInRing(ok) ==
    /\ pc = "connect"
    /\ \/ /\ ok
          /\ up' = [n \in Nodes |-> TRUE]
          /\ pc' = IF mocker = "boot" THEN "done" ELSE "loop"
       \/ /\ ~ok
          /\ pc' = "panicked"
          /\ UNCHANGED up
    /\ UNCHANGED <<fixed, quit, i, highid, wg, restarts, id, failures>>

\* The quit case of the select that heads the loop of either mocker.
LoopQuit ==
    /\ pc = "loop" /\ quit
    /\ pc' = "done"
    /\ UNCHANGED <<fixed, quit, up, i, highid, wg, restarts, id, failures>>

-----------------------------------------------------------------------------
(* startStop *)

\* Goes on with the loop after net.Start failed.
StartAgainGoesOn ==
    /\ pc = "pause"
    /\ NetStart(id)
    /\ pc' = "loop"
    /\ UNCHANGED <<fixed, quit, i, highid, wg, restarts, id>>

\* The ticker fires: a random node is stopped.
Tick(n) ==
    /\ pc = "loop" /\ mocker = "startStop"
    /\ \/ /\ up[n]
          /\ up' = [up EXCEPT ![n] = FALSE]
          /\ id' = n
          /\ pc' = "pause"
       \/ /\ ~up[n]                       \* net.Stop fails
          /\ pc' = "done"
          /\ UNCHANGED <<up, id>>
    /\ UNCHANGED <<fixed, quit, i, highid, wg, restarts, failures>>

\* quit is closed while the node is down: it stays down.
PauseQuit ==
    /\ pc = "pause" /\ quit
    /\ pc' = "done"
    /\ UNCHANGED <<fixed, quit, up, i, highid, wg, restarts, id, failures>>

\* Three seconds later the node is started; the mocker returns if it fails.
StartAgain ==
    /\ pc = "pause"
    /\ NetStart(id)
    /\ pc' = IF up'[id] THEN "loop" ELSE "done"
    /\ UNCHANGED <<fixed, quit, i, highid, wg, restarts, id>>

-----------------------------------------------------------------------------
(* probabilistic *)

\* Draws the bounds of a round without adding its steps to the WaitGroup.
DrawNoAdd(rand1, rand2) ==
    /\ pc = "loop" /\ mocker = "probabilistic" /\ ~quit
    /\ i' = Bounds(rand1, rand2)[1]
    /\ highid' = Bounds(rand1, rand2)[2]
    /\ wg' = 0
    /\ pc' = "round"
    /\ UNCHANGED <<fixed, quit, up, restarts, id, failures>>

\* Goes on to the next round without waiting for the restarts.
WaitSkipped ==
    /\ pc = "round" /\ i >= highid
    /\ pc' = "loop"
    /\ UNCHANGED <<fixed, quit, up, i, highid, wg, restarts, id, failures>>

\* Stops node i and leaves wg alone when net.Stop fails.
StopNodeNoDone ==
    /\ pc = "round" /\ i < highid /\ i \in Nodes
    /\ IF up[i]
         THEN up' = [up EXCEPT ![i] = FALSE] /\ restarts' = restarts \cup {i}
         ELSE UNCHANGED <<up, restarts>>
    /\ i' = i + 1
    /\ UNCHANGED <<fixed, pc, quit, highid, wg, id, failures>>

\* A round begins: its bounds are drawn and a fresh WaitGroup is set to the
\* number of nodes the round will stop.
Draw(rand1, rand2) ==
    /\ pc = "loop" /\ mocker = "probabilistic" /\ ~quit
    /\ i' = Bounds(rand1, rand2)[1]
    /\ highid' = Bounds(rand1, rand2)[2]
    /\ wg' = highid' - i'
    /\ pc' = "round"
    /\ UNCHANGED <<fixed, quit, up, restarts, id, failures>>

\* The quit case of the select inside the round: the mocker returns and
\* leaves the restart goroutines behind.
RoundQuit ==
    /\ pc = "round" /\ i < highid /\ quit
    /\ pc' = "done"
    /\ UNCHANGED <<fixed, quit, up, i, highid, wg, restarts, id, failures>>

\* nodes[i] is stopped and a goroutine spawned to start it again; if
\* net.Stop fails the step is counted as done and the round goes on.
StopNode ==
    /\ pc = "round" /\ i < highid /\ i \in Nodes
    /\ \/ /\ up[i]
          /\ up' = [up EXCEPT ![i] = FALSE]
          /\ restarts' = restarts \cup {i}
          /\ UNCHANGED wg
       \/ /\ ~up[i]
          /\ wg' = wg - 1
          /\ UNCHANGED <<up, restarts>>
    /\ i' = i + 1
    /\ UNCHANGED <<fixed, pc, quit, highid, id, failures>>

\* nodes[i] with i beyond the slice: index out of range.
IndexOutOfRange ==
    /\ pc = "round" /\ i < highid /\ i \notin Nodes
    /\ pc' = "crashed"
    /\ UNCHANGED <<fixed, quit, up, i, highid, wg, restarts, id, failures>>

\* The goroutine of node n: net.Start, then wg.Done, started or not.
Restart(n) ==
    /\ n \in restarts /\ pc # "crashed"
    /\ NetStart(n)
    /\ restarts' = restarts \ {n}
    /\ wg' = wg - 1
    /\ UNCHANGED <<fixed, pc, quit, i, highid, id>>

\* wg.Wait returns, and the loop starts over.
Wait ==
    /\ pc = "round" /\ i >= highid
    /\ wg = 0
    /\ pc' = "loop"
    /\ UNCHANGED <<fixed, quit, up, i, highid, wg, restarts, id, failures>>

-----------------------------------------------------------------------------

Init ==
    /\ mocker \in MockerTypes
    /\ nodeCount \in NodeCounts
    /\ pc = "connect"
    /\ quit = FALSE
    /\ up = [n \in Nodes |-> FALSE]
    /\ i = 0 /\ highid = 0
    /\ wg = 0
    /\ restarts = {}
    /\ id = 0
    /\ failures = 0

\* The steps of the mocker's own goroutine that no closed quit is needed for.
MockerStep ==
    \/ \E ok \in BOOLEAN : ConnectNodesInRing(ok)
    \/ \E n \in Nodes : Tick(n)
    \/ StartAgain
    \/ \E rand1, rand2 \in 0 .. nodeCount - 2 : Draw(rand1, rand2)
    \/ StopNode
    \/ IndexOutOfRange
    \/ Wait

Next ==
    \/ Quit
    \/ MockerStep
    \/ LoopQuit \/ PauseQuit \/ RoundQuit
    \/ \E n \in Nodes : Restart(n)

Spec == Init /\ [][Next]_vars

\* The goroutines are scheduled, and timers fire: weak fairness of the
\* mocker's steps and of every restart.  A select with several ready cases
\* picks one at random, so that the quit case, ready whenever the select is
\* reached, is not passed over for ever: strong fairness.
Fairness ==
    /\ WF_vars(MockerStep)
    /\ \A n \in 0 .. Max(NodeCounts) - 1 : WF_vars(Restart(n))
    /\ SF_vars(LoopQuit) /\ SF_vars(PauseQuit) /\ SF_vars(RoundQuit)

FairSpec == Spec /\ Fairness

-----------------------------------------------------------------------------

Returned == {"done", "panicked", "crashed"}

TypeOK ==
    /\ mocker \in MockerTypes
    /\ nodeCount \in NodeCounts
    /\ pc \in {"connect", "loop", "pause", "round"} \cup Returned
    /\ quit \in BOOLEAN
    /\ up \in [Nodes -> BOOLEAN]
    /\ i \in Nat /\ highid \in Nat
    /\ wg \in Nat                          \* a negative WaitGroup counter panics
    /\ restarts \subseteq Nodes
    /\ id \in Nodes
    /\ failures \in 0 .. MaxStartFailures

\* What wg.Wait is there for: when the probabilistic mocker starts a round,
\* no restart of an earlier round is still under way, and every node is up
\* but those whose net.Start failed.
RoundStartsSettled ==
    pc = "loop" =>
        /\ restarts = {}
        /\ Cardinality(Down) <= failures

\* startStop takes one node down at a time: it returns when it cannot start
\* the node it stopped, so that no second node is ever stopped with it.
AtMostOneDown ==
    (mocker = "startStop" /\ pc \notin {"connect", "panicked"}) => Cardinality(Down) <= 1

\* "Terminating simulation loop": once quit is closed the mocker returns, in
\* the middle of a round or after wg.Wait, which every restart goroutine and
\* every failed net.Stop must have released.
QuitTerminates ==
    quit ~> pc \in Returned

\* A mocker that has brought up its ring runs until it is told to quit, for
\* any nodeCount: it indexes nodes only within the slice.
NoRuntimePanic ==
    pc # "crashed"

=============================================================================
