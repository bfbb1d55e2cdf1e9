----------------------------- MODULE StateStore -----------------------------
(***************************************************************************)
(* What a state download promises to the node that runs it.  The database  *)
(* holds a node only together with everything the node refers to: its      *)
(* children, and for an account the root of its storage trie and its code. *)
(* A root that is in the database therefore stands for a whole state, and  *)
(* a download that a crash has cut short is taken up from what is there.   *)
(* The download is reported complete only when the root is stored.         *)
(***************************************************************************)
CONSTANTS
    Hashes,   \* the nodes and code blobs of the state
    root,     \* the root the download was asked for
    Refs      \* Refs[h]: what node h refers to

ASSUME /\ root \in Hashes
       /\ Refs \in [Hashes -> SUBSET Hashes]

VARIABLES
    stored,    \* what the database holds
    complete   \* the download reports that it is done

vars == <<stored, complete>>

\* S holds everything its members refer to.
Closed(S) == \A h \in S : Refs[h] \subseteq S

Init ==
    /\ stored = {}
    /\ complete = FALSE

\* Nodes are added, none is removed, and what results is closed.
Store ==
    /\ \E S \in SUBSET (Hashes \ stored) :
        /\ stored' = stored \cup S
        /\ Closed(stored')
    /\ complete' \in BOOLEAN
    /\ complete' => root \in stored'

Next == Store

Spec == Init /\ [][Next]_vars

=============================================================================
