---------------------------- MODULE MCStateSync -----------------------------
(***************************************************************************)
(* StateSync for TLC over one small state.  The account trie is the root R *)
(* with one account in a leaf of its own and the child node A with three   *)
(* more.  Three accounts share the storage trie S, which has the child T;  *)
(* three share the code C; one has no storage and one no code.             *)
(***************************************************************************)
EXTENDS StateSync

CONSTANTS R, A, S, T, C

MCHashes == {R, A, S, T, C}

Account(storage, code) == [kind |-> "account", Root |-> storage, CodeHash |-> code]
Slot == [kind |-> "slot"]

MCKids ==
    [h \in MCHashes |-> CASE h = R -> {A} [] h = S -> {T} [] OTHER -> {}]

MCLeaves ==
    [h \in MCHashes |->
        CASE h = R -> <<Account(S, C)>>
          [] h = A -> <<Account(S, C), Account(S, emptyState), Account(emptyRoot, C)>>
          [] h = S -> <<Slot>>
          [] h = T -> <<Slot>>
          [] OTHER -> <<>>]

=============================================================================
