------------------------------ MODULE TrieDiff ------------------------------
(***************************************************************************)
(* diffTries of light/trie_test.go, the comparison TestNodeIterator uses   *)
(* to decide that the trie read through ODR equals the trie of the full    *)
(* database.  A trie is what its iterator yields: its key/value pairs in   *)
(* key order.  An iterator may fail (a node that cannot be retrieved): it  *)
(* then sets Err and its Next returns false.                               *)
(***************************************************************************)
EXTENDS Naturals, Sequences, SequencesExt

CONSTANTS
    Keys,     \* a finite set of naturals, ordered as the trie orders keys
    Values,
    None      \* no failure

Pairs == [Key : Keys, Value : Values]

\* The tries over Keys and Values, as their iterators walk them.
Tries ==
    {s \in BoundedSeq(Pairs, Cardinality(Keys)) :
        \A j \in 1 .. Len(s) - 1 : s[j].Key < s[j + 1].Key}

VARIABLES
    t,        \* t[1], t[2]: the full and the light trie
    failAt,   \* failAt[k]: the position at which iterator k fails, or None
    pos,      \* pos[k]: the entries iterator k has yielded
    err,      \* err[k]: iterator k has set Err
    verdict   \* what diffTries returns; "running" until it does

vars == <<t, failAt, pos, err, verdict>>

Its == {1, 2}

\* Next of iterator k fails here.
Fails(k) == failAt[k] = pos[k]
\* Next of iterator k returns true.
HasNext(k) == ~err[k] /\ ~Fails(k) /\ pos[k] < Len(t[k])
\* Moves an iterator whether or not it has a next entry.
AdvancedAlways(ks) == [k \in Its |-> IF k \in ks THEN pos[k] + 1 ELSE pos[k]]
\* The iterators after Next was called on those of ks.
Advanced(ks) == [k \in Its |-> IF k \in ks /\ HasNext(k) THEN pos[k] + 1 ELSE pos[k]]
Failed(ks)   == [k \in Its |-> err[k] \/ (k \in ks /\ Fails(k))]

\* One evaluation of the loop condition "i1.Next() && i2.Next()" and, where
\* it holds, of the body: i2 moves only if i1 did, the keys are compared,
\* and i2.Value is compared with itself.
Loop ==
    /\ verdict = "running"
    /\ LET called == IF HasNext(1) THEN Its ELSE {1}
       IN  /\ pos' = Advanced(called)
           /\ err' = Failed(called)
    /\ verdict' = IF HasNext(1) /\ HasNext(2)
                    THEN IF t[1][pos'[1]].Key # t[2][pos'[2]].Key
                           THEN "different keys" ELSE "running"
                    ELSE "switch"
    /\ UNCHANGED <<t, failAt>>

\* Takes the trie that has more pairs for the other one.
SwitchSwapped ==
    /\ verdict = "switch"
    /\ verdict' = IF err[1] THEN "full trie iterator error"
                  ELSE IF err[2] THEN "light trie iterator error"
                  ELSE IF HasNext(1) THEN "light trie has more"
                  ELSE IF HasNext(2) THEN "full trie has more"
                  ELSE "nil"
    /\ pos' = pos /\ err' = err
    /\ UNCHANGED <<t, failAt>>

\* The switch after the loop; its cases are tried in order, and the two
\* last ones call Next once more.
Switch ==
    /\ verdict = "switch"
    /\ \/ /\ err[1]
          /\ verdict' = "full trie iterator error"
          /\ UNCHANGED <<pos, err>>
       \/ /\ ~err[1] /\ err[2]
          /\ verdict' = "light trie iterator error"
          /\ UNCHANGED <<pos, err>>
       \/ /\ ~err[1] /\ ~err[2] /\ HasNext(1)
          /\ verdict' = "full trie has more"
          /\ pos' = Advanced({1}) /\ err' = Failed({1})
       \/ /\ ~err[1] /\ ~err[2] /\ ~HasNext(1) /\ HasNext(2)
          /\ verdict' = "light trie has more"
          /\ pos' = Advanced(Its) /\ err' = Failed(Its)
       \/ /\ ~err[1] /\ ~err[2] /\ ~HasNext(1) /\ ~HasNext(2)
          /\ verdict' = "nil"
          /\ pos' = Advanced(Its) /\ err' = Failed(Its)
    /\ UNCHANGED <<t, failAt>>

Init ==
    /\ t \in [Its -> Tries]
    /\ failAt \in [Its -> {None} \cup (0 .. Cardinality(Keys))]
    /\ \A k \in Its : failAt[k] # None => failAt[k] <= Len(t[k])
    /\ pos = [k \in Its |-> 0]
    /\ err = [k \in Its |-> FALSE]
    /\ verdict = "running"

Next == Loop \/ Switch

Spec == Init /\ [][Next]_vars

-----------------------------------------------------------------------------

Verdicts == {"running", "switch", "nil", "different keys", "full trie iterator error",
             "light trie iterator error", "full trie has more", "light trie has more"}

TypeOK ==
    /\ t \in [Its -> Tries]
    /\ failAt \in [Its -> {None} \cup (0 .. Cardinality(Keys))]
    /\ pos \in [Its -> 0 .. Cardinality(Keys)]
    /\ \A k \in Its : pos[k] <= Len(t[k])
    /\ err \in [Its -> BOOLEAN]
    /\ verdict \in Verdicts

\* diffTries raises no false alarm: tries it reports to have different keys
\* are different, and the trie it reports to have more pairs is the longer
\* one.  The second takes the order of the Next calls: i2 is not moved when
\* i1 is exhausted, and the switch asks i1 before i2.
VerdictIsTrue ==
    /\ verdict = "different keys" => t[1] # t[2]
    /\ verdict = "full trie has more" => Len(t[1]) > Len(t[2])
    /\ verdict = "light trie has more" => Len(t[2]) > Len(t[1])

\* TestNodeIterator passes when diffTries returns nil, and means by it that
\* the light trie holds what the full trie holds.
NilMeansEqual ==
    verdict = "nil" => t[1] = t[2]

=============================================================================
