-------------------------------- MODULE Lists --------------------------------
(***************************************************************************)
(* What the code does with lists: it keeps those members that pass a test,  *)
(* and sorts.  A place is found by counting what comes before it.           *)
(***************************************************************************)
EXTENDS Naturals, FiniteSets, Sequences

\* The members of a finite set in a total order of it.
InOrder(S, AtOrBefore(_, _)) ==
    LET place == [i \in S |-> Cardinality({k \in S : AtOrBefore(k, i)})]
    IN  [n \in 1..Cardinality(S) |-> CHOOSE i \in S : place[i] = n]

Ascending(S) == InOrder(S, LAMBDA k, i : k <= i)

\* The members of s at some places.
Taken(s, places) == [n \in DOMAIN places |-> s[places[n]]]

\* A list comprehension with a condition.
Kept(s, Test(_)) == Taken(s, Ascending({i \in DOMAIN s : Test(s[i])}))

\* A sort of Python: equal keys keep their order.
StableSort(s, Before(_, _)) ==
    Taken(s, InOrder(DOMAIN s,
        LAMBDA k, i : Before(s[k], s[i]) \/ (~Before(s[i], s[k]) /\ k <= i)))
=============================================================================
