------------------------------- MODULE Lists -------------------------------
(***************************************************************************)
(* Parts of a sequence, in the order they stand in it. SelectSeq says the  *)
(* same of a predicate; here it is a set, and nothing is recursive.        *)
(***************************************************************************)
EXTENDS Integers, Sequences, FiniteSets

Rank(N, n) == Cardinality({m \in N : m <= n})

\* A finite set of numbers in ascending order.
InOrder(N) == [k \in 1..Cardinality(N) |-> CHOOSE n \in N : Rank(N, n) = k]

\* The elements of s at the places N.
Picked(s, N) == [k \in 1..Cardinality(N) |-> s[InOrder(N)[k]]]

PlacesOf(s, T) == {n \in DOMAIN s : s[n] \in T}

\* The elements of s that are in T.
Among(s, T) == Picked(s, PlacesOf(s, T))
============================================================================
