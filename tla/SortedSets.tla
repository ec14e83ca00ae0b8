----------------------------- MODULE SortedSets -----------------------------
(***************************************************************************)
(* Listing what is stored by its nonce.                                    *)
(***************************************************************************)
EXTENDS Integers, FiniteSets

\* The numbers of a finite set in ascending order: the i-th has i - 1 below it.
Ascending(S) ==
    [i \in 1..Cardinality(S) |-> CHOOSE n \in S : Cardinality({m \in S : m < n}) = i - 1]
=============================================================================
