----------------------------- MODULE Subsequences -----------------------------
(***************************************************************************)
(* Subsequences by position: what a comprehension that filters the         *)
(* elements of a list keeps of it.                                         *)
(***************************************************************************)
EXTENDS Naturals, Sequences, FiniteSets

\* How many members of a set of positions are not behind a position.
Place(positions, i) == Cardinality({j \in positions : j <= i})

\* The k-th of a set of positions.
Nth(positions, k) == CHOOSE i \in positions : Place(positions, i) = k

\* The elements of a sequence at a set of positions, in order.
Elements(s, positions) == [k \in 1..Cardinality(positions) |-> s[Nth(positions, k)]]
=============================================================================
