----------------------------- MODULE SortedSets -----------------------------
(***************************************************************************)
(* Finite sets of integers in ascending order.  SetToSortSeq of            *)
(* SequencesExt gives the same sequence, by an operator of TLC that the    *)
(* provers know nothing about.                                             *)
(***************************************************************************)
EXTENDS Integers, FiniteSets

\* How many elements of S are below x.
Rank(S, x) == Cardinality({y \in S : y < x})

\* The j-th element of the sequence is the one with j - 1 elements below it.
Ascending(S) ==
  [j \in 1..Cardinality(S) |-> CHOOSE x \in S : Rank(S, x) = j - 1]
=============================================================================
