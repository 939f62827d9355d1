------------------------------- MODULE Sorting -------------------------------
(***************************************************************************)
(* Sorting by rank: what slice::sort and retained iterators do, defined so *)
(* that proofs can look inside (the library's SetToSortSeq rests on an     *)
(* operator of TLC's that they cannot, and SelectSeq is another).          *)
(***************************************************************************)
EXTENDS Integers, Sequences, FiniteSets

\* The elements of S in the order of R, a strict order of S as a set of pairs:
\* at place k stands the one with k - 1 before it.
SortedBy(S, R) ==
  [k \in 1..Cardinality(S) |-> CHOOSE x \in S : Cardinality({y \in S : <<y, x>> \in R}) = k - 1]

\* A set of numbers as a sequence.
Ascending(S) == SortedBy(S, {p \in S \X S : p[1] < p[2]})

\* The elements of s at the positions in I, in their order.
Pick(s, I) == LET order == Ascending(I)
              IN  [k \in DOMAIN order |-> s[order[k]]]
=============================================================================
