---------------------------- MODULE Subsequences ----------------------------
(***************************************************************************)
(* The WHERE of a query and the filter of an array: the elements of a      *)
(* sequence that belong to a set, in the order they had.                   *)
(***************************************************************************)
EXTENDS Integers, Sequences, FiniteSets

\* How many members of I do not exceed i.
Rank(I, i) == Cardinality({h \in I : h <= i})

\* The n-th member of I.
Nth(I, n) == CHOOSE i \in I : Rank(I, i) = n

\* The positions of s that hold a member of S.
Positions(s, S) == {i \in DOMAIN s : s[i] \in S}

Keep(s, S) ==
  [n \in 1..Cardinality(Positions(s, S)) |-> s[Nth(Positions(s, S), n)]]
=============================================================================
