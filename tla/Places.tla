------------------------------- MODULE Places -------------------------------
(***************************************************************************)
(* Elements of a set of positions, counted from the first one: how many    *)
(* there are up to a position, and which one is the k-th.                  *)
(***************************************************************************)
EXTENDS Naturals, FiniteSets

RankIn(S, i) == Cardinality({p \in S : p <= i})
Nth(S, k)    == CHOOSE p \in S : RankIn(S, p) = k

\* The elements of a sequence at the positions of S, in their order.
Picked(s, S) == [k \in 1..Cardinality(S) |-> s[Nth(S, k)]]
=============================================================================
