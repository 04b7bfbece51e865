----------------------------- MODULE Positions -----------------------------
(***************************************************************************)
(* Lists made from lists by choosing positions and putting them in order.  *)
(* What an append loop, a filter or a sort of the code leaves is given in  *)
(* closed form, by how many positions come before each.                    *)
(***************************************************************************)
EXTENDS Integers, Sequences, FiniteSets

\* The n-th of the positions P, and what s has at them, in order.
Nth(P, n) == CHOOSE i \in P : Cardinality({j \in P : j < i}) = n - 1

Picked(s, P) == [n \in 1..Cardinality(P) |-> s[Nth(P, n)]]

\* The members of s that pass the test, and those that are in S.
Selected(s, Test(_)) == Picked(s, {i \in DOMAIN s : Test(s[i])})
Those(s, S) == Selected(s, LAMBDA x : x \in S)

\* The first of equal members stays.
Distinct(s) == Picked(s, {i \in DOMAIN s : \A j \in 1..(i - 1) : s[j] # s[i]})

\* The n-th of S in the order R.
Ranked(S, R, n) == CHOOSE i \in S : Cardinality({j \in S : <<j, i>> \in R}) = n - 1

Ordered(S, R) == [n \in 1..Cardinality(S) |-> Ranked(S, R, n)]

\* s in the order of less, equal members in their own order.
StableSort(s, less(_, _)) ==
  LET Precedes(i, j) == less(s[i], s[j]) \/ (~less(s[j], s[i]) /\ i < j)
      before == {p \in (DOMAIN s) \X (DOMAIN s) : Precedes(p[1], p[2])}
  IN  [n \in DOMAIN s |-> s[Ranked(DOMAIN s, before, n)]]

=============================================================================
