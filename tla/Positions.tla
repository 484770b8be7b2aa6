------------------------------ MODULE Positions ------------------------------
(***************************************************************************)
(* What a filter leaves of a list, by the positions it keeps.  It is       *)
(* SelectSeq without the recursion, which the provers cannot unfold.       *)
(***************************************************************************)
EXTENDS Naturals, Sequences, FiniteSets

\* How many of the positions I come up to n.
Upto(I, n) == Cardinality({j \in I : j <= n})

\* The k-th of them.
Nth(I, k) == CHOOSE i \in I : Upto(I, i) = k

\* The members of s at the positions I, in their order.
Picked(s, I) == [k \in 1 .. Cardinality(I) |-> s[Nth(I, k)]]

=============================================================================
