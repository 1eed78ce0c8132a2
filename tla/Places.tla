------------------------------- MODULE Places -------------------------------
(***************************************************************************)
(* Selections of a sequence's elements, by the set of their places: what   *)
(* JavaScript's filter does, which keeps the order.  (SelectSeq is defined *)
(* by recursion, out of which the provers draw no conclusions.)            *)
(***************************************************************************)
EXTENDS Naturals, Sequences, FiniteSets

\* How many places there are up to one of them, and the one up to which there are k.
Rank(places, i) == Cardinality({j \in places : j <= i})
Nth(places, k) == CHOOSE i \in places : Rank(places, i) = k

\* The elements of seq at the places.
Pick(seq, places) == [k \in 1 .. Cardinality(places) |-> seq[Nth(places, k)]]
=============================================================================
