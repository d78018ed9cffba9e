--------------------------------- MODULE Ranks --------------------------------
(***************************************************************************)
(* What a loop with a continue keeps: the places it does not skip, in      *)
(* order, the k-th being the one with k of them up to itself.              *)
(***************************************************************************)
EXTENDS Integers, FiniteSets

Rank(i, places) == Cardinality({ j \in places : j <= i })
Nth(k, places) == CHOOSE i \in places : Rank(i, places) = k
InOrder(seq, places) == [k \in 1..Cardinality(places) |-> seq[Nth(k, places)]]
=============================================================================
