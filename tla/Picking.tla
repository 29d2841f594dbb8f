------------------------------ MODULE Picking ------------------------------
(***************************************************************************)
(* The elements of a sequence at some of its places, in their order: what  *)
(* a Python loop with a continue, or a comprehension with an if, keeps.    *)
(* Places are counted, not walked: no recursion, so proofs can use it.     *)
(***************************************************************************)
EXTENDS Naturals, FiniteSets

\* The n-th of the places.
Nth(places, n) == CHOOSE i \in places : Cardinality({j \in places : j <= i}) = n

Picked(s, places) == [n \in 1..Cardinality(places) |-> s[Nth(places, n)]]
=============================================================================
