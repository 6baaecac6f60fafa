------------------------------ MODULE Ordering ------------------------------
(***************************************************************************)
(* The members of a finite set one after the other.  An order is the set   *)
(* of its pairs, so that theorems can speak of any order.                  *)
(***************************************************************************)
EXTENDS Naturals, FiniteSets

InOrder(S, before) ==
    [p \in 1..Cardinality(S) |->
        CHOOSE x \in S : Cardinality({y \in S : <<y, x>> \in before}) = p - 1]

\* A set of numbers, the least first.
Ascending(S) == InOrder(S, {e \in S \X S : e[1] < e[2]})
=============================================================================
