------------------------------ MODULE Positions ------------------------------
(***************************************************************************)
(* Positions in a sequence, in the order they stand.                       *)
(*                                                                         *)
(* These are what SetToSortSeq and SelectSeq of the library compute,       *)
(* written without an operator as argument, which a proof cannot open.     *)
(***************************************************************************)
EXTENDS Integers, Sequences, FiniteSets

\* The numbers of S, ascending: the k-th has k - 1 of them below it.
Ascending(S) == [k \in 1..Cardinality(S) |->
    CHOOSE x \in S : Cardinality({y \in S : y < x}) = k - 1]

\* The elements of s at the positions P, in their order.
At(s, P) == LET places == Ascending(P) IN [k \in DOMAIN places |-> s[places[k]]]
=============================================================================
