-------------------------------- MODULE Ranks --------------------------------
(***************************************************************************)
(* The members of a finite set of numbers in their order.  SelectSeq and     *)
(* SetToSortSeq take an operator as a parameter, which no proof about them   *)
(* could expand.                                                           *)
(***************************************************************************)
EXTENDS Integers, FiniteSets

Rank(S, i) == Cardinality({j \in S : j <= i})
Nth(S, k)  == CHOOSE i \in S : Rank(S, i) = k

(* The elements of a sequence at the members of S.                          *)
Picked(s, S) == [k \in 1 .. Cardinality(S) |-> s[Nth(S, k)]]
=============================================================================
