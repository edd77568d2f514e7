------------------------------ MODULE Division ------------------------------
(***************************************************************************)
(* The polynomial division behind a CRC-32: a register of 32 coefficients,  *)
(* that of x^31 in bit 0, is multiplied by x and reduced by the generator   *)
(* polynomial, Steps times.  A word is the set of the positions of its ones. *)
(***************************************************************************)
EXTENDS Integers, FiniteSetsExt

CONSTANT Steps

(* The exponents of the generator polynomial of CRC-32 below x^32.          *)
Generator == {26, 23, 22, 16, 12, 11, 10, 8, 7, 5, 4, 2, 1, 0}

VARIABLES
  remainder,
  left        \* how many steps are left

vars == <<remainder, left>>

TimesX(w) == {b - 1 : b \in w \ {0}}
Reduced(w, carry) == IF carry THEN SymDiff(w, {31 - e : e \in Generator}) ELSE w

Init == remainder \in SUBSET (0 .. 31) /\ left = Steps

Divide ==
  /\ left > 0
  /\ remainder' = Reduced(TimesX(remainder), 0 \in remainder)
  /\ left' = left - 1

Next == Divide

Spec == Init /\ [][Next]_vars
=============================================================================
