-------------------------------- MODULE Words --------------------------------
(***************************************************************************)
(* The 32-bit words MSC commands compute with, of any width here, and what  *)
(* the processor does with a pair of them.  Whatever no property looks into *)
(* is a constant: the two-operand integer instructions and the x87          *)
(* operations.                                                              *)
(***************************************************************************)
EXTENDS Integers

CONSTANTS
  Half,                \* 2^31: half of the words are negative
  IntOp(_, _, _),      \* operation, left, right
  FloatOp(_, _, _, _), \* operation, left, right, rounding mode
  FloatOrder(_, _),    \* left, right: how an x87 comparison finds them
  One, MinusOne        \* 1.0 and -1.0

Modulus == 2 * Half
Word    == 0 .. Modulus - 1
Rounding == {"nearest", "truncate"}

Signed(x) == IF x < Half THEN x ELSE x - Modulus
Wrap(x)   == x % Modulus

IntOperations   == {"Add", "Sub", "BitAnd", "BitOr", "BitXor", "ShiftL", "ShiftR"}
FloatOperations == {"Add", "Sub", "Mult", "Div", "Negate", "ToFloat", "ToInt"}

ASSUME HalfAssumption == Half \in Nat \ {0}
ASSUME IntOpAssumption ==
  \A op \in IntOperations, a, b \in Word : IntOp(op, a, b) \in Word
ASSUME FloatOpAssumption ==
  /\ One \in Word /\ MinusOne \in Word
  /\ \A op \in FloatOperations, a, b \in Word, m \in Rounding :
       FloatOp(op, a, b, m) \in Word
ASSUME FloatOrderAssumption ==
  \A a, b \in Word : FloatOrder(a, b) \in {"less", "equal", "greater", "unordered"}
(* Of the x87 the templates use no more than these laws, which IEEE 754      *)
(* gives it; a change of sign is never rounded.                             *)
ASSUME FloatLawsAssumption ==
  \A a, b \in Word, m \in Rounding :
    /\ FloatOp("Add", a, b, m) = FloatOp("Add", b, a, m)
    /\ FloatOp("Mult", a, b, m) = FloatOp("Mult", b, a, m)
    /\ FloatOp("Sub", a, One, m) = FloatOp("Add", a, MinusOne, m)
    /\ FloatOp("Negate", a, a, m) = FloatOp("Negate", a, a, "nearest")

Truth(b) == IF b THEN 1 ELSE 0
Complement(x) == Modulus - 1 - x

(* Integer comparisons are signed.                                          *)
IntHolds(op, a, b) ==
  CASE op = "Equal"              -> a = b
    [] op = "NotEqual"           -> a # b
    [] op = "LessThan"           -> Signed(a) < Signed(b)
    [] op = "LessThanOrEqual"    -> Signed(a) <= Signed(b)
    [] op = "GreaterThan"        -> Signed(a) > Signed(b)
    [] op = "GreaterThanOrEqual" -> Signed(a) >= Signed(b)

(* Division of integers rounds towards zero.                                *)
Magnitude(x) == IF x < 0 THEN -x ELSE x
Truncated(a, b) ==
  LET q == Magnitude(a) \div Magnitude(b)
  IN IF (a < 0) = (b < 0) THEN q ELSE -q
Fits(q) == -Half <= q /\ q < Half

(* external: IMUL r32 leaves the double word product in EDX:EAX.            *)
ProductHigh(a, b) == Wrap((Signed(a) * Signed(b)) \div Modulus)
(* MUTANT: the product is not cut to a word.                                *)
MutProductLow(a, b) == Signed(a) * Signed(b)
ProductLow(a, b)  == Wrap(Signed(a) * Signed(b))

(* external: IDIV r32 divides EDX:EAX and traps when the quotient is wider  *)
(* than a word.                                                             *)
Dividend(high, low) == Signed(high) * Modulus + low
Divisible(n, d) == d # 0 /\ Fits(Truncated(n, Signed(d)))
Quotient(n, d)  == Wrap(Truncated(n, Signed(d)))
Remainder(n, d) == Wrap(n - Signed(d) * Truncated(n, Signed(d)))
=============================================================================
