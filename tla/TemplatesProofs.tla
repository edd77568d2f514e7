--------------------------- MODULE TemplatesProofs ---------------------------
(***************************************************************************)
(* What the templates keep true, and which commands mean what they should,   *)
(* for words of any width, any float arithmetic and any script.              *)
(***************************************************************************)
EXTENDS Templates, Lemmas

LEMMA Numbers ==
  /\ Half \in Nat /\ Half > 0 /\ Modulus \in Nat /\ Modulus > 0 /\ Modulus = Half + Half
  /\ 0 \in Word /\ 1 \in Word
BY HalfAssumption DEF Modulus, Word

LEMMA Wrapped == ASSUME NEW x \in Int  PROVE Wrap(x) \in Word
BY Numbers DEF Wrap, Word

LEMMA SignedWord ==
  ASSUME NEW a \in Word
  PROVE  Signed(a) \in Int /\ (Signed(a) = 0 <=> a = 0)
BY Numbers DEF Signed, Word

LEMMA TruncatedIsInt ==
  ASSUME NEW n \in Int, NEW d \in Int, d # 0
  PROVE  Truncated(n, d) \in Int
<1>1. Magnitude(n) \in Nat /\ Magnitude(d) \in Nat \ {0}  BY DEF Magnitude
<1>2. Magnitude(n) \div Magnitude(d) \in Int  BY <1>1
<1>3. QED  BY <1>2 DEF Truncated

LEMMA Closed ==
  ASSUME NEW a \in Word, NEW b \in Word
  PROVE  /\ ProductLow(a, b) \in Word /\ ProductHigh(a, b) \in Word
         /\ Complement(a) \in Word /\ Wrap(-a) \in Word
         /\ Dividend(a, b) \in Int
<1>1. a \in Int /\ Signed(a) \in Int /\ Signed(b) \in Int /\ Modulus \in Nat \ {0}
      /\ a \in 0 .. Modulus - 1 /\ b \in Int
  BY SignedWord, Numbers DEF Word
<1>2. Signed(a) * Signed(b) \in Int /\ Signed(a) * Modulus \in Int  BY <1>1
<1>3. (Signed(a) * Signed(b)) \div Modulus \in Int  BY <1>1, <1>2
<1>4. Complement(a) \in Word  BY <1>1 DEF Complement, Word
<1>5. QED  BY <1>1, <1>2, <1>3, <1>4, Wrapped DEF ProductLow, ProductHigh, Dividend

LEMMA DivisionClosed ==
  ASSUME NEW n \in Int, NEW d \in Word, Divisible(n, d)
  PROVE  Quotient(n, d) \in Word /\ Remainder(n, d) \in Word
<1>1. Signed(d) \in Int /\ Signed(d) # 0  BY SignedWord DEF Divisible
<1>2. Truncated(n, Signed(d)) \in Int  BY <1>1, TruncatedIsInt
<1>3. n - Signed(d) * Truncated(n, Signed(d)) \in Int  BY <1>1, <1>2
<1>4. QED  BY <1>2, <1>3, Wrapped DEF Quotient, Remainder
-----------------------------------------------------------------------------
(* The tables of operations are those of the meaning.                        *)
LEMMA Tables ==
  /\ DOMAIN BinaryOperation = DOMAIN M!IntBinary
  /\ \A o \in DOMAIN BinaryOperation :
       BinaryOperation[o] = M!IntBinary[o] /\ BinaryOperation[o] \in IntOperations
  /\ DOMAIN Condition = DOMAIN M!IntCompare
  /\ \A o \in DOMAIN Condition : Condition[o] = M!IntCompare[o]
  /\ DOMAIN FpuOperation = DOMAIN M!FloatBinary
  /\ \A o \in DOMAIN FpuOperation :
       FpuOperation[o] = M!FloatBinary[o] /\ FpuOperation[o] \in FloatOperations
  /\ DOMAIN AssignOperation = DOMAIN M!IntAssign
  /\ \A o \in DOMAIN AssignOperation :
       AssignOperation[o] = M!IntAssign[o] /\ AssignOperation[o] \in IntOperations
BY DEF BinaryOperation, M!IntBinary, Condition, M!IntCompare, FpuOperation, M!FloatBinary,
       AssignOperation, M!IntAssign, IntOperations, FloatOperations
-----------------------------------------------------------------------------
(* The evaluation stack as the meaning sees it: the low dwords.              *)
Lows(s) == [i \in 1 .. Len(s) |-> s[i].lo]

LEMMA LowsOf ==
  ASSUME NEW s \in Seq(Slot)
  PROVE  /\ Lows(s) \in Seq(Word) /\ Len(Lows(s)) = Len(s) /\ Len(s) \in Nat
         /\ \A i \in 1 .. Len(s) : Lows(s)[i] = s[i].lo
<1>1. Len(s) \in Nat /\ \A i \in 1 .. Len(s) : s[i] \in Slot  BY LenProperties
<1>2. \A i \in 1 .. Len(s) : s[i].lo \in Word  BY <1>1 DEF Slot
<1>3. QED  BY <1>1, <1>2 DEF Lows

LEMMA LowsOfPush ==
  ASSUME NEW s \in Seq(Slot), NEW e \in Slot
  PROVE  Lows(Append(s, e)) = Append(Lows(s), e.lo)
<1> DEFINE left == Append(s, e)
           right == Append(Lows(s), e.lo)
<1>1. e.lo \in Word /\ Len(s) \in Nat  BY LowsOf DEF Slot
<1>2. /\ left \in Seq(Slot) /\ Len(left) = Len(s) + 1
      /\ \A k \in 1 .. Len(s) : left[k] = s[k]
      /\ left[Len(s) + 1] = e
  BY Pushing
<1>3. /\ right \in Seq(Word) /\ Len(right) = Len(s) + 1
      /\ \A k \in 1 .. Len(s) : right[k] = s[k].lo
      /\ right[Len(s) + 1] = e.lo
  BY <1>1, LowsOf, Pushing
<1> HIDE DEF left, right
<1>4. /\ Lows(left) \in Seq(Word) /\ Len(Lows(left)) = Len(s) + 1
      /\ \A k \in 1 .. Len(s) + 1 : Lows(left)[k] = left[k].lo
  BY <1>2, LowsOf
<1>5. \A k \in 1 .. Len(s) + 1 : Lows(left)[k] = right[k]
  <2>1. \A k \in 1 .. Len(s) + 1 : k \in 1 .. Len(s) \/ k = Len(s) + 1  BY <1>1
  <2>2. QED  BY <1>2, <1>3, <1>4, <2>1
<1> DEFINE n == Len(s) + 1
<1>6. /\ Len(Lows(left)) = n /\ Len(right) = n
      /\ \A k \in 1 .. n : Lows(left)[k] = right[k]
  BY <1>3, <1>4, <1>5
<1> HIDE DEF n
<1>7. Lows(left) = right
  BY ONLY <1>3, <1>4, <1>6, SameElements
<1>8. QED  BY <1>7 DEF left, right

LEMMA LowsOfPop ==
  ASSUME NEW s \in Seq(Slot), NEW n \in 0 .. Len(s)
  PROVE  Lows(SubSeq(s, 1, Len(s) - n)) = SubSeq(Lows(s), 1, Len(Lows(s)) - n)
<1> DEFINE left == SubSeq(s, 1, Len(s) - n)
           right == SubSeq(Lows(s), 1, Len(Lows(s)) - n)
           m == Len(s) - n
<1>1. Lows(s) \in Seq(Word) /\ Len(Lows(s)) = Len(s)
      /\ \A k \in 1 .. Len(s) : Lows(s)[k] = s[k].lo
  BY LowsOf
<1>2. left \in Seq(Slot) /\ Len(left) = m /\ \A k \in 1 .. m : left[k] = s[k]
  BY Popping
<1>3. right \in Seq(Word) /\ Len(right) = m /\ \A k \in 1 .. m : right[k] = Lows(s)[k]
  BY <1>1, Popping
<1> HIDE DEF left, right
<1>4. /\ Lows(left) \in Seq(Word) /\ Len(Lows(left)) = m
      /\ \A k \in 1 .. m : Lows(left)[k] = left[k].lo
  BY <1>2, LowsOf
<1>5. \A k \in 1 .. m : k \in 1 .. Len(s)  BY LowsOf
<1> HIDE DEF m
<1>6. \A k \in 1 .. m : Lows(left)[k] = right[k]
  BY <1>1, <1>2, <1>3, <1>4, <1>5
<1>7. Lows(left) = right  BY ONLY <1>3, <1>4, <1>6, SameElements
<1>8. QED  BY <1>7 DEF left, right

(* A word replaces the low dword of slot p.                                 *)
LEMMA LowsOfReplace ==
  ASSUME NEW s \in Seq(Slot), NEW p \in 1 .. Len(s), NEW v \in Word
  PROVE  /\ [s EXCEPT ![p].lo = v] \in Seq(Slot)
         /\ Len([s EXCEPT ![p].lo = v]) = Len(s)
         /\ \A k \in 1 .. Len(s) : k # p => [s EXCEPT ![p].lo = v][k] = s[k]
         /\ [s EXCEPT ![p].lo = v][p].lo = v
         /\ Lows([s EXCEPT ![p].lo = v]) = [Lows(s) EXCEPT ![p] = v]
<1> DEFINE e == [s[p] EXCEPT !.lo = v]
           new == [s EXCEPT ![p] = e]
<1>1. s[p] \in Slot  BY ElementOfSeq
<1>2. e \in Slot /\ e.lo = v  BY <1>1 DEF Slot
<1>3. [s EXCEPT ![p].lo = v] = new  OBVIOUS
<1> HIDE DEF e
<1>4. /\ new \in Seq(Slot) /\ Len(new) = Len(s)
      /\ \A k \in 1 .. Len(s) : new[k] = IF k = p THEN e ELSE s[k]
  BY <1>2, ExceptSeq
<1>5. /\ Lows(s) \in Seq(Word) /\ Len(Lows(s)) = Len(s)
      /\ \A k \in 1 .. Len(s) : Lows(s)[k] = s[k].lo
  BY LowsOf
<1>6. /\ [Lows(s) EXCEPT ![p] = v] \in Seq(Word) /\ Len([Lows(s) EXCEPT ![p] = v]) = Len(s)
      /\ \A k \in 1 .. Len(s) :
           [Lows(s) EXCEPT ![p] = v][k] = IF k = p THEN v ELSE Lows(s)[k]
  BY <1>5, ExceptSeq
<1> HIDE DEF new
<1>7. /\ Lows(new) \in Seq(Word) /\ Len(Lows(new)) = Len(s)
      /\ \A k \in 1 .. Len(s) : Lows(new)[k] = new[k].lo
  BY <1>4, LowsOf
<1> DEFINE n == Len(s)
           right == [Lows(s) EXCEPT ![p] = v]
<1>8. /\ right \in Seq(Word) /\ Len(right) = n /\ Lows(new) \in Seq(Word)
      /\ Len(Lows(new)) = n /\ \A k \in 1 .. n : Lows(new)[k] = right[k]
  BY <1>2, <1>4, <1>5, <1>6, <1>7
<1> HIDE DEF n, right
<1>9. Lows(new) = right  BY ONLY <1>8, SameElements
<1>10. QED  BY <1>2, <1>3, <1>4, <1>9 DEF right, new
-----------------------------------------------------------------------------
(* The words and the commands of the meaning are those of the templates.     *)
LEMMA SameCommands ==
  /\ M!Opcodes = Opcodes /\ M!VarCommands = VarCommands /\ M!Immediates = Immediates
  /\ M!Foreign = Foreign /\ M!FloatCompares = FloatCompares /\ M!Ifs = Ifs
BY DEF M!Opcodes, Opcodes, M!VarCommands, VarCommands, M!Immediates, Immediates, M!Foreign,
       Foreign, M!FloatCompares, FloatCompares, M!Ifs, Ifs, M!Unsupported, Unsupported,
       M!Jumps, Jumps, M!Calls, Calls, M!Returns, Returns, M!Operators, Operators

LEMMA SameWords ==
  /\ M!Word = Word
  /\ \A a, b : /\ M!ProductLow(a, b) = ProductLow(a, b) /\ M!Wrap(a) = Wrap(a)
               /\ M!Complement(a) = Complement(a) /\ M!Truth(a) = Truth(a)
               /\ M!Signed(a) = Signed(a) /\ M!Divisible(a, b) = Divisible(a, b)
               /\ M!Quotient(a, b) = Quotient(a, b) /\ M!Remainder(a, b) = Remainder(a, b)
<1>1. M!Modulus = Modulus /\ M!Word = Word  BY DEF M!Word, Word, M!Modulus, Modulus
<1>2. \A a : M!Wrap(a) = Wrap(a) /\ M!Complement(a) = Complement(a)
            /\ M!Truth(a) = Truth(a) /\ M!Signed(a) = Signed(a)
  BY <1>1 DEF M!Wrap, Wrap, M!Complement, Complement, M!Truth, Truth, M!Signed, Signed
<1>3. \A a, b : M!ProductLow(a, b) = ProductLow(a, b)
  BY <1>2 DEF M!ProductLow, ProductLow
<1>4. \A a, b : M!Truncated(a, b) = Truncated(a, b)
  BY DEF M!Truncated, Truncated, M!Magnitude, Magnitude
<1>5. \A a, b : /\ M!Divisible(a, b) = Divisible(a, b) /\ M!Quotient(a, b) = Quotient(a, b)
               /\ M!Remainder(a, b) = Remainder(a, b)
  BY <1>2, <1>4 DEF M!Divisible, Divisible, M!Fits, Fits, M!Quotient, Quotient, M!Remainder,
     Remainder
<1>6. QED  BY <1>1, <1>2, <1>3, <1>5

(* The two operands of a command, and its variable.                         *)
LEMMA Operands ==
  ASSUME stack \in Seq(Slot)
  PROVE  /\ Len(stack) \in Nat /\ Len(Lows(stack)) = Len(stack)
         /\ Len(stack) >= 1 => /\ stack[Len(stack)] \in Slot
                               /\ Right \in Word /\ Right = Lows(stack)[Len(stack)]
         /\ Len(stack) >= 2 => Left \in Word /\ Left = Lows(stack)[Len(stack) - 1]
<1>1. Len(stack) \in Nat /\ \A k \in 1 .. Len(stack) : stack[k] \in Slot  BY LenProperties
<1>2. CASE Len(stack) >= 1
  <2>1. Len(stack) \in 1 .. Len(stack)  BY <1>1, <1>2
  <2>2. Len(stack) >= 2 => Len(stack) - 1 \in 1 .. Len(stack)  BY <1>1
  <2>3. QED  BY <1>1, <1>2, <2>1, <2>2, LowsOf DEF Right, Left, Slot
<1>3. QED  BY <1>1, <1>2, LowsOf

LEMMA Variable ==
  ASSUME program \in Programs, memory \in [M!VarsOf(program) -> Word], NEW c \in program
  PROVE  /\ c \in M!Instruction /\ c.op \in Opcodes /\ c.push \in BOOLEAN
         /\ c.val \in Word /\ c.argc \in Nat
         /\ c.op \in VarCommands =>
              /\ memory[c.var] \in Word
              /\ \A v \in Word : [memory EXCEPT ![c.var] = v] \in [M!VarsOf(program) -> Word]
<1>1. c \in M!Instruction  BY ProgramsAssumption
<1>2. c.op \in VarCommands => c.var \in M!VarsOf(program)  BY SameCommands DEF M!VarsOf
<1>3. QED  BY <1>1, <1>2, SameCommands, SameWords DEF M!Instruction

(* How many values each template finds on the stack.                        *)
LEMMA Needs ==
  ASSUME NEW c \in M!Instruction
  PROVE  /\ M!Takes(c) \in Nat
         /\ c.op \in {"MultI", "DivI", "ModI"} \cup DOMAIN BinaryOperation
                     \cup DOMAIN Condition \cup FloatCompares \cup DOMAIN FpuOperation
            => M!Takes(c) = 2
         /\ c.op \in {"IntToFloat", "FloatToInt"} => M!Takes(c) = c.argc + 1
         /\ c.op \in Foreign => M!Takes(c) = c.argc
         /\ c.op = "Push" /\ c.push => M!Takes(c) = 1
         /\ c.op = "Pop" /\ ~c.push => M!Takes(c) = 1
         /\ c.op \in {"SetVar", "VarSetF", "AddVarByF", "SubVarByF", "DivVarByF", "MultVarByF",
                      "MultVarBy", "DivVarBy", "ModVarBy", "NegI", "NotI", "NegF", "Not",
                      "If", "IfNot"} \cup DOMAIN AssignOperation
            => M!Takes(c) = 1
<1>1. c.argc \in Nat  BY DEF M!Instruction
<1> DEFINE binary == {"MultI", "DivI", "ModI"} \cup DOMAIN BinaryOperation \cup FloatCompares
                        \cup DOMAIN FpuOperation \cup DOMAIN Condition
<1>2. M!Takes(c) =
        CASE c.op \in binary -> 2
          [] c.op \in {"IntToFloat", "FloatToInt"} -> c.argc + 1
          [] c.op \in Foreign -> c.argc
          [] c.op \in {"PushVar", "IncI", "DecI", "IncF", "DecF"} \cup Immediates -> 0
          [] c.op = "Push" -> IF c.push THEN 1 ELSE 0
          [] c.op = "Pop"  -> IF c.push THEN 0 ELSE 1
          [] OTHER -> 1
  BY SameCommands, Tables DEF M!Takes
<1>3. binary = {"MultI", "DivI", "ModI", "AddI", "SubI", "AndI", "OrI", "XorI", "ShiftL",
                "ShiftR", "EqualsF", "NotEqualsF", "LessThanF", "LessOrEqualF", "GreaterF",
                "GreaterOrEqualF", "AddF", "SubF", "MultF", "DivF", "Equals", "NotEquals",
                "LessThan", "LessOrEqual", "Greater", "GreaterOrEqual"}
  BY DEF BinaryOperation, Condition, FpuOperation, FloatCompares
<1>4. DOMAIN AssignOperation = {"AddVarBy", "SubVarBy", "AndVarBy", "OrVarBy", "XorVarBy"}
  BY DEF AssignOperation
<1> HIDE DEF binary
<1>5. c.op \in binary => M!Takes(c) = 2  BY <1>2, <1>3 DEF Foreign, Immediates
<1>6. c.op \in {"IntToFloat", "FloatToInt"} => M!Takes(c) = c.argc + 1
  BY <1>2, <1>3 DEF Foreign, Immediates
<1>7. c.op \in Foreign => M!Takes(c) = c.argc
  BY <1>2, <1>3 DEF Foreign, Immediates
<1>8. c.op \notin binary \cup Foreign \cup {"IntToFloat", "FloatToInt"} => M!Takes(c) \in {0, 1}
  BY <1>2 DEF Foreign, Immediates
<1>9. /\ c.op = "Push" /\ c.push => M!Takes(c) = 1
      /\ c.op = "Pop" /\ ~c.push => M!Takes(c) = 1
  BY <1>2, <1>3 DEF Foreign, Immediates
<1>10. ASSUME c.op \in {"SetVar", "VarSetF", "AddVarByF", "SubVarByF", "DivVarByF", "MultVarByF",
                       "MultVarBy", "DivVarBy", "ModVarBy", "NegI", "NotI", "NegF", "Not",
                       "If", "IfNot"} \cup DOMAIN AssignOperation
       PROVE  M!Takes(c) = 1
  <2>1. c.op \notin binary  BY <1>3, <1>4, <1>10
  <2>2. c.op \notin {"IntToFloat", "FloatToInt", "PushVar", "IncI", "DecI", "IncF", "DecF",
                    "Push", "Pop", "Sys", "PrintF", "PushInt", "PushShort"}
    BY <1>4, <1>10
  <2>3. QED  BY <1>2, <2>1, <2>2 DEF Foreign, Immediates
<1>11. QED  BY <1>1, <1>5, <1>6, <1>7, <1>8, <1>9, <1>10 DEF binary
-----------------------------------------------------------------------------
(* What popping n slots and pushing e leaves, as the meaning sees it too.    *)
LEMMA Pushed ==
  ASSUME stack \in Seq(Slot), NEW n \in 0 .. Len(stack), NEW e \in Slot,
         stack' = Append(Below(n), e)
  PROVE  /\ stack' \in Seq(Slot) /\ stack' # <<>> /\ stack'[Len(stack')] = e
         /\ Lows(stack') = Append(SubSeq(Lows(stack), 1, Len(Lows(stack)) - n), e.lo)
<1>1. Below(n) \in Seq(Slot)  BY Popping DEF Below
<1>2. /\ stack' \in Seq(Slot) /\ Len(stack') = Len(Below(n)) + 1 /\ Len(Below(n)) \in Nat
      /\ stack'[Len(Below(n)) + 1] = e
  BY <1>1, Pushing
<1>3. stack' # <<>>  BY <1>2, EmptySeq
<1>4. Lows(stack') = Append(Lows(Below(n)), e.lo)  BY <1>1, LowsOfPush
<1>5. Lows(Below(n)) = SubSeq(Lows(stack), 1, Len(Lows(stack)) - n)  BY LowsOfPop DEF Below
<1>6. QED  BY <1>2, <1>3, <1>4, <1>5

LEMMA Popped ==
  ASSUME stack \in Seq(Slot), NEW n \in 0 .. Len(stack), stack' = Below(n)
  PROVE  /\ stack' \in Seq(Slot)
         /\ Lows(stack') = SubSeq(Lows(stack), 1, Len(Lows(stack)) - n)
BY Popping, LowsOfPop DEF Below

LEMMA Leaves ==
  ASSUME stack \in Seq(Slot), NEW n \in 0 .. Len(stack), NEW v \in Word, PushRax(n, v)
  PROVE  /\ stack' \in Seq(Slot) /\ stack' # <<>> /\ eax' \in Word /\ eax' = v /\ Right' = eax'
         /\ Lows(stack') = Append(SubSeq(Lows(stack), 1, Len(Lows(stack)) - n), v)
<1>1. Clean(v) \in Slot /\ Clean(v).lo = v  BY DEF Clean, Slot
<1>2. stack' = Append(Below(n), Clean(v)) /\ eax' = v  BY DEF PushRax
<1>3. QED  BY <1>1, <1>2, Pushed DEF Right

LEMMA Kept ==
  ASSUME stack \in Seq(Slot)
  PROVE  Below(0) = stack
<1>1. /\ Below(0) \in Seq(Slot) /\ Len(Below(0)) = Len(stack)
      /\ \A k \in 1 .. Len(stack) : Below(0)[k] = stack[k]
  <2>1. 0 \in 0 .. Len(stack) /\ Len(stack) - 0 = Len(stack)  BY LenProperties
  <2>2. QED  BY <2>1, Popping DEF Below
<1>2. QED  BY <1>1, SameElements
-----------------------------------------------------------------------------
(* The invariant without the history and the bound of the stack.            *)
Typed ==
  /\ stack \in Seq(Slot)
  /\ program \in Programs /\ memory \in [M!VarsOf(program) -> Word]
  /\ eax \in Word /\ edx \in Word /\ r8 \in Word
  /\ mode \in Rounding /\ trapped \in BOOLEAN

(* What every template does to the stack and to the registers.              *)
Effect(c) ==
  /\ stack' \in Seq(Slot) /\ memory' \in [M!VarsOf(program) -> Word]
  /\ eax' \in Word /\ edx' \in Word /\ r8' \in Word
  /\ mode' \in Rounding /\ trapped' \in BOOLEAN
  /\ trapped' => UNCHANGED <<stack, regs>>
  /\ LeavesOperandInEax(c) /\ ~trapped' => stack' # <<>> /\ Right' = eax'
  /\ c.op \in {"Not"} \cup DOMAIN Condition /\ c.push => r8' = 0
  /\ c.op \notin Foreign => r8' \in {0, r8}
  /\ c.op # "FloatToInt" => mode' = mode

Ready(c) == Typed /\ c \in program /\ ~trapped /\ Len(stack) >= M!Takes(c)

LEMMA Domains ==
  /\ DOMAIN BinaryOperation = {"AddI", "SubI", "ShiftR", "ShiftL", "AndI", "OrI", "XorI"}
  /\ DOMAIN Condition = {"Equals", "NotEquals", "LessThan", "LessOrEqual", "Greater",
                         "GreaterOrEqual"}
  /\ DOMAIN FpuOperation = {"AddF", "SubF", "MultF", "DivF"}
  /\ DOMAIN AssignOperation = {"AddVarBy", "SubVarBy", "AndVarBy", "OrVarBy", "XorVarBy"}
BY DEF BinaryOperation, Condition, FpuOperation, AssignOperation

(* The commands that leave their value in EAX, one by one.                  *)
LEMMA Leaving ==
  ASSUME NEW c, LeavesOperandInEax(c)
  PROVE  \/ c.op = "PushVar"
         \/ /\ c.push
            /\ c.op \in {"MultI", "DivI", "AddI", "SubI", "ShiftR", "ShiftL", "AndI", "OrI",
                        "XorI", "Equals", "NotEquals", "LessThan", "LessOrEqual", "Greater",
                        "GreaterOrEqual", "EqualsF", "NotEqualsF", "LessThanF", "LessOrEqualF",
                        "GreaterF", "GreaterOrEqualF", "Push", "Sys"}
BY Domains DEF LeavesOperandInEax, FloatCompares

LEMMA Given ==
  ASSUME NEW c, Ready(c)
  PROVE  /\ stack \in Seq(Slot) /\ Len(stack) \in Nat
         /\ c \in M!Instruction /\ c.op \in Opcodes /\ c.push \in BOOLEAN
         /\ c.val \in Word /\ c.argc \in Nat
         /\ c.op \in VarCommands =>
              /\ memory[c.var] \in Word
              /\ \A v \in Word : [memory EXCEPT ![c.var] = v] \in [M!VarsOf(program) -> Word]
         /\ Len(stack) >= 1 => stack[Len(stack)] \in Slot /\ Right \in Word
         /\ Len(stack) >= 2 => Left \in Word
         /\ GlobalsPtr \in Word
         /\ eax \in Word /\ edx \in Word /\ r8 \in Word /\ mode \in Rounding
         /\ memory \in [M!VarsOf(program) -> Word] /\ trapped = FALSE
BY Operands, Variable, RegistersAssumption DEF Ready, Typed

(* The values that a template pops are there.                               *)
LEMMA Enough ==
  ASSUME NEW c, Ready(c)
  PROVE  /\ 0 \in 0 .. Len(stack)
         /\ \/ c.op = "Push" /\ c.push
            \/ c.op = "Pop" /\ ~c.push
            \/ c.op \in {"SetVar", "VarSetF", "AddVarByF", "SubVarByF", "DivVarByF",
                         "MultVarByF", "MultVarBy", "DivVarBy", "ModVarBy", "NegI", "NotI",
                         "NegF", "Not", "If", "IfNot"} \cup DOMAIN AssignOperation
            => 1 \in 0 .. Len(stack) /\ stack[Len(stack)] \in Slot /\ Right \in Word
         /\ c.op \in {"MultI", "DivI", "ModI"} \cup DOMAIN BinaryOperation
                     \cup DOMAIN Condition \cup FloatCompares \cup DOMAIN FpuOperation
            => 1 \in 0 .. Len(stack) /\ 2 \in 0 .. Len(stack) /\ Right \in Word /\ Left \in Word
         /\ c.op \in {"IntToFloat", "FloatToInt"} => Len(stack) - c.argc \in 1 .. Len(stack)
         /\ c.op \in Foreign => c.argc \in 0 .. Len(stack)
<1>1. c \in M!Instruction /\ Len(stack) \in Nat /\ c.argc \in Nat /\ Len(stack) >= M!Takes(c)
  BY Given DEF Ready
<1>2. /\ Len(stack) >= 1 => 1 \in 0 .. Len(stack) /\ stack[Len(stack)] \in Slot /\ Right \in Word
      /\ Len(stack) >= 2 => 1 \in 0 .. Len(stack) /\ 2 \in 0 .. Len(stack) /\ Right \in Word
                             /\ Left \in Word
  <2>1. Len(stack) \in Nat  BY <1>1
  <2>2. /\ Len(stack) >= 1 => stack[Len(stack)] \in Slot /\ Right \in Word
        /\ Len(stack) >= 2 => Left \in Word
    BY Given
  <2>3. QED  BY <2>1, <2>2
<1>3. /\ \/ c.op = "Push" /\ c.push
         \/ c.op = "Pop" /\ ~c.push
         \/ c.op \in {"SetVar", "VarSetF", "AddVarByF", "SubVarByF", "DivVarByF",
                      "MultVarByF", "MultVarBy", "DivVarBy", "ModVarBy", "NegI", "NotI",
                      "NegF", "Not", "If", "IfNot"} \cup DOMAIN AssignOperation
         => Len(stack) >= 1
      /\ c.op \in {"MultI", "DivI", "ModI"} \cup DOMAIN BinaryOperation
                  \cup DOMAIN Condition \cup FloatCompares \cup DOMAIN FpuOperation
         => Len(stack) >= 2
      /\ c.op \in {"IntToFloat", "FloatToInt"} => Len(stack) >= c.argc + 1
      /\ c.op \in Foreign => Len(stack) >= c.argc
  BY <1>1, Needs
<1>4. /\ c.op \in {"IntToFloat", "FloatToInt"} => Len(stack) - c.argc \in 1 .. Len(stack)
      /\ c.op \in Foreign => c.argc \in 0 .. Len(stack)
  BY <1>1, <1>3
<1>5. QED  BY <1>1, <1>2, <1>3, <1>4

(* Templates that only move words.                                          *)
LEMMA MovesEffect ==
  ASSUME NEW c, Ready(c),
         PushImmediate(c) \/ Duplicate(c) \/ Discard(c) \/ PushVar(c) \/ SetVar(c)
  PROVE  Effect(c)
<1>1. CASE PushImmediate(c)
  <2> DEFINE e == [lo |-> c.val, dirty |-> Signed(c.val) < 0]
  <2>1. c.op \in Immediates /\ UNCHANGED <<memory, eax, edx, r8, mode, trapped>>
        /\ stack' = IF c.push THEN Append(stack, e) ELSE stack
    BY <1>1 DEF PushImmediate, regs
  <2>2. e \in Slot
    <3>1. c.val \in Word  BY Given
    <3>2. (Signed(c.val) < 0) \in BOOLEAN  OBVIOUS
    <3>3. QED  BY <3>1, <3>2, Zenon DEF Slot
  <2> HIDE DEF e
  <2>3. stack' \in Seq(Slot)  BY <2>1, <2>2, Given, Pushing
  <2>4. QED  BY <2>1, <2>3, Given, Leaving, Domains DEF Effect, Immediates
<1>2. CASE Duplicate(c)
  <2>1. c.op = "Push" /\ UNCHANGED <<memory, edx, r8, mode, trapped>>
    BY <1>2 DEF Duplicate
  <2>2. CASE c.push
    <3>1. stack[Len(stack)] \in Slot /\ Right \in Word  BY <2>1, <2>2, Enough
    <3>2. stack' = Append(stack, stack[Len(stack)]) /\ eax' = Right  BY <1>2, <2>2 DEF Duplicate
    <3>3. stack' = Append(Below(0), stack[Len(stack)])  BY <3>2, Kept, Given
    <3>4. 0 \in 0 .. Len(stack)  BY Given
    <3>5. stack' \in Seq(Slot) /\ stack' # <<>> /\ Right' = eax'
      BY <3>1, <3>2, <3>3, <3>4, Pushed, Given DEF Right
    <3>6. QED  BY <2>1, <3>1, <3>2, <3>5, Given, Domains DEF Effect, Foreign, regs
  <2>3. CASE ~c.push
    <3>1. UNCHANGED <<stack, eax>>  BY <1>2, <2>3 DEF Duplicate
    <3>2. QED  BY <2>1, <2>3, <3>1, Given, Leaving, Domains DEF Effect, regs
  <2>4. QED  BY <2>2, <2>3
<1>3. CASE Discard(c)
  <2>1. c.op = "Pop" /\ UNCHANGED <<memory, eax, edx, r8, mode, trapped>>
        /\ stack' = IF c.push THEN stack ELSE Below(1)
    BY <1>3 DEF Discard, regs
  <2>2. ~c.push => 1 \in 0 .. Len(stack)  BY <2>1, Enough
  <2>3. stack' \in Seq(Slot)  BY <2>1, <2>2, Popped, Given
  <2>4. QED  BY <2>1, <2>3, Given, Leaving, Domains DEF Effect
<1>4. CASE PushVar(c)
  <2>1. c.op = "PushVar" /\ UNCHANGED <<memory, r8, mode, trapped>>
        /\ PushRax(0, memory[c.var]) /\ edx' = AddressIn(c, edx)
    BY <1>4 DEF PushVar
  <2>2. 0 \in 0 .. Len(stack) /\ memory[c.var] \in Word  BY <2>1, Enough, Given DEF VarCommands
  <2>3. stack' \in Seq(Slot) /\ stack' # <<>> /\ eax' \in Word /\ Right' = eax'
    BY <2>1, <2>2, Leaves, Given
  <2>4. QED  BY <2>1, <2>3, Given, Domains DEF Effect, AddressIn, regs
<1>5. CASE SetVar(c)
  <2>1. c.op \in {"SetVar", "VarSetF"} /\ UNCHANGED <<r8, mode, trapped>>
        /\ stack' = Below(1) /\ memory' = [memory EXCEPT ![c.var] = Right]
        /\ eax' = (IF IsGlobal(c) THEN eax ELSE Right) /\ edx' = AddressIn(c, edx)
    BY <1>5 DEF SetVar, Store
  <2>2. 1 \in 0 .. Len(stack) /\ Right \in Word  BY <2>1, Enough
  <2>3. stack' \in Seq(Slot)  BY <2>1, <2>2, Popped, Given
  <2>4. memory' \in [M!VarsOf(program) -> Word]  BY <2>1, <2>2, Given DEF VarCommands
  <2>5. QED  BY <2>1, <2>2, <2>3, <2>4, Given, Leaving, Domains DEF Effect, AddressIn
<1>6. QED  BY <1>1, <1>2, <1>3, <1>4, <1>5

(* Templates that assign to a variable.                                     *)
LEMMA AssignsEffect ==
  ASSUME NEW c, Ready(c),
         \/ IncDecI(c) \/ IncDecF(c) \/ AssignFloat(c) \/ AssignInt(c) \/ AssignMult(c)
         \/ AssignDivided(c)
  PROVE  Effect(c)
<1>1. CASE IncDecI(c)
  <2>1. c.op \in {"IncI", "DecI"} /\ UNCHANGED <<stack, eax, r8, mode, trapped>>
        /\ memory' = [memory EXCEPT ![c.var] = IntOp("Add", memory[c.var], 1)]
        /\ edx' = AddressIn(c, edx)
    BY <1>1 DEF IncDecI, Store
  <2>2. IntOp("Add", memory[c.var], 1) \in Word
    <3>1. memory[c.var] \in Word /\ 1 \in Word /\ "Add" \in IntOperations
      BY <2>1, Given, Numbers DEF VarCommands, IntOperations
    <3>2. QED  BY <3>1, IntOpAssumption
  <2>3. memory' \in [M!VarsOf(program) -> Word]  BY <2>1, <2>2, Given DEF VarCommands
  <2>4. QED  BY <2>1, <2>3, Given, Leaving, Domains DEF Effect, AddressIn
<1>2. CASE IncDecF(c)
  <2> DEFINE v == FloatOp("Add", memory[c.var], IF c.op = "IncF" THEN One ELSE MinusOne, mode)
  <2>1. c.op \in {"IncF", "DecF"} /\ UNCHANGED <<stack, eax, r8, mode, trapped>>
        /\ memory' = [memory EXCEPT ![c.var] = v] /\ edx' = AddressIn(c, edx)
    BY <1>2 DEF IncDecF, Store
  <2>2. v \in Word
    <3>1. memory[c.var] \in Word /\ "Add" \in FloatOperations /\ mode \in Rounding
      BY <2>1, Given DEF VarCommands, FloatOperations
    <3>2. (IF c.op = "IncF" THEN One ELSE MinusOne) \in Word  BY FloatOpAssumption
    <3>3. QED  BY <3>1, <3>2, FloatOpAssumption
  <2> HIDE DEF v
  <2>3. memory' \in [M!VarsOf(program) -> Word]  BY <2>1, <2>2, Given DEF VarCommands
  <2>4. QED  BY <2>1, <2>3, Given, Leaving, Domains DEF Effect, AddressIn
<1>3. CASE AssignFloat(c)
  <2> DEFINE v == FloatOp("Add", memory[c.var], Right, mode)
  <2>1. c.op \in {"AddVarByF", "SubVarByF", "DivVarByF", "MultVarByF"}
        /\ UNCHANGED <<eax, r8, mode, trapped>> /\ stack' = Below(1)
        /\ memory' = [memory EXCEPT ![c.var] = v] /\ edx' = AddressIn(c, edx)
    BY <1>3 DEF AssignFloat, Store
  <2>2. 1 \in 0 .. Len(stack) /\ Right \in Word  BY <2>1, Enough
  <2>3. v \in Word
    <3>1. memory[c.var] \in Word /\ "Add" \in FloatOperations /\ mode \in Rounding
      BY <2>1, Given DEF VarCommands, FloatOperations
    <3>2. QED  BY <2>2, <3>1, FloatOpAssumption
  <2> HIDE DEF v
  <2>4. memory' \in [M!VarsOf(program) -> Word]  BY <2>1, <2>3, Given DEF VarCommands
  <2>5. stack' \in Seq(Slot)  BY <2>1, <2>2, Popped, Given
  <2>6. QED  BY <2>1, <2>4, <2>5, Given, Leaving, Domains DEF Effect, AddressIn
<1>4. CASE AssignInt(c)
  <2> DEFINE v == IntOp(AssignOperation[c.op], memory[c.var],
                        IF IsGlobal(c) THEN Right ELSE eax)
  <2>1. c.op \in DOMAIN AssignOperation /\ UNCHANGED <<r8, mode, trapped>> /\ stack' = Below(1)
        /\ memory' = [memory EXCEPT ![c.var] = v] /\ eax' = (IF IsGlobal(c) THEN v ELSE eax)
        /\ edx' = AddressIn(c, edx)
    BY <1>4 DEF AssignInt, Store
  <2>2. 1 \in 0 .. Len(stack) /\ Right \in Word  BY <2>1, Enough
  <2>3. c.op \in VarCommands  BY <2>1, Domains DEF VarCommands
  <2>4. v \in Word
    <3>1. AssignOperation[c.op] \in IntOperations  BY <2>1, Tables
    <3>2. memory[c.var] \in Word /\ (IF IsGlobal(c) THEN Right ELSE eax) \in Word
      BY <2>2, <2>3, Given
    <3>3. QED  BY <3>1, <3>2, IntOpAssumption
  <2> HIDE DEF v
  <2>5. memory' \in [M!VarsOf(program) -> Word]  BY <2>1, <2>3, <2>4, Given
  <2>6. stack' \in Seq(Slot)  BY <2>1, <2>2, Popped, Given
  <2>7. QED  BY <2>1, <2>4, <2>5, <2>6, Given, Leaving, Domains DEF Effect, AddressIn
<1>5. CASE AssignMult(c)
  <2> DEFINE v == ProductLow(memory[c.var], Right)
             h == ProductHigh(memory[c.var], Right)
  <2>1. c.op = "MultVarBy" /\ UNCHANGED <<r8, mode, trapped>> /\ stack' = Below(1)
        /\ memory' = [memory EXCEPT ![c.var] = v] /\ eax' = v /\ edx' = AddressIn(c, h)
    BY <1>5 DEF AssignMult, Store
  <2>2. 1 \in 0 .. Len(stack) /\ Right \in Word  BY <2>1, Enough
  <2>3. v \in Word /\ h \in Word
    <3>1. memory[c.var] \in Word  BY <2>1, Given DEF VarCommands
    <3>2. QED  BY <2>2, <3>1, Closed
  <2> HIDE DEF v, h
  <2>4. memory' \in [M!VarsOf(program) -> Word]  BY <2>1, <2>3, Given DEF VarCommands
  <2>5. stack' \in Seq(Slot)  BY <2>1, <2>2, Popped, Given
  <2>6. QED  BY <2>1, <2>3, <2>4, <2>5, Given, Leaving, Domains DEF Effect, AddressIn
<1>6. CASE AssignDivided(c)
  <2> DEFINE n == Dividend(DividendHigh(c), memory[c.var])
             q == Quotient(n, Right)
             r == Remainder(n, Right)
             v == IF c.op = "DivVarBy" THEN q ELSE r
  <2>1. c.op \in {"DivVarBy", "ModVarBy"} /\ UNCHANGED <<r8, mode>>
    BY <1>6 DEF AssignDivided
  <2>2. 1 \in 0 .. Len(stack) /\ Right \in Word  BY <2>1, Enough
  <2>3. n \in Int
    <3>1. memory[c.var] \in Word  BY <2>1, Given DEF VarCommands
    <3>2. DividendHigh(c) \in Word  BY Given, Numbers DEF DividendHigh
    <3>3. QED  BY <3>1, <3>2, Closed
  <2>4. CASE Divisible(n, Right)
    <3>1. q \in Word /\ r \in Word  BY <2>2, <2>3, <2>4, DivisionClosed
    <3>2. v \in Word  BY <3>1
    <3>3. memory' = [memory EXCEPT ![c.var] = v] /\ stack' = Below(1) /\ UNCHANGED trapped
          /\ eax' = (IF IsGlobal(c) THEN v ELSE q) /\ edx' = AddressIn(c, r)
      BY <1>6, <2>4 DEF AssignDivided, Store
    <3> HIDE DEF v, q, r
    <3>4. memory' \in [M!VarsOf(program) -> Word]  BY <2>1, <3>2, <3>3, Given DEF VarCommands
    <3>5. stack' \in Seq(Slot)  BY <2>2, <3>3, Popped, Given
    <3>6. QED  BY <2>1, <3>1, <3>2, <3>3, <3>4, <3>5, Given, Leaving, Domains
          DEF Effect, AddressIn
  <2>5. CASE ~Divisible(n, Right)
    <3>1. trapped' = TRUE /\ UNCHANGED <<stack, memory, eax, edx>>
      BY <1>6, <2>5 DEF AssignDivided
    <3>2. QED  BY <2>1, <3>1, Given, Domains DEF Effect, regs
  <2>6. QED  BY <2>4, <2>5
<1>7. QED  BY <1>1, <1>2, <1>3, <1>4, <1>5, <1>6

(* Templates of operators on integers and comparisons.                      *)
LEMMA OperatorsEffect ==
  ASSUME NEW c, Ready(c),
         Multiply(c) \/ Divide(c) \/ BinaryInt(c) \/ CompareInt(c) \/ CompareFloat(c)
  PROVE  Effect(c)
<1>0. /\ c.op \in {"MultI", "DivI", "ModI"} \cup DOMAIN BinaryOperation
                 \cup DOMAIN Condition \cup FloatCompares \cup DOMAIN FpuOperation
      /\ 2 \in 0 .. Len(stack) /\ Right \in Word /\ Left \in Word
  <2>1. c.op \in {"MultI", "DivI", "ModI"} \cup DOMAIN BinaryOperation
                 \cup DOMAIN Condition \cup FloatCompares \cup DOMAIN FpuOperation
    BY DEF Multiply, Divide, BinaryInt, CompareInt, CompareFloat
  <2>2. QED  BY <2>1, Enough
<1>1. CASE Multiply(c)
  <2>1. c.op = "MultI" /\ UNCHANGED <<memory, r8, mode, trapped>>  BY <1>1 DEF Multiply
  <2>2. CASE c.push
    <3>1. PushRax(2, ProductLow(Left, Right)) /\ edx' = ProductHigh(Left, Right)
      BY <1>1, <2>2 DEF Multiply
    <3>2. ProductLow(Left, Right) \in Word /\ edx' \in Word  BY <1>0, <3>1, Closed
    <3>3. stack' \in Seq(Slot) /\ stack' # <<>> /\ eax' \in Word /\ Right' = eax'
      BY <1>0, <3>1, <3>2, Leaves, Given
    <3>4. QED  BY <2>1, <3>2, <3>3, Given, Domains DEF Effect
  <2>3. CASE ~c.push
    <3>1. stack' = Below(2) /\ eax' = Left /\ UNCHANGED edx  BY <1>1, <2>3 DEF Multiply
    <3>2. stack' \in Seq(Slot)  BY <1>0, <3>1, Popped, Given
    <3>3. QED  BY <1>0, <2>1, <2>3, <3>1, <3>2, Given, Leaving, Domains DEF Effect
  <2>4. QED  BY <2>2, <2>3
<1>2. CASE Divide(c)
  <2> DEFINE n == Dividend(0, Left)
             q == Quotient(n, Right)
             r == Remainder(n, Right)
  <2>1. c.op \in {"DivI", "ModI"} /\ UNCHANGED <<memory, r8, mode>>  BY <1>2 DEF Divide
  <2>2. n \in Int  BY <1>0, Numbers, Closed
  <2>3. CASE c.push /\ Divisible(n, Right)
    <3> DEFINE e == Clean(IF c.op = "ModI" THEN r ELSE q)
    <3>1. q \in Word /\ r \in Word  BY <1>0, <2>2, <2>3, DivisionClosed
    <3>2. stack' = Append(Below(2), e) /\ eax' = q /\ edx' = r /\ UNCHANGED trapped
      BY <1>2, <2>3 DEF Divide
    <3> HIDE DEF q, r
    <3>3. e \in Slot /\ (c.op = "DivI" => e.lo = q)  BY <3>1 DEF Clean, Slot
    <3> HIDE DEF e
    <3>4. stack' \in Seq(Slot) /\ stack' # <<>> /\ (c.op = "DivI" => Right' = eax')
      BY <1>0, <3>2, <3>3, Pushed, Given DEF Right
    <3>5. QED  BY <2>1, <3>1, <3>2, <3>4, Given, Leaving, Domains DEF Effect
  <2>4. CASE c.push /\ ~Divisible(n, Right)
    <3>1. trapped' = TRUE /\ UNCHANGED <<stack, eax, edx>>  BY <1>2, <2>4 DEF Divide
    <3>2. QED  BY <2>1, <3>1, Given, Domains DEF Effect, regs
  <2>5. CASE ~c.push
    <3>1. stack' = Below(2) /\ eax' = Left /\ UNCHANGED <<edx, trapped>>
      BY <1>2, <2>5 DEF Divide
    <3>2. stack' \in Seq(Slot)  BY <1>0, <3>1, Popped, Given
    <3>3. QED  BY <1>0, <2>1, <2>5, <3>1, <3>2, Given, Leaving, Domains DEF Effect
  <2>6. QED  BY <2>3, <2>4, <2>5
<1>3. CASE BinaryInt(c)
  <2> DEFINE v == IntOp(BinaryOperation[c.op], Left, Right)
  <2>1. c.op \in DOMAIN BinaryOperation /\ UNCHANGED <<memory, edx, r8, mode, trapped>>
    BY <1>3 DEF BinaryInt
  <2>2. v \in Word  BY <1>0, <2>1, Tables, IntOpAssumption
  <2>3. CASE c.push
    <3>1. PushRax(2, v)  BY <1>3, <2>3 DEF BinaryInt
    <3> HIDE DEF v
    <3>2. stack' \in Seq(Slot) /\ stack' # <<>> /\ eax' \in Word /\ Right' = eax'
      BY <1>0, <2>2, <3>1, Leaves, Given
    <3>3. QED  BY <2>1, <3>2, Given, Domains DEF Effect
  <2>4. CASE ~c.push
    <3>1. stack' = Below(2) /\ eax' = Left  BY <1>3, <2>4 DEF BinaryInt
    <3>2. stack' \in Seq(Slot)  BY <1>0, <3>1, Popped, Given
    <3>3. QED  BY <1>0, <2>1, <2>4, <3>1, <3>2, Given, Leaving, Domains DEF Effect
  <2>5. QED  BY <2>3, <2>4
<1>4. CASE CompareInt(c)
  <2> DEFINE v == Truth(IntHolds(Condition[c.op], Left, Right))
  <2>1. c.op \in DOMAIN Condition /\ UNCHANGED <<memory, mode, trapped>>
    BY <1>4 DEF CompareInt
  <2>2. v \in Word  BY Numbers DEF Truth
  <2>3. CASE c.push
    <3>1. PushRax(2, v) /\ edx' = 1 /\ r8' = 0  BY <1>4, <2>3 DEF CompareInt
    <3> HIDE DEF v
    <3>2. stack' \in Seq(Slot) /\ stack' # <<>> /\ eax' \in Word /\ Right' = eax'
      BY <1>0, <2>2, <3>1, Leaves, Given
    <3>3. QED  BY <2>1, <3>1, <3>2, Given, Numbers, Domains DEF Effect
  <2>4. CASE ~c.push
    <3>1. stack' = Below(2) /\ eax' = Right /\ UNCHANGED <<edx, r8>>
      BY <1>4, <2>4 DEF CompareInt
    <3>2. stack' \in Seq(Slot)  BY <1>0, <3>1, Popped, Given
    <3>3. QED  BY <1>0, <2>1, <2>4, <3>1, <3>2, Given, Leaving, Domains DEF Effect
  <2>5. QED  BY <2>3, <2>4
<1>5. CASE CompareFloat(c)
  <2> DEFINE v == IF FloatCondition(c.op, Left, Right) THEN 1 ELSE r8
  <2>1. c.op \in FloatCompares /\ UNCHANGED <<memory, r8, mode, trapped>>
    BY <1>5 DEF CompareFloat
  <2>2. v \in Word  BY Numbers, Given
  <2>3. CASE c.push
    <3>1. PushRax(2, v) /\ edx' = 1  BY <1>5, <2>3 DEF CompareFloat
    <3> HIDE DEF v
    <3>2. stack' \in Seq(Slot) /\ stack' # <<>> /\ eax' \in Word /\ Right' = eax'
      BY <1>0, <2>2, <3>1, Leaves, Given
    <3>3. QED  BY <2>1, <3>1, <3>2, Given, Numbers, Domains DEF Effect, FloatCompares
  <2>4. CASE ~c.push
    <3>1. UNCHANGED <<stack, eax, edx>>  BY <1>5, <2>4 DEF CompareFloat
    <3>2. QED  BY <2>1, <2>4, <3>1, Given, Leaving, Domains DEF Effect, FloatCompares
  <2>5. QED  BY <2>3, <2>4
<1>6. QED  BY <1>1, <1>2, <1>3, <1>4, <1>5

(* A template that writes slot i below the top in place.                    *)
LEMMA Replaced ==
  ASSUME stack \in Seq(Slot), NEW i, Len(stack) - i \in 1 .. Len(stack), NEW v \in Word,
         InPlace(i, v)
  PROVE  /\ stack' \in Seq(Slot) /\ Len(stack') = Len(stack)
         /\ Lows(stack') = [Lows(stack) EXCEPT ![Len(stack) - i] = v]
<1> DEFINE p == Len(stack) - i
<1>1. stack' = [stack EXCEPT ![p].lo = v] /\ p \in 1 .. Len(stack)  BY DEF InPlace
<1> DEFINE t == [stack EXCEPT ![p].lo = v]
<1> HIDE DEF p
<1>2. t \in Seq(Slot)  BY <1>1, LowsOfReplace
<1>3. Len(t) = Len(stack)  BY <1>1, LowsOfReplace
<1>4. Lows(t) = [Lows(stack) EXCEPT ![p] = v]  BY <1>1, LowsOfReplace
<1>5. stack' = t  BY <1>1
<1> HIDE DEF t
<1>6. QED  BY <1>2, <1>3, <1>4, <1>5 DEF p

(* The remaining templates.                                                 *)
LEMMA OthersEffect ==
  ASSUME NEW c, Ready(c),
         \/ NegateInt(c) \/ NegateFloat(c) \/ LogicalNot(c) \/ BinaryFloat(c) \/ Cast(c)
         \/ CallForeign(c) \/ Branch(c)
  PROVE  Effect(c)
<1>1. CASE NegateInt(c)
  <2> DEFINE v == IF c.op = "NegI" THEN Wrap(-Right) ELSE Complement(Right)
  <2>1. c.op \in {"NegI", "NotI"} /\ UNCHANGED <<memory, edx, r8, mode, trapped>>
    BY <1>1 DEF NegateInt
  <2>2. 1 \in 0 .. Len(stack) /\ Right \in Word  BY <2>1, Enough
  <2>3. v \in Word /\ Len(stack) - 0 \in 1 .. Len(stack)  BY <2>2, Closed, Given
  <2>4. CASE c.push
    <3>1. InPlace(0, v) /\ UNCHANGED eax  BY <1>1, <2>4 DEF NegateInt
    <3> HIDE DEF v
    <3>2. stack' \in Seq(Slot)  BY <2>3, <3>1, Replaced, Given
    <3>3. QED  BY <2>1, <3>1, <3>2, Given, Leaving, Domains DEF Effect
  <2>5. CASE ~c.push
    <3>1. stack' = Below(1) /\ eax' = Right  BY <1>1, <2>5 DEF NegateInt
    <3>2. stack' \in Seq(Slot)  BY <2>2, <3>1, Popped, Given
    <3>3. QED  BY <2>1, <2>2, <3>1, <3>2, Given, Leaving, Domains DEF Effect
  <2>6. QED  BY <2>4, <2>5
<1>2. CASE NegateFloat(c)
  <2> DEFINE v == FloatOp("Negate", Right, Right, mode)
  <2>1. c.op = "NegF" /\ UNCHANGED <<memory, eax, edx, r8, mode, trapped>> /\ InPlace(0, v)
    BY <1>2 DEF NegateFloat, regs
  <2>2. 1 \in 0 .. Len(stack) /\ Right \in Word  BY <2>1, Enough
  <2>3. v \in Word /\ Len(stack) - 0 \in 1 .. Len(stack)
    <3>1. mode \in Rounding /\ "Negate" \in FloatOperations  BY Given DEF FloatOperations
    <3>2. v \in Word  BY <2>2, <3>1, FloatOpAssumption
    <3>3. QED  BY <2>2, <3>2, Given
  <2> HIDE DEF v
  <2>4. stack' \in Seq(Slot)  BY <2>1, <2>3, Replaced, Given
  <2>5. QED  BY <2>1, <2>4, Given, Leaving, Domains DEF Effect
<1>3. CASE LogicalNot(c)
  <2>1. c.op = "Not" /\ UNCHANGED <<memory, mode, trapped>> /\ stack' = Below(1)
        /\ IF c.push THEN eax' = Truth(TopIsZero) /\ edx' = 1 /\ r8' = 0
                     ELSE eax' = Right /\ UNCHANGED <<edx, r8>>
    BY <1>3 DEF LogicalNot
  <2>2. 1 \in 0 .. Len(stack) /\ Right \in Word  BY <2>1, Enough
  <2>3. stack' \in Seq(Slot)  BY <2>1, <2>2, Popped, Given
  <2>4. Truth(TopIsZero) \in Word  BY Numbers DEF Truth
  <2>5. QED  BY <2>1, <2>2, <2>3, <2>4, Given, Numbers, Leaving, Domains DEF Effect, Foreign
<1>4. CASE BinaryFloat(c)
  <2> DEFINE v == FloatOp(FpuOperation[c.op], Right, Left, mode)
             q == Len(stack) - 1
  <2>1. c.op \in DOMAIN FpuOperation /\ UNCHANGED <<memory, eax, edx, r8, mode, trapped>>
        /\ stack' = IF c.push THEN [Below(1) EXCEPT ![q].lo = v] ELSE Below(2)
    BY <1>4 DEF BinaryFloat, regs
  <2>2. 1 \in 0 .. Len(stack) /\ 2 \in 0 .. Len(stack) /\ Right \in Word /\ Left \in Word
    BY <2>1, Enough
  <2>3. v \in Word  BY <2>1, <2>2, Tables, FloatOpAssumption, Given
  <2> HIDE DEF v
  <2>4. Below(1) \in Seq(Slot) /\ q \in 1 .. Len(Below(1))
    <3>1. 1 \in 0 .. Len(stack) /\ stack \in Seq(Slot)  BY <2>2, Given
    <3>2. Below(1) \in Seq(Slot) /\ Len(Below(1)) = Len(stack) - 1
      BY ONLY <3>1, Popping DEF Below
    <3>3. QED  BY <2>2, <3>2, Given
  <2> HIDE DEF q
  <2>5. [Below(1) EXCEPT ![q].lo = v] \in Seq(Slot)  BY <2>3, <2>4, LowsOfReplace
  <2>6. Below(2) \in Seq(Slot)  BY <2>2, Popping, Given DEF Below
  <2>7. stack' \in Seq(Slot)  BY <2>1, <2>5, <2>6
  <2>8. QED  BY <2>1, <2>7, Given, Leaving, Domains DEF Effect
<1>5. CASE Cast(c)
  <2> DEFINE p == Len(stack) - c.argc
             x == stack[p].lo
             v == FloatOp(IF c.op = "FloatToInt" THEN "ToInt" ELSE "ToFloat",
                          x, x, RoundingAfter(c))
  <2>1. c.op \in {"IntToFloat", "FloatToInt"} /\ UNCHANGED <<memory, eax, edx, r8, trapped>>
        /\ mode' = RoundingAfter(c) /\ InPlace(c.argc, v)
    BY <1>5 DEF Cast
  <2>2. p \in 1 .. Len(stack)  BY <2>1, Enough
  <2>3. RoundingAfter(c) \in Rounding /\ (c.op # "FloatToInt" => RoundingAfter(c) = mode)
    BY Given DEF RoundingAfter, Rounding
  <2>4. v \in Word
    <3>1. stack[p] \in Slot  BY <2>2, Given, ElementOfSeq
    <3>2. x \in Word  BY <3>1 DEF Slot
    <3>3. QED  BY <2>3, <3>2, FloatOpAssumption DEF FloatOperations
  <2> HIDE DEF v, x
  <2>5. stack' \in Seq(Slot)  BY <2>1, <2>2, <2>4, Replaced, Given
  <2>6. QED  BY <2>1, <2>3, <2>5, Given, Leaving, Domains DEF Effect, RoundingAfter
<1>6. CASE CallForeign(c)
  <2>1. c.op \in Foreign /\ UNCHANGED <<memory, mode, trapped>>  BY <1>6 DEF CallForeign
  <2>2. c.argc \in 0 .. Len(stack)  BY <2>1, Enough
  <2>3. CASE c.op = "PrintF" /\ c.argc = 0
    <3>1. UNCHANGED <<stack, eax, edx, r8>>  BY <1>6, <2>3 DEF CallForeign
    <3>2. QED  BY <2>1, <2>3, <3>1, Given, Leaving, Domains DEF Effect
  <2>4. CASE ~(c.op = "PrintF" /\ c.argc = 0)
    <3>1. eax' \in Word /\ edx' \in Word /\ r8' \in Word
      BY <1>6, <2>4, RegistersAssumption DEF CallForeign
    <3>2. CASE c.op = "Sys" /\ c.push
      <4>1. PICK d \in BOOLEAN : stack' = Append(Below(c.argc), [lo |-> eax', dirty |-> d])
        BY <1>6, <2>4, <3>2 DEF CallForeign
      <4> DEFINE e == [lo |-> eax', dirty |-> d]
      <4>2. e \in Slot /\ e.lo = eax'  BY <3>1, Zenon DEF Slot
      <4>3. stack' = Append(Below(c.argc), e)  BY <4>1
      <4> HIDE DEF e
      <4>4. stack' \in Seq(Slot) /\ stack' # <<>> /\ Right' = eax'
        BY <2>2, <4>2, <4>3, Pushed, Given DEF Right
      <4>5. QED  BY <2>1, <3>1, <3>2, <4>4, Given, Domains DEF Effect, Foreign
    <3>3. CASE ~(c.op = "Sys" /\ c.push)
      <4>1. stack' = Below(c.argc)  BY <1>6, <2>4, <3>3 DEF CallForeign
      <4>2. stack' \in Seq(Slot)  BY <2>2, <4>1, Popped, Given
      <4>3. QED  BY <2>1, <3>1, <3>3, <4>2, Given, Leaving, Domains DEF Effect, Foreign
    <3>4. QED  BY <3>2, <3>3
  <2>5. QED  BY <2>3, <2>4
<1>7. CASE Branch(c)
  <2>1. c.op \in {"If", "IfNot"} /\ UNCHANGED <<memory, edx, r8, mode, trapped>>
        /\ eax' = Right /\ stack' = Below(1)
    BY <1>7 DEF Branch, Ifs
  <2>2. 1 \in 0 .. Len(stack) /\ Right \in Word  BY <2>1, Enough
  <2>3. stack' \in Seq(Slot)  BY <2>1, <2>2, Popped, Given
  <2>4. QED  BY <2>1, <2>2, <2>3, Given, Leaving, Domains DEF Effect
<1>8. QED  BY <1>1, <1>2, <1>3, <1>4, <1>5, <1>6, <1>7
-----------------------------------------------------------------------------
IInv == TypeOK /\ HistoryHolds

LEMMA IsReady ==
  ASSUME TypeOK, NEW c \in program, Runs(c)
  PROVE  Ready(c) /\ Effect(c)
<1>1. Ready(c)  BY DEF TypeOK, Typed, Ready, Runs
<1>2. \/ PushImmediate(c) \/ Duplicate(c) \/ Discard(c) \/ PushVar(c) \/ SetVar(c)
      \/ IncDecI(c) \/ IncDecF(c) \/ AssignFloat(c) \/ AssignInt(c) \/ AssignMult(c)
      \/ AssignDivided(c)
      \/ Multiply(c) \/ Divide(c) \/ BinaryInt(c) \/ CompareInt(c) \/ CompareFloat(c)
      \/ NegateInt(c) \/ NegateFloat(c) \/ LogicalNot(c) \/ BinaryFloat(c) \/ Cast(c)
      \/ CallForeign(c) \/ Branch(c)
  BY DEF Runs
<1>3. QED  BY <1>1, <1>2, MovesEffect, AssignsEffect, OperatorsEffect, OthersEffect

LEMMA Inductive == IInv /\ [Next]_vars => IInv'
<1>1. ASSUME IInv, UNCHANGED vars  PROVE IInv'
  BY <1>1 DEF IInv, TypeOK, HistoryHolds, vars, regs, Right
<1>2. ASSUME IInv, NEW c \in program, Runs(c), Len(stack') <= MaxStack, UNCHANGED program
      PROVE  IInv'
  <2>1. TypeOK /\ HistoryHolds  BY <1>2 DEF IInv
  <2>2. Ready(c) /\ Effect(c)  BY <1>2, <2>1, IsReady
  <2>3. known' = (IF trapped' THEN known ELSE Learns(c)) /\ ~trapped
        /\ taken' = (c.op \in Ifs /\ ((c.op = "If") = TopIsZero))
    BY <1>2 DEF Runs
  <2>4. /\ Learns(c) \subseteq {"operand", "zero"} \cup known
        /\ "operand" \in Learns(c) => LeavesOperandInEax(c)
        /\ "zero" \in Learns(c) =>
             \/ c.op \in {"Not"} \cup DOMAIN Condition /\ c.push
             \/ "zero" \in known /\ c.op \notin Foreign
        /\ "nearest" \in Learns(c) => "nearest" \in known /\ c.op # "FloatToInt"
    BY DEF Learns
  <2>5. TypeOK'
    <3>1. known' \subseteq {"operand", "zero", "nearest"}  BY <2>1, <2>3, <2>4 DEF TypeOK
    <3>2. taken' \in BOOLEAN  BY <2>3, Zenon
    <3>3. /\ stack' \in Seq(Slot) /\ eax' \in Word /\ edx' \in Word /\ r8' \in Word
          /\ memory' \in [M!VarsOf(program') -> Word] /\ mode' \in Rounding
          /\ trapped' \in BOOLEAN
      BY <1>2, <2>2 DEF Effect
    <3>4. program' \in Programs  BY <1>2, <2>1 DEF TypeOK
    <3>5. QED  BY <1>2, <3>1, <3>2, <3>3, <3>4 DEF TypeOK
  <2>6. HistoryHolds'
    <3>1. CASE trapped'
      <4>1. UNCHANGED <<stack, eax, r8, mode, known>>  BY <2>2, <2>3, <3>1 DEF Effect, regs
      <4>2. QED  BY <2>1, <4>1 DEF HistoryHolds, Right
    <3>2. CASE ~trapped'
      <4>1. known' = Learns(c)  BY <2>3, <3>2
      <4>2. "operand" \in known' => stack' # <<>> /\ Right' = eax'
        BY <2>2, <2>4, <3>2, <4>1 DEF Effect
      <4>3. "zero" \in known' => r8' = 0
        BY <2>1, <2>2, <2>4, <4>1 DEF Effect, HistoryHolds
      <4>4. "nearest" \in known' => mode' = "nearest"
        BY <2>1, <2>2, <2>4, <4>1 DEF Effect, HistoryHolds
      <4>5. QED  BY <4>2, <4>3, <4>4 DEF HistoryHolds
    <3>3. QED  BY <3>1, <3>2
  <2>7. QED  BY <2>5, <2>6 DEF IInv
<1>3. QED  BY <1>1, <1>2 DEF Next

LEMMA Initially == Init => IInv
<1> SUFFICES ASSUME Init PROVE IInv  OBVIOUS
<1>1. stack \in Seq(Slot) /\ Len(stack) = 0  BY EmptySeq DEF Init
<1>2. TypeOK
  <2>1. eax \in Word /\ edx \in Word /\ r8 \in Word  BY RegistersAssumption DEF Init
  <2>2. Len(stack) <= MaxStack  BY <1>1, RegistersAssumption
  <2>3. program \in Programs /\ memory \in [M!VarsOf(program) -> Word]  BY DEF Init
  <2>4. mode \in Rounding /\ known \subseteq {"operand", "zero", "nearest"}
    BY DEF Init, Rounding
  <2>5. taken \in BOOLEAN /\ trapped \in BOOLEAN  BY DEF Init
  <2>6. QED  BY <1>1, <2>1, <2>2, <2>3, <2>4, <2>5 DEF TypeOK
<1>3. HistoryHolds  BY DEF Init, HistoryHolds
<1>4. QED  BY <1>2, <1>3 DEF IInv

(* A script never pops a slot that is not there, and every slot, variable    *)
(* and register holds a word, whatever commands it is made of.              *)
THEOREM TypeCorrect == Spec => []TypeOK
<1>1. IInv => TypeOK  BY DEF IInv
<1>2. QED  BY Initially, Inductive, <1>1, PTL DEF Spec

(* What the order of the commands says about EAX, R8D and the rounding mode  *)
(* is so.                                                                   *)
THEOREM HistoryIsRight == Spec => []HistoryHolds
<1>1. IInv => HistoryHolds  BY DEF IInv
<1>2. QED  BY Initially, Inductive, <1>1, PTL DEF Spec
-----------------------------------------------------------------------------
(* The meaning, in the terms of the templates.                              *)
LEMMA SeenAsMeaning ==
  ASSUME stack \in Seq(Slot)
  PROVE  /\ Len(stack) >= 1 => M!Top = Right
         /\ Len(stack) >= 2 => M!Under = Left
         /\ \A n : M!Below(n) = SubSeq(Lows(stack), 1, Len(Lows(stack)) - n)
<1>1. M!Top = Lows(stack)[Len(Lows(stack))]  BY DEF M!Top, Lows
<1>2. M!Under = Lows(stack)[Len(Lows(stack)) - 1]  BY DEF M!Under, Lows
<1>3. \A n : M!Below(n) = SubSeq(Lows(stack), 1, Len(Lows(stack)) - n)
  BY DEF M!Below, Lows
<1>4. QED  BY <1>1, <1>2, <1>3, Operands

LEMMA Yielding ==
  ASSUME stack \in Seq(Slot), NEW c, NEW n \in 0 .. Len(stack), NEW v, UNCHANGED memory,
         c.push  => Lows(stack') = Append(SubSeq(Lows(stack), 1, Len(Lows(stack)) - n), v),
         ~c.push => stack' = Below(n)
  PROVE  Lows(stack') = (IF c.push THEN Append(M!Below(n), v) ELSE M!Below(n))
         /\ UNCHANGED memory
<1>1. ~c.push => Lows(stack') = SubSeq(Lows(stack), 1, Len(Lows(stack)) - n)  BY Popped
<1>2. QED  BY <1>1, SeenAsMeaning

LEMMA Assigning ==
  ASSUME stack \in Seq(Slot), NEW c, NEW n \in 0 .. Len(stack), NEW v,
         memory' = [memory EXCEPT ![c.var] = v], stack' = Below(n)
  PROVE  memory' = [memory EXCEPT ![c.var] = v] /\ Lows(stack') = M!Below(n)
BY Popped, SeenAsMeaning

LEMMA Executing ==
  ASSUME NEW c, Ready(c), Runs(c), c.op \notin Ifs, UNCHANGED trapped,
         M!Pushes(c) \/ M!Computes(c) \/ M!Casts(c) \/ M!AssignsVar(c) \/ M!CallsOut(c)
  PROVE  M!Executes(c)
<1>1. Len(Lows(stack)) >= M!Takes(c) /\ ~trapped  BY Operands DEF Ready, Typed
<1>2. taken' = FALSE  BY DEF Runs
<1>3. QED  BY <1>1, <1>2 DEF M!Executes, Lows

(* The last element of a sequence is the one that is popped first.           *)
LEMMA LastReplaced ==
  ASSUME NEW L \in Seq(Word), Len(L) >= 1, NEW v \in Word
  PROVE  [L EXCEPT ![Len(L)] = v] = Append(SubSeq(L, 1, Len(L) - 1), v)
<1> DEFINE left == [L EXCEPT ![Len(L)] = v]
           rest == SubSeq(L, 1, Len(L) - 1)
           right == Append(rest, v)
           n == Len(L)
<1>1. n \in Nat /\ n >= 1 /\ n \in 1 .. n /\ 1 \in 0 .. n  BY LenProperties
<1>2. left \in Seq(Word) /\ Len(left) = n /\ \A k \in 1 .. n : left[k] = IF k = n THEN v ELSE L[k]
  BY <1>1, ExceptSeq
<1>3. rest \in Seq(Word) /\ Len(rest) = n - 1 /\ \A k \in 1 .. n - 1 : rest[k] = L[k]
  BY <1>1, Popping
<1> HIDE DEF rest
<1>4. /\ right \in Seq(Word) /\ Len(right) = n - 1 + 1 /\ right[n - 1 + 1] = v
      /\ \A k \in 1 .. n - 1 : right[k] = rest[k]
  BY <1>3, Pushing
<1> HIDE DEF left, right, n
<1>5. \A k \in 1 .. n : left[k] = right[k]
  <2> TAKE k \in 1 .. n
  <2>1. n - 1 + 1 = n  BY <1>1
  <2>2. CASE k = n
    <3>1. left[n] = v  BY <1>1, <1>2
    <3>2. right[n] = v  BY <1>4, <2>1
    <3>3. QED  BY <2>2, <3>1, <3>2
  <2>3. CASE k # n
    <3>1. k \in 1 .. n - 1  BY <1>1, <2>3
    <3>2. left[k] = L[k]  BY <1>2, <2>3
    <3>3. right[k] = L[k]  BY <1>3, <1>4, <3>1
    <3>4. QED  BY <3>2, <3>3
  <2>4. QED  BY <2>2, <2>3
<1>6. Len(right) = n  BY <1>1, <1>4
<1>7. left = right  BY ONLY <1>2, <1>4, <1>5, <1>6, SameElements
<1>8. QED  BY <1>7 DEF left, right, rest, n

(* Negating the top in place is popping it and pushing the result.           *)
LEMMA TopReplaced ==
  ASSUME stack \in Seq(Slot), Len(stack) >= 1, NEW v \in Word, InPlace(0, v)
  PROVE  Lows(stack') = Append(SubSeq(Lows(stack), 1, Len(Lows(stack)) - 1), v)
<1>1. Len(stack) \in Nat /\ Len(stack) - 0 = Len(stack) /\ Len(stack) - 0 \in 1 .. Len(stack)
  BY LenProperties
<1>2. Lows(stack') = [Lows(stack) EXCEPT ![Len(stack) - 0] = v]  BY <1>1, Replaced
<1>3. Lows(stack) \in Seq(Word) /\ Len(Lows(stack)) = Len(stack)  BY LowsOf
<1>4. QED  BY <1>1, <1>2, <1>3, LastReplaced

(* So is writing the result over the left operand.                          *)
LEMMA LeftReplaced ==
  ASSUME stack \in Seq(Slot), Len(stack) >= 2, NEW v \in Word,
         stack' = [Below(1) EXCEPT ![Len(stack) - 1].lo = v]
  PROVE  Lows(stack') = Append(SubSeq(Lows(stack), 1, Len(Lows(stack)) - 2), v)
<1> DEFINE rest == Below(1)
           q == Len(stack) - 1
           L == Lows(stack)
           R == Lows(rest)
<1>1. Len(stack) \in Nat /\ 1 \in 0 .. Len(stack)  BY LenProperties
<1>2. rest \in Seq(Slot) /\ Len(rest) = q /\ R = SubSeq(L, 1, Len(L) - 1)
  BY <1>1, Popping, LowsOfPop DEF Below
<1>3. q \in 1 .. Len(rest)  BY <1>1, <1>2
<1>4. stack' = [rest EXCEPT ![q].lo = v]  OBVIOUS
<1>5. L \in Seq(Word) /\ Len(L) = Len(stack) /\ R \in Seq(Word) /\ Len(R) = q
  BY <1>2, LowsOf
<1> HIDE DEF rest, q, L, R
<1> DEFINE t == [rest EXCEPT ![q].lo = v]
<1>6. Lows(t) = [R EXCEPT ![q] = v]
  <2>1. rest \in Seq(Slot) /\ q \in 1 .. Len(rest) /\ v \in Word  BY <1>2, <1>3
  <2>2. Lows(t) = [Lows(rest) EXCEPT ![q] = v]  BY ONLY <2>1, LowsOfReplace DEF t
  <2>3. QED  BY <2>2 DEF R
<1>7. [R EXCEPT ![q] = v] = Append(SubSeq(R, 1, Len(R) - 1), v)
  <2>1. R \in Seq(Word) /\ Len(R) = q /\ Len(R) >= 1  BY <1>2, <1>3, <1>5
  <2>2. [R EXCEPT ![Len(R)] = v] = Append(SubSeq(R, 1, Len(R) - 1), v)
    BY ONLY <2>1, v \in Word, LastReplaced
  <2>3. QED  BY <2>1, <2>2
<1>8. SubSeq(R, 1, Len(R) - 1) = SubSeq(L, 1, Len(L) - 2)
  <2> DEFINE x == SubSeq(R, 1, Len(R) - 1)
             y == SubSeq(L, 1, Len(L) - 2)
             n == Len(L) - 2
  <2>1. Len(L) \in Nat /\ Len(L) >= 2 /\ Len(R) = Len(L) - 1  BY <1>1, <1>5 DEF q
  <2>2. x \in Seq(Word) /\ Len(x) = Len(R) - 1 /\ \A k \in 1 .. Len(R) - 1 : x[k] = R[k]
    BY <1>5, <2>1, Popping
  <2>3. y \in Seq(Word) /\ Len(y) = n /\ \A k \in 1 .. n : y[k] = L[k]
    <3>1. 2 \in 0 .. Len(L) /\ L \in Seq(Word)  BY <1>5, <2>1
    <3>2. QED  BY ONLY <3>1, Popping
  <2>4. \A k \in 1 .. Len(L) - 1 : R[k] = L[k]
    BY <1>2, <1>5, <2>1, Popping
  <2> HIDE DEF x, y
  <2>5. Len(x) = n /\ \A k \in 1 .. n : x[k] = y[k]  BY <2>1, <2>2, <2>3, <2>4
  <2> HIDE DEF n
  <2>6. x = y  BY ONLY <2>2, <2>3, <2>5, SameElements
  <2>7. QED  BY <2>6 DEF x, y
<1>9. Lows(stack') = Lows(t)  BY <1>4
<1>10. QED  BY <1>6, <1>7, <1>8, <1>9 DEF L
-----------------------------------------------------------------------------
(* What a trusted command has to be shown to do.                            *)
Means(c) == Ready(c) /\ HistoryHolds /\ Runs(c) /\ Trusted(c)

LEMMA MovesMean ==
  ASSUME NEW c, Means(c),
         PushImmediate(c) \/ Duplicate(c) \/ Discard(c) \/ PushVar(c) \/ SetVar(c)
  PROVE  M!Executes(c)
<1>1. Ready(c) /\ Runs(c) /\ Trusted(c) /\ stack \in Seq(Slot)  BY Given DEF Means
<1>2. SUFFICES /\ M!Pushes(c) \/ M!AssignsVar(c)
               /\ c.op \notin Ifs /\ UNCHANGED trapped
  BY <1>1, Executing
<1>3. CASE PushImmediate(c)
  <2> DEFINE e == [lo |-> c.val, dirty |-> Signed(c.val) < 0]
  <2>1. c.op \in Immediates /\ UNCHANGED <<memory, trapped>>
        /\ stack' = IF c.push THEN Append(stack, e) ELSE stack
    BY <1>3 DEF PushImmediate
  <2>2. e \in Slot /\ e.lo = c.val
    <3>1. c.val \in Word  BY <1>1, Given
    <3>2. (Signed(c.val) < 0) \in BOOLEAN  OBVIOUS
    <3>3. QED  BY <3>1, <3>2, Zenon DEF Slot
  <2> HIDE DEF e
  <2>3. 0 \in 0 .. Len(stack) /\ Below(0) = stack  BY <1>1, Enough, Kept
  <2>4. c.push => Lows(stack') = Append(SubSeq(Lows(stack), 1, Len(Lows(stack)) - 0), c.val)
    BY <1>1, <2>1, <2>2, <2>3, Pushed
  <2>5. Lows(stack') = IF c.push THEN Append(M!Below(0), c.val) ELSE M!Below(0)
    BY <1>1, <2>1, <2>3, <2>4, Yielding
  <2>6. QED  BY <2>1, <2>5, SameCommands DEF M!Pushes, M!Yields, Lows, Immediates, Ifs
<1>4. CASE Duplicate(c)
  <2>1. c.op = "Push" /\ UNCHANGED <<memory, trapped>>
        /\ (c.push => stack' = Append(stack, stack[Len(stack)])) /\ (~c.push => stack' = stack)
    BY <1>4 DEF Duplicate
  <2>2. 0 \in 0 .. Len(stack) /\ Below(0) = stack  BY <1>1, Enough, Kept
  <2>3. ASSUME c.push
        PROVE  Lows(stack') = Append(SubSeq(Lows(stack), 1, Len(Lows(stack)) - 0), M!Top)
    <3>1. 1 \in 0 .. Len(stack) /\ stack[Len(stack)] \in Slot  BY <1>1, <2>1, <2>3, Enough
    <3>2. M!Top = stack[Len(stack)].lo  BY <1>1, <3>1, SeenAsMeaning DEF Right
    <3>3. stack' = Append(Below(0), stack[Len(stack)])  BY <2>1, <2>2, <2>3
    <3>4. QED  BY <1>1, <2>2, <3>1, <3>2, <3>3, Pushed
  <2>4. Lows(stack') = IF c.push THEN Append(M!Below(0), M!Top) ELSE M!Below(0)
    BY <1>1, <2>1, <2>2, <2>3, Yielding
  <2>5. QED  BY <2>1, <2>4 DEF M!Pushes, M!Yields, Ifs, Lows
<1>5. CASE Discard(c)
  <2>1. c.op = "Pop" /\ UNCHANGED <<memory, trapped>>
        /\ stack' = IF c.push THEN stack ELSE Below(1)
    BY <1>5 DEF Discard
  <2>2. ~c.push => 1 \in 0 .. Len(stack)  BY <1>1, <2>1, Enough
  <2>3. Lows(stack') = IF c.push THEN Lows(stack) ELSE M!Below(1)
    BY <1>1, <2>1, <2>2, Popped, SeenAsMeaning
  <2>4. QED  BY <2>1, <2>3 DEF M!Pushes, M!Yields, Ifs, Lows
<1>6. CASE PushVar(c)
  <2>1. c.op = "PushVar" /\ UNCHANGED <<memory, trapped>> /\ PushRax(0, memory[c.var])
    BY <1>6 DEF PushVar
  <2>2. 0 \in 0 .. Len(stack) /\ memory[c.var] \in Word
    BY <1>1, <2>1, Enough, Given DEF VarCommands
  <2>3. c.push  BY <1>1, <2>1 DEF Trusted
  <2>4. Lows(stack') = Append(SubSeq(Lows(stack), 1, Len(Lows(stack)) - 0), memory[c.var])
    BY <1>1, <2>1, <2>2, Leaves
  <2>5. Lows(stack') = IF c.push THEN Append(M!Below(0), memory[c.var]) ELSE M!Below(0)
    BY <1>1, <2>1, <2>2, <2>3, <2>4, Yielding
  <2>6. QED  BY <2>1, <2>5 DEF M!Pushes, M!Yields, Ifs, Lows
<1>7. CASE SetVar(c)
  <2>1. c.op \in {"SetVar", "VarSetF"} /\ UNCHANGED trapped
        /\ stack' = Below(1) /\ memory' = [memory EXCEPT ![c.var] = Right]
    BY <1>7 DEF SetVar, Store
  <2>2. 1 \in 0 .. Len(stack)  BY <1>1, <2>1, Enough
  <2>3. M!Top = Right  BY <1>1, <2>2, SeenAsMeaning
  <2>4. memory' = [memory EXCEPT ![c.var] = M!Top] /\ Lows(stack') = M!Below(1)
    BY <1>1, <2>1, <2>2, <2>3, Assigning
  <2>5. QED  BY <2>1, <2>4 DEF M!AssignsVar, M!Assigns, Ifs, Lows
<1>8. QED  BY <1>3, <1>4, <1>5, <1>6, <1>7

(* A division that the meaning makes too is one that a template executes.     *)
LEMMA ExecutingDivision ==
  ASSUME NEW c, Ready(c), Runs(c), c.op \notin Ifs, M!Divides(c)
  PROVE  M!Executes(c)
<1>1. Len(Lows(stack)) >= M!Takes(c) /\ ~trapped  BY Operands DEF Ready, Typed
<1>2. taken' = FALSE  BY DEF Runs
<1>3. QED  BY <1>1, <1>2 DEF M!Executes, Lows

(* EDX:EAX is the dividend when EDX is its sign.                            *)
LEMMA SignExtended ==
  ASSUME NEW w \in Word
  PROVE  Dividend(IF Signed(w) < 0 THEN Modulus - 1 ELSE 0, w) = Signed(w)
<1>1. Signed(0) = 0 /\ Signed(Modulus - 1) = -1  BY Numbers DEF Signed
<1>2. w \in Int /\ Modulus \in Int /\ Half \in Int /\ w >= 0 /\ w < Modulus /\ Modulus = Half + Half
      /\ Half > 0
  BY Numbers DEF Word
<1>3. CASE Signed(w) < 0
  <2>1. Signed(w) = w - Modulus  BY <1>2, <1>3 DEF Signed
  <2> DEFINE x == Signed(Modulus - 1)
  <2>2. Dividend(Modulus - 1, w) = x * Modulus + w  BY DEF Dividend
  <2>3. x = -1  BY <1>1
  <2> HIDE DEF x
  <2>4. x * Modulus = -Modulus  BY <1>2, <2>3
  <2>5. QED  BY <1>2, <1>3, <2>1, <2>2, <2>4
<1>4. CASE ~(Signed(w) < 0)
  <2>1. Signed(w) = w  BY <1>2, <1>4 DEF Signed
  <2>2. Dividend(0, w) = 0 * Modulus + w  BY <1>1 DEF Dividend
  <2>3. QED  BY <1>2, <1>4, <2>1, <2>2
<1>5. QED  BY <1>3, <1>4

LEMMA AssignsMean ==
  ASSUME NEW c, Means(c),
         \/ IncDecI(c) \/ IncDecF(c) \/ AssignFloat(c) \/ AssignInt(c) \/ AssignMult(c)
         \/ AssignDivided(c)
  PROVE  M!Executes(c)
<1>1. Ready(c) /\ Runs(c) /\ Trusted(c) /\ HistoryHolds /\ stack \in Seq(Slot)
  BY Given DEF Means
<1>2. 0 \in 0 .. Len(stack) /\ Below(0) = stack  BY <1>1, Enough, Kept
<1>3. ASSUME M!AssignsVar(c), c.op \notin Ifs, UNCHANGED trapped  PROVE M!Executes(c)
  BY <1>1, <1>3, Executing
<1>4. CASE IncDecI(c)
  <2>1. c.op = "IncI" /\ UNCHANGED <<stack, trapped>>
        /\ memory' = [memory EXCEPT ![c.var] = IntOp("Add", memory[c.var], 1)]
    BY <1>1, <1>4 DEF IncDecI, Store, Trusted
  <2>2. Lows(stack') = M!Below(0)  BY <1>1, <1>2, <2>1, Assigning
  <2>3. QED  BY <1>3, <2>1, <2>2 DEF M!AssignsVar, M!Assigns, Ifs, Lows
<1>5. CASE IncDecF(c)
  <2>1. c.op \in {"IncF", "DecF"} /\ UNCHANGED <<stack, trapped>>
        /\ memory' = [memory EXCEPT ![c.var] =
                        FloatOp("Add", memory[c.var],
                                IF c.op = "IncF" THEN One ELSE MinusOne, mode)]
    BY <1>5 DEF IncDecF, Store
  <2>2. mode = "nearest"  BY <1>1, <2>1 DEF Trusted, HistoryHolds
  <2>3. memory[c.var] \in Word  BY <1>1, <2>1, Given DEF VarCommands
  <2>4. FloatOp("Sub", memory[c.var], One, "nearest")
          = FloatOp("Add", memory[c.var], MinusOne, "nearest")
    BY <2>3, FloatLawsAssumption DEF Rounding
  <2>5. Lows(stack') = M!Below(0)  BY <1>1, <1>2, <2>1, Assigning
  <2>6. CASE c.op = "IncF"
    BY <1>3, <2>1, <2>2, <2>5, <2>6 DEF M!AssignsVar, M!Assigns, Ifs, Lows
  <2>7. CASE c.op = "DecF"
    <3>1. memory' = [memory EXCEPT ![c.var] = FloatOp("Sub", memory[c.var], One, "nearest")]
      BY <2>1, <2>2, <2>4, <2>7
    <3>2. QED  BY <1>3, <2>1, <2>5, <2>7, <3>1 DEF M!AssignsVar, M!Assigns, Ifs, Lows
  <2>8. QED  BY <2>1, <2>6, <2>7
<1>6. CASE AssignFloat(c)
  <2>1. c.op = "AddVarByF" /\ UNCHANGED trapped /\ stack' = Below(1)
        /\ memory' = [memory EXCEPT ![c.var] = FloatOp("Add", memory[c.var], Right, mode)]
    BY <1>1, <1>6 DEF AssignFloat, Store, Trusted
  <2>2. mode = "nearest"  BY <1>1, <2>1 DEF Trusted, HistoryHolds
  <2>3. 1 \in 0 .. Len(stack)  BY <1>1, <2>1, Enough
  <2>4. M!Top = Right  BY <1>1, <2>3, SeenAsMeaning
  <2>5. Lows(stack') = M!Below(1)  BY <1>1, <2>1, <2>3, Assigning
  <2>6. c.op \in DOMAIN M!FloatAssign /\ M!FloatAssign[c.op] = "Add"
    BY <2>1 DEF M!FloatAssign
  <2>7. memory' = [memory EXCEPT ![c.var] =
                     FloatOp(M!FloatAssign[c.op], memory[c.var], M!Top, "nearest")]
    BY <2>1, <2>2, <2>4, <2>6
  <2>8. QED  BY <1>3, <2>1, <2>5, <2>6, <2>7 DEF M!AssignsVar, M!Assigns, Ifs, Lows
<1>7. CASE AssignInt(c)
  <2>1. c.op \in DOMAIN AssignOperation /\ UNCHANGED trapped /\ stack' = Below(1)
        /\ memory' = [memory EXCEPT ![c.var] =
                        IntOp(AssignOperation[c.op], memory[c.var],
                              IF IsGlobal(c) THEN Right ELSE eax)]
    BY <1>7 DEF AssignInt, Store
  <2>2. 1 \in 0 .. Len(stack)  BY <1>1, <2>1, Enough
  <2>3. M!Top = Right  BY <1>1, <2>2, SeenAsMeaning
  <2>4. (IF IsGlobal(c) THEN Right ELSE eax) = M!Top
    BY <1>1, <2>1, <2>3 DEF Trusted, HistoryHolds
  <2>5. Lows(stack') = M!Below(1)  BY <1>1, <2>1, <2>2, Assigning
  <2>6. c.op \in DOMAIN M!IntAssign /\ AssignOperation[c.op] = M!IntAssign[c.op]
    BY <2>1, Tables
  <2>7. memory' = [memory EXCEPT ![c.var] = IntOp(M!IntAssign[c.op], memory[c.var], M!Top)]
    BY <2>1, <2>4, <2>6
  <2>8. c.op \notin Ifs  BY <2>1, Domains DEF Ifs
  <2>9. QED  BY <1>3, <2>1, <2>5, <2>6, <2>7, <2>8 DEF M!AssignsVar, M!Assigns, Lows
<1>8. CASE AssignMult(c)
  <2>1. c.op = "MultVarBy" /\ UNCHANGED trapped /\ stack' = Below(1)
        /\ memory' = [memory EXCEPT ![c.var] = ProductLow(memory[c.var], Right)]
    BY <1>8 DEF AssignMult, Store
  <2>2. 1 \in 0 .. Len(stack)  BY <1>1, <2>1, Enough
  <2>3. M!Top = Right  BY <1>1, <2>2, SeenAsMeaning
  <2>4. Lows(stack') = M!Below(1)  BY <1>1, <2>1, <2>2, Assigning
  <2>5. memory' = [memory EXCEPT ![c.var] = M!ProductLow(memory[c.var], M!Top)]
    BY <2>1, <2>3, SameWords
  <2>6. QED  BY <1>3, <2>1, <2>4, <2>5 DEF M!AssignsVar, M!Assigns, Ifs, Lows
<1>9. CASE AssignDivided(c)
  <2> DEFINE w == memory[c.var]
             n == Dividend(DividendHigh(c), w)
             v == IF c.op = "DivVarBy" THEN Quotient(n, Right) ELSE Remainder(n, Right)
  <2>1. c.op \in {"DivVarBy", "ModVarBy"}  BY <1>9 DEF AssignDivided
  <2>2. 1 \in 0 .. Len(stack)  BY <1>1, <2>1, Enough
  <2>3. M!Top = Right  BY <1>1, <2>2, SeenAsMeaning
  <2>4. n = Signed(w)
    <3>1. w \in Word  BY <1>1, <2>1, Given DEF VarCommands
    <3>2. DividendHigh(c) = (IF Signed(w) < 0 THEN Modulus - 1 ELSE 0)
      BY <1>1, <2>1 DEF Trusted
    <3>3. QED  BY <3>1, <3>2, SignExtended
  <2>5. /\ M!Divisible(M!Signed(w), M!Top) = Divisible(n, Right)
        /\ M!Quotient(M!Signed(w), M!Top) = Quotient(n, Right)
        /\ M!Remainder(M!Signed(w), M!Top) = Remainder(n, Right)
    BY <2>3, <2>4, SameWords
  <2>6. CASE Divisible(n, Right)
    <3>1. UNCHANGED trapped /\ stack' = Below(1) /\ memory' = [memory EXCEPT ![c.var] = v]
      BY <1>9, <2>6 DEF AssignDivided, Store
    <3>2. Lows(stack') = M!Below(1)  BY <1>1, <2>2, <3>1, Assigning
    <3> HIDE DEF n
    <3>3. M!Divides(c)
      BY <2>1, <2>5, <2>6, <3>1, <3>2 DEF M!Divides, M!Assigns, Lows
    <3>4. QED  BY <1>1, <2>1, <3>3, ExecutingDivision DEF Ifs
  <2>7. CASE ~Divisible(n, Right)
    <3>1. trapped' = TRUE /\ UNCHANGED <<stack, memory>>
      BY <1>9, <2>7 DEF AssignDivided
    <3> HIDE DEF n
    <3>2. M!Divides(c)  BY <2>1, <2>5, <2>7, <3>1 DEF M!Divides
    <3>3. QED  BY <1>1, <2>1, <3>2, ExecutingDivision DEF Ifs
  <2>8. QED  BY <2>6, <2>7
<1>10. QED  BY <1>4, <1>5, <1>6, <1>7, <1>8, <1>9

LEMMA SameComparison ==
  ASSUME NEW o \in DOMAIN Condition, NEW a, NEW b
  PROVE  M!Truth(M!IntHolds(M!IntCompare[o], a, b)) = Truth(IntHolds(Condition[o], a, b))
<1>1. M!IntCompare[o] = Condition[o] /\ M!Signed(a) = Signed(a) /\ M!Signed(b) = Signed(b)
  BY Tables, SameWords
<1>2. Condition[o] \in {"Equal", "NotEqual", "LessThan", "LessThanOrEqual", "GreaterThan",
                       "GreaterThanOrEqual"}
  BY DEF Condition
<1>3. M!IntHolds(Condition[o], a, b) <=> IntHolds(Condition[o], a, b)
  BY <1>1, <1>2 DEF M!IntHolds, IntHolds
<1>4. QED  BY <1>1, <1>3 DEF M!Truth, Truth

(* A pair that is ordered has the flags of its order.                       *)
LEMMA SameOrder ==
  ASSUME NEW o \in FloatCompares, NEW a \in Word, NEW b \in Word,
         FloatOrder(a, b) # "unordered"
  PROVE  FloatCondition(o, a, b) <=> FloatOrder(a, b) \in M!FloatAnswers[o]
<1>1. FloatOrder(a, b) \in {"less", "equal", "greater"}  BY FloatOrderAssumption
<1>2. /\ M!FloatAnswers["EqualsF"] = {"equal"}
      /\ M!FloatAnswers["NotEqualsF"] = {"less", "greater", "unordered"}
      /\ M!FloatAnswers["LessThanF"] = {"less"}
      /\ M!FloatAnswers["LessOrEqualF"] = {"less", "equal"}
      /\ M!FloatAnswers["GreaterF"] = {"greater"}
      /\ M!FloatAnswers["GreaterOrEqualF"] = {"greater", "equal"}
  BY DEF M!FloatAnswers
<1>3. /\ FloatCondition("EqualsF", a, b) <=> ZeroFlag(a, b)
      /\ FloatCondition("NotEqualsF", a, b) <=> ~ZeroFlag(a, b)
      /\ FloatCondition("LessThanF", a, b) <=> CarryFlag(a, b)
      /\ FloatCondition("LessOrEqualF", a, b) <=> CarryFlag(a, b) \/ ZeroFlag(a, b)
      /\ FloatCondition("GreaterF", a, b) <=> ~(CarryFlag(a, b) \/ ZeroFlag(a, b))
      /\ FloatCondition("GreaterOrEqualF", a, b) <=> ~CarryFlag(a, b)
  BY DEF FloatCondition
<1>4. /\ CarryFlag(a, b) <=> FloatOrder(a, b) = "less"
      /\ ZeroFlag(a, b) <=> FloatOrder(a, b) = "equal"
  BY <1>1 DEF CarryFlag, ZeroFlag
<1>5. o \in {"EqualsF", "NotEqualsF", "LessThanF", "LessOrEqualF", "GreaterF", "GreaterOrEqualF"}
  BY DEF FloatCompares
<1>6. QED  BY <1>1, <1>2, <1>3, <1>4, <1>5

LEMMA OperatorsMean ==
  ASSUME NEW c, Means(c),
         Multiply(c) \/ Divide(c) \/ BinaryInt(c) \/ CompareInt(c) \/ CompareFloat(c)
  PROVE  M!Executes(c)
<1>1. Ready(c) /\ Runs(c) /\ Trusted(c) /\ HistoryHolds /\ stack \in Seq(Slot)
  BY Given DEF Means
<1>2. ASSUME M!Computes(c), c.op \notin Ifs, UNCHANGED trapped  PROVE M!Executes(c)
  BY <1>1, <1>2, Executing
<1>3. /\ c.op \in {"MultI", "DivI", "ModI"} \cup DOMAIN BinaryOperation
                 \cup DOMAIN Condition \cup FloatCompares \cup DOMAIN FpuOperation
      /\ c.op \notin Ifs
  <2>1. c.op \in {"MultI", "DivI", "ModI"} \cup DOMAIN BinaryOperation
                 \cup DOMAIN Condition \cup FloatCompares \cup DOMAIN FpuOperation
    BY DEF Multiply, Divide, BinaryInt, CompareInt, CompareFloat
  <2>2. QED  BY <2>1, Domains DEF FloatCompares, Ifs
<1>4. 2 \in 0 .. Len(stack) /\ Right \in Word /\ Left \in Word  BY <1>1, <1>3, Enough
<1>5. M!Top = Right /\ M!Under = Left  BY <1>1, <1>4, SeenAsMeaning
<1>6. CASE Multiply(c)
  <2> DEFINE v == ProductLow(Left, Right)
  <2>1. c.op = "MultI" /\ UNCHANGED <<memory, trapped>>
        /\ (c.push => PushRax(2, v)) /\ (~c.push => stack' = Below(2))
    BY <1>6 DEF Multiply
  <2>2. v \in Word /\ v = M!ProductLow(M!Under, M!Top)  BY <1>4, <1>5, Closed, SameWords
  <2> HIDE DEF v
  <2>3. Lows(stack') = IF c.push THEN Append(M!Below(2), v) ELSE M!Below(2)
    BY <1>1, <1>4, <2>1, <2>2, Leaves, Yielding
  <2>4. QED  BY <1>2, <1>3, <2>1, <2>2, <2>3 DEF M!Computes, M!Yields, Lows
<1>7. CASE Divide(c)
  <2> DEFINE n == Dividend(0, Left)
             v == IF c.op = "ModI" THEN Remainder(n, Right) ELSE Quotient(n, Right)
  <2>1. c.op \in {"DivI", "ModI"} /\ UNCHANGED memory  BY <1>7 DEF Divide
  <2>2. ASSUME c.push
        PROVE  /\ n = Signed(Left)
               /\ M!Divisible(M!Signed(M!Under), M!Top) = Divisible(n, Right)
               /\ M!Quotient(M!Signed(M!Under), M!Top) = Quotient(n, Right)
               /\ M!Remainder(M!Signed(M!Under), M!Top) = Remainder(n, Right)
    <3>1. Signed(Left) \in Int /\ Signed(Left) >= 0
      BY <1>1, <1>4, <2>1, <2>2, SignedWord DEF Trusted
    <3>2. n = Signed(Left)  BY <1>4, <3>1, SignExtended
    <3>3. QED  BY <1>5, <3>2, SameWords
  <2>3. CASE c.push /\ Divisible(n, Right)
    <3> DEFINE e == Clean(v)
    <3>1. v \in Word  BY <1>4, <2>2, <2>3, DivisionClosed, Numbers, Closed
    <3>2. stack' = Append(Below(2), e) /\ UNCHANGED trapped  BY <1>7, <2>3 DEF Divide
    <3>3. e \in Slot /\ e.lo = v  BY <3>1 DEF Clean, Slot
    <3> HIDE DEF e
    <3>4. Lows(stack') = Append(SubSeq(Lows(stack), 1, Len(Lows(stack)) - 2), v)
      BY <1>1, <1>4, <3>2, <3>3, Pushed
    <3>5. Lows(stack') = Append(M!Below(2), v)  BY <1>1, <3>4, SeenAsMeaning
    <3> HIDE DEF n
    <3>6. M!Divides(c)
      BY <2>1, <2>2, <2>3, <3>2, <3>5 DEF M!Divides, M!Yields, Lows
    <3>7. QED  BY <1>1, <1>3, <3>6, ExecutingDivision
  <2>4. CASE c.push /\ ~Divisible(n, Right)
    <3>1. trapped' = TRUE /\ UNCHANGED stack  BY <1>7, <2>4 DEF Divide
    <3> HIDE DEF n
    <3>2. M!Divides(c)  BY <2>1, <2>2, <2>4, <3>1 DEF M!Divides
    <3>3. QED  BY <1>1, <1>3, <3>2, ExecutingDivision
  <2>5. CASE ~c.push
    <3>1. stack' = Below(2) /\ UNCHANGED trapped  BY <1>7, <2>5 DEF Divide
    <3>2. Lows(stack') = M!Below(2)  BY <1>1, <1>4, <3>1, Popped, SeenAsMeaning
    <3>3. M!Divides(c)  BY <2>1, <2>5, <3>1, <3>2 DEF M!Divides, M!Yields, Lows
    <3>4. QED  BY <1>1, <1>3, <3>3, ExecutingDivision
  <2>6. QED  BY <2>3, <2>4, <2>5
<1>8. CASE BinaryInt(c)
  <2> DEFINE v == IntOp(BinaryOperation[c.op], Left, Right)
  <2>1. c.op \in DOMAIN BinaryOperation /\ UNCHANGED <<memory, trapped>>
        /\ (c.push => PushRax(2, v)) /\ (~c.push => stack' = Below(2))
    BY <1>8 DEF BinaryInt
  <2>2. v \in Word /\ v = IntOp(M!IntBinary[c.op], M!Under, M!Top) /\ c.op \in DOMAIN M!IntBinary
    BY <1>4, <1>5, <2>1, Tables, IntOpAssumption
  <2> HIDE DEF v
  <2>3. Lows(stack') = IF c.push THEN Append(M!Below(2), v) ELSE M!Below(2)
    BY <1>1, <1>4, <2>1, <2>2, Leaves, Yielding
  <2>4. QED  BY <1>2, <1>3, <2>1, <2>2, <2>3 DEF M!Computes, M!Yields, Lows
<1>9. CASE CompareInt(c)
  <2> DEFINE v == Truth(IntHolds(Condition[c.op], Left, Right))
  <2>1. c.op \in DOMAIN Condition /\ UNCHANGED <<memory, trapped>>
        /\ (c.push => PushRax(2, v)) /\ (~c.push => stack' = Below(2))
    BY <1>9 DEF CompareInt
  <2>2. v \in Word  BY Numbers DEF Truth
  <2>3. v = M!Truth(M!IntHolds(M!IntCompare[c.op], M!Under, M!Top)) /\ c.op \in DOMAIN M!IntCompare
    BY <1>5, <2>1, Tables, SameComparison
  <2> HIDE DEF v
  <2>4. Lows(stack') = IF c.push THEN Append(M!Below(2), v) ELSE M!Below(2)
    BY <1>1, <1>4, <2>1, <2>2, Leaves, Yielding
  <2>5. QED  BY <1>2, <1>3, <2>1, <2>3, <2>4 DEF M!Computes, M!Yields, Lows
<1>10. CASE CompareFloat(c)
  <2> DEFINE v == IF FloatCondition(c.op, Left, Right) THEN 1 ELSE r8
  <2>1. c.op \in FloatCompares /\ UNCHANGED <<memory, trapped>> /\ c.push /\ PushRax(2, v)
    BY <1>1, <1>10 DEF CompareFloat, Trusted
  <2>2. r8 = 0 /\ FloatOrder(Left, Right) # "unordered"
    BY <1>1, <2>1 DEF Trusted, HistoryHolds
  <2>3. v \in Word  BY <2>2, Numbers
  <2>4. v = M!Truth(FloatOrder(M!Under, M!Top) \in M!FloatAnswers[c.op])
    BY <1>4, <1>5, <2>1, <2>2, SameOrder DEF M!Truth
  <2> HIDE DEF v
  <2>5. Lows(stack') = IF c.push THEN Append(M!Below(2), v) ELSE M!Below(2)
    BY <1>1, <1>4, <2>1, <2>3, Leaves, Yielding
  <2>6. QED  BY <1>2, <1>3, <2>1, <2>4, <2>5, SameCommands DEF M!Computes, M!Yields, Lows
<1>11. QED  BY <1>6, <1>7, <1>8, <1>9, <1>10

LEMMA OthersMean ==
  ASSUME NEW c, Means(c),
         \/ NegateInt(c) \/ NegateFloat(c) \/ LogicalNot(c) \/ BinaryFloat(c) \/ Cast(c)
         \/ CallForeign(c) \/ Branch(c)
  PROVE  M!Executes(c)
<1>1. Ready(c) /\ Runs(c) /\ Trusted(c) /\ HistoryHolds /\ stack \in Seq(Slot)
      /\ Len(stack) \in Nat
  BY Given DEF Means
<1>2. ASSUME M!Computes(c) \/ M!Casts(c) \/ M!CallsOut(c), c.op \notin Ifs, UNCHANGED trapped
      PROVE  M!Executes(c)
  BY <1>1, <1>2, Executing
<1>3. CASE NegateInt(c)
  <2> DEFINE v == IF c.op = "NegI" THEN Wrap(-Right) ELSE Complement(Right)
  <2>1. c.op \in {"NegI", "NotI"} /\ UNCHANGED <<memory, trapped>>
        /\ (c.push => InPlace(0, v)) /\ (~c.push => stack' = Below(1))
    BY <1>3 DEF NegateInt
  <2>2. 1 \in 0 .. Len(stack) /\ Right \in Word /\ Len(stack) >= 1  BY <1>1, <2>1, Enough
  <2>3. v \in Word  BY <2>2, Closed
  <2>4. M!Top = Right  BY <1>1, <2>2, SeenAsMeaning
  <2>5. v = IF c.op = "NegI" THEN M!Wrap(-M!Top) ELSE M!Complement(M!Top)
    BY <2>4, SameWords
  <2> HIDE DEF v
  <2>6. c.push => Lows(stack') = Append(SubSeq(Lows(stack), 1, Len(Lows(stack)) - 1), v)
    BY <1>1, <2>1, <2>2, <2>3, TopReplaced
  <2>7. Lows(stack') = IF c.push THEN Append(M!Below(1), v) ELSE M!Below(1)
    BY <1>1, <2>1, <2>2, <2>6, Yielding
  <2>8. M!Computes(c)  BY <2>1, <2>5, <2>7 DEF M!Computes, M!Yields, Lows
  <2>9. QED  BY <1>2, <2>1, <2>8 DEF Ifs
<1>4. CASE NegateFloat(c)
  <2> DEFINE v == FloatOp("Negate", Right, Right, mode)
  <2>1. c.op = "NegF" /\ UNCHANGED <<memory, trapped>> /\ InPlace(0, v) /\ c.push
    BY <1>1, <1>4 DEF NegateFloat, Trusted
  <2>2. 1 \in 0 .. Len(stack) /\ Right \in Word /\ Len(stack) >= 1  BY <1>1, <2>1, Enough
  <2>3. mode \in Rounding /\ "nearest" \in Rounding /\ "Negate" \in FloatOperations
    BY <1>1, Given DEF FloatOperations, Rounding
  <2>4. v \in Word /\ v = FloatOp("Negate", Right, Right, "nearest")
    BY <2>2, <2>3, FloatOpAssumption, FloatLawsAssumption
  <2>5. M!Top = Right  BY <1>1, <2>2, SeenAsMeaning
  <2> HIDE DEF v
  <2>6. Lows(stack') = Append(SubSeq(Lows(stack), 1, Len(Lows(stack)) - 1), v)
    BY <1>1, <2>1, <2>2, <2>4, TopReplaced
  <2>7. Lows(stack') = IF c.push THEN Append(M!Below(1), v) ELSE M!Below(1)
    BY <1>1, <2>1, <2>2, <2>6, Yielding
  <2>8. M!Computes(c)  BY <2>1, <2>4, <2>5, <2>7 DEF M!Computes, M!Yields, Lows
  <2>9. QED  BY <1>2, <2>1, <2>8 DEF Ifs
<1>5. CASE LogicalNot(c)
  <2>1. c.op = "Not" /\ UNCHANGED <<memory, trapped>> /\ stack' = Below(1) /\ ~c.push
    BY <1>1, <1>5 DEF LogicalNot, Trusted
  <2>2. 1 \in 0 .. Len(stack)  BY <1>1, <2>1, Enough
  <2>3. Lows(stack') = M!Below(1)  BY <1>1, <2>1, <2>2, Popped, SeenAsMeaning
  <2>4. M!Computes(c)  BY <2>1, <2>3 DEF M!Computes, M!Yields, Lows
  <2>5. QED  BY <1>2, <2>1, <2>4 DEF Ifs
<1>6. CASE BinaryFloat(c)
  <2> DEFINE v == FloatOp(FpuOperation[c.op], Right, Left, mode)
  <2>1. c.op \in DOMAIN FpuOperation /\ UNCHANGED <<memory, trapped>>
        /\ (c.push => stack' = [Below(1) EXCEPT ![Len(stack) - 1].lo = v])
        /\ (~c.push => stack' = Below(2))
    BY <1>6 DEF BinaryFloat
  <2>2. 2 \in 0 .. Len(stack) /\ Right \in Word /\ Left \in Word /\ Len(stack) >= 2
    BY <1>1, <2>1, Enough
  <2>3. M!Top = Right /\ M!Under = Left  BY <1>1, <2>2, SeenAsMeaning
  <2>4. v \in Word  BY <1>1, <2>1, <2>2, Tables, FloatOpAssumption, Given
  <2>5. ASSUME c.push
        PROVE  v = FloatOp(M!FloatBinary[c.op], M!Under, M!Top, "nearest")
    <3>1. c.op \in {"AddF", "MultF"} /\ mode = "nearest"
      BY <1>1, <2>1, <2>5, Domains DEF Trusted, HistoryHolds
    <3>2. FpuOperation[c.op] \in {"Add", "Mult"} /\ M!FloatBinary[c.op] = FpuOperation[c.op]
      BY <2>1, <3>1, Tables DEF FpuOperation
    <3>3. mode \in Rounding  BY <3>1 DEF Rounding
    <3>4. QED  BY <2>2, <2>3, <3>1, <3>2, <3>3, FloatLawsAssumption
  <2> HIDE DEF v
  <2>6. c.push => Lows(stack') = Append(SubSeq(Lows(stack), 1, Len(Lows(stack)) - 2), v)
    BY <1>1, <2>1, <2>2, <2>4, LeftReplaced
  <2>7. Lows(stack') = IF c.push THEN Append(M!Below(2), v) ELSE M!Below(2)
    BY <1>1, <2>1, <2>2, <2>6, Yielding
  <2>8. c.op \in DOMAIN M!FloatBinary  BY <2>1, Tables
  <2>9. M!Computes(c)  BY <2>1, <2>5, <2>7, <2>8 DEF M!Computes, M!Yields, Lows
  <2>10. QED  BY <1>2, <2>1, <2>9, Domains DEF Ifs
<1>7. CASE Cast(c)
  <2> DEFINE p == Len(stack) - c.argc
             x == stack[p].lo
             v == FloatOp(IF c.op = "FloatToInt" THEN "ToInt" ELSE "ToFloat",
                          x, x, RoundingAfter(c))
  <2>1. c.op \in {"IntToFloat", "FloatToInt"} /\ UNCHANGED <<memory, trapped>>
        /\ InPlace(c.argc, v)
    BY <1>7 DEF Cast
  <2>2. p \in 1 .. Len(stack)  BY <1>1, <2>1, Enough
  <2>3. RoundingAfter(c) = IF c.op = "FloatToInt" THEN "truncate" ELSE "nearest"
    BY <1>1, <2>1 DEF RoundingAfter, Trusted, HistoryHolds
  <2>4. x \in Word /\ Lows(stack)[p] = x /\ Len(Lows(stack)) = Len(stack)
    <3>1. stack[p] \in Slot  BY <1>1, <2>2, ElementOfSeq
    <3>2. QED  BY <1>1, <2>2, <3>1, LowsOf DEF Slot
  <2>5. v \in Word  BY <2>3, <2>4, FloatOpAssumption DEF FloatOperations, Rounding
  <2>6. v = IF c.op = "FloatToInt" THEN FloatOp("ToInt", x, x, "truncate")
                                   ELSE FloatOp("ToFloat", x, x, "nearest")
    BY <2>3
  <2> HIDE DEF v, x
  <2>7. Lows(stack') = [Lows(stack) EXCEPT ![p] = v]  BY <1>1, <2>1, <2>2, <2>5, Replaced
  <2>8. M!Casts(c)  BY <2>1, <2>4, <2>6, <2>7 DEF M!Casts, Lows
  <2>9. QED  BY <1>2, <2>1, <2>8 DEF Ifs
<1>8. CASE CallForeign(c)
  <2> DEFINE d == [c EXCEPT !.push = c.push /\ c.op = "Sys"]
  <2>1. c.op \in Foreign /\ UNCHANGED <<memory, trapped>>  BY <1>8 DEF CallForeign
  <2>2. c.argc \in 0 .. Len(stack)  BY <1>1, <2>1, Enough
  <2>3. c \in M!Instruction  BY <1>1, Given
  <2>4. d.push <=> c.push /\ c.op = "Sys"  BY <2>3 DEF M!Instruction
  <2> HIDE DEF d
  <2>5. CASE c.op = "Sys" /\ c.push
    <3>1. PICK b \in BOOLEAN : stack' = Append(Below(c.argc), [lo |-> eax', dirty |-> b])
          /\ eax' \in Leftovers
      BY <1>8, <2>5 DEF CallForeign
    <3>2. eax' \in Word  BY <3>1, RegistersAssumption
    <3>3. PICK w \in Word : w = eax'  BY <3>2
    <3> DEFINE e == [lo |-> w, dirty |-> b]
    <3>4. stack' = Append(Below(c.argc), e)  BY <3>1, <3>3
    <3>5. e \in Slot /\ e.lo = w  BY Zenon DEF Slot
    <3> HIDE DEF e
    <3>6. Lows(stack') = Append(SubSeq(Lows(stack), 1, Len(Lows(stack)) - c.argc), w)
      BY <1>1, <2>2, <3>4, <3>5, Pushed
    <3>7. Lows(stack') = Append(M!Below(c.argc), w)  BY <1>1, <3>6, SeenAsMeaning
    <3>8. M!Yields(d, c.argc, w)  BY <2>1, <2>4, <2>5, <3>7 DEF M!Yields, Lows
    <3>9. M!CallsOut(c)  BY <2>1, <3>8, SameCommands, SameWords DEF M!CallsOut, d
    <3>10. QED  BY <1>2, <2>1, <3>9 DEF Ifs, Foreign
  <2>6. CASE ~(c.op = "Sys" /\ c.push)
    <3>1. stack' = Below(c.argc)
      <4>1. CASE c.op = "PrintF" /\ c.argc = 0
        BY <1>1, <1>8, <4>1, Kept DEF CallForeign
      <4>2. CASE ~(c.op = "PrintF" /\ c.argc = 0)
        BY <1>8, <2>6, <4>2 DEF CallForeign
      <4>3. QED  BY <4>1, <4>2
    <3>2. Lows(stack') = M!Below(c.argc)  BY <1>1, <2>2, <3>1, Popped, SeenAsMeaning
    <3>3. M!Yields(d, c.argc, 0)  BY <2>1, <2>4, <2>6, <3>2 DEF M!Yields, Lows
    <3>4. M!CallsOut(c)  BY <2>1, <3>3, SameCommands, SameWords, Numbers DEF M!CallsOut, d
    <3>5. QED  BY <1>2, <2>1, <3>4 DEF Ifs, Foreign
  <2>7. QED  BY <2>5, <2>6
<1>9. CASE Branch(c)
  <2>1. c.op \in Ifs /\ UNCHANGED <<memory, trapped>> /\ stack' = Below(1)
    BY <1>9 DEF Branch
  <2>2. 1 \in 0 .. Len(stack) /\ stack[Len(stack)] \in Slot  BY <1>1, <2>1, Enough DEF Ifs
  <2>3. M!Top = Right  BY <1>1, <2>2, SeenAsMeaning
  <2>4. TopIsZero <=> Right = 0
    <3>1. ~stack[Len(stack)].dirty  BY <1>1, <2>1 DEF Trusted
    <3> DEFINE e == stack[Len(stack)]
    <3>2. e \in Slot /\ ~e.dirty  BY <2>2, <3>1
    <3> HIDE DEF e
    <3>3. e.dirty = FALSE /\ e = [lo |-> e.lo, dirty |-> e.dirty]  BY <3>2, Zenon DEF Slot
    <3>4. e = [lo |-> 0, dirty |-> FALSE] <=> e.lo = 0  BY <3>3
    <3>5. QED  BY <3>4, Zenon DEF TopIsZero, Right, Clean, e
  <2>5. taken' = ((c.op = "If") = (M!Top = 0))
    <3>1. taken' = (c.op \in Ifs /\ ((c.op = "If") = TopIsZero))  BY <1>1 DEF Runs
    <3>2. QED  BY <2>1, <2>3, <2>4, <3>1
  <2>6. Lows(stack') = M!Below(1)  BY <1>1, <2>1, <2>2, Popped, SeenAsMeaning
  <2>7. M!Branches(c)  BY <2>1, <2>5, <2>6, SameCommands DEF M!Branches, Lows
  <2>8. Len(Lows(stack)) >= M!Takes(c) /\ ~trapped  BY <1>1, Operands DEF Ready
  <2>9. QED  BY <2>7, <2>8 DEF M!Executes, Lows
<1>10. QED  BY <1>3, <1>4, <1>5, <1>6, <1>7, <1>8, <1>9
-----------------------------------------------------------------------------
LEMMA TrustedMean ==
  ASSUME IInv, NEW c \in program, Runs(c), Trusted(c)
  PROVE  M!Executes(c)
<1>1. Means(c)  BY IsReady DEF IInv, Means
<1>2. \/ PushImmediate(c) \/ Duplicate(c) \/ Discard(c) \/ PushVar(c) \/ SetVar(c)
      \/ IncDecI(c) \/ IncDecF(c) \/ AssignFloat(c) \/ AssignInt(c) \/ AssignMult(c)
      \/ AssignDivided(c)
      \/ Multiply(c) \/ Divide(c) \/ BinaryInt(c) \/ CompareInt(c) \/ CompareFloat(c)
      \/ NegateInt(c) \/ NegateFloat(c) \/ LogicalNot(c) \/ BinaryFloat(c) \/ Cast(c)
      \/ CallForeign(c) \/ Branch(c)
  BY DEF Runs
<1>3. QED  BY <1>1, <1>2, MovesMean, AssignsMean, OperatorsMean, OthersMean

(* A command whose condition holds does what it means: the template of       *)
(* compile() and the meaning ast.rs gives the command agree on the stack and  *)
(* on the variables, and on the divisions that end the process.              *)
THEOREM TrustedAreRight == Spec => RightWhenTrusted
<1>1. IInv /\ [Next]_vars =>
        [\A c \in program : Runs(c) /\ Trusted(c) => M!Executes(c)]_vars
  BY TrustedMean
<1>2. QED  BY Initially, Inductive, <1>1, PTL DEF Spec, RightWhenTrusted
-----------------------------------------------------------------------------
(* Scripts of commands that are always right.                               *)
AllRight == \A p \in Programs : \A c \in p : AlwaysRight(c)

(* No cast has changed the rounding mode of such a script.                  *)
LEMMA StaysNearest ==
  AllRight /\ IInv /\ "nearest" \in known /\ [Next]_vars => ("nearest" \in known)'
<1> SUFFICES ASSUME AllRight, IInv, "nearest" \in known, [Next]_vars
             PROVE  "nearest" \in known'
  OBVIOUS
<1>1. CASE UNCHANGED vars  BY <1>1 DEF vars
<1>2. ASSUME NEW c \in program, Runs(c)  PROVE "nearest" \in known'
  <2>1. c.op # "FloatToInt"  BY DEF AllRight, AlwaysRight, IInv, TypeOK
  <2>2. "nearest" \in Learns(c)  BY <2>1 DEF Learns
  <2>3. QED  BY <1>2, <2>2 DEF Runs
<1>3. QED  BY <1>1, <1>2 DEF Next

LEMMA RightMean ==
  ASSUME AllRight, IInv, "nearest" \in known, NEW c \in program, Runs(c)
  PROVE  M!Executes(c)
<1>1. AlwaysRight(c)  BY DEF AllRight, IInv, TypeOK
<1>2. Trusted(c)
  <2>1. c.op \in DOMAIN AssignOperation => IsGlobal(c)  BY <1>1 DEF AlwaysRight
  <2>2. /\ c.op \notin {"DecI", "SubVarByF", "DivVarByF", "MultVarByF", "DivVarBy", "ModVarBy"}
        /\ c.op \notin FloatCompares /\ c.op \notin Ifs
        /\ c.op \in {"PushVar", "NegF"} => c.push
        /\ c.op \in {"Not", "SubF", "DivF", "DivI", "ModI"} => ~c.push
    BY <1>1 DEF AlwaysRight
  <2>3. QED  BY <2>1, <2>2 DEF Trusted
<1>3. QED  BY <1>2, TrustedMean

LEMMA MeaningBegins == Init => M!Init
<1> SUFFICES ASSUME Init PROVE M!Init  OBVIOUS
<1>1. Lows(stack) = <<>>
  <2>1. stack \in Seq(Slot) /\ Len(stack) = 0  BY EmptySeq DEF Init
  <2>2. Lows(stack) \in Seq(Word) /\ Len(Lows(stack)) = 0  BY <2>1, LowsOf
  <2>3. QED  BY <2>2, EmptySeq
<1>2. QED  BY <1>1, SameWords DEF Init, M!Init, Lows

LEMMA MeaningSteps ==
  AllRight /\ IInv /\ "nearest" \in known /\ [Next]_vars => [M!Next]_M!vars
<1> SUFFICES ASSUME AllRight, IInv, "nearest" \in known, [Next]_vars
             PROVE  [M!Next]_M!vars
  OBVIOUS
<1>1. CASE UNCHANGED vars
  <2>1. UNCHANGED <<program, memory, taken, trapped>> /\ Lows(stack') = Lows(stack)
    BY <1>1 DEF vars
  <2>2. QED  BY <2>1 DEF M!vars, Lows
<1>2. ASSUME NEW c \in program, Runs(c), UNCHANGED program  PROVE M!Next
  BY <1>2, RightMean DEF M!Next
<1>3. QED  BY <1>1, <1>2 DEF Next

(* A script made of commands that are always right behaves as their meaning. *)
THEOREM RightScriptsMean == ASSUME AllRight  PROVE Spec => Implements
<1> DEFINE Inv == IInv /\ "nearest" \in known
<1>1. Init => Inv  BY Initially DEF Init
<1>2. Inv /\ [Next]_vars => Inv'  BY AllRight, Inductive, StaysNearest
<1>3. Inv /\ [Next]_vars => [M!Next]_M!vars  BY AllRight, MeaningSteps
<1>4. Inv /\ [Next]_vars => [\A c \in program : Runs(c) => M!Executes(c)]_vars
  BY AllRight, RightMean
<1> HIDE DEF Inv
<1>5. QED  BY <1>1, <1>2, <1>3, <1>4, MeaningBegins, PTL DEF Spec, Implements, M!Spec
-----------------------------------------------------------------------------
(* A command that behaves as another one.                                   *)
LEMMA ExecutingTwin ==
  ASSUME NEW c, NEW d, Ready(c), Runs(c), c.op \notin Ifs, UNCHANGED trapped,
         Len(stack) >= M!Takes(d), M!Pushes(d) \/ M!Computes(d) \/ M!AssignsVar(d)
  PROVE  M!Executes(d)
<1>1. Len(Lows(stack)) >= M!Takes(d) /\ ~trapped  BY Operands DEF Ready, Typed
<1>2. taken' = FALSE  BY DEF Runs
<1>3. QED  BY <1>1, <1>2 DEF M!Executes, Lows

(* The wrong commands and their twins, one by one.                          *)
LEMMA Twins ==
  ASSUME NEW c \in M!Instruction, NEW d, d = Twin(c), d # c
  PROVE  /\ d \in M!Instruction /\ d.var = c.var /\ d.val = c.val
         /\ \/ c.op = "DecI" /\ d.op = "IncI"
            \/ c.op \in {"SubVarByF", "DivVarByF", "MultVarByF"} /\ d.op = "AddVarByF"
            \/ c.op = "Not" /\ c.push /\ d.op = "Not" /\ ~d.push
            \/ c.op \in {"PushVar", "NegF"} /\ ~c.push /\ d.op = c.op /\ d.push
            \/ c.op \in FloatCompares /\ ~c.push /\ d.op = "PushInt" /\ ~d.push
<1>1. c.push \in BOOLEAN /\ {"IncI", "AddVarByF", "PushInt"} \subseteq M!Opcodes
  BY SameCommands DEF M!Instruction, Opcodes, VarCommands, Immediates
<1>2. CASE c.op = "DecI"  BY <1>1, <1>2 DEF Twin, M!Instruction
<1>3. CASE c.op \in {"SubVarByF", "DivVarByF", "MultVarByF"}
  BY <1>1, <1>3 DEF Twin, M!Instruction
<1>4. CASE c.op = "Not" /\ c.push  BY <1>1, <1>4 DEF Twin, M!Instruction
<1>5. CASE c.op \in {"PushVar", "NegF"} /\ ~c.push
  <2>1. /\ c.op # "DecI" /\ c.op \notin {"SubVarByF", "DivVarByF", "MultVarByF"}
        /\ c.op # "Not" /\ c.op \notin FloatCompares
    BY <1>5 DEF FloatCompares
  <2>2. d = [c EXCEPT !.push = TRUE]  BY <1>5, <2>1 DEF Twin
  <2>3. QED  BY <1>1, <1>5, <2>2 DEF M!Instruction
<1>6. CASE c.op \in FloatCompares /\ ~c.push
  <2>1. /\ c.op # "DecI" /\ c.op \notin {"SubVarByF", "DivVarByF", "MultVarByF"}
        /\ c.op # "Not" /\ c.op \notin {"PushVar", "NegF"}
    BY <1>6 DEF FloatCompares
  <2>2. d = [c EXCEPT !.op = "PushInt"]  BY <1>6, <2>1 DEF Twin
  <2>3. QED  BY <1>1, <1>6, <2>2 DEF M!Instruction
<1>7. \/ c.op = "DecI"
      \/ c.op \in {"SubVarByF", "DivVarByF", "MultVarByF"}
      \/ c.op = "Not" /\ c.push
      \/ c.op \in {"PushVar", "NegF"} /\ ~c.push
      \/ c.op \in FloatCompares /\ ~c.push
  BY Zenon DEF Twin
<1>8. QED  BY <1>2, <1>3, <1>4, <1>5, <1>6, <1>7

LEMMA TakenBy ==
  ASSUME NEW d, d.op \in {"IncI", "PushVar", "PushInt"}
  PROVE  M!Takes(d) = 0
BY SameCommands, Tables, Domains DEF M!Takes, Foreign, FloatCompares, Immediates

LEMMA TwinsMove ==
  ASSUME NEW c, NEW d, Ready(c), Runs(c), HistoryHolds, d = Twin(c), d # c, Trusted(d),
         IncDecI(c) \/ AssignFloat(c) \/ PushVar(c)
  PROVE  M!Executes(d)
<1>1. stack \in Seq(Slot) /\ Len(stack) \in Nat /\ 0 \in 0 .. Len(stack) /\ Below(0) = stack
  BY Given, Enough, Kept
<1>2. /\ c \in M!Instruction /\ d \in M!Instruction /\ d.var = c.var
      /\ c.op = "DecI" => d.op = "IncI"
      /\ c.op \in {"SubVarByF", "DivVarByF", "MultVarByF"} => d.op = "AddVarByF"
      /\ c.op = "PushVar" => d.op = "PushVar" /\ d.push
      /\ c.op \notin {"IncI", "AddVarByF"}
  BY Given, Twins DEF FloatCompares
<1>3. CASE IncDecI(c)
  <2>1. c.op = "DecI" /\ d.op = "IncI" /\ UNCHANGED <<stack, trapped>>
        /\ memory' = [memory EXCEPT ![d.var] = IntOp("Add", memory[d.var], 1)]
    BY <1>2, <1>3 DEF IncDecI, Store
  <2>2. Lows(stack') = M!Below(0)  BY <1>1, <2>1, Assigning
  <2>3. M!Takes(d) = 0  BY <2>1, TakenBy
  <2>4. M!AssignsVar(d)  BY <2>1, <2>2 DEF M!AssignsVar, M!Assigns, Lows
  <2>5. QED  BY <1>1, <2>1, <2>3, <2>4, ExecutingTwin DEF Ifs
<1>4. CASE AssignFloat(c)
  <2>1. c.op \in {"SubVarByF", "DivVarByF", "MultVarByF"} /\ d.op = "AddVarByF"
        /\ UNCHANGED trapped /\ stack' = Below(1)
        /\ memory' = [memory EXCEPT ![d.var] = FloatOp("Add", memory[d.var], Right, mode)]
    BY <1>2, <1>4 DEF AssignFloat, Store
  <2>2. mode = "nearest"  BY <2>1 DEF Trusted, HistoryHolds
  <2>3. 1 \in 0 .. Len(stack) /\ Len(stack) >= 1  BY <1>1, <2>1, Enough
  <2>4. M!Top = Right  BY <1>1, <2>3, SeenAsMeaning
  <2>5. Lows(stack') = M!Below(1)  BY <1>1, <2>1, <2>3, Assigning
  <2>6. d.op \in DOMAIN M!FloatAssign /\ M!FloatAssign[d.op] = "Add"
    BY <2>1 DEF M!FloatAssign
  <2>7. memory' = [memory EXCEPT ![d.var] =
                     FloatOp(M!FloatAssign[d.op], memory[d.var], M!Top, "nearest")]
    BY <2>1, <2>2, <2>4, <2>6
  <2>8. M!AssignsVar(d)  BY <2>5, <2>6, <2>7 DEF M!AssignsVar, M!Assigns, Lows
  <2>9. M!Takes(d) = 1  BY <1>2, <2>1, Needs
  <2>10. QED  BY <1>1, <2>1, <2>3, <2>8, <2>9, ExecutingTwin DEF Ifs
<1>5. CASE PushVar(c)
  <2>1. c.op = "PushVar" /\ d.op = "PushVar" /\ d.push /\ UNCHANGED <<memory, trapped>>
        /\ PushRax(0, memory[d.var])
    BY <1>2, <1>5 DEF PushVar
  <2>2. memory[d.var] \in Word  BY <1>2, <2>1, Given DEF VarCommands
  <2>3. Lows(stack') = Append(SubSeq(Lows(stack), 1, Len(Lows(stack)) - 0), memory[d.var])
    BY <1>1, <2>1, <2>2, Leaves
  <2>4. Lows(stack') = IF d.push THEN Append(M!Below(0), memory[d.var]) ELSE M!Below(0)
    BY <1>1, <2>1, <2>3, Yielding
  <2>5. M!Pushes(d)  BY <2>1, <2>4 DEF M!Pushes, M!Yields, Lows
  <2>6. M!Takes(d) = 0  BY <2>1, TakenBy
  <2>7. QED  BY <1>1, <2>1, <2>5, <2>6, ExecutingTwin DEF Ifs
<1>6. QED  BY <1>3, <1>4, <1>5

LEMMA TwinsCompute ==
  ASSUME NEW c, NEW d, Ready(c), Runs(c), d = Twin(c), d # c,
         LogicalNot(c) \/ NegateFloat(c) \/ CompareFloat(c)
  PROVE  M!Executes(d)
<1>1. stack \in Seq(Slot) /\ Len(stack) \in Nat /\ 0 \in 0 .. Len(stack) /\ Below(0) = stack
  BY Given, Enough, Kept
<1>2. /\ c \in M!Instruction /\ d \in M!Instruction
      /\ c.op = "Not" => d.op = "Not" /\ ~d.push
      /\ c.op = "NegF" => d.op = "NegF" /\ d.push
      /\ c.op \in FloatCompares => ~c.push /\ d.op = "PushInt" /\ ~d.push
  BY Given, Twins DEF FloatCompares
<1>3. CASE LogicalNot(c)
  <2>1. c.op = "Not" /\ d.op = "Not" /\ ~d.push /\ UNCHANGED <<memory, trapped>>
        /\ stack' = Below(1)
    BY <1>2, <1>3 DEF LogicalNot
  <2>2. 1 \in 0 .. Len(stack) /\ Len(stack) >= 1  BY <1>1, <2>1, Enough
  <2>3. Lows(stack') = M!Below(1)  BY <1>1, <2>1, <2>2, Popped, SeenAsMeaning
  <2>4. M!Computes(d)  BY <2>1, <2>3 DEF M!Computes, M!Yields, Lows
  <2>5. M!Takes(d) = 1  BY <1>2, <2>1, Needs
  <2>6. QED  BY <1>1, <2>1, <2>2, <2>4, <2>5, ExecutingTwin DEF Ifs
<1>4. CASE NegateFloat(c)
  <2> DEFINE v == FloatOp("Negate", Right, Right, mode)
  <2>1. c.op = "NegF" /\ d.op = "NegF" /\ d.push /\ UNCHANGED <<memory, trapped>>
        /\ InPlace(0, v)
    BY <1>2, <1>4 DEF NegateFloat
  <2>2. 1 \in 0 .. Len(stack) /\ Right \in Word /\ Len(stack) >= 1  BY <1>1, <2>1, Enough
  <2>3. mode \in Rounding /\ "nearest" \in Rounding /\ "Negate" \in FloatOperations
    BY Given DEF FloatOperations, Rounding
  <2>4. v \in Word /\ v = FloatOp("Negate", Right, Right, "nearest")
    BY <2>2, <2>3, FloatOpAssumption, FloatLawsAssumption
  <2>5. M!Top = Right  BY <1>1, <2>2, SeenAsMeaning
  <2> HIDE DEF v
  <2>6. d.push => Lows(stack') = Append(SubSeq(Lows(stack), 1, Len(Lows(stack)) - 1), v)
    BY <1>1, <2>1, <2>2, <2>4, TopReplaced
  <2>7. Lows(stack') = IF d.push THEN Append(M!Below(1), v) ELSE M!Below(1)
    BY <1>1, <2>1, <2>2, <2>6, Yielding
  <2>8. M!Computes(d)  BY <2>1, <2>4, <2>5, <2>7 DEF M!Computes, M!Yields, Lows
  <2>9. M!Takes(d) = 1  BY <1>2, <2>1, Needs
  <2>10. QED  BY <1>1, <2>1, <2>2, <2>8, <2>9, ExecutingTwin DEF Ifs
<1>5. CASE CompareFloat(c)
  <2>1. c.op \in FloatCompares /\ d.op = "PushInt" /\ ~d.push
        /\ UNCHANGED <<memory, stack, trapped>>
    BY <1>2, <1>5 DEF CompareFloat
  <2>2. Lows(stack') = M!Below(0)  BY <1>1, <2>1, Popped, SeenAsMeaning
  <2>3. M!Pushes(d)
    BY <2>1, <2>2, SameCommands DEF M!Pushes, M!Yields, Lows, Immediates
  <2>4. M!Takes(d) = 0  BY <2>1, TakenBy
  <2>5. c.op \notin Ifs  BY <2>1 DEF FloatCompares, Ifs
  <2>6. QED  BY <1>1, <2>1, <2>3, <2>4, <2>5, ExecutingTwin
<1>6. QED  BY <1>3, <1>4, <1>5

LEMMA TwinMeans ==
  ASSUME IInv, NEW c \in program, Runs(c), Twin(c) # c, Trusted(Twin(c))
  PROVE  M!Executes(Twin(c))
<1>1. Ready(c) /\ HistoryHolds  BY IsReady DEF IInv
<1>2. c \in M!Instruction  BY <1>1, Given
<1>3. c.op \in {"DecI", "SubVarByF", "DivVarByF", "MultVarByF", "Not", "PushVar", "NegF"}
                \cup FloatCompares
  BY <1>2, Twins
<1>4. \/ IncDecI(c) \/ AssignFloat(c) \/ PushVar(c)
      \/ LogicalNot(c) \/ NegateFloat(c) \/ CompareFloat(c)
  BY <1>3, Domains
     DEF Runs, PushImmediate, Duplicate, Discard, SetVar, IncDecF, AssignInt, AssignMult,
         AssignDivided, Multiply, Divide, BinaryInt, CompareInt, NegateInt, BinaryFloat, Cast,
         CallForeign, Branch, FloatCompares, Immediates, Foreign, Ifs
<1>5. QED  BY <1>1, <1>4, TwinsMove, TwinsCompute

LEMMA FloatsReversed ==
  ASSUME IInv, NEW c \in program, Runs(c),
         c.op \in {"SubF", "DivF"}, c.push, "nearest" \in known
  PROVE  Reverses(c)
<1> DEFINE v == FloatOp(FpuOperation[c.op], Right, Left, mode)
<1>1. Ready(c) /\ stack \in Seq(Slot) /\ mode = "nearest"
  BY IsReady, Given DEF IInv, HistoryHolds
<1>2. c.op \in DOMAIN FpuOperation  BY Domains
<1>3. UNCHANGED memory /\ stack' = [Below(1) EXCEPT ![Len(stack) - 1].lo = v]
  <2>1. BinaryFloat(c)
    BY Domains
       DEF Runs, PushImmediate, Duplicate, Discard, PushVar, SetVar, IncDecI, IncDecF, AssignFloat,
           AssignInt, AssignMult, AssignDivided, Multiply, Divide, BinaryInt, CompareInt,
           CompareFloat, NegateInt, NegateFloat, LogicalNot, Cast, CallForeign, Branch,
           FloatCompares, Immediates, Foreign, Ifs
  <2>2. QED  BY <2>1 DEF BinaryFloat
<1>4. 2 \in 0 .. Len(stack) /\ Right \in Word /\ Left \in Word /\ Len(stack) >= 2
  BY <1>1, <1>2, Enough
<1>5. M!Top = Right /\ M!Under = Left  BY <1>1, <1>4, SeenAsMeaning
<1>6. v \in Word  BY <1>1, <1>2, <1>4, Tables, FloatOpAssumption, Given
<1>7. v = FloatOp(M!FloatBinary[c.op], M!Top, M!Under, "nearest")
  BY <1>1, <1>2, <1>5, Tables
<1> HIDE DEF v
<1>8. c.push => Lows(stack') = Append(SubSeq(Lows(stack), 1, Len(Lows(stack)) - 2), v)
  BY <1>1, <1>3, <1>4, <1>6, LeftReplaced
<1>9. Lows(stack') = IF c.push THEN Append(M!Below(2), v) ELSE M!Below(2)
  BY <1>1, <1>3, <1>4, <1>8, Yielding
<1>10. QED  BY <1>3, <1>7, <1>9 DEF Reverses, M!Yields, Lows

LEMMA NaNsOrdered ==
  ASSUME IInv, NEW c \in program, Runs(c), c.op \in FloatCompares, c.push, "zero" \in known,
         FloatOrder(Left, Right) = "unordered"
  PROVE  OrdersNaN(c)
<1> DEFINE v == IF FloatCondition(c.op, Left, Right) THEN 1 ELSE r8
           w == Truth(c.op \in {"EqualsF", "LessThanF", "LessOrEqualF"})
<1>1. Ready(c) /\ stack \in Seq(Slot) /\ r8 = 0
  BY IsReady, Given DEF IInv, HistoryHolds
<1>2. UNCHANGED memory /\ PushRax(2, v)
  <2>1. CompareFloat(c)
    BY Domains
       DEF Runs, PushImmediate, Duplicate, Discard, PushVar, SetVar, IncDecI, IncDecF, AssignFloat,
           AssignInt, AssignMult, AssignDivided, Multiply, Divide, BinaryInt, CompareInt,
           BinaryFloat, NegateInt, NegateFloat, LogicalNot, Cast, CallForeign, Branch,
           FloatCompares, Immediates, Foreign, Ifs
  <2>2. QED  BY <2>1 DEF CompareFloat
<1>3. CarryFlag(Left, Right) /\ ZeroFlag(Left, Right)  BY DEF CarryFlag, ZeroFlag
<1>4. FloatCondition(c.op, Left, Right) <=> c.op \in {"EqualsF", "LessThanF", "LessOrEqualF"}
  BY <1>3 DEF FloatCondition, FloatCompares
<1>5. v = w  BY <1>1, <1>4 DEF Truth
<1>6. w \in Word  BY Numbers DEF Truth
<1> HIDE DEF v, w
<1>7. 2 \in 0 .. Len(stack)  BY <1>1, Enough
<1>8. c.push => Lows(stack') = Append(SubSeq(Lows(stack), 1, Len(Lows(stack)) - 2), w)
  BY <1>1, <1>2, <1>5, <1>6, <1>7, Leaves
<1>9. Lows(stack') = IF c.push THEN Append(M!Below(2), w) ELSE M!Below(2)
  BY <1>1, <1>2, <1>7, <1>8, Yielding
<1>10. QED  BY <1>2, <1>9 DEF OrdersNaN, M!Yields, Lows, w

(* The wrong commands are wrong in one way: in a script of any commands each *)
(* of them does what its twin means, SubF and DivF take their operands the   *)
(* other way round, and a NaN is equal to and less than everything.          *)
THEOREM WrongCommandsAreAsListed == Spec => WrongAsListed
<1>1. IInv /\ [Next]_vars =>
        [\A c \in program :
           /\ Twin(c) # c /\ Runs(c) /\ Trusted(Twin(c)) => M!Executes(Twin(c))
           /\ c.op \in {"SubF", "DivF"} /\ c.push /\ "nearest" \in known /\ Runs(c)
                => Reverses(c)
           /\ c.op \in FloatCompares /\ c.push /\ "zero" \in known /\ Runs(c)
              /\ FloatOrder(Left, Right) = "unordered" => OrdersNaN(c)]_vars
  BY TwinMeans, FloatsReversed, NaNsOrdered
<1>2. QED  BY Initially, Inductive, <1>1, PTL DEF Spec, WrongAsListed
=============================================================================
