------------------------------ MODULE Templates ------------------------------
(***************************************************************************)
(* What the machine code of one command does, x86/mod.rs 124-627: one       *)
(* disjunct per match arm, the instructions of a template taken together.   *)
(* Commands of one script follow each other in any order that keeps enough  *)
(* values on the evaluation stack.  A slot of that stack is a qword, of     *)
(* which most templates write or read the low half only; templates also     *)
(* leave values in registers that later templates use.                      *)
(***************************************************************************)
EXTENDS Words, Msc

CONSTANTS
  Programs,    \* the sets of commands that a script is made of
  Variables,   \* <<is_global, number>>
  GlobalsPtr,  \* the low word of the address of the global variables
  Leftovers,   \* what foreign functions leave in the registers they may use
  MaxStack

VARIABLES
  program,  \* one of Programs
  stack,    \* slots [lo, dirty]: the low dword, whether the high one is not 0
  memory,   \* variable -> word
  eax, edx, r8,
  mode,     \* the rounding mode of the x87 control word
  known,    \* history: what the commands so far say about the registers
  taken, trapped

regs == <<eax, edx, r8, mode>>
vars == <<program, stack, memory, eax, edx, r8, mode, known, taken, trapped>>

M == INSTANCE Meaning WITH stack <- [i \in 1 .. Len(stack) |-> stack[i].lo]

Slot == [lo : Word, dirty : BOOLEAN]

ASSUME ProgramsAssumption == \A p \in Programs : p \subseteq M!Instruction
ASSUME RegistersAssumption ==
  /\ GlobalsPtr \in Word /\ Leftovers \subseteq Word /\ Leftovers # {}
  /\ MaxStack \in Nat
(* A foreign function takes at most 15 arguments.  ADD RSP, 8 * arg_count,   *)
(* the code's way to drop them, sign-extends its byte: Syscalls says what it *)
(* does from 16 on.                                                         *)
ASSUME ForeignAssumption ==
  \A p \in Programs : \A c \in p : c.op \in M!Foreign => c.argc <= 15
-----------------------------------------------------------------------------
IsGlobal(c)  == c.var[1] = 1
Clean(v)     == [lo |-> v, dirty |-> FALSE]
Right        == stack[Len(stack)].lo
Left         == stack[Len(stack) - 1].lo
Below(n)     == SubSeq(stack, 1, Len(stack) - n)

(* get_global and set_global go through RDX.                                *)
AddressIn(c, reg) == IF IsGlobal(c) THEN GlobalsPtr ELSE reg
Store(c, v)       == memory' = [memory EXCEPT ![c.var] = v]

(* POP n operands; leave v in EAX; PUSH RAX.                                *)
PushRax(n, v) == stack' = Append(Below(n), Clean(v)) /\ eax' = v

(* An operation on dword [RSP + 8 * i] leaves the high half of the slot.     *)
InPlace(i, v) == stack' = [stack EXCEPT ![Len(stack) - i].lo = v]
-----------------------------------------------------------------------------
(* PUSH imm32 sign-extends.                                                 *)
PushImmediate(c) ==
  /\ c.op \in Immediates
  /\ stack' = IF c.push
              THEN Append(stack, [lo |-> c.val, dirty |-> Signed(c.val) < 0])
              ELSE stack
  /\ UNCHANGED <<memory, regs, trapped>>

Duplicate(c) ==
  /\ c.op = "Push"
  /\ IF c.push
     THEN stack' = Append(stack, stack[Len(stack)]) /\ eax' = Right
     ELSE UNCHANGED <<stack, eax>>
  /\ UNCHANGED <<memory, edx, r8, mode, trapped>>

(* MUTANT: the push bit is taken the wrong way round.                       *)
MutDiscard(c) ==
  /\ c.op = "Pop"
  /\ stack' = IF c.push THEN Below(1) ELSE stack
  /\ UNCHANGED <<memory, regs, trapped>>

Discard(c) ==
  /\ c.op = "Pop"
  /\ stack' = IF c.push THEN stack ELSE Below(1)
  /\ UNCHANGED <<memory, regs, trapped>>

(* Whatever its push bit.                                                   *)
PushVar(c) ==
  /\ c.op = "PushVar"
  /\ PushRax(0, memory[c.var])
  /\ edx' = AddressIn(c, edx)
  /\ UNCHANGED <<memory, r8, mode, trapped>>

SetVar(c) ==
  /\ c.op \in {"SetVar", "VarSetF"}
  /\ Store(c, Right) /\ stack' = Below(1)
  /\ eax' = IF IsGlobal(c) THEN eax ELSE Right
  /\ edx' = AddressIn(c, edx)
  /\ UNCHANGED <<r8, mode, trapped>>

(* Both commands INC.                                                       *)
IncDecI(c) ==
  /\ c.op \in {"IncI", "DecI"}
  /\ Store(c, IntOp("Add", memory[c.var], 1))
  /\ edx' = AddressIn(c, edx)
  /\ UNCHANGED <<stack, eax, r8, mode, trapped>>

IncDecF(c) ==
  /\ c.op \in {"IncF", "DecF"}
  /\ Store(c, FloatOp("Add", memory[c.var], IF c.op = "IncF" THEN One ELSE MinusOne, mode))
  /\ edx' = AddressIn(c, edx)
  /\ UNCHANGED <<stack, eax, r8, mode, trapped>>

(* MUTANT: the value stays on the stack.                                    *)
MutAssignFloat(c) ==
  /\ c.op \in {"AddVarByF", "SubVarByF", "DivVarByF", "MultVarByF"}
  /\ Store(c, FloatOp("Add", memory[c.var], Right, mode))
  /\ edx' = AddressIn(c, edx)
  /\ UNCHANGED <<stack, eax, r8, mode, trapped>>

(* All four FADD.                                                           *)
AssignFloat(c) ==
  /\ c.op \in {"AddVarByF", "SubVarByF", "DivVarByF", "MultVarByF"}
  /\ Store(c, FloatOp("Add", memory[c.var], Right, mode))
  /\ stack' = Below(1)
  /\ edx' = AddressIn(c, edx)
  /\ UNCHANGED <<eax, r8, mode, trapped>>

AssignOperation == [AddVarBy |-> "Add", SubVarBy |-> "Sub", AndVarBy |-> "BitAnd",
                    OrVarBy |-> "BitOr", XorVarBy |-> "BitXor"]

(* POP RCX holds the operand.  For a local, MOV ECX, variable overwrites it  *)
(* and EAX, which nothing has loaded, is the other operand.                 *)
AssignInt(c) ==
  /\ c.op \in DOMAIN AssignOperation
  /\ LET v == IntOp(AssignOperation[c.op], memory[c.var],
                    IF IsGlobal(c) THEN Right ELSE eax)
     IN Store(c, v) /\ eax' = IF IsGlobal(c) THEN v ELSE eax
  /\ stack' = Below(1)
  /\ edx' = AddressIn(c, edx)
  /\ UNCHANGED <<r8, mode, trapped>>

AssignMult(c) ==
  /\ c.op = "MultVarBy"
  /\ eax' = ProductLow(memory[c.var], Right) /\ Store(c, eax')
  /\ edx' = AddressIn(c, ProductHigh(memory[c.var], Right))
  /\ stack' = Below(1)
  /\ UNCHANGED <<r8, mode, trapped>>

(* Only the global's template clears EDX.                                   *)
DividendHigh(c) == IF IsGlobal(c) THEN 0 ELSE edx

(* IDIV divides EDX:EAX.                                                    *)
AssignDivided(c) ==
  /\ c.op \in {"DivVarBy", "ModVarBy"}
  /\ LET n == Dividend(DividendHigh(c), memory[c.var])
         q == Quotient(n, Right)
         r == Remainder(n, Right)
         v == IF c.op = "DivVarBy" THEN q ELSE r
     IN IF Divisible(n, Right)
        THEN /\ Store(c, v) /\ stack' = Below(1)
             /\ eax' = IF IsGlobal(c) THEN v ELSE q
             /\ edx' = AddressIn(c, r)
             /\ UNCHANGED trapped
        ELSE trapped' = TRUE /\ UNCHANGED <<stack, memory, eax, edx>>
  /\ UNCHANGED <<r8, mode>>

(* POP RCX; POP RAX.  Without a push bit that is all.                       *)
Multiply(c) ==
  /\ c.op = "MultI"
  /\ IF c.push
     THEN PushRax(2, ProductLow(Left, Right)) /\ edx' = ProductHigh(Left, Right)
     ELSE stack' = Below(2) /\ eax' = Left /\ UNCHANGED edx
  /\ UNCHANGED <<memory, r8, mode, trapped>>

Divide(c) ==
  /\ c.op \in {"DivI", "ModI"}
  /\ LET n == Dividend(0, Left)
         q == Quotient(n, Right)
         r == Remainder(n, Right)
     IN IF c.push /\ ~Divisible(n, Right)
        THEN trapped' = TRUE /\ UNCHANGED <<stack, eax, edx>>
        ELSE /\ UNCHANGED trapped
             /\ IF c.push
                THEN /\ stack' = Append(Below(2), Clean(IF c.op = "ModI" THEN r ELSE q))
                     /\ eax' = q /\ edx' = r
                ELSE stack' = Below(2) /\ eax' = Left /\ UNCHANGED edx
  /\ UNCHANGED <<memory, r8, mode>>

BinaryOperation == [AddI |-> "Add", SubI |-> "Sub", ShiftR |-> "ShiftR",
                    ShiftL |-> "ShiftL", AndI |-> "BitAnd", OrI |-> "BitOr",
                    XorI |-> "BitXor"]
BinaryInt(c) ==
  /\ c.op \in DOMAIN BinaryOperation
  /\ IF c.push
     THEN PushRax(2, IntOp(BinaryOperation[c.op], Left, Right))
     ELSE stack' = Below(2) /\ eax' = Left
  /\ UNCHANGED <<memory, edx, r8, mode, trapped>>

(* MUTANT: one condition code too few.                                      *)
MutCondition == [Equals |-> "Equal", NotEquals |-> "NotEqual",
                 LessThan |-> "LessThan", LessOrEqual |-> "LessThan",
                 Greater |-> "GreaterThan", GreaterOrEqual |-> "GreaterThanOrEqual"]
(* The condition of the CMOVcc; the inverse moves R8D.                      *)
Condition == [Equals |-> "Equal", NotEquals |-> "NotEqual",
              LessThan |-> "LessThan", LessOrEqual |-> "LessThanOrEqual",
              Greater |-> "GreaterThan", GreaterOrEqual |-> "GreaterThanOrEqual"]

(* MUTANT: R8 is not cleared.                                               *)
MutCompareInt(c) ==
  /\ c.op \in DOMAIN Condition
  /\ IF c.push
     THEN PushRax(2, IF IntHolds(Condition[c.op], Left, Right) THEN 1 ELSE r8) /\ edx' = 1
     ELSE stack' = Below(2) /\ eax' = Right /\ UNCHANGED edx
  /\ UNCHANGED <<memory, r8, mode, trapped>>

CompareInt(c) ==
  /\ c.op \in DOMAIN Condition
  /\ IF c.push
     THEN /\ PushRax(2, Truth(IntHolds(Condition[c.op], Left, Right)))
          /\ edx' = 1 /\ r8' = 0
     ELSE stack' = Below(2) /\ eax' = Right /\ UNCHANGED <<edx, r8>>
  /\ UNCHANGED <<memory, mode, trapped>>

(* SAHF: an unordered pair sets the carry and the zero flag.                *)
CarryFlag(a, b) == FloatOrder(a, b) \in {"less", "unordered"}
ZeroFlag(a, b)  == FloatOrder(a, b) \in {"equal", "unordered"}

FloatCondition(op, a, b) ==
  CASE op = "EqualsF"         -> ZeroFlag(a, b)
    [] op = "NotEqualsF"      -> ~ZeroFlag(a, b)
    [] op = "LessThanF"       -> CarryFlag(a, b)
    [] op = "LessOrEqualF"    -> CarryFlag(a, b) \/ ZeroFlag(a, b)
    [] op = "GreaterF"        -> ~(CarryFlag(a, b) \/ ZeroFlag(a, b))
    [] op = "GreaterOrEqualF" -> ~CarryFlag(a, b)

(* R8D is moved, not cleared; without a push bit nothing is emitted at all. *)
CompareFloat(c) ==
  /\ c.op \in FloatCompares
  /\ IF c.push
     THEN /\ PushRax(2, IF FloatCondition(c.op, Left, Right) THEN 1 ELSE r8)
          /\ edx' = 1
     ELSE UNCHANGED <<stack, eax, edx>>
  /\ UNCHANGED <<memory, r8, mode, trapped>>

NegateInt(c) ==
  /\ c.op \in {"NegI", "NotI"}
  /\ IF c.push
     THEN /\ InPlace(0, IF c.op = "NegI" THEN Wrap(-Right) ELSE Complement(Right))
          /\ UNCHANGED eax
     ELSE stack' = Below(1) /\ eax' = Right
  /\ UNCHANGED <<memory, edx, r8, mode, trapped>>

(* Whatever its push bit.                                                   *)
NegateFloat(c) ==
  /\ c.op = "NegF"
  /\ InPlace(0, FloatOp("Negate", Right, Right, mode))
  /\ UNCHANGED <<memory, regs, trapped>>

(* CMP RAX, 0 and TEST RAX, RAX see the high half too.                      *)
TopIsZero == stack[Len(stack)] = Clean(0)

(* The result stays in RAX.                                                 *)
LogicalNot(c) ==
  /\ c.op = "Not"
  /\ stack' = Below(1)
  /\ IF c.push THEN eax' = Truth(TopIsZero) /\ edx' = 1 /\ r8' = 0
               ELSE eax' = Right /\ UNCHANGED <<edx, r8>>
  /\ UNCHANGED <<memory, mode, trapped>>

(* copy_to_fpu(2) loads the right operand last, as ST; op ST, ST1.          *)
FpuOperation == [AddF |-> "Add", SubF |-> "Sub", MultF |-> "Mult", DivF |-> "Div"]
BinaryFloat(c) ==
  /\ c.op \in DOMAIN FpuOperation
  /\ stack' = IF c.push
              THEN [Below(1) EXCEPT
                      ![Len(stack) - 1].lo = FloatOp(FpuOperation[c.op], Right, Left, mode)]
              ELSE Below(2)
  /\ UNCHANGED <<memory, regs, trapped>>

(* FloatToInt sets the rounding bits and nothing ever resets them.          *)
RoundingAfter(c) == IF c.op = "FloatToInt" THEN "truncate" ELSE mode

Cast(c) ==
  /\ c.op \in {"IntToFloat", "FloatToInt"}
  /\ mode' = RoundingAfter(c)
  /\ LET x == stack[Len(stack) - c.argc].lo
     IN InPlace(c.argc, FloatOp(IF c.op = "FloatToInt" THEN "ToInt" ELSE "ToFloat",
                                x, x, RoundingAfter(c)))
  /\ UNCHANGED <<memory, eax, edx, r8, trapped>>

(* Sys and PrintF call a function that may change EAX, EDX and R8; a system  *)
(* call answers 32 bits, and PUSH RAX pushes 64.  A printf of nothing emits  *)
(* nothing.                                                                 *)
CallForeign(c) ==
  /\ c.op \in Foreign
  /\ IF c.op = "PrintF" /\ c.argc = 0
     THEN UNCHANGED <<stack, eax, edx, r8>>
     ELSE /\ eax' \in Leftovers /\ edx' \in Leftovers /\ r8' \in Leftovers
          /\ IF c.op = "Sys" /\ c.push
             THEN \E d \in BOOLEAN :
                    stack' = Append(Below(c.argc), [lo |-> eax', dirty |-> d])
             ELSE stack' = Below(c.argc)
  /\ UNCHANGED <<memory, mode, trapped>>

Branch(c) ==
  /\ c.op \in Ifs
  /\ eax' = Right /\ stack' = Below(1)
  /\ UNCHANGED <<memory, edx, r8, mode, trapped>>
-----------------------------------------------------------------------------
(* What the order of the commands says about the registers: that the value  *)
(* on top of the stack is in EAX too, because the last command pushed it    *)
(* from there; that R8D is 0, because a template cleared it since the last  *)
(* foreign call; that no cast has changed the rounding mode.                *)
LeavesOperandInEax(c) ==
  \/ c.op \in {"PushVar", "MultI", "DivI"} \cup DOMAIN BinaryOperation \cup
              DOMAIN Condition \cup FloatCompares
     /\ (c.push \/ c.op = "PushVar")
  \/ c.op \in {"Push", "Sys"} /\ c.push

Learns(c) ==
  (IF LeavesOperandInEax(c) THEN {"operand"} ELSE {})
    \cup (IF c.op \in {"Not"} \cup DOMAIN Condition /\ c.push THEN {"zero"} ELSE {})
    \cup (known \ ({"operand"} \cup (IF c.op \in Foreign THEN {"zero"} ELSE {})
                   \cup (IF c.op = "FloatToInt" THEN {"nearest"} ELSE {})))

Runs(c) ==
  /\ ~trapped /\ Len(stack) >= M!Takes(c)
  /\ \/ PushImmediate(c) \/ Duplicate(c) \/ Discard(c) \/ PushVar(c) \/ SetVar(c)
     \/ IncDecI(c) \/ IncDecF(c) \/ AssignFloat(c) \/ AssignInt(c)
     \/ AssignMult(c) \/ AssignDivided(c) \/ Multiply(c) \/ Divide(c)
     \/ BinaryInt(c) \/ CompareInt(c) \/ CompareFloat(c) \/ NegateInt(c)
     \/ NegateFloat(c) \/ LogicalNot(c) \/ BinaryFloat(c) \/ Cast(c)
     \/ CallForeign(c) \/ Branch(c)
  /\ taken' = (c.op \in Ifs /\ ((c.op = "If") = TopIsZero))
  /\ known' = IF trapped' THEN known ELSE Learns(c)

Init ==
  /\ program \in Programs
  /\ stack = <<>>
  /\ memory \in [M!VarsOf(program) -> Word]
  /\ eax \in Leftovers /\ edx \in Leftovers /\ r8 \in Leftovers
  /\ mode = "nearest" /\ known = {"nearest"}
  /\ taken = FALSE /\ trapped = FALSE

Next ==
  /\ \E c \in program : Runs(c) /\ Len(stack') <= MaxStack
  /\ UNCHANGED program

Spec == Init /\ [][Next]_vars
-----------------------------------------------------------------------------
TypeOK ==
  /\ stack \in Seq(Slot) /\ Len(stack) <= MaxStack
  /\ program \in Programs /\ memory \in [M!VarsOf(program) -> Word]
  /\ eax \in Word /\ edx \in Word /\ r8 \in Word
  /\ mode \in Rounding
  /\ known \subseteq {"operand", "zero", "nearest"}
  /\ taken \in BOOLEAN /\ trapped \in BOOLEAN

(* The history is right about the registers.                                *)
HistoryHolds ==
  /\ "operand" \in known => stack # <<>> /\ Right = eax
  /\ "zero" \in known => r8 = 0
  /\ "nearest" \in known => mode = "nearest"

(* The commands that are right in every state a script of them reaches.     *)
AlwaysRight(c) ==
  /\ c.op \notin {"DecI", "SubVarByF", "DivVarByF", "MultVarByF", "DivVarBy", "ModVarBy",
                  "FloatToInt"} \cup FloatCompares \cup Ifs
  /\ c.op \in {"PushVar", "NegF"} => c.push
  /\ c.op \in {"Not", "SubF", "DivF", "DivI", "ModI"} => ~c.push
  /\ c.op \in DOMAIN AssignOperation => IsGlobal(c)

(* A script of commands that are right in every state behaves as the        *)
(* meaning of its commands says, command by command.                        *)
Implements == M!Spec /\ [][\A c \in program : Runs(c) => M!Executes(c)]_vars

(* A condition under which a command is right.  No command is trusted that  *)
(* is wrong; some are right by luck where it does not hold.                 *)
Trusted(c) ==
  /\ c.op \notin {"DecI", "SubVarByF", "DivVarByF", "MultVarByF"}
  /\ c.op \in {"PushVar", "NegF"} \cup FloatCompares => c.push
  /\ c.op \in {"Not", "SubF", "DivF"} => ~c.push
  /\ c.op \in DOMAIN AssignOperation => IsGlobal(c) \/ "operand" \in known
  /\ c.op \in {"DivI", "ModI"} /\ c.push => Signed(Left) >= 0
  /\ c.op \in {"DivVarBy", "ModVarBy"} =>
       DividendHigh(c) = (IF Signed(memory[c.var]) < 0 THEN Modulus - 1 ELSE 0)
  /\ c.op \in FloatCompares =>
       "zero" \in known /\ FloatOrder(Left, Right) # "unordered"
  /\ c.op \in Ifs => ~stack[Len(stack)].dirty
  /\ c.op \in {"IncF", "DecF", "AddVarByF", "AddF", "MultF", "IntToFloat"} =>
       "nearest" \in known

(* A command whose condition holds does what it means, whatever wrong       *)
(* commands ran before it.                                                  *)
RightWhenTrusted ==
  [][\A c \in program : Runs(c) /\ Trusted(c) => M!Executes(c)]_vars

(* The command that a wrong one behaves as: an arm emits one instruction for *)
(* several commands, or what it emits has nothing to do with the push bit.   *)
(* A comparison of floats without a push bit emits nothing, as a constant    *)
(* without one.                                                             *)
Twin(c) ==
  CASE c.op = "DecI" -> [c EXCEPT !.op = "IncI"]
    [] c.op \in {"SubVarByF", "DivVarByF", "MultVarByF"} -> [c EXCEPT !.op = "AddVarByF"]
    [] c.op = "Not" /\ c.push -> [c EXCEPT !.push = FALSE]
    [] c.op \in {"PushVar", "NegF"} /\ ~c.push -> [c EXCEPT !.push = TRUE]
    [] c.op \in FloatCompares /\ ~c.push -> [c EXCEPT !.op = "PushInt"]
    [] OTHER -> c

(* Left and right change places.                                            *)
Reverses(c) ==
  M!Yields(c, 2, FloatOp(M!FloatBinary[c.op], M!Top, M!Under, "nearest"))

(* A NaN equals everything and is less than everything.                     *)
OrdersNaN(c) ==
  M!Yields(c, 2, Truth(c.op \in {"EqualsF", "LessThanF", "LessOrEqualF"}))

(* The commands that are wrong are wrong in one way, whatever ran before: as *)
(* their twins, so that a script can count on the depth of the stack and on  *)
(* the variables all the same; with the operands of SubF and DivF reversed   *)
(* (x86/mod.rs 572); or in that a comparison with a NaN finds it equal and   *)
(* less (508).                                                              *)
WrongAsListed ==
  [][\A c \in program :
       /\ Twin(c) # c /\ Runs(c) /\ Trusted(Twin(c)) => M!Executes(Twin(c))
       /\ c.op \in {"SubF", "DivF"} /\ c.push /\ "nearest" \in known /\ Runs(c)
            => Reverses(c)
       /\ c.op \in FloatCompares /\ c.push /\ "zero" \in known /\ Runs(c)
          /\ FloatOrder(Left, Right) = "unordered" => OrdersNaN(c)]_vars
=============================================================================
