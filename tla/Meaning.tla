------------------------------- MODULE Meaning -------------------------------
(***************************************************************************)
(* What MSC commands mean: a stack of words and variables.  The meaning of  *)
(* each opcode is the one src/jit/ast.rs gives it when it rebuilds          *)
(* expressions and assignments: the right operand is the one pushed last, a *)
(* command has a value when its push bit is set, and an assignment combines *)
(* a variable with the value pushed for it.                                 *)
(***************************************************************************)
EXTENDS Words, Msc

CONSTANTS
  Programs,   \* the sets of commands that a script is made of
  Variables   \* <<is_global, number>>

(* argc is the number of arguments, or the stack position of a cast.        *)
Instruction == [op : Opcodes, push : BOOLEAN, var : Variables, val : Word,
                argc : Nat]

VARIABLES
  program,  \* one of Programs
  stack,    \* the last element is the top
  memory,   \* variable -> word
  taken,    \* whether the last command was an If that left the falling path
  trapped   \* a division ended the process

vars == <<program, stack, memory, taken, trapped>>

VarsOf(commands) == {c.var : c \in {d \in commands : d.op \in VarCommands}}
-----------------------------------------------------------------------------
IntBinary == [AddI |-> "Add", SubI |-> "Sub", AndI |-> "BitAnd",
              OrI |-> "BitOr", XorI |-> "BitXor", ShiftL |-> "ShiftL",
              ShiftR |-> "ShiftR"]
FloatBinary == [AddF |-> "Add", SubF |-> "Sub", MultF |-> "Mult", DivF |-> "Div"]
IntCompare == [Equals |-> "Equal", NotEquals |-> "NotEqual",
               LessThan |-> "LessThan", LessOrEqual |-> "LessThanOrEqual",
               Greater |-> "GreaterThan", GreaterOrEqual |-> "GreaterThanOrEqual"]
IntAssign == [AddVarBy |-> "Add", SubVarBy |-> "Sub", AndVarBy |-> "BitAnd",
              OrVarBy |-> "BitOr", XorVarBy |-> "BitXor"]
FloatAssign == [AddVarByF |-> "Add", SubVarByF |-> "Sub",
                MultVarByF |-> "Mult", DivVarByF |-> "Div"]

(* The answers of a float comparison.  Nothing is ordered with a NaN: of    *)
(* such a pair only "not equal" holds.                                      *)
FloatAnswers ==
  [EqualsF      |-> {"equal"},   NotEqualsF      |-> {"less", "greater", "unordered"},
   LessThanF    |-> {"less"},    LessOrEqualF    |-> {"less", "equal"},
   GreaterF     |-> {"greater"}, GreaterOrEqualF |-> {"greater", "equal"}]

(* How many values a command needs on the stack.                            *)
Takes(c) ==
  CASE c.op \in {"MultI", "DivI", "ModI"} \cup DOMAIN IntBinary \cup FloatCompares
                   \cup DOMAIN FloatBinary \cup DOMAIN IntCompare -> 2
    [] c.op \in {"IntToFloat", "FloatToInt"} -> c.argc + 1
    [] c.op \in Foreign -> c.argc
    [] c.op \in {"PushVar", "IncI", "DecI", "IncF", "DecF"} \cup Immediates -> 0
    [] c.op = "Push" -> IF c.push THEN 1 ELSE 0
    [] c.op = "Pop"  -> IF c.push THEN 0 ELSE 1
    [] OTHER -> 1

Top      == stack[Len(stack)]
Under    == stack[Len(stack) - 1]
Below(n) == SubSeq(stack, 1, Len(stack) - n)

(* A command takes n values and has value v, or is an assignment of v.      *)
Yields(c, n, v)  == /\ stack' = IF c.push THEN Append(Below(n), v) ELSE Below(n)
                    /\ UNCHANGED memory
Assigns(c, n, v) == /\ memory' = [memory EXCEPT ![c.var] = v]
                    /\ stack' = Below(n)
-----------------------------------------------------------------------------
Pushes(c) ==
  \/ c.op \in Immediates /\ Yields(c, 0, c.val)
  \/ c.op = "PushVar" /\ Yields(c, 0, memory[c.var])
  \/ c.op = "Push" /\ Yields(c, 0, Top)
  \/ /\ c.op = "Pop"
     /\ stack' = IF c.push THEN stack ELSE Below(1)
     /\ UNCHANGED memory

Computes(c) ==
  \/ /\ c.op \in DOMAIN IntBinary
     /\ Yields(c, 2, IntOp(IntBinary[c.op], Under, Top))
  \/ c.op = "MultI" /\ Yields(c, 2, ProductLow(Under, Top))
  \/ /\ c.op \in DOMAIN IntCompare
     /\ Yields(c, 2, Truth(IntHolds(IntCompare[c.op], Under, Top)))
  \/ /\ c.op \in DOMAIN FloatBinary
     /\ Yields(c, 2, FloatOp(FloatBinary[c.op], Under, Top, "nearest"))
  \/ /\ c.op \in FloatCompares
     /\ Yields(c, 2, Truth(FloatOrder(Under, Top) \in FloatAnswers[c.op]))
  \/ c.op = "NegI" /\ Yields(c, 1, Wrap(-Top))
  \/ c.op = "NotI" /\ Yields(c, 1, Complement(Top))
  \/ c.op = "NegF" /\ Yields(c, 1, FloatOp("Negate", Top, Top, "nearest"))
  \/ c.op = "Not"  /\ Yields(c, 1, Truth(Top = 0))

(* A cast replaces the value at its stack position, whatever its push bit.  *)
Casts(c) ==
  LET p == Len(stack) - c.argc
      Becomes(v) == stack' = [stack EXCEPT ![p] = v] /\ UNCHANGED memory
  IN \/ /\ c.op = "IntToFloat"
        /\ Becomes(FloatOp("ToFloat", stack[p], stack[p], "nearest"))
     \/ /\ c.op = "FloatToInt"
        /\ Becomes(FloatOp("ToInt", stack[p], stack[p], "truncate"))

AssignsVar(c) ==
  LET old == memory[c.var]
  IN \/ c.op \in {"SetVar", "VarSetF"} /\ Assigns(c, 1, Top)
     \/ c.op = "IncI" /\ Assigns(c, 0, IntOp("Add", old, 1))
     \/ c.op = "DecI" /\ Assigns(c, 0, IntOp("Sub", old, 1))
     \/ c.op = "IncF" /\ Assigns(c, 0, FloatOp("Add", old, One, "nearest"))
     \/ c.op = "DecF" /\ Assigns(c, 0, FloatOp("Sub", old, One, "nearest"))
     \/ /\ c.op \in DOMAIN IntAssign
        /\ Assigns(c, 1, IntOp(IntAssign[c.op], old, Top))
     \/ c.op = "MultVarBy" /\ Assigns(c, 1, ProductLow(old, Top))
     \/ /\ c.op \in DOMAIN FloatAssign
        /\ Assigns(c, 1, FloatOp(FloatAssign[c.op], old, Top, "nearest"))

(* What a system call answers is not the script's business.                 *)
CallsOut(c) ==
  /\ c.op \in Foreign
  /\ \E v \in Word : Yields([c EXCEPT !.push = c.push /\ c.op = "Sys"], c.argc, v)

(* Signed division, or the trap.  Without a value to give nothing is divided. *)
Divides(c) ==
  LET assigns == c.op \in {"DivVarBy", "ModVarBy"}
      yields  == c.op \in {"DivI", "ModI"}
      left    == Signed(IF assigns THEN memory[c.var] ELSE Under)
      value   == IF c.op \in {"DivI", "DivVarBy"} THEN Quotient(left, Top)
                                                  ELSE Remainder(left, Top)
  IN \/ /\ assigns \/ (yields /\ c.push)
        /\ ~Divisible(left, Top)
        /\ trapped' = TRUE /\ UNCHANGED <<stack, memory>>
     \/ /\ UNCHANGED trapped
        /\ \/ assigns /\ Divisible(left, Top) /\ Assigns(c, 1, value)
           \/ yields /\ c.push /\ Divisible(left, Top) /\ Yields(c, 2, value)
           \/ yields /\ ~c.push /\ Yields(c, 2, 0)

Branches(c) ==
  /\ c.op \in Ifs
  /\ taken' = ((c.op = "If") = (Top = 0))
  /\ stack' = Below(1) /\ UNCHANGED <<memory, trapped>>

(* One command of a process that still runs.                                *)
Executes(c) ==
  /\ ~trapped /\ Len(stack) >= Takes(c)
  /\ \/ /\ \/ Pushes(c) \/ Computes(c) \/ Casts(c) \/ AssignsVar(c) \/ CallsOut(c)
        /\ taken' = FALSE /\ UNCHANGED trapped
     \/ Divides(c) /\ taken' = FALSE
     \/ Branches(c)

Init ==
  /\ program \in Programs
  /\ stack = <<>> /\ taken = FALSE /\ trapped = FALSE
  /\ memory \in [VarsOf(program) -> Word]

Next == \E c \in program : Executes(c) /\ UNCHANGED program

Spec == Init /\ [][Next]_vars
=============================================================================
