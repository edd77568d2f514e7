--------------------------------- MODULE Ast ---------------------------------
(***************************************************************************)
(* src/jit/ast.rs: as_ast() rebuilds expressions and statements from the    *)
(* commands of a script.  It reads the commands backwards; take_node() takes *)
(* a command and, recursively, the nodes before it as its operands, the     *)
(* right one first.  No label or jump is understood: InterForm only wraps    *)
(* commands.  A node is named by its command, and the calls of take_node()   *)
(* that have not returned are the stack `waiting'.                          *)
(***************************************************************************)
EXTENDS Msc, SequencesExt

CONSTANTS
  Listings,         \* the commands of the scripts that may be shown
  OverflowChecks    \* TRUE in a debug build: arithmetic that overflows panics

ASSUME ListingsAssumption ==
  Listings \subseteq Seq([op : Opcodes, push : BOOLEAN, argc : Nat])
ASSUME BuildAssumption == OverflowChecks \in BOOLEAN

VARIABLES
  script,       \* the commands after Begin
  rest,         \* how many commands are not yet read
  waiting,      \* the commands whose nodes are being taken, the innermost last
  tree,         \* the node of each command taken: its type, its operands so far
  statements,   \* the nodes as_ast has, in the order of the script
  state

astVars == <<script, rest, waiting, tree, statements, state>>
-----------------------------------------------------------------------------
(* binop_cmd_type, unaryop_cmd_type, cmd_to_assignop.                       *)
FloatBinops == FloatCompares \cup {"AddF", "SubF", "MultF", "DivF"}
IntBinops == {"AddI", "SubI", "MultI", "DivI", "ModI", "AndI", "OrI", "XorI",
              "ShiftL", "ShiftR", "Equals", "NotEquals", "LessThan",
              "LessOrEqual", "Greater", "GreaterOrEqual"}
Binops      == IntBinops \cup FloatBinops
Unaryops    == {"Not", "NotI", "NegI", "NegF"}
Casts       == {"IntToFloat", "FloatToInt"}
Steppers    == {"IncI", "DecI", "IncF", "DecF"}
Assignments == VarCommands \ (Steppers \cup {"PushVar"})
FloatAssignments == {"IncF", "VarSetF", "AddVarByF", "SubVarByF", "MultVarByF",
                     "DivVarByF"}

IntOrFloat(isFloat) == IF isFloat THEN "Float" ELSE "Int"

(* The type that the operator of a node carries; cmd_to_assignop gives DecF  *)
(* the type of DecI.                                                        *)
OpType(op) ==
  CASE op \in Binops -> IntOrFloat(op \in FloatBinops)
    [] op \in Unaryops -> IntOrFloat(op = "NegF")
    [] op \in Steppers \cup Assignments -> IntOrFloat(op \in FloatAssignments)
    [] OTHER -> "None"

(* Commands whose value nobody wants and commands that are not understood.  *)
Skips(c) ==
  \/ c.op \in Immediates \cup Binops \cup Unaryops \cup {"PushVar"} /\ ~c.push
  \/ c.op \in {"Nop", "Begin", "Exit", "Push", "Pop", "Try"} \cup Unsupported
               \cup Calls \cup Ifs

(* Jumps, casts of anything but the top, and, in a build with overflow       *)
(* checks, the u8 arg_count - 1 of a printf without arguments.              *)
Panics(c) ==
  \/ c.op \in Jumps
  \/ c.op \in Casts /\ c.argc # 0      \* of a cast argc is the stack position
  \/ OverflowChecks /\ c.op = "PrintF" /\ c.argc = 0

(* Without the checks arg_count - 1 is 255: so many values and the string.   *)
Operands(c) ==
  CASE c.op \in Binops -> 2
    [] c.op \in Unaryops \cup Casts \cup Assignments \cup {"Return6", "Return8"} -> 1
    [] c.op = "PrintF" /\ c.argc = 0 -> 256
    [] c.op = "Sys" \/ (c.op = "PrintF" /\ c.argc # 0) -> c.argc
    [] OTHER -> 0

(* What operand i of a command is suspected to be: it decides how a pushed   *)
(* constant is shown.  The first of a printf is the number of its string.   *)
Suspected(c, i) ==
  CASE c.op \in Binops \cup Unaryops -> OpType(c.op)
    [] c.op \in Casts -> IntOrFloat(c.op = "FloatToInt")
    [] c.op = "Sys" -> "Float"
    [] c.op = "PrintF" -> IntOrFloat(i > 1)
    [] OTHER -> "None"

NodeType(c, suspect) ==
  CASE c.op = "PushInt" -> IF suspect = "None" THEN "Int" ELSE suspect
    [] c.op = "PushShort" -> "Int"
    [] OTHER -> OpType(c.op)

(* The operands are taken from the right and stand in order.                *)
MutPlaced(right, lefts) == Append(right, lefts)   \* MUTANT: they stay reversed
Placed(right, left) == <<left>> \o right

MutPrevious(k) == IF k > 1 THEN k - 2 ELSE 0   \* MUTANT: one command too far
Previous(k) == k - 1
-----------------------------------------------------------------------------
(* as_ast() drops the Begin; it panics on a script without commands and on    *)
(* one that begins with anything else.                                      *)
AstInit ==
  /\ \E s \in Listings :
       IF s # <<>> /\ Head(s).op = "Begin"
       THEN script = Tail(s) /\ state = "take"
       ELSE script = <<>> /\ state = "panic"
  /\ rest = Len(script)
  /\ waiting = <<>> /\ tree = <<>> /\ statements = <<>>

(* How many operands the node of command k lacks, and what the next command  *)
(* read is suspected to be.                                                 *)
Wants(k) == Operands(script[k]) - Len(tree[k].args)
Suspect ==
  IF waiting = <<>> THEN "None" ELSE Suspected(script[Last(waiting)], Wants(Last(waiting)))

(* The head of take_node()'s loop: as_ast() or a node wants another one.     *)
Wanted == state = "take" /\ (waiting # <<>> => Wants(Last(waiting)) > 0)
Here == script[rest]

Skip ==
  /\ Wanted /\ rest > 0 /\ Skips(Here)
  /\ rest' = Previous(rest) /\ UNCHANGED <<script, waiting, tree, statements, state>>

Panic ==
  /\ Wanted /\ rest > 0 /\ ~Skips(Here) /\ Panics(Here)
  /\ state' = "panic" /\ UNCHANGED <<script, rest, waiting, tree, statements>>

Take ==
  /\ Wanted /\ rest > 0 /\ ~Skips(Here) /\ ~Panics(Here)
  /\ waiting' = Append(waiting, rest)
  /\ tree' = [k \in DOMAIN tree \cup {rest} |->
                IF k = rest THEN [type |-> NodeType(Here, Suspect), args |-> <<>>] ELSE tree[k]]
  /\ rest' = Previous(rest) /\ UNCHANGED <<script, statements, state>>

(* take_node() returns Some(node), to its caller or to as_ast().            *)
MutRemaining == IF Len(waiting) = 1 THEN Last(waiting) ELSE rest   \* MUTANT: from a clone
Remaining == rest
Give ==
  /\ state = "take" /\ waiting # <<>> /\ Wants(Last(waiting)) = 0
  /\ waiting' = Front(waiting)
  /\ IF Len(waiting) = 1
     THEN statements' = <<Last(waiting)>> \o statements /\ UNCHANGED tree
     ELSE /\ tree' = [tree EXCEPT ![Last(waiting')].args = Placed(@, Last(waiting))]
          /\ UNCHANGED statements
  /\ rest' = Remaining /\ UNCHANGED <<script, state>>

(* It returns None, and so do all that wait: as_ast() cannot tell the start   *)
(* of the script from a missing operand.                                    *)
End ==
  /\ Wanted /\ rest <= 0
  /\ state' = "done" /\ UNCHANGED <<script, rest, waiting, tree, statements>>

Finished == state # "take" /\ UNCHANGED astVars

AstNext == Skip \/ Panic \/ Take \/ Give \/ End \/ Finished

AstSpec == AstInit /\ [][AstNext]_astVars
-----------------------------------------------------------------------------
(* What the evaluation stack does with the commands that as_ast does not      *)
(* skip: which commands' values lie on it after the first k.  That is what    *)
(* the script does if it skips only Nops and constants that are not pushed.  *)
(* A printf without arguments, which the compiled code leaves out, takes      *)
(* here the 256 values that as_ast asks for in a build without checks.       *)
IsValue(c) == c.op \in Immediates \cup Binops \cup Unaryops \cup Casts \cup {"PushVar"}
                        \/ (c.op = "Sys" /\ c.push)
Executed(c, k, values) ==
  IF Skips(c) THEN values
  ELSE SubSeq(values, 1, Len(values) - Operands(c)) \o (IF IsValue(c) THEN <<k>> ELSE <<>>)
Values(s) ==
  LET after[k \in 0 .. Len(s)] == IF k = 0 THEN <<>> ELSE Executed(s[k], k, after[k - 1])
  IN  after

(* How many values lie below the operands of command k when it is executed.  *)
Below(s, k) == Len(Values(s)[k - 1]) - Operands(s[k])

(* Scripts that never take what was not pushed; whose statements leave nothing *)
(* on the stack.                                                            *)
NeverShort(s) == \A k \in DOMAIN s : ~Skips(s[k]) => Below(s, k) >= 0
Unmixed(s)    == \A k \in DOMAIN s : ~Skips(s[k]) /\ ~IsValue(s[k]) => Below(s, k) = 0
-----------------------------------------------------------------------------
Increasing(s) == \A i, j \in DOMAIN s : i < j => s[i] < s[j]
Owns(p, c)    == c \in Range(tree[p].args)
Roots         == Range(waiting) \cup Range(statements)

(* What has been read is in the tree, every command in one place and in the   *)
(* order of the script, whatever the script: between an operand and its      *)
(* command lies nothing that does not belong to the command.                *)
LosesNothing ==
  /\ DOMAIN tree = {k \in rest + 1 .. Len(script) : ~Skips(script[k])}
  /\ Roots \cup UNION {Range(tree[p].args) : p \in DOMAIN tree} = DOMAIN tree
  /\ Increasing(Reverse(waiting) \o statements)
  /\ \A p \in DOMAIN tree : Increasing(Append(tree[p].args, p))
  /\ \A p, c \in DOMAIN tree : Owns(p, c) =>
       /\ \A r \in Roots : ~(c <= r /\ r < p)
       /\ \A q, d \in DOMAIN tree : Owns(q, d) /\ c <= d /\ d < p => q <= p

(* A script whose statements leave nothing on the stack is read as the stack *)
(* machine executes it without what is skipped: the operands of a node are    *)
(* the commands whose values its command takes.                             *)
OperandsOfTheStack ==
  state = "done" /\ NeverShort(script) /\ Unmixed(script) =>
    \A k \in DOMAIN tree :
      tree[k].args = SubSeq(Values(script)[k - 1], Below(script, k) + 1,
                            Len(Values(script)[k - 1]))

(* The beginning of a script is dropped, with the nodes that wait for it,     *)
(* only if a command of it takes a value that was never pushed.              *)
CutOnlyAtUnderflow ==
  state = "done" /\ NeverShort(script) => waiting = <<>>

(* Every step reads a command or returns from a call, or is the last, so     *)
(* as_ast() ends.                                                           *)
ReadsOn ==
  [][state' = "take" =>
       rest' < rest \/ (rest' = rest /\ Len(waiting') < Len(waiting))]_astVars
=============================================================================
