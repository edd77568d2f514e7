-------------------------------- MODULE Msc --------------------------------
(***************************************************************************)
(* The MotionScript (MSC) files the JIT compiles, as src/jit/x86/mod.rs     *)
(* sees them through the msc crate: a file is a list of scripts and an      *)
(* entry point, a script is an optional Begin command followed by           *)
(* commands, and a command carries its opcode, its push bit and operands.   *)
(*                                                                         *)
(* Every command has every operand field; a field its opcode has not is 0.  *)
(***************************************************************************)
EXTENDS Integers, Sequences

(* Opcodes, grouped by the match arm of compile() that handles them.        *)
Unsupported    == {"Unk1", "ErrorC", "Error37", "Error4C"}
Jumps          == {"Jump", "Jump5", "Else"}
Ifs            == {"If", "IfNot"}
Calls          == {"CallFunc", "CallFunc2", "CallFunc3"}
Immediates     == {"PushInt", "PushShort"}
FloatCompares  == {"EqualsF", "NotEqualsF", "LessThanF", "LessOrEqualF",
                   "GreaterF", "GreaterOrEqualF"}
Returns        == {"Return6", "Return7", "Return8", "Return9", "End"}
VarCommands    == {"PushVar", "SetVar", "VarSetF", "IncI", "DecI", "IncF",
                   "DecF", "AddVarBy", "SubVarBy", "AndVarBy", "OrVarBy",
                   "XorVarBy", "MultVarBy", "DivVarBy", "ModVarBy",
                   "AddVarByF", "SubVarByF", "MultVarByF", "DivVarByF"}
Operators      == {"MultI", "DivI", "ModI", "AddI", "SubI", "ShiftL",
                   "ShiftR", "AndI", "OrI", "XorI", "Equals", "NotEquals",
                   "LessThan", "LessOrEqual", "Greater", "GreaterOrEqual",
                   "NegI", "NotI", "NegF", "Not", "AddF", "SubF", "MultF",
                   "DivF", "IntToFloat", "FloatToInt"}
Foreign        == {"Sys", "PrintF"}

Opcodes ==
  Unsupported \cup Jumps \cup Ifs \cup Calls \cup Immediates
    \cup FloatCompares \cup Returns \cup VarCommands \cup Operators
    \cup Foreign \cup {"Begin", "Push", "Pop", "Try", "Exit", "Nop"}

(* pos is cmd.position, relative to the start of its script; loc is the     *)
(* absolute location a Jump, If or Try names; val is the pushed constant.   *)
Command == [op : Opcodes, push : BOOLEAN, pos : Nat, loc : Nat,
            argc : Nat, val : Nat]

(* cmds are the commands after Begin (iter().skip(1)); start is bounds.0.   *)
Script  == [begin : BOOLEAN, argc : Nat, varc : Nat, start : Nat,
            cmds : Seq(Command)]
File    == [scripts : Seq(Script), entry : Nat]

(* external: the msc crate's get_script_from_loc.  Its callers pass the     *)
(* start of a script, so a location names the script that starts there and  *)
(* any other location names none.                                           *)
ScriptsAt(file, loc) ==
  {k \in 1 .. Len(file.scripts) : file.scripts[k].start = loc}
=============================================================================
