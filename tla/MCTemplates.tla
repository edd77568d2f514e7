---------------------------- MODULE MCTemplates ----------------------------
(***************************************************************************)
(* Instances of Templates for TLC: small words, floats that are 0, 1, -1    *)
(* and not-a-number, and the commands of each run.                          *)
(***************************************************************************)
EXTENDS Templates, Bitwise

Local  == <<0, 0>>
Global == <<1, 0>>
Both   == {Local, Global}

MCIntOp(op, a, b) ==
  CASE op = "Add"    -> Wrap(a + b)
    [] op = "Sub"    -> Wrap(a - b)
    [] op = "BitAnd" -> a & b
    [] op = "BitOr"  -> a | b
    [] op = "BitXor" -> a ^^ b
    [] op = "ShiftL" -> Wrap(a * 2 ^ b)
    [] op = "ShiftR" -> a \div 2 ^ b

(* Half stands for NaN and for every value that is no float of the instance; *)
(* a sum that overflows is rounded to it, or towards zero.                  *)
NaN      == Half
Float(x) == Signed(x)
MCMinusOne == Modulus - 1
Rounded(v, m) ==
  IF v \in -1 .. 1 THEN Wrap(v)
  ELSE IF m = "nearest" THEN NaN ELSE Wrap(IF v < 0 THEN -1 ELSE 1)

MCFloatOp(op, a, b, m) ==
  IF a \notin {0, 1, MCMinusOne}
  THEN IF op = "ToFloat" THEN Rounded(Signed(a), m) ELSE NaN
  ELSE IF b \notin {0, 1, MCMinusOne} THEN NaN
  ELSE CASE op = "Add"    -> Rounded(Float(a) + Float(b), m)
         [] op = "Sub"    -> Rounded(Float(a) - Float(b), m)
         [] op = "Mult"   -> Wrap(Float(a) * Float(b))
         [] op = "Div"    -> IF b = 0 THEN NaN ELSE Wrap(Float(a) * Float(b))
         [] op = "Negate" -> Wrap(-Float(a))
         [] op \in {"ToFloat", "ToInt"} -> a

MCFloatOrder(a, b) ==
  IF {a, b} \subseteq {0, 1, MCMinusOne}
  THEN IF Float(a) < Float(b) THEN "less"
       ELSE IF a = b THEN "equal" ELSE "greater"
  ELSE "unordered"
-----------------------------------------------------------------------------
Op(op, push, var, val, argc) ==
  [op |-> op, push |-> push, var |-> var, val |-> val, argc |-> argc]
Some == Local

Plain(ops, pushes) == {Op(o, p, Some, 0, 0) : o \in ops, p \in pushes}
On(vs, ops)        == {Op(o, TRUE, v, 0, 0) : o \in ops, v \in vs}
Constants(vals)    == {Op("PushInt", TRUE, Some, v, 0) : v \in vals}
Answers            == Plain({"Sys"}, {TRUE})
Printf(n)          == {Op("PrintF", FALSE, Some, 0, n)}

(* Commands that are always right, with and without push bits: arithmetic,   *)
(* comparisons, floats.                                                     *)
FaithfulInts ==
  Constants({1, Half}) \cup Plain({"PushShort"}, {FALSE}) \cup Plain({"DivI"}, {FALSE})
    \cup Plain({"Pop", "NegI", "NotI", "MultI"} \cup DOMAIN BinaryOperation, BOOLEAN)
    \cup On({Global}, {"PushVar", "IncI", "MultVarBy"})

FaithfulCompares ==
  Constants({1, Half}) \cup Plain({"Push"} \cup DOMAIN Condition, BOOLEAN)
    \cup On({Global}, {"PushVar", "SetVar"} \cup DOMAIN AssignOperation)

FaithfulFloats ==
  Constants({0, 1, NaN}) \cup Plain({"Pop"}, {FALSE})
    \cup Plain({"AddF", "MultF"}, BOOLEAN) \cup Plain({"NegF"}, {TRUE})
    \cup Plain({"SubF", "DivF", "Not"}, {FALSE})
    \cup On(Both, {"PushVar", "VarSetF", "IncF", "DecF", "AddVarByF"})
    \cup {Op("IntToFloat", TRUE, Some, 0, n) : n \in {0, 1}}
    \cup Answers \cup Printf(0) \cup Printf(1)

Faithful == {FaithfulInts, FaithfulCompares, FaithfulFloats}
ASSUME FaithfulAssumption == \A p \in Faithful : \A c \in p : AlwaysRight(c)

(* Right and wrong commands: on integers, branches and system calls; on      *)
(* floats; divisions.                                                       *)
AllInts ==
  Constants({1, Half}) \cup Answers \cup Printf(1) \cup Plain({"Not"}, BOOLEAN)
    \cup Plain(Ifs, {FALSE}) \cup Plain({"Push", "Pop", "SubI", "LessThan"}, BOOLEAN)
    \cup Plain({"MultI"}, {TRUE}) \cup Plain({"NegI"}, BOOLEAN)
    \cup On({Local}, {"PushVar", "SetVar", "DecI", "MultVarBy", "DivVarBy", "ModVarBy"}
                      \cup DOMAIN AssignOperation)
    \cup {Op("PushVar", FALSE, Local, 0, 0)}

AllFloats ==
  Constants({0, 1, NaN}) \cup Answers \cup Plain({"Pop", "Not"}, {FALSE})
    \cup Plain({"AddF", "SubF", "DivF"}, {TRUE}) \cup Plain(FloatCompares, BOOLEAN)
    \cup Plain({"Equals", "FloatToInt", "IntToFloat"}, {TRUE})
    \cup Plain({"NegF"}, BOOLEAN)
    \cup On({Local}, {"VarSetF", "IncF", "DecF", "AddVarByF", "SubVarByF", "DivVarByF",
                      "MultVarByF"})

Divisions ==
  Constants({1, 2, 3}) \cup Plain({"DivI", "ModI"}, BOOLEAN)
    \cup On(Both, {"DivVarBy", "ModVarBy", "AddVarBy"}) \cup Plain({"MultI"}, {TRUE})

Mixed == {AllInts, AllFloats, Divisions}

(* One wrong command and what it needs.                                     *)
Decrement == {Constants({1}) \cup On({Local}, {"DecI"})}
=============================================================================
