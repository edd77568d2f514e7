-------------------------------- MODULE MCAst --------------------------------
(***************************************************************************)
(* Instances of Ast for TLC: every script of Begin and at most MaxLength     *)
(* commands of an alphabet with each kind of node, or at most MaxExpression  *)
(* of the commands that make nested expressions; a script without commands   *)
(* and one without Begin.                                                   *)
(***************************************************************************)
EXTENDS Ast

CONSTANTS MaxLength, MaxExpression

C(op, push, argc) == [op |-> op, push |-> push, argc |-> argc]

Alphabet ==
  {C("PushInt", TRUE, 0), C("PushInt", FALSE, 0), C("PushVar", TRUE, 0),
   C("SubI", TRUE, 0), C("AddF", FALSE, 0), C("NegF", TRUE, 0),
   C("IntToFloat", TRUE, 0), C("FloatToInt", TRUE, 1), C("SetVar", TRUE, 0), C("IncF", TRUE, 0),
   C("Return6", TRUE, 0), C("PrintF", FALSE, 2), C("PrintF", FALSE, 0), C("Sys", TRUE, 1),
   C("Jump", FALSE, 0), C("Nop", FALSE, 0)}
AllScripts == UNION {[1 .. n -> Alphabet] : n \in 0 .. MaxLength}

(* Expressions: two operators of two operands need five commands.           *)
Expressive ==
  {C("PushInt", TRUE, 0), C("SubF", TRUE, 0), C("Not", TRUE, 0),
   C("AddVarBy", TRUE, 0), C("DecI", TRUE, 0)}
LongScripts == UNION {[1 .. n -> Expressive] : n \in 0 .. MaxExpression}

Begin == C("Begin", FALSE, 0)
BothScripts == {<<Begin>> \o s : s \in AllScripts \cup LongScripts}
                 \cup {<<>>, <<C("PushInt", TRUE, 0), C("SetVar", TRUE, 0)>>}
=============================================================================
