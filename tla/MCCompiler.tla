----------------------------- MODULE MCCompiler -----------------------------
(***************************************************************************)
(* Instances of Compiler for TLC.  SmallFiles holds every file whose main   *)
(* script has MaxBody commands of an alphabet that reaches every arm of     *)
(* compile(), followed by End; LongFiles holds the shapes MSC compilers     *)
(* write for nested calls, loops and conditional expressions.               *)
(***************************************************************************)
EXTENDS Compiler

CONSTANT MaxBody

MainStart   == 100
CalleeStart == 200
NoScript    == 300

Op(op, push, loc, argc, val) ==
  [op |-> op, push |-> push, pos |-> 0, loc |-> loc, argc |-> argc,
   val |-> val]
Plain(op) == Op(op, TRUE, 0, 0, 0)

(* Command i of a body lies six bytes after command i - 1.                  *)
Placed(body) == [i \in DOMAIN body |-> [body[i] EXCEPT !.pos = 6 * i]]
LocOf(i) == MainStart + 6 * i

MainScript(body) ==
  [begin |-> TRUE, argc |-> 0, varc |-> 2, start |-> MainStart,
   cmds |-> Placed(body)]
Callee ==
  [begin |-> TRUE, argc |-> 1, varc |-> 1, start |-> CalleeStart,
   cmds |-> Placed(<<Op("PushInt", TRUE, 0, 0, MainStart),
                     Op("CallFunc", FALSE, 0, 0, 0), Plain("Return6")>>)]
Bare == [begin |-> FALSE, argc |-> 0, varc |-> 0, start |-> 250,
         cmds |-> <<>>]

FileOf(body, entry) ==
  [scripts |-> <<MainScript(body), Callee, Bare>>, entry |-> entry]
-----------------------------------------------------------------------------
Targets == {LocOf(i) : i \in 1 .. MaxBody + 1}
Alphabet ==
  {Op("PushInt", b, 0, 0, CalleeStart) : b \in BOOLEAN}
    \cup {Op("PushShort", TRUE, 0, 0, NoScript)}
    \cup {Op("CallFunc", FALSE, 0, n, 0) : n \in {0, 7, 13}}
    \cup {Op("Jump", FALSE, l, 0, 0) : l \in Targets \cup {MainStart - 6}}
    \cup {Op("If", FALSE, l, 0, 0) : l \in Targets}
    \cup {Op("Try", TRUE, l, 0, 0) : l \in Targets}
    \cup {Op("PrintF", FALSE, 0, n, 0) : n \in {0, 1, 32}}
    \cup {Plain("PushVar"), Plain("Nop"), Plain("Unk1"), Plain("Begin")}

SmallFiles ==
  {FileOf(Append(b, Plain("End")), MainStart) :
     b \in {x \in [1 .. MaxBody -> Alphabet] :
            WellFormed(MainScript(Append(x, Plain("End"))))}}

Fn == Op("PushInt", TRUE, 0, 0, CalleeStart)
Call(n) == Op("CallFunc3", FALSE, 0, n, 0)
Keep(i) == Op("Try", TRUE, LocOf(i), 0, 0)
Drop(i) == Op("Try", FALSE, LocOf(i), 0, 0)

(* f(g(x)), kept; a loop with a call in its body; a call whose last         *)
(* argument is a conditional expression; seven arguments.                   *)
NestedCalls ==
  <<Keep(8), Keep(6), Plain("PushVar"), Fn, Call(1), Fn, Call(1),
    Plain("SetVar"), Plain("End")>>
LoopWithCall ==
  <<Plain("PushVar"), Op("IfNot", FALSE, LocOf(8), 0, 0), Drop(7),
    Plain("PushVar"), Fn, Call(1), Op("Jump5", FALSE, LocOf(1), 0, 0),
    Plain("End")>>
ConditionalArgument ==
  <<Keep(9), Plain("PushVar"), Op("If", FALSE, LocOf(6), 0, 0),
    Plain("PushVar"), Op("Else", FALSE, LocOf(7), 0, 0), Plain("PushVar"),
    Fn, Call(1), Plain("Return8")>>
SevenArguments == <<Keep(4), Fn, Call(7), Plain("SetVar"), Plain("Exit")>>
WrappedJump == <<Op("Jump", FALSE, MainStart - 6, 0, 0), Plain("End")>>
ManyArguments == <<Fn, Call(40), Op("Sys", FALSE, 0, 40, 0), Plain("End")>>
NotAFunction == <<Op("PushShort", TRUE, 0, 0, NoScript), Call(0), Plain("End")>>

LongFiles ==
  {FileOf(b, e) :
     b \in {NestedCalls, LoopWithCall, ConditionalArgument, SevenArguments,
            WrappedJump, ManyArguments, NotAFunction},
     e \in {MainStart, NoScript}}

AllFiles == SmallFiles \cup LongFiles

(* (c ? f : g)(): each branch pushes a function, the call follows both.     *)
FunctionByCondition ==
  <<Plain("PushVar"), Op("If", FALSE, LocOf(5), 0, 0), Fn,
    Op("Else", FALSE, LocOf(6), 0, 0), Op("PushInt", TRUE, 0, 0, MainStart),
    Op("CallFunc", FALSE, 0, 0, 0), Plain("End")>>
DynamicFiles == {FileOf(FunctionByCondition, MainStart)}

(* Lengths that differ from each other, so that a wrong one is seen.        *)
MCEncoded(kind, c) ==
  CASE kind = "prologue" -> 4
    [] kind = "test"     -> 5
    [] kind = "popargs"  -> 2 * c.argc + 1
    [] kind = "dropargs" -> 4
    [] OTHER             -> 3
=============================================================================
