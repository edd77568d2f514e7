------------------------------ MODULE CallStack ------------------------------
(***************************************************************************)
(* The machine stack while compiled scripts call each other, system calls   *)
(* and printf: RSP, RBP, R15, RAX and the argument registers, in qwords.    *)
(* The body of a script is any sequence of commands.  Arguments travel in   *)
(* registers; CallConvention has the calls with more than six.  A variable   *)
(* that is no argument holds Junk until it is assigned; in the code it is     *)
(* whatever earlier activations left in its cell, since no prologue clears   *)
(* the frame: what is said here of variables is said of assigned ones.       *)
(***************************************************************************)
EXTENDS Integers, Sequences, FiniteSets, Ranks

CONSTANTS
  Scripts, Entry, Signature, Values, Junk, ForeignArgs,
  MaxActivations, MaxEval   \* bounds

VARIABLES
  mem,    \* the stack, RSP is its end; qword i is at the address -8 * i
  rbp, r15,
  rax,    \* what is being returned, else Junk: nothing else is read from it
  args,   \* what is being passed, in order, else <<>>
  foreign,  \* the foreign call under way: its arguments, whether it has a value
  script, pc

vars == <<mem, rbp, r15, rax, args, foreign, script, pc>>

ASSUME ScriptsAssumption ==
  /\ Entry \in Scripts
  /\ Signature \in [Scripts -> {s \in [argc : 0 .. 6, varc : Nat, value : BOOLEAN] :
                                 s.argc <= s.varc}]
  /\ Signature[Entry].argc = 0
(* ADD RSP, 8 * arg_count after a foreign call has an 8-bit immediate, which *)
(* is sign-extended: from 16 arguments on RSP moves the wrong way.          *)
ASSUME ForeignAssumption == ForeignArgs \subseteq 0 .. 15

(* "word" qwords hold a value, "locals" two variables, "ret" and "cret" the  *)
(* return address of a script and of a foreign function.                    *)
Word(v)        == [is |-> "word", val |-> v]
(* MUTANT: RBP is set before it is pushed.                                  *)
MutSavedRbp(b) == [is |-> "rbp", base |-> Len(mem) + 1]
SavedRbp(b)    == [is |-> "rbp", base |-> b]
SavedR15(r)    == [is |-> "r15", reg |-> r]
Pad            == [is |-> "pad"]
Locals(a, b)   == [is |-> "locals", val |-> <<a, b>>]
ReturnTo(s, k) == [is |-> "ret", to |-> s, kept |-> k]
NotForeign     == [argc |-> 0, keep |-> FALSE]
ForeignReturn  == [is |-> "cret"]

(* external: the host calls the entry script with its own RBP and R15 and,  *)
(* as the C convention demands, with RSP on a multiple of 16.               *)
HostRbp == 0
HostR15 == 7
Host    == "host"
ASSUME HostAssumption == Host \notin Scripts

Rsp           == Len(mem)
Popped(n)     == SubSeq(mem, 1, Rsp - n)
-----------------------------------------------------------------------------
(* num_vars is rounded up to a multiple of 4; two variables make a qword.   *)
Frame(s) == 2 * ((Signature[s].varc + 3) \div 4)

(* Variable i is at [RBP + 4 * i].                                          *)
MutCellOf(i)  == rbp - ((i + 1) \div 2)   \* MUTANT: rounded up
CellOf(i)     == rbp - (i \div 2)
Variable(i)   == mem[CellOf(i)].val[(i % 2) + 1]
SetVariable(m, i, v) == [m EXCEPT ![CellOf(i)].val[(i % 2) + 1] = v]

(* setup_stack_frame and the stores of the prologue.                        *)
Enter ==
  LET s == script
      Arg(i) == IF i < Signature[s].argc THEN args[i + 1] ELSE Junk
      n == Frame(s)
  IN /\ pc = "enter"
     /\ mem' = mem \o <<SavedRbp(rbp)>>
                   \o [k \in 1 .. n |-> Locals(Arg(2 * (n - k)), Arg(2 * (n - k) + 1))]
     /\ rbp' = Rsp + 1 + n
     /\ args' = <<>> /\ pc' = "body"
     /\ UNCHANGED <<r15, rax, foreign, script>>

(* The evaluation stack of the running script.                              *)
Evaluated == Rsp - rbp

PushValue(v) ==
  /\ mem' = Append(mem, Word(v)) /\ UNCHANGED <<rbp, r15, rax, args, foreign, script, pc>>
PopValue ==
  /\ Evaluated > 0
  /\ mem' = Popped(1) /\ UNCHANGED <<rbp, r15, rax, args, foreign, script, pc>>
SetVar(i) ==
  /\ Evaluated > 0
  /\ mem' = SetVariable(Popped(1), i, mem[Rsp].val)
  /\ UNCHANGED <<rbp, r15, rax, args, foreign, script, pc>>
PushVar(i) ==
  /\ mem' = Append(mem, Word(Variable(i)))
  /\ UNCHANGED <<rbp, r15, rax, args, foreign, script, pc>>

Works ==
  /\ pc = "body"
  /\ \/ \E v \in Values : PushValue(v)
     \/ PopValue
     \/ \E i \in 0 .. Signature[script].varc - 1 : SetVar(i) \/ PushVar(i)

(* The pops into the argument registers, and CALL RAX.                      *)
CallFunc(f, keep) ==
  LET n == Signature[f].argc
  IN /\ pc = "body" /\ Evaluated >= n /\ (keep => Signature[f].value)
     /\ args' = [i \in 1 .. n |-> mem[Rsp - n + i].val]
     /\ mem' = Append(Popped(n), ReturnTo(script, keep))
     /\ script' = f /\ pc' = "enter"
     /\ UNCHANGED <<rbp, r15, rax, foreign>>

SavedBase(at) == mem[at].base

(* MOV RSP, RBP; ADD RSP, frame; POP RBP; RET.                              *)
WriteRet(value) ==
  LET base == rbp - Frame(script)
      ret  == mem[base - 1]
  IN /\ rax' = IF ret.kept \/ ret.to = Host THEN value ELSE Junk
     /\ mem' = SubSeq(mem, 1, base - 2)
     /\ rbp' = SavedBase(base)
     /\ script' = ret.to
     /\ pc' = IF ret.to = Host THEN "done" ELSE IF ret.kept THEN "keep" ELSE "body"
     /\ UNCHANGED <<r15, args, foreign>>

(* Return6 and Return8 pop a value for the caller; the others leave RAX     *)
(* alone, and no caller of such a script keeps anything.                    *)
ReturnValue ==
  pc = "body" /\ Signature[script].value /\ Evaluated > 0 /\ WriteRet(mem[Rsp].val)
ReturnVoid ==
  pc = "body" /\ ~Signature[script].value /\ WriteRet(Junk)

(* PUSH RAX at a location that a Try with its push bit names.               *)
KeepValue ==
  /\ pc = "keep" /\ pc' = "body"
  /\ mem' = Append(mem, Word(rax)) /\ rax' = Junk
  /\ UNCHANGED <<rbp, r15, args, foreign, script>>

(* PUSH R15; MOV R15, RSP; AND R15, 8; SUB RSP, R15; CALL.                  *)
MutSkew(depth)     == 0       \* MUTANT: the stack pointer is not aligned
MutSkewMask(depth) == depth   \* MUTANT: the AND is missing
Skew(depth) == depth % 2
CallForeign(n, keep) ==
  LET skew == Skew(Rsp + 1)
  IN /\ pc = "body" /\ Evaluated >= n
     /\ mem' = mem \o <<SavedR15(r15)>> \o [i \in 1 .. skew |-> Pad] \o <<ForeignReturn>>
     /\ r15' = skew
     /\ foreign' = [argc |-> n, keep |-> keep] /\ pc' = "foreign"
     /\ UNCHANGED <<rbp, rax, args, script>>

(* MUTANT: R15 is not popped.                                               *)
MutForeignReturns ==
  /\ pc = "foreign"
  /\ \E v \in Values :
       mem' = SubSeq(mem, 1, Rsp - 1 - r15 - foreign.argc)
                \o (IF foreign.keep THEN <<Word(v)>> ELSE <<>>)
  /\ foreign' = NotForeign /\ pc' = "body"
  /\ UNCHANGED <<rbp, r15, rax, args, script>>

(* The function returns with any RAX; ADD RSP, R15; POP R15; ADD RSP, 8 *    *)
(* arg_count; PUSH RAX.                                                     *)
ForeignReturns ==
  /\ pc = "foreign"
  /\ LET saved == Rsp - 1 - r15
     IN /\ r15' = mem[saved].reg
        /\ \E v \in Values :
             mem' = SubSeq(mem, 1, saved - 1 - foreign.argc)
                      \o (IF foreign.keep THEN <<Word(v)>> ELSE <<>>)
  /\ foreign' = NotForeign /\ pc' = "body"
  /\ UNCHANGED <<rbp, rax, args, script>>

Finished == pc = "done" /\ UNCHANGED vars
-----------------------------------------------------------------------------
Init ==
  /\ mem = <<ReturnTo(Host, FALSE)>>
  /\ rbp = HostRbp /\ r15 = HostR15 /\ rax = Junk /\ args = <<>>
  /\ foreign = NotForeign
  /\ script = Entry /\ pc = "enter"

Returns == {i \in 1 .. Rsp : mem[i].is = "ret"}

Next ==
  \/ Enter \/ KeepValue \/ ForeignReturns \/ ReturnValue \/ ReturnVoid \/ Finished
  \/ Works /\ Len(mem') - rbp <= MaxEval
  \/ \E f \in Scripts, keep \in BOOLEAN :
       /\ Cardinality(Returns) < MaxActivations
       /\ keep => Evaluated - Signature[f].argc < MaxEval
       /\ CallFunc(f, keep)
  \/ \E n \in ForeignArgs, keep \in BOOLEAN :
       (keep => Evaluated - n < MaxEval) /\ CallForeign(n, keep)

Spec == Init /\ [][Next]_vars
-----------------------------------------------------------------------------
(* What the frame that ends at r holds: the variables of s, and its values    *)
(* up to top.                                                               *)
VariablesAt(m, r, s) ==
  [i \in 0 .. Signature[s].varc - 1 |-> m[r - (i \div 2)].val[(i % 2) + 1]]
ValuesOn(m, r, top) == [q \in 1 .. top - r |-> m[r + q].val]

(* The activations the stack holds: each begins at a return address, and all  *)
(* but the last end below the next.  The one being entered has its arguments *)
(* still in registers, the one that calls out has its values below the saved *)
(* R15, and the one that receives a value still has it in RAX.               *)
Depth    == Cardinality(Returns)
Start(k) == Nth(Returns, k)

Waiting(m, i, j) ==
  LET s == m[j].to
      r == i + 1 + Frame(s)
  IN [script |-> s, kept |-> m[i].kept,
      vals |-> ValuesOn(m, r, j - 1), locals |-> VariablesAt(m, r, s)]

Arguments == [i \in 0 .. Signature[script].varc - 1 |->
                IF i < Signature[script].argc THEN args[i + 1] ELSE Junk]
Active(i) ==
  LET r   == i + 1 + Frame(script)
      top == IF pc = "foreign" THEN Rsp - 2 - r15 ELSE Rsp
  IN [script |-> script, kept |-> mem[i].kept,
      vals |-> IF pc = "keep" THEN Append(ValuesOn(mem, r, top), rax)
                              ELSE ValuesOn(mem, r, top),
      locals |-> IF pc = "enter" THEN Arguments ELSE VariablesAt(mem, r, script)]

Acts == [k \in 1 .. Depth |-> IF k < Depth THEN Waiting(mem, Start(k), Start(k + 1))
                                           ELSE Active(Start(k))]

(* Scripts that call each other on one machine stack behave as activations  *)
(* that share nothing but arguments and results.                            *)
Abstract == INSTANCE Activations WITH acts <- Acts
Implements == Abstract!Spec

TypeOK ==
  /\ rbp \in 0 .. Rsp /\ r15 \in {0, 1, HostR15}
  /\ pc \in {"enter", "body", "foreign", "keep", "done"}
  /\ script \in Scripts \cup {Host}
  /\ \A i \in 1 .. Rsp :
       mem[i].is \in {"word", "rbp", "r15", "pad", "locals", "ret", "cret"}

(* A foreign function is entered with RSP on a multiple of 16, however deep  *)
(* the calls and however many values the scripts have pushed.               *)
ForeignAligned == pc = "foreign" => (Rsp - 1) % 2 = 0

(* Every saved RBP is the frame of the caller, down to the host's; what lies *)
(* above a frame are the values of its activation.                          *)
FramesLinked ==
  \A i \in 1 .. Rsp : mem[i].is = "rbp" =>
    /\ mem[i - 1].is = "ret"
    /\ IF mem[i - 1].to = Host THEN mem[i].base = HostRbp
       ELSE /\ mem[mem[i].base - Frame(mem[i - 1].to)].is = "rbp"
            /\ \A j \in mem[i].base + 1 .. i - 2 : mem[j].is = "word"

(* The host gets back its stack, its RBP and its R15.                       *)
HostRestored == pc = "done" => mem = <<>> /\ rbp = HostRbp /\ r15 = HostR15
=============================================================================
