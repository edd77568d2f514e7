--------------------------- MODULE CallConvention ---------------------------
(***************************************************************************)
(* One call between two compiled scripts: the code CompileCall emits for    *)
(* the caller, the prologue of the callee, its body as far as it moves the  *)
(* stack, and write_ret.  Arguments lie on the caller's evaluation stack,   *)
(* the first one deepest; the callee expects each in a local variable.      *)
(*                                                                         *)
(* Memory is addressed in dwords (4 bytes), relative to the stack pointer   *)
(* the caller had before it pushed the arguments: its own evaluation stack  *)
(* and frame are the addresses from 0 up.                                   *)
(***************************************************************************)
EXTENDS Integers

CONSTANTS
  Signatures,   \* <<arg_count, var_count>> of the callees
  Assigned,     \* the variables the body may assign
  Depth, Height \* dwords kept below and above address 0

Rounded(v) == v + ((4 - (v % 4)) % 4)

(* Begin declares the arguments among the variables.  From 22 arguments on, *)
(* ADD RSP, imm8 of their size would be sign-extended to a negative number. *)
(* From 13 on it takes a release build to compile the call at all: at i = 6  *)
(* the offset i * 8 - 0x30 of MoveStackArg overflows its u64.                *)
ASSUME SignaturesAssumption ==
  \A s \in Signatures : /\ s \in Nat \X Nat
                        /\ s[1] <= s[2] /\ s[1] <= 21
                        /\ Depth >= 2 * s[1] + 4 + Rounded(s[2])
ASSUME MemoryAssumption == Depth \in Nat /\ Height \in Nat /\ Assigned \subseteq Nat

VARIABLES
  arg_count, var_count,   \* of the callee
  pc,                     \* the code that runs
  i,                      \* index of the emission loop it comes from
  rsp, rbp,
  regs,                   \* ARG_REGS, from 0
  stack                   \* address -> dword

vars == <<arg_count, var_count, pc, i, rsp, rbp, regs, stack>>
-----------------------------------------------------------------------------
Addresses == -Depth .. Height

(* A dword remembers the value it is a half of (0 low, 1 high).             *)
Kinds == {"arg", "return", "rbp", "local", "caller"}
Dword == [kind : Kinds, n : Int, half : {0, 1}]
D(kind, n, half) == [kind |-> kind, n |-> n, half |-> half]

(* The caller's RBP, somewhere above.                                       *)
CallerRbp == Height

(* Argument k, pushed after k others, occupies the two dwords from here.    *)
Slot(k) == -2 * (k + 1)

(* The memory after a qword was stored.                                     *)
Store(a, kind, n) ==
  [stack EXCEPT ![a] = D(kind, n, 0), ![a + 1] = D(kind, n, 1)]

InRegs  == IF arg_count < 6 THEN arg_count ELSE 6
OnStack == arg_count - InRegs

(* An 8-bit immediate is sign-extended.                                     *)
Imm8(b) == IF b < 128 THEN b ELSE b - 256
StackArgs == Imm8(OnStack * 8) \div 4

(* The register the (j+1)-th POP fills.                                     *)
MutPopped(j) == j
Popped(j) == InRegs - (j + 1)

(* Where the j-th MOV of a stack argument reads and writes, from RSP.       *)
ReadAt(j)  == 2 * j - 12
MutWriteAt(j) == 2 * (OnStack - j)
WriteAt(j) == 2 * (OnStack - (j + 1))

MutFrame == (var_count \div 4) * 4
Frame == Rounded(var_count)

(* The dwords the caller removes after the call.                            *)
MutDropped == 2 * arg_count
Dropped == StackArgs

Goto(label) == pc' = label /\ i' = 0
Unmoved == UNCHANGED <<arg_count, var_count>>
-----------------------------------------------------------------------------
Init ==
  /\ \E s \in Signatures : arg_count = s[1] /\ var_count = s[2]
  /\ pc = "skip" /\ i = 0
  /\ rsp = -2 * arg_count /\ rbp = CallerRbp
  /\ regs = [r \in 0 .. 5 |-> <<>>]
  /\ stack = [a \in Addresses |->
                IF a \in Slot(arg_count - 1) .. -1
                THEN D("arg", (-a - 1) \div 2, a % 2)
                ELSE D("caller", a, 0)]

(* if arg_count > 6 { ADD RSP, (arg_count - 6) * 8 }                        *)
SkipStackArgs ==
  /\ pc = "skip"
  /\ rsp' = rsp + StackArgs
  /\ Goto("pop")
  /\ Unmoved /\ UNCHANGED <<rbp, regs, stack>>

PopRegister ==
  /\ pc = "pop" /\ i < InRegs
  /\ regs' = [regs EXCEPT ![Popped(i)] = <<stack[rsp], stack[rsp + 1]>>]
  /\ rsp' = rsp + 2
  /\ i' = i + 1
  /\ Unmoved /\ UNCHANGED <<pc, rbp, stack>>

(* if arg_count > 6 { SUB RSP, (arg_count - 6) * 8 }                        *)
ReserveStackArgs ==
  /\ pc = "pop" /\ i = InRegs
  /\ rsp' = rsp - StackArgs
  /\ Goto("reverse")
  /\ Unmoved /\ UNCHANGED <<rbp, regs, stack>>

(* MOV RAX, [RSP + 8i - 0x30]; MOV [RSP + (arg_count - 6 - (i + 1)) * 8], RAX *)
MoveStackArg ==
  /\ pc = "reverse" /\ i < OnStack
  /\ LET from == rsp + ReadAt(i)
         to   == rsp + WriteAt(i)
     IN stack' = [stack EXCEPT ![to] = stack[from], ![to + 1] = stack[from + 1]]
  /\ i' = i + 1
  /\ Unmoved /\ UNCHANGED <<pc, rsp, rbp, regs>>

(* CALL RAX, then setup_stack_frame of the callee.                          *)
Call ==
  /\ pc = "reverse" /\ i = OnStack
  /\ stack' = Store(rsp - 2, "return", 0)
  /\ rsp' = rsp - 2
  /\ Goto("frame")
  /\ Unmoved /\ UNCHANGED <<rbp, regs>>

SetupFrame ==
  /\ pc = "frame"
  /\ stack' = Store(rsp - 2, "rbp", rbp)
  /\ rsp' = rsp - 2 - Frame
  /\ rbp' = rsp'
  /\ Goto("load_regs")
  /\ Unmoved /\ UNCHANGED regs

(* MOV dword [RBP + 4i], the low half of a register.                        *)
LoadRegister ==
  /\ pc = "load_regs" /\ i < InRegs
  /\ stack' = [stack EXCEPT ![rbp + i] = regs[i][1]]
  /\ i' = i + 1
  /\ Unmoved /\ UNCHANGED <<pc, rsp, rbp, regs>>

RegistersLoaded ==
  /\ pc = "load_regs" /\ i = InRegs
  /\ Goto("load_stack")
  /\ Unmoved /\ UNCHANGED <<rsp, rbp, regs, stack>>

(* MOV EAX, [RSP + 8i + 16 + 4 * frame]; MOV dword [RBP + 4(i + 6)], EAX    *)
LoadStackArg ==
  /\ pc = "load_stack" /\ i < OnStack
  /\ stack' = [stack EXCEPT ![rbp + i + 6] = stack[rsp + 2 * i + 4 + Frame]]
  /\ i' = i + 1
  /\ Unmoved /\ UNCHANGED <<pc, rsp, rbp, regs>>

EnterBody ==
  /\ pc = "load_stack" /\ i = OnStack
  /\ Goto("body")
  /\ Unmoved /\ UNCHANGED <<rsp, rbp, regs, stack>>
-----------------------------------------------------------------------------
(* The body: its commands push and pop the evaluation stack below the frame *)
(* and assign local variables.  A command pops only what was pushed.        *)
PushValue ==
  /\ pc = "body" /\ rsp - 2 >= -Depth
  /\ stack' = Store(rsp - 2, "local", 0)
  /\ rsp' = rsp - 2
  /\ Unmoved /\ UNCHANGED <<pc, i, rbp, regs>>

PopValue ==
  /\ pc = "body" /\ rsp < rbp
  /\ rsp' = rsp + 2
  /\ Unmoved /\ UNCHANGED <<pc, i, rbp, regs, stack>>

SetVar ==
  /\ pc = "body"
  /\ \E v \in Assigned \cap 0 .. var_count - 1 :
       stack' = [stack EXCEPT ![rbp + v] = D("local", 0, 0)]
  /\ Unmoved /\ UNCHANGED <<pc, i, rsp, rbp, regs>>

(* write_ret: MOV RSP, RBP; ADD RSP, frame; POP RBP; RET.                   *)
Return ==
  /\ pc = "body"
  /\ rbp' = stack[rbp + Frame].n
  /\ rsp' = rbp + Frame + 4
  /\ Goto(IF stack[rbp + Frame + 2] = D("return", 0, 0) THEN "drop" ELSE "lost")
  /\ Unmoved /\ UNCHANGED <<regs, stack>>

(* if arg_count > 6 { ADD RSP, (arg_count - 6) * 8 }                        *)
DropStackArgs ==
  /\ pc = "drop"
  /\ rsp' = rsp + Dropped
  /\ Goto("done")
  /\ Unmoved /\ UNCHANGED <<rbp, regs, stack>>

Caller == SkipStackArgs \/ PopRegister \/ ReserveStackArgs \/ MoveStackArg
            \/ Call \/ DropStackArgs
Callee == SetupFrame \/ LoadRegister \/ RegistersLoaded \/ LoadStackArg
            \/ EnterBody \/ PushValue \/ PopValue \/ SetVar \/ Return
Returned == pc \in {"done", "lost"} /\ UNCHANGED vars

Next == Caller \/ Callee \/ Returned

Spec == Init /\ [][Next]_vars
-----------------------------------------------------------------------------
(* Properties.                                                             *)

Labels == {"skip", "pop", "reverse", "frame", "load_regs", "load_stack",
           "body", "drop", "done", "lost"}
TypeOK ==
  /\ <<arg_count, var_count>> \in Signatures
  /\ pc \in Labels /\ i \in 0 .. 21
  /\ rsp \in Addresses /\ rbp \in Addresses
  /\ regs \in [0 .. 5 -> {<<>>} \cup (Dword \X Dword)]
  /\ stack \in [Addresses -> Dword]

Entering == pc = "load_stack" /\ pc' = "body"

(* When the body of a script of up to 13 arguments starts, every argument   *)
(* is in its own variable, through six registers, a reversal of the others  *)
(* in place on the stack, and two sets of moves that must agree on every    *)
(* offset (13 in a release build).                                          *)
ArgumentsArrive ==
  [][Entering /\ arg_count <= 13 =>
       \A k \in 0 .. arg_count - 1 : stack[rbp + k] = D("arg", k, 0)]_vars

(* The reversal reads, in its second half, words its first half wrote: from *)
(* 14 arguments on, those between the sixth and the middle are lost and a   *)
(* later argument arrives in their variable instead (in a release build).   *)
Arriving(k) == IF k < 6 \/ 2 * k >= arg_count - 1 THEN k ELSE arg_count - 1 - k
ReversalArrives ==
  [][Entering =>
       \A k \in 0 .. arg_count - 1 :
         stack[rbp + k] = D("arg", Arriving(k), 0)]_vars

(* The saved RBP and the return address are above the variables whatever    *)
(* arguments the prologue stores and whatever the body assigns and pushes.  *)
FrameIntact ==
  pc \in {"load_regs", "load_stack", "body"} =>
    /\ stack[rbp + Frame] = D("rbp", CallerRbp, 0)
    /\ stack[rbp + Frame + 2] = D("return", 0, 0)

(* A call returns to its caller with the arguments gone from the stack, and *)
(* neither side ever wrote into what the caller had below them.             *)
CallIsNeutral ==
  /\ pc # "lost"
  /\ pc = "done" => rsp = 0 /\ rbp = CallerRbp
  /\ \A a \in 0 .. Height : stack[a] = D("caller", a, 0)
=============================================================================
