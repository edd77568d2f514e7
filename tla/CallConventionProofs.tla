------------------------ MODULE CallConventionProofs ------------------------
(***************************************************************************)
(* Proofs about CallConvention: for every argument and variable count the   *)
(* model admits, which argument arrives in which variable, and that a call  *)
(* leaves its caller's stack as it was.                                     *)
(***************************************************************************)
EXTENDS CallConvention, TLAPS

(* The argument in position q once the first t words have been moved.       *)
Held(q, t) == IF q < t /\ 2 * q < arg_count - 1 THEN arg_count - 1 - q ELSE q
Args(t)  == \A q \in 0 .. arg_count - 1 : stack[Slot(q)] = D("arg", Held(q, t), 0)
ArgsLeft ==
  \A q \in 0 .. OnStack - 1 : stack[Slot(q)] = D("arg", Held(q, OnStack), 0)
Popping(from) ==
  \A k \in from .. InRegs - 1 : /\ regs[k] \in Dword \X Dword
                                /\ regs[k][1] = D("arg", k, 0)
Loaded(t) == \A k \in 0 .. t - 1 : stack[rbp + k] = D("arg", Arriving(k), 0)

CallerIntact == \A a \in 0 .. Height : stack[a] = D("caller", a, 0)
InFrame ==
  /\ rbp = -2 * OnStack - 4 - Frame
  /\ stack[rbp + Frame] = D("rbp", CallerRbp, 0)
  /\ stack[rbp + Frame + 2] = D("return", 0, 0)

(* Where the stack pointer is and what has been moved, at each label.       *)
AtSkip    == i = 0 /\ rsp = -2 * arg_count /\ rbp = CallerRbp /\ Args(0)
AtPop     == /\ i \in 0 .. InRegs /\ rsp = 2 * i - 2 * InRegs
             /\ rbp = CallerRbp /\ Args(0) /\ Popping(InRegs - i)
AtReverse == /\ i \in 0 .. OnStack /\ rsp = -2 * OnStack
             /\ rbp = CallerRbp /\ Args(i) /\ Popping(0)
AtFrame   == /\ rsp = -2 * OnStack - 2 /\ stack[rsp] = D("return", 0, 0)
             /\ rbp = CallerRbp /\ ArgsLeft /\ Popping(0)
AtRegs    == /\ i \in 0 .. InRegs /\ rsp = rbp /\ InFrame
             /\ ArgsLeft /\ Popping(0) /\ Loaded(i)
AtStack   == /\ i \in 0 .. OnStack /\ rsp = rbp /\ InFrame
             /\ ArgsLeft /\ Loaded(InRegs + i)
AtBody    == InFrame /\ \E d \in 0 .. Depth : rsp = rbp - 2 * d
AtDrop    == rsp = -2 * OnStack /\ rbp = CallerRbp
AtDone    == rsp = 0 /\ rbp = CallerRbp

IInv ==
  /\ TypeOK /\ CallerIntact /\ pc # "lost"
  /\ pc = "skip" => AtSkip
  /\ pc = "pop" => AtPop
  /\ pc = "reverse" => AtReverse
  /\ pc = "frame" => AtFrame
  /\ pc = "load_regs" => AtRegs
  /\ pc = "load_stack" => AtStack
  /\ pc = "body" => AtBody
  /\ pc = "drop" => AtDrop
  /\ pc = "done" => AtDone
-----------------------------------------------------------------------------
(* Sizes.                                                                  *)

LEMMA RoundedUp ==
  ASSUME NEW v \in Nat
  PROVE  Rounded(v) \in Nat /\ v <= Rounded(v)
<1>1. v % 4 \in 0 .. 3  OBVIOUS
<1>2. (4 - (v % 4)) % 4 \in 0 .. 3  BY <1>1
<1>3. QED  BY <1>2 DEF Rounded

(* Up to 21 arguments the immediate is not negative, so the stack pointer   *)
(* moves by the two dwords of each argument beyond the sixth.               *)
LEMMA Sizes ==
  ASSUME TypeOK
  PROVE  /\ arg_count \in 0 .. 21 /\ var_count \in Nat
         /\ arg_count <= var_count
         /\ InRegs \in 0 .. 6 /\ OnStack \in 0 .. 15
         /\ arg_count = InRegs + OnStack /\ (OnStack > 0 => InRegs = 6)
         /\ StackArgs = 2 * OnStack
         /\ Frame \in Nat /\ var_count <= Frame
         /\ Depth \in Nat /\ Height \in Nat
         /\ Depth >= 2 * arg_count + 4 + Frame
<1>1. PICK s \in Signatures : arg_count = s[1] /\ var_count = s[2]
  BY DEF TypeOK
<1>2. /\ arg_count \in Nat /\ var_count \in Nat /\ arg_count <= var_count
      /\ arg_count <= 21
      /\ Depth >= 2 * arg_count + 4 + Frame
  BY <1>1, SignaturesAssumption DEF Frame
<1>3. Frame \in Nat /\ var_count <= Frame
  BY <1>2, RoundedUp DEF Frame
<1>4. /\ InRegs \in 0 .. 6 /\ OnStack \in 0 .. 15
      /\ arg_count = InRegs + OnStack /\ (OnStack > 0 => InRegs = 6)
  BY <1>2 DEF InRegs, OnStack
<1>5. StackArgs = 2 * OnStack
  <2>1. Imm8(OnStack * 8) = OnStack * 8  BY <1>4 DEF Imm8
  <2>2. (OnStack * 8) \div 4 = 2 * OnStack  BY <1>4
  <2>3. QED  BY <2>1, <2>2 DEF StackArgs
<1>6. QED  BY <1>2, <1>3, <1>4, <1>5, MemoryAssumption

(* Nothing that the counts determine changes.                               *)
LEMMA Constant ==
  ASSUME Unmoved
  PROVE  /\ arg_count' = arg_count /\ InRegs' = InRegs /\ OnStack' = OnStack
         /\ Frame' = Frame /\ StackArgs' = StackArgs
         /\ \A q, t : Held(q, t)' = Held(q, t)
         /\ \A k : Arriving(k)' = Arriving(k)
BY DEF Unmoved, InRegs, OnStack, Frame, StackArgs, Imm8, Held, Arriving

(* A store leaves every other dword alone.                                  *)
LEMMA StoreTwo ==
  ASSUME TypeOK, NEW a \in Addresses, a + 1 \in Addresses,
         NEW v \in Dword, NEW w \in Dword,
         stack' = [stack EXCEPT ![a] = v, ![a + 1] = w]
  PROVE  /\ stack' \in [Addresses -> Dword]
         /\ stack'[a] = v /\ stack'[a + 1] = w
         /\ \A b \in Addresses : b # a /\ b # a + 1 => stack'[b] = stack[b]
<1>1. stack \in [Addresses -> Dword] /\ Depth \in Int /\ Height \in Int
  BY MemoryAssumption DEF TypeOK
<1>2. a \in Int /\ a # a + 1  BY <1>1 DEF Addresses
<1>3. QED  BY <1>1, <1>2

LEMMA StoreOne ==
  ASSUME TypeOK, NEW a \in Addresses, NEW v \in Dword,
         stack' = [stack EXCEPT ![a] = v]
  PROVE  /\ stack' \in [Addresses -> Dword] /\ stack'[a] = v
         /\ \A b \in Addresses : b # a => stack'[b] = stack[b]
BY DEF TypeOK

LEMMA DwordsAreTyped ==
  ASSUME NEW kind \in Kinds, NEW n \in Int, NEW half \in {0, 1}
  PROVE  D(kind, n, half) \in Dword
BY DEF D, Dword
-----------------------------------------------------------------------------
(* The caller's steps.                                                     *)

LEMMA SkipStep == ASSUME IInv, SkipStackArgs PROVE IInv'
<1>1. TypeOK /\ CallerIntact /\ AtSkip  BY DEF IInv, SkipStackArgs
<1>2. /\ pc' = "pop" /\ i' = 0 /\ rsp' = rsp + StackArgs /\ Unmoved
      /\ rbp' = rbp /\ regs' = regs /\ stack' = stack
  BY DEF SkipStackArgs, Goto
<1>3. /\ arg_count' = arg_count /\ InRegs' = InRegs /\ OnStack' = OnStack
      /\ \A q, t : Held(q, t)' = Held(q, t)
  BY <1>2, Constant
<1>4. rsp' = -2 * InRegs  BY <1>1, <1>2, Sizes DEF AtSkip
<1>5. TypeOK'
  <2>1. rsp' \in Addresses  BY <1>1, <1>4, Sizes DEF Addresses
  <2>2. QED  BY <1>1, <1>2, <2>1 DEF TypeOK, Unmoved, Labels
<1>6. AtPop'
  <2>1. Popping(InRegs - 0)'  BY <1>2, <1>3, Sizes, <1>1 DEF Popping
  <2>2. Args(0)'  BY <1>1, <1>2, <1>3 DEF AtSkip, Args, Held
  <2>3. QED  BY <1>1, <1>2, <1>3, <1>4, <2>1, <2>2, Sizes
             DEF AtPop, AtSkip, CallerRbp
<1>7. CallerIntact'  BY <1>1, <1>2 DEF CallerIntact
<1>8. QED  BY <1>2, <1>5, <1>6, <1>7 DEF IInv

LEMMA PopStep == ASSUME IInv, PopRegister PROVE IInv'
<1>1. TypeOK /\ CallerIntact /\ AtPop  BY DEF IInv, PopRegister
<1>2. /\ pc = "pop" /\ pc' = "pop" /\ i < InRegs /\ i' = i + 1
      /\ rsp' = rsp + 2 /\ Unmoved /\ rbp' = rbp /\ stack' = stack
      /\ regs' = [regs EXCEPT ![Popped(i)] = <<stack[rsp], stack[rsp + 1]>>]
  BY DEF PopRegister
<1>3. /\ arg_count' = arg_count /\ InRegs' = InRegs /\ OnStack' = OnStack
      /\ \A q, t : Held(q, t)' = Held(q, t)
  BY <1>2, Constant
<1>4. /\ i \in 0 .. 5 /\ Popped(i) = InRegs - 1 - i /\ Popped(i) \in 0 .. 5
      /\ rsp = Slot(Popped(i)) /\ Popped(i) \in 0 .. arg_count - 1
      /\ rsp' = 2 * i' - 2 * InRegs /\ i' \in 0 .. InRegs
  <2>1. /\ i \in 0 .. InRegs /\ rsp = 2 * i - 2 * InRegs /\ InRegs \in 0 .. 6
        /\ InRegs <= arg_count /\ arg_count \in Nat
    BY <1>1, Sizes DEF AtPop
  <2>2. i \in 0 .. 5  BY <1>2, <2>1
  <2>3. Popped(i) = InRegs - 1 - i  BY <2>1, <2>2 DEF Popped
  <2>4. Popped(i) \in 0 .. 5 /\ Popped(i) \in 0 .. arg_count - 1
    BY <1>2, <2>1, <2>2, <2>3
  <2>5. rsp = Slot(Popped(i))  BY <2>1, <2>2, <2>3 DEF Slot
  <2>6. rsp' = 2 * i' - 2 * InRegs /\ i' \in 0 .. InRegs
    BY <1>2, <2>1, <2>2
  <2>7. QED  BY <2>2, <2>3, <2>4, <2>5, <2>6
<1>5. rsp \in Addresses /\ rsp + 1 \in Addresses /\ rsp' \in Addresses
  <2>1. rsp = -2 * (Popped(i) + 1) /\ rsp' = rsp + 2
    BY <1>2, <1>4 DEF Slot
  <2>2. /\ Depth \in Nat /\ Height \in Nat /\ arg_count \in Nat
        /\ Depth >= 2 * arg_count
    BY <1>1, Sizes
  <2>3. Popped(i) + 1 \in 1 .. arg_count  BY <1>4, <2>2
  <2>4. -Depth <= rsp /\ rsp + 2 <= Height /\ rsp \in Int
    BY <2>1, <2>2, <2>3
  <2>5. QED  BY <2>1, <2>2, <2>4 DEF Addresses
<1>6. /\ stack[rsp] = D("arg", Popped(i), 0)
      /\ <<stack[rsp], stack[rsp + 1]>> \in Dword \X Dword
  <2>1. Held(Popped(i), 0) = Popped(i)  BY <1>4 DEF Held
  <2>2. QED  BY <1>1, <1>4, <1>5, <2>1 DEF AtPop, Args, TypeOK
<1>7. regs \in [0 .. 5 -> {<<>>} \cup (Dword \X Dword)]  BY <1>1 DEF TypeOK
<1>8. TypeOK'
  <2>1. regs' \in [0 .. 5 -> {<<>>} \cup (Dword \X Dword)]
    BY <1>2, <1>4, <1>6, <1>7
  <2>2. i' \in 0 .. 21  BY <1>2, <1>4
  <2>3. QED  BY <1>1, <1>2, <1>5, <2>1, <2>2 DEF TypeOK, Unmoved
<1>9. Popping(InRegs - i)  BY <1>1 DEF AtPop
<1>10. Popping(InRegs - i)'
  <2>1. SUFFICES ASSUME NEW k \in InRegs - i' .. InRegs - 1
                 PROVE  regs'[k] \in Dword \X Dword
                        /\ regs'[k][1] = D("arg", k, 0)
    BY <1>3 DEF Popping
  <2>2. k \in 0 .. 5  BY <1>1, <1>4, Sizes
  <2>3. CASE k = Popped(i)
    BY <1>2, <1>4, <1>6, <1>7, <2>3
  <2>4. CASE k # Popped(i)
    <3>1. k \in InRegs - i .. InRegs - 1  BY <1>1, <1>2, <1>4, <2>4, Sizes
    <3>2. regs'[k] = regs[k]  BY <1>2, <1>7, <2>2, <2>4
    <3>3. QED  BY <1>9, <3>1, <3>2 DEF Popping
  <2>5. QED  BY <2>3, <2>4
<1>11. AtPop'
  <2>1. Args(0)'  BY <1>1, <1>2, <1>3 DEF AtPop, Args
  <2>2. QED  BY <1>1, <1>2, <1>3, <1>4, <1>10, <2>1 DEF AtPop, CallerRbp
<1>12. CallerIntact'  BY <1>1, <1>2 DEF CallerIntact
<1>13. QED  BY <1>2, <1>8, <1>11, <1>12 DEF IInv

LEMMA ReserveStep == ASSUME IInv, ReserveStackArgs PROVE IInv'
<1>1. TypeOK /\ CallerIntact /\ AtPop /\ i = InRegs
  BY DEF IInv, ReserveStackArgs
<1>2. /\ pc' = "reverse" /\ i' = 0 /\ rsp' = rsp - StackArgs /\ Unmoved
      /\ rbp' = rbp /\ regs' = regs /\ stack' = stack
  BY DEF ReserveStackArgs, Goto
<1>3. /\ arg_count' = arg_count /\ InRegs' = InRegs /\ OnStack' = OnStack
      /\ \A q, t : Held(q, t)' = Held(q, t)
  BY <1>2, Constant
<1>4. rsp' = -2 * OnStack  BY <1>1, <1>2, Sizes DEF AtPop
<1>5. TypeOK'
  <2>1. rsp' \in Addresses  BY <1>1, <1>4, Sizes DEF Addresses
  <2>2. QED  BY <1>1, <1>2, <2>1 DEF TypeOK, Unmoved, Labels
<1>6. AtReverse'
  <2>1. Popping(0)'
    <3>1. InRegs - i = 0  BY <1>1, Sizes
    <3>2. QED  BY <1>1, <1>2, <1>3, <3>1 DEF AtPop, Popping
  <2>2. Args(0)'  BY <1>1, <1>2, <1>3 DEF AtPop, Args
  <2>3. QED  BY <1>1, <1>2, <1>3, <1>4, <2>1, <2>2, Sizes
             DEF AtReverse, AtPop, CallerRbp
<1>7. CallerIntact'  BY <1>1, <1>2 DEF CallerIntact
<1>8. QED  BY <1>2, <1>5, <1>6, <1>7 DEF IInv

(* Move j takes the word of position arg_count - 1 - j to position j: in    *)
(* the second half that word is one an earlier move has written.            *)
LEMMA MoveStep == ASSUME IInv, MoveStackArg PROVE IInv'
<1>1. TypeOK /\ CallerIntact /\ AtReverse  BY DEF IInv, MoveStackArg
<1>2. /\ pc = "reverse" /\ pc' = "reverse" /\ i < OnStack /\ i' = i + 1
      /\ Unmoved /\ rsp' = rsp /\ rbp' = rbp /\ regs' = regs
      /\ stack' = [stack EXCEPT ![rsp + WriteAt(i)] = stack[rsp + ReadAt(i)],
                     ![rsp + WriteAt(i) + 1] = stack[rsp + ReadAt(i) + 1]]
  BY DEF MoveStackArg
<1>3. /\ arg_count' = arg_count /\ InRegs' = InRegs /\ OnStack' = OnStack
      /\ \A q, t : Held(q, t)' = Held(q, t)
  BY <1>2, Constant
<1> DEFINE source == arg_count - 1 - i
<1>4. /\ i \in 0 .. OnStack - 1 /\ i \in 0 .. arg_count - 1
      /\ source \in 0 .. arg_count - 1
      /\ rsp + WriteAt(i) = Slot(i) /\ rsp + ReadAt(i) = Slot(source)
  BY <1>1, <1>2, Sizes DEF AtReverse, WriteAt, ReadAt, Slot
<1>5. \A q \in 0 .. arg_count - 1 :
        Slot(q) \in Addresses /\ Slot(q) + 1 \in Addresses /\ Slot(q) + 1 < 0
  BY <1>1, Sizes DEF Slot, Addresses
<1>6. stack[Slot(source)] \in Dword /\ stack[Slot(source) + 1] \in Dword
  BY <1>1, <1>4, <1>5 DEF TypeOK
<1>7. /\ stack' \in [Addresses -> Dword]
      /\ stack'[Slot(i)] = stack[Slot(source)]
      /\ \A b \in Addresses :
           b # Slot(i) /\ b # Slot(i) + 1 => stack'[b] = stack[b]
  <2>1. stack' = [stack EXCEPT ![Slot(i)] = stack[Slot(source)],
                               ![Slot(i) + 1] = stack[Slot(source) + 1]]
    BY <1>2, <1>4
  <2>2. Slot(i) \in Addresses /\ Slot(i) + 1 \in Addresses
    BY <1>4, <1>5
  <2>3. QED  BY <1>1, <1>6, <2>1, <2>2, StoreTwo
<1>8. Args(i)'
  <2>1. SUFFICES ASSUME NEW q \in 0 .. arg_count - 1
                 PROVE  stack'[Slot(q)] = D("arg", Held(q, i + 1), 0)
    BY <1>2, <1>3 DEF Args, Held
  <2>2. CASE q = i
    <3>1. Held(source, i) = Held(i, i + 1)
      BY <1>1, <1>4, Sizes DEF Held
    <3>2. stack[Slot(source)] = D("arg", Held(source, i), 0)
      BY <1>1, <1>4 DEF AtReverse, Args
    <3>3. QED  BY <1>7, <2>2, <3>1, <3>2
  <2>3. CASE q # i
    <3>1. Held(q, i) = Held(q, i + 1)  BY <1>4, <2>3 DEF Held
    <3>2. Slot(q) # Slot(i) /\ Slot(q) # Slot(i) + 1
      BY <1>1, <1>4, <2>3, Sizes DEF Slot
    <3>3. stack'[Slot(q)] = stack[Slot(q)]  BY <1>5, <1>7, <3>2
    <3>4. QED  BY <1>1, <3>1, <3>3 DEF AtReverse, Args
  <2>4. QED  BY <2>2, <2>3
<1>9. TypeOK'
  <2>1. i' \in 0 .. 21  BY <1>1, <1>2, <1>4, Sizes
  <2>2. QED  BY <1>1, <1>2, <1>7, <2>1 DEF TypeOK, Unmoved
<1>10. AtReverse'
  <2>1. i' \in 0 .. OnStack  BY <1>1, <1>2, <1>4, Sizes
  <2>2. Popping(0)'  BY <1>1, <1>2, <1>3 DEF AtReverse, Popping
  <2>3. QED  BY <1>1, <1>2, <1>3, <1>8, <2>1, <2>2
             DEF AtReverse, CallerRbp
<1>11. CallerIntact'
  <2>1. ASSUME NEW a \in 0 .. Height PROVE stack'[a] = stack[a]
    <3>1. a \in Addresses /\ a # Slot(i) /\ a # Slot(i) + 1
      BY <1>1, <1>4, <1>5, Sizes DEF Addresses
    <3>2. QED  BY <1>7, <3>1
  <2>2. QED  BY <1>1, <2>1 DEF CallerIntact
<1>12. QED  BY <1>2, <1>9, <1>10, <1>11 DEF IInv

LEMMA CallStep == ASSUME IInv, Call PROVE IInv'
<1>1. TypeOK /\ CallerIntact /\ AtReverse /\ i = OnStack  BY DEF IInv, Call
<1>2. /\ pc' = "frame" /\ i' = 0 /\ rsp' = rsp - 2 /\ Unmoved
      /\ rbp' = rbp /\ regs' = regs
      /\ stack' = [stack EXCEPT ![rsp - 2] = D("return", 0, 0),
                                ![rsp - 2 + 1] = D("return", 0, 1)]
  BY DEF Call, Goto, Store
<1>3. /\ arg_count' = arg_count /\ InRegs' = InRegs /\ OnStack' = OnStack
      /\ \A q, t : Held(q, t)' = Held(q, t)
  BY <1>2, Constant
<1>4. /\ rsp = -2 * OnStack /\ rsp - 2 \in Addresses
      /\ rsp - 2 + 1 \in Addresses
  BY <1>1, Sizes DEF AtReverse, Addresses
<1>5. D("return", 0, 0) \in Dword /\ D("return", 0, 1) \in Dword
  BY DwordsAreTyped DEF Kinds
<1>6. /\ stack' \in [Addresses -> Dword]
      /\ stack'[rsp - 2] = D("return", 0, 0)
      /\ \A b \in Addresses :
           b # rsp - 2 /\ b # rsp - 2 + 1 => stack'[b] = stack[b]
  BY <1>1, <1>2, <1>4, <1>5, StoreTwo
<1>7. TypeOK'
  BY <1>1, <1>2, <1>4, <1>6 DEF TypeOK, Unmoved, Labels
<1>8. ArgsLeft'
  <2>1. SUFFICES ASSUME NEW q \in 0 .. OnStack - 1
                 PROVE  stack'[Slot(q)] = D("arg", Held(q, OnStack), 0)
    BY <1>3 DEF ArgsLeft
  <2>2. /\ Slot(q) \in Addresses /\ Slot(q) # rsp - 2
        /\ Slot(q) # rsp - 2 + 1 /\ q \in 0 .. arg_count - 1
    BY <1>1, <1>4, Sizes DEF Slot, Addresses
  <2>3. QED  BY <1>1, <1>6, <2>2 DEF AtReverse, Args
<1>9. AtFrame'
  <2>1. Popping(0)'  BY <1>1, <1>2, <1>3 DEF AtReverse, Popping
  <2>2. rsp' = -2 * OnStack - 2  BY <1>2, <1>4
  <2>3. QED  BY <1>1, <1>2, <1>3, <1>6, <1>8, <2>1, <2>2
             DEF AtFrame, AtReverse, CallerRbp
<1>10. CallerIntact'
  <2>1. ASSUME NEW a \in 0 .. Height PROVE stack'[a] = stack[a]
    <3>1. a \in Addresses /\ a # rsp - 2 /\ a # rsp - 2 + 1
      BY <1>1, <1>4, Sizes DEF Addresses
    <3>2. QED  BY <1>6, <3>1
  <2>2. QED  BY <1>1, <2>1 DEF CallerIntact
<1>11. QED  BY <1>2, <1>7, <1>9, <1>10 DEF IInv
-----------------------------------------------------------------------------
(* The callee's steps.                                                     *)

LEMMA FrameStep == ASSUME IInv, SetupFrame PROVE IInv'
<1>1. TypeOK /\ CallerIntact /\ AtFrame  BY DEF IInv, SetupFrame
<1>2. /\ pc' = "load_regs" /\ i' = 0 /\ rsp' = rsp - 2 - Frame
      /\ rbp' = rsp' /\ Unmoved /\ regs' = regs
      /\ stack' = [stack EXCEPT ![rsp - 2] = D("rbp", rbp, 0),
                                ![rsp - 2 + 1] = D("rbp", rbp, 1)]
  BY DEF SetupFrame, Goto, Store
<1>3. /\ arg_count' = arg_count /\ InRegs' = InRegs /\ OnStack' = OnStack
      /\ Frame' = Frame /\ \A q, t : Held(q, t)' = Held(q, t)
  BY <1>2, Constant
<1>4. /\ rsp = -2 * OnStack - 2 /\ rsp - 2 \in Addresses
      /\ rsp - 2 + 1 \in Addresses /\ rsp \in Addresses
      /\ rsp' \in Addresses /\ rsp' = -2 * OnStack - 4 - Frame
  <2>1. rsp = -2 * OnStack - 2  BY <1>1 DEF AtFrame
  <2>2. /\ OnStack \in Nat /\ OnStack <= arg_count /\ arg_count \in Nat
        /\ Frame \in Nat /\ Depth \in Nat /\ Height \in Nat
        /\ Depth >= 2 * arg_count + 4 + Frame
    BY <1>1, Sizes
  <2>3. rsp' = -2 * OnStack - 4 - Frame  BY <1>2, <2>1, <2>2
  <2>4. QED  BY <2>1, <2>2, <2>3 DEF Addresses
<1>5. /\ D("rbp", rbp, 0) \in Dword /\ D("rbp", rbp, 1) \in Dword
      /\ rbp = CallerRbp
  <2>1. rbp = CallerRbp /\ rbp \in Int
    BY <1>1, MemoryAssumption DEF AtFrame, CallerRbp
  <2>2. QED  BY <2>1, DwordsAreTyped DEF Kinds
<1>6. /\ stack' \in [Addresses -> Dword]
      /\ stack'[rsp - 2] = D("rbp", CallerRbp, 0)
      /\ \A b \in Addresses :
           b # rsp - 2 /\ b # rsp - 2 + 1 => stack'[b] = stack[b]
  BY <1>1, <1>2, <1>4, <1>5, StoreTwo
<1>7. TypeOK'
  BY <1>1, <1>2, <1>4, <1>6 DEF TypeOK, Unmoved, Labels
<1>8. ArgsLeft'
  <2>1. SUFFICES ASSUME NEW q \in 0 .. OnStack - 1
                 PROVE  stack'[Slot(q)] = D("arg", Held(q, OnStack), 0)
    BY <1>3 DEF ArgsLeft
  <2>2. /\ Slot(q) \in Addresses /\ Slot(q) # rsp - 2 /\ Slot(q) # rsp - 2 + 1
    BY <1>1, <1>4, Sizes DEF Slot, Addresses
  <2>3. QED  BY <1>1, <1>6, <2>2 DEF AtFrame, ArgsLeft
<1>9. InFrame'
  <2>1. rbp' = -2 * OnStack - 4 - Frame  BY <1>2, <1>4
  <2>2. rbp' + Frame = rsp - 2 /\ rbp' + Frame + 2 = rsp
    BY <1>1, <1>4, <2>1, Sizes
  <2>3. stack'[rsp] = stack[rsp]  BY <1>4, <1>6 DEF Addresses
  <2>4. stack'[rbp' + Frame] = D("rbp", CallerRbp, 0)
        /\ stack'[rbp' + Frame + 2] = D("return", 0, 0)
    BY <1>1, <1>6, <2>2, <2>3 DEF AtFrame
  <2>5. QED  BY <1>3, <2>1, <2>4 DEF InFrame, CallerRbp
<1>10. AtRegs'
  <2>1. Popping(0)'  BY <1>1, <1>2, <1>3 DEF AtFrame, Popping
  <2>2. Loaded(0)'  BY DEF Loaded
  <2>3. i' \in 0 .. InRegs  BY <1>1, <1>2, Sizes
  <2>4. Loaded(i)'  BY <1>2, <2>2 DEF Loaded
  <2>5. QED  BY <1>2, <1>3, <1>8, <1>9, <2>1, <2>3, <2>4 DEF AtRegs
<1>11. CallerIntact'
  <2>1. ASSUME NEW a \in 0 .. Height PROVE stack'[a] = stack[a]
    <3>1. a \in Addresses /\ a # rsp - 2 /\ a # rsp - 2 + 1
      BY <1>1, <1>4, Sizes DEF Addresses
    <3>2. QED  BY <1>6, <3>1
  <2>2. QED  BY <1>1, <2>1 DEF CallerIntact
<1>12. QED  BY <1>2, <1>7, <1>10, <1>11 DEF IInv

(* A store into a variable leaves the saved registers, the arguments still  *)
(* on the stack and the caller's memory alone.                              *)
LEMMA StoreVariable ==
  ASSUME TypeOK, CallerIntact, InFrame, Unmoved, rbp' = rbp,
         NEW k \in 0 .. Frame - 1, NEW v \in Dword,
         stack' = [stack EXCEPT ![rbp + k] = v]
  PROVE  /\ stack' \in [Addresses -> Dword] /\ stack'[rbp + k] = v
         /\ \A j \in 0 .. Frame - 1 : j # k => stack'[rbp + j] = stack[rbp + j]
         /\ CallerIntact' /\ InFrame' /\ (ArgsLeft => ArgsLeft')
<1>1. /\ OnStack \in Nat /\ OnStack <= arg_count /\ arg_count \in Nat
      /\ Frame \in Nat /\ Depth \in Nat /\ Height \in Nat
      /\ Depth >= 2 * arg_count + 4 + Frame
  BY Sizes
<1>2. /\ OnStack' = OnStack /\ Frame' = Frame
      /\ \A q, t : Held(q, t)' = Held(q, t)
  BY Constant
<1>3. rbp = -2 * OnStack - 4 - Frame  BY DEF InFrame
<1>4. \A j \in 0 .. Frame + 3 : rbp + j \in Addresses /\ rbp + j < -2 * OnStack
  BY <1>1, <1>3 DEF Addresses
<1>5. rbp + k \in Addresses  BY <1>1, <1>4
<1>6. /\ stack' \in [Addresses -> Dword] /\ stack'[rbp + k] = v
      /\ \A b \in Addresses : b # rbp + k => stack'[b] = stack[b]
  BY <1>5, StoreOne
<1>7. ASSUME NEW j \in 0 .. Frame + 3, j # k
      PROVE  stack'[rbp + j] = stack[rbp + j]
  <2>1. rbp + j # rbp + k  BY <1>1, <1>3, <1>7
  <2>2. QED  BY <1>4, <1>6, <2>1
<1>8. InFrame'
  <2>1. Frame \in 0 .. Frame + 3 /\ Frame + 2 \in 0 .. Frame + 3
        /\ Frame # k /\ Frame + 2 # k /\ rbp + Frame + 2 = rbp + (Frame + 2)
    BY <1>1, <1>3
  <2>2. stack'[rbp + Frame] = stack[rbp + Frame]
        /\ stack'[rbp + Frame + 2] = stack[rbp + Frame + 2]
    BY <1>7, <2>1
  <2>3. QED  BY <1>2, <2>2 DEF InFrame, CallerRbp
<1>9. CallerIntact'
  <2>1. ASSUME NEW a \in 0 .. Height PROVE stack'[a] = stack[a]
    <3>1. rbp + k < 0  BY <1>1, <1>3
    <3>2. a \in Addresses /\ a # rbp + k  BY <1>1, <3>1 DEF Addresses
    <3>3. QED  BY <1>6, <3>2
  <2>2. QED  BY <2>1 DEF CallerIntact
<1>10. ASSUME ArgsLeft PROVE ArgsLeft'
  <2>1. ASSUME NEW q \in 0 .. OnStack - 1 PROVE stack'[Slot(q)] = stack[Slot(q)]
    <3>1. Slot(q) \in Addresses /\ Slot(q) # rbp + k
      BY <1>1, <1>3 DEF Slot, Addresses
    <3>2. QED  BY <1>6, <3>1
  <2>2. QED  BY <1>2, <1>10, <2>1 DEF ArgsLeft
<1>11. \A j \in 0 .. Frame - 1 : j # k => stack'[rbp + j] = stack[rbp + j]
  BY <1>1, <1>7
<1>12. QED  BY <1>6, <1>8, <1>9, <1>10, <1>11

LEMMA RegisterStep == ASSUME IInv, LoadRegister PROVE IInv'
<1>1. TypeOK /\ CallerIntact /\ AtRegs  BY DEF IInv, LoadRegister
<1>2. /\ pc = "load_regs" /\ pc' = "load_regs" /\ i < InRegs /\ i' = i + 1
      /\ stack' = [stack EXCEPT ![rbp + i] = regs[i][1]]
      /\ Unmoved /\ rsp' = rsp /\ rbp' = rbp /\ regs' = regs
  BY DEF LoadRegister
<1>3. /\ arg_count' = arg_count /\ InRegs' = InRegs
      /\ \A k : Arriving(k)' = Arriving(k)
  BY <1>2, Constant
<1>4. /\ i \in 0 .. InRegs - 1 /\ i \in 0 .. Frame - 1 /\ i < 6
      /\ i' \in 0 .. InRegs /\ i' \in 0 .. 21 /\ InRegs <= Frame
  <2>1. /\ InRegs \in 0 .. 6 /\ arg_count \in Nat /\ InRegs <= arg_count
        /\ arg_count <= var_count /\ var_count \in Nat /\ var_count <= Frame
        /\ Frame \in Nat /\ i \in 0 .. InRegs
    BY <1>1, Sizes DEF AtRegs
  <2>2. QED  BY <1>2, <2>1
<1>5. /\ regs[i] \in Dword \X Dword /\ regs[i][1] = D("arg", i, 0)
      /\ regs[i][1] \in Dword
  BY <1>1, <1>4 DEF AtRegs, Popping
<1>6. InFrame /\ ArgsLeft  BY <1>1 DEF AtRegs
<1>7. /\ stack' \in [Addresses -> Dword] /\ stack'[rbp + i] = regs[i][1]
      /\ \A j \in 0 .. Frame - 1 : j # i => stack'[rbp + j] = stack[rbp + j]
      /\ CallerIntact' /\ InFrame' /\ ArgsLeft'
  BY <1>1, <1>2, <1>4, <1>5, <1>6, StoreVariable
<1>8. Loaded(i)'
  <2>1. SUFFICES ASSUME NEW k \in 0 .. i
                 PROVE  stack'[rbp + k] = D("arg", Arriving(k), 0)
    BY <1>2, <1>3, <1>4 DEF Loaded
  <2>2. CASE k = i
    <3>1. Arriving(i) = i  BY <1>4 DEF Arriving
    <3>2. QED  BY <1>5, <1>7, <2>2, <3>1
  <2>3. CASE k # i
    <3>1. k \in 0 .. i - 1 /\ k \in 0 .. Frame - 1
      BY <1>1, <1>4, <2>3, Sizes
    <3>2. QED  BY <1>1, <1>7, <2>3, <3>1 DEF AtRegs, Loaded
  <2>4. QED  BY <2>2, <2>3
<1>9. TypeOK'  BY <1>1, <1>2, <1>4, <1>7 DEF TypeOK, Unmoved
<1>10. AtRegs'
  <2>1. Popping(0)'  BY <1>1, <1>2, <1>3 DEF AtRegs, Popping
  <2>2. QED  BY <1>1, <1>2, <1>3, <1>4, <1>7, <1>8, <2>1 DEF AtRegs
<1>11. QED  BY <1>2, <1>7, <1>9, <1>10 DEF IInv

LEMMA LoadedStep == ASSUME IInv, RegistersLoaded PROVE IInv'
<1>1. TypeOK /\ CallerIntact /\ AtRegs /\ i = InRegs
  BY DEF IInv, RegistersLoaded
<1>2. /\ pc' = "load_stack" /\ i' = 0 /\ Unmoved /\ rsp' = rsp /\ rbp' = rbp
      /\ regs' = regs /\ stack' = stack
  BY DEF RegistersLoaded, Goto
<1>3. /\ arg_count' = arg_count /\ InRegs' = InRegs /\ OnStack' = OnStack
      /\ Frame' = Frame /\ \A q, t : Held(q, t)' = Held(q, t)
      /\ \A k : Arriving(k)' = Arriving(k)
  BY <1>2, Constant
<1>4. TypeOK'  BY <1>1, <1>2 DEF TypeOK, Unmoved, Labels
<1>5. AtStack'
  <2>1. InFrame'  BY <1>1, <1>2, <1>3 DEF AtRegs, InFrame, CallerRbp
  <2>2. ArgsLeft'  BY <1>1, <1>2, <1>3 DEF AtRegs, ArgsLeft
  <2>3. InRegs + 0 = i /\ 0 \in 0 .. OnStack  BY <1>1, Sizes
  <2>4. Loaded(InRegs + i)'
    BY <1>1, <1>2, <1>3, <2>3 DEF AtRegs, Loaded
  <2>5. QED  BY <1>1, <1>2, <1>3, <2>1, <2>2, <2>3, <2>4 DEF AtRegs, AtStack
<1>6. CallerIntact'  BY <1>1, <1>2 DEF CallerIntact
<1>7. QED  BY <1>2, <1>4, <1>5, <1>6 DEF IInv

(* The prologue reads argument i + 6 where the reversal put it.             *)
LEMMA StackArgStep == ASSUME IInv, LoadStackArg PROVE IInv'
<1>1. TypeOK /\ CallerIntact /\ AtStack  BY DEF IInv, LoadStackArg
<1> DEFINE from == rsp + 2 * i + 4 + Frame
           q == OnStack - 1 - i
<1>2. /\ pc = "load_stack" /\ pc' = "load_stack" /\ i < OnStack /\ i' = i + 1
      /\ stack' = [stack EXCEPT ![rbp + i + 6] = stack[from]]
      /\ Unmoved /\ rsp' = rsp /\ rbp' = rbp /\ regs' = regs
  BY DEF LoadStackArg
<1>3. /\ arg_count' = arg_count /\ InRegs' = InRegs /\ OnStack' = OnStack
      /\ \A k : Arriving(k)' = Arriving(k)
  BY <1>2, Constant
<1>4. /\ InFrame /\ ArgsLeft /\ rsp = rbp /\ i \in 0 .. OnStack - 1
      /\ Loaded(InRegs + i)
      /\ OnStack \in 1 .. 15 /\ InRegs = 6 /\ arg_count = 6 + OnStack
      /\ Frame \in Nat /\ arg_count <= Frame
      /\ rbp = -2 * OnStack - 4 - Frame
      /\ Depth \in Nat /\ Height \in Nat
      /\ Depth >= 2 * arg_count + 4 + Frame
  <2>1. i \in 0 .. OnStack - 1 /\ OnStack \in 1 .. 15
    BY <1>1, <1>2, Sizes DEF AtStack
  <2>2. /\ InRegs = 6 /\ arg_count = 6 + OnStack /\ Frame \in Nat
        /\ arg_count <= var_count /\ var_count <= Frame /\ var_count \in Nat
        /\ Depth \in Nat /\ Height \in Nat
        /\ Depth >= 2 * arg_count + 4 + Frame
    BY <1>1, <2>1, Sizes
  <2>3. arg_count <= Frame  BY <2>1, <2>2
  <2>4. QED  BY <1>1, <2>1, <2>2, <2>3 DEF AtStack, InFrame
<1>5. from = Slot(q) /\ q \in 0 .. OnStack - 1 /\ from \in Addresses
  BY <1>4 DEF Slot, Addresses
<1>6. rbp + i + 6 = rbp + (i + 6) /\ i + 6 \in 0 .. Frame - 1
  BY <1>4
<1>7. stack[from] = D("arg", Arriving(i + 6), 0) /\ stack[from] \in Dword
  <2>1. stack[Slot(q)] = D("arg", Held(q, OnStack), 0)
    BY <1>4, <1>5 DEF ArgsLeft
  <2>2. Held(q, OnStack) = Arriving(i + 6)
    BY <1>4 DEF Held, Arriving
  <2>3. QED  BY <1>1, <1>5, <2>1, <2>2 DEF TypeOK
<1> HIDE DEF from, q
<1>8. /\ stack' \in [Addresses -> Dword] /\ stack'[rbp + (i + 6)] = stack[from]
      /\ \A j \in 0 .. Frame - 1 : j # i + 6 => stack'[rbp + j] = stack[rbp + j]
      /\ CallerIntact' /\ InFrame' /\ ArgsLeft'
  <2>1. stack' = [stack EXCEPT ![rbp + (i + 6)] = stack[from]]  BY <1>2, <1>6
  <2>2. QED  BY <1>1, <1>2, <1>4, <1>6, <1>7, <2>1, StoreVariable
<1>9. Loaded(InRegs + i)'
  <2>1. SUFFICES ASSUME NEW k \in 0 .. i + 6
                 PROVE  stack'[rbp + k] = D("arg", Arriving(k), 0)
    BY <1>2, <1>3, <1>4 DEF Loaded
  <2>2. CASE k = i + 6
    <3>1. stack'[rbp + (i + 6)] = D("arg", Arriving(i + 6), 0)
      BY <1>7, <1>8
    <3>2. QED  BY <2>2, <3>1
  <2>3. CASE k # i + 6
    <3>1. k \in 0 .. InRegs + i - 1 /\ k \in 0 .. Frame - 1
      BY <1>4, <1>6, <2>3
    <3>2. stack[rbp + k] = D("arg", Arriving(k), 0)
      BY <1>4, <3>1 DEF Loaded
    <3>3. stack'[rbp + k] = stack[rbp + k]  BY <1>8, <2>3, <3>1
    <3>4. QED  BY <3>2, <3>3
  <2>4. QED  BY <2>2, <2>3
<1>10. i' \in 0 .. OnStack /\ i' \in 0 .. 21  BY <1>2, <1>4
<1>11. TypeOK'  BY <1>1, <1>2, <1>8, <1>10 DEF TypeOK, Unmoved
<1>12. AtStack'
  BY <1>2, <1>3, <1>4, <1>8, <1>9, <1>10 DEF AtStack
<1>13. QED  BY <1>2, <1>8, <1>11, <1>12 DEF IInv

LEMMA EnterStep == ASSUME IInv, EnterBody PROVE IInv'
<1>1. TypeOK /\ CallerIntact /\ AtStack  BY DEF IInv, EnterBody
<1>2. /\ pc' = "body" /\ i' = 0 /\ Unmoved /\ rsp' = rsp /\ rbp' = rbp
      /\ regs' = regs /\ stack' = stack
  BY DEF EnterBody, Goto
<1>3. OnStack' = OnStack /\ Frame' = Frame  BY <1>2, Constant
<1>4. TypeOK'  BY <1>1, <1>2 DEF TypeOK, Unmoved, Labels
<1>5. AtBody'
  <2>1. InFrame'  BY <1>1, <1>2, <1>3 DEF AtStack, InFrame, CallerRbp
  <2>2. rsp' = rbp' - 2 * 0 /\ 0 \in 0 .. Depth
    BY <1>1, <1>2, Sizes DEF AtStack, TypeOK, Addresses
  <2>3. QED  BY <2>1, <2>2 DEF AtBody
<1>6. CallerIntact'  BY <1>1, <1>2 DEF CallerIntact
<1>7. QED  BY <1>2, <1>4, <1>5, <1>6 DEF IInv

LEMMA PushStep == ASSUME IInv, PushValue PROVE IInv'
<1>1. TypeOK /\ CallerIntact /\ AtBody  BY DEF IInv, PushValue
<1>2. /\ pc = "body" /\ pc' = "body" /\ rsp - 2 >= -Depth /\ rsp' = rsp - 2
      /\ stack' = [stack EXCEPT ![rsp - 2] = D("local", 0, 0),
                                ![rsp - 2 + 1] = D("local", 0, 1)]
      /\ Unmoved /\ i' = i /\ rbp' = rbp /\ regs' = regs
  BY DEF PushValue, Store
<1>3. OnStack' = OnStack /\ Frame' = Frame  BY <1>2, Constant
<1>4. /\ OnStack \in Nat /\ Frame \in Nat /\ Depth \in Nat /\ Height \in Nat
      /\ rbp = -2 * OnStack - 4 - Frame
      /\ Depth >= 2 * OnStack + 4 + Frame
  <2>1. /\ OnStack \in 0 .. 15 /\ OnStack <= arg_count /\ arg_count \in Nat
        /\ Frame \in Nat /\ Depth \in Nat /\ Height \in Nat
        /\ Depth >= 2 * arg_count + 4 + Frame
    BY <1>1, Sizes
  <2>2. QED  BY <1>1, <2>1 DEF AtBody, InFrame
<1>5. PICK d \in 0 .. Depth : rsp = rbp - 2 * d  BY <1>1 DEF AtBody
<1>6. /\ rsp - 2 \in Addresses /\ rsp - 2 + 1 \in Addresses
      /\ rsp - 2 + 1 < rbp /\ rsp \in Int /\ rbp < 0
  BY <1>2, <1>4, <1>5 DEF Addresses
<1>7. D("local", 0, 0) \in Dword /\ D("local", 0, 1) \in Dword
  BY DwordsAreTyped DEF Kinds
<1>8. /\ stack' \in [Addresses -> Dword]
      /\ \A b \in Addresses :
           b # rsp - 2 /\ b # rsp - 2 + 1 => stack'[b] = stack[b]
  BY <1>1, <1>2, <1>6, <1>7, StoreTwo
<1>9. \A b \in Addresses : b >= rbp => stack'[b] = stack[b]
  BY <1>4, <1>6, <1>8 DEF Addresses
<1>10. InFrame'
  <2>1. /\ rbp + Frame \in Addresses /\ rbp + Frame >= rbp
        /\ rbp + Frame + 2 \in Addresses /\ rbp + Frame + 2 >= rbp
    BY <1>4 DEF Addresses
  <2>2. QED  BY <1>1, <1>2, <1>3, <1>9, <2>1 DEF AtBody, InFrame, CallerRbp
<1>11. CallerIntact'
  <2>1. ASSUME NEW a \in 0 .. Height PROVE a \in Addresses /\ a >= rbp
    BY <1>4, <1>6 DEF Addresses
  <2>2. QED  BY <1>1, <1>9, <2>1 DEF CallerIntact
<1>12. AtBody'
  <2>1. rsp' = rbp' - 2 * (d + 1) /\ d + 1 \in 0 .. Depth
    BY <1>2, <1>4, <1>5
  <2>2. QED  BY <1>10, <2>1 DEF AtBody
<1>13. TypeOK'  BY <1>1, <1>2, <1>6, <1>8 DEF TypeOK, Unmoved
<1>14. QED  BY <1>2, <1>11, <1>12, <1>13 DEF IInv

LEMMA PopValueStep == ASSUME IInv, PopValue PROVE IInv'
<1>1. TypeOK /\ CallerIntact /\ AtBody  BY DEF IInv, PopValue
<1>2. /\ pc = "body" /\ pc' = "body" /\ rsp < rbp /\ rsp' = rsp + 2
      /\ Unmoved /\ i' = i /\ rbp' = rbp /\ regs' = regs /\ stack' = stack
  BY DEF PopValue
<1>3. OnStack' = OnStack /\ Frame' = Frame  BY <1>2, Constant
<1>4. rsp \in Addresses /\ rbp \in Addresses /\ Depth \in Nat /\ Height \in Nat
  BY <1>1, Sizes DEF TypeOK
<1>5. PICK d \in 0 .. Depth : rsp = rbp - 2 * d  BY <1>1 DEF AtBody
<1>6. /\ rsp' = rbp' - 2 * (d - 1) /\ d - 1 \in 0 .. Depth
      /\ rsp' \in Addresses
  BY <1>2, <1>4, <1>5 DEF Addresses
<1>7. InFrame'  BY <1>1, <1>2, <1>3 DEF AtBody, InFrame, CallerRbp
<1>8. AtBody'  BY <1>6, <1>7 DEF AtBody
<1>9. TypeOK'  BY <1>1, <1>2, <1>6 DEF TypeOK, Unmoved
<1>10. CallerIntact'  BY <1>1, <1>2 DEF CallerIntact
<1>11. QED  BY <1>2, <1>8, <1>9, <1>10 DEF IInv

LEMMA SetVarStep == ASSUME IInv, SetVar PROVE IInv'
<1>1. TypeOK /\ CallerIntact /\ AtBody  BY DEF IInv, SetVar
<1>2. PICK v \in Assigned \cap 0 .. var_count - 1 :
        stack' = [stack EXCEPT ![rbp + v] = D("local", 0, 0)]
  BY DEF SetVar
<1>3. /\ pc = "body" /\ pc' = "body" /\ Unmoved /\ i' = i /\ rsp' = rsp
      /\ rbp' = rbp /\ regs' = regs
  BY DEF SetVar
<1>4. v \in 0 .. Frame - 1  BY <1>1, Sizes
<1>5. D("local", 0, 0) \in Dword  BY DwordsAreTyped DEF Kinds
<1>6. InFrame  BY <1>1 DEF AtBody
<1>7. stack' \in [Addresses -> Dword] /\ CallerIntact' /\ InFrame'
  BY <1>1, <1>2, <1>3, <1>4, <1>5, <1>6, StoreVariable
<1>8. AtBody'  BY <1>1, <1>3, <1>7 DEF AtBody
<1>9. TypeOK'  BY <1>1, <1>3, <1>7 DEF TypeOK, Unmoved
<1>10. QED  BY <1>3, <1>7, <1>8, <1>9 DEF IInv

LEMMA ReturnStep == ASSUME IInv, Return PROVE IInv'
<1>1. TypeOK /\ CallerIntact /\ InFrame  BY DEF IInv, Return, AtBody
<1>2. /\ rbp' = stack[rbp + Frame].n /\ rsp' = rbp + Frame + 4
      /\ pc' = (IF stack[rbp + Frame + 2] = D("return", 0, 0)
                THEN "drop" ELSE "lost")
      /\ i' = 0 /\ Unmoved /\ regs' = regs /\ stack' = stack
  BY DEF Return, Goto
<1>3. pc' = "drop"  BY <1>1, <1>2 DEF InFrame
<1>4. rbp' = CallerRbp /\ rbp' \in Addresses
  <2>1. rbp' = CallerRbp  BY <1>1, <1>2 DEF InFrame, D
  <2>2. QED  BY <1>1, <2>1, Sizes DEF CallerRbp, Addresses
<1>5. rsp' = -2 * OnStack /\ rsp' \in Addresses
  <2>1. /\ OnStack \in Nat /\ OnStack <= arg_count /\ arg_count \in Nat
        /\ Frame \in Nat /\ Depth \in Nat /\ Height \in Nat
        /\ Depth >= 2 * arg_count + 4 + Frame
    BY <1>1, Sizes
  <2>2. rsp' = -2 * OnStack  BY <1>1, <1>2, <2>1 DEF InFrame
  <2>3. QED  BY <2>1, <2>2 DEF Addresses
<1>6. OnStack' = OnStack  BY <1>2, Constant
<1>7. AtDrop'  BY <1>4, <1>5, <1>6 DEF AtDrop, CallerRbp
<1>8. TypeOK'  BY <1>1, <1>2, <1>3, <1>4, <1>5 DEF TypeOK, Unmoved, Labels
<1>9. CallerIntact'  BY <1>1, <1>2 DEF CallerIntact
<1>10. QED  BY <1>3, <1>7, <1>8, <1>9 DEF IInv

LEMMA DropStep == ASSUME IInv, DropStackArgs PROVE IInv'
<1>1. TypeOK /\ CallerIntact /\ AtDrop  BY DEF IInv, DropStackArgs
<1>2. /\ pc' = "done" /\ i' = 0 /\ rsp' = rsp + StackArgs /\ Unmoved
      /\ rbp' = rbp /\ regs' = regs /\ stack' = stack
  BY DEF DropStackArgs, Goto, Dropped
<1>3. rsp' = 0  BY <1>1, <1>2, Sizes DEF AtDrop
<1>4. AtDone'  BY <1>1, <1>2, <1>3 DEF AtDrop, AtDone, CallerRbp
<1>5. rsp' \in Addresses  BY <1>1, <1>3, Sizes DEF Addresses
<1>6. TypeOK'  BY <1>1, <1>2, <1>5 DEF TypeOK, Unmoved, Labels
<1>7. CallerIntact'  BY <1>1, <1>2 DEF CallerIntact
<1>8. QED  BY <1>2, <1>4, <1>6, <1>7 DEF IInv
-----------------------------------------------------------------------------
(* The invariant holds.                                                    *)

LEMMA InitInvariant == Init => IInv
<1> SUFFICES ASSUME Init PROVE IInv  OBVIOUS
<1>1. PICK s \in Signatures : arg_count = s[1] /\ var_count = s[2]
  BY DEF Init
<1>2. /\ s \in Nat \X Nat /\ s[1] <= 21
      /\ Depth >= 2 * s[1] + 4 + Rounded(s[2]) /\ Rounded(s[2]) \in Nat
  BY SignaturesAssumption, RoundedUp
<1>3. /\ <<arg_count, var_count>> \in Signatures /\ arg_count \in Nat
      /\ Depth >= 2 * arg_count /\ Depth \in Nat /\ Height \in Nat
  BY <1>1, <1>2, MemoryAssumption
<1>4. /\ pc = "skip" /\ i = 0 /\ rsp = -2 * arg_count /\ rbp = CallerRbp
      /\ regs = [r \in 0 .. 5 |-> <<>>]
      /\ stack = [a \in Addresses |->
                    IF a \in Slot(arg_count - 1) .. -1
                    THEN D("arg", (-a - 1) \div 2, a % 2)
                    ELSE D("caller", a, 0)]
  BY DEF Init
<1>5. Slot(arg_count - 1) = -2 * arg_count  BY <1>3 DEF Slot
<1>6. stack \in [Addresses -> Dword]
  <2>1. ASSUME NEW a \in Addresses
        PROVE  D("arg", (-a - 1) \div 2, a % 2) \in Dword
               /\ D("caller", a, 0) \in Dword
    <3>1. a \in Int  BY <1>3 DEF Addresses
    <3>2. (-a - 1) \div 2 \in Int /\ a % 2 \in {0, 1}  BY <3>1
    <3>3. QED  BY <3>1, <3>2, DwordsAreTyped DEF Kinds
  <2>2. QED  BY <1>4, <2>1
<1>7. TypeOK
  <2>1. rsp \in Addresses /\ rbp \in Addresses
    BY <1>3, <1>4 DEF CallerRbp, Addresses
  <2>2. QED  BY <1>3, <1>4, <1>6, <2>1 DEF TypeOK, Labels
<1>8. CallerIntact
  <2>1. ASSUME NEW a \in 0 .. Height
        PROVE  a \in Addresses /\ a \notin Slot(arg_count - 1) .. -1
    BY <1>3, <1>5 DEF Addresses
  <2>2. QED  BY <1>4, <2>1 DEF CallerIntact
<1>9. Args(0)
  <2>1. SUFFICES ASSUME NEW q \in 0 .. arg_count - 1
                 PROVE  stack[Slot(q)] = D("arg", Held(q, 0), 0)
    BY DEF Args
  <2>2. Slot(q) \in Addresses /\ Slot(q) \in Slot(arg_count - 1) .. -1
    BY <1>3, <1>5 DEF Slot, Addresses
  <2>3. (-Slot(q) - 1) \div 2 = q /\ Slot(q) % 2 = 0
    BY <1>3 DEF Slot
  <2>4. Held(q, 0) = q  BY <1>3 DEF Held
  <2>5. QED  BY <1>4, <2>2, <2>3, <2>4
<1>10. AtSkip  BY <1>4, <1>9 DEF AtSkip
<1>11. QED  BY <1>4, <1>7, <1>8, <1>10 DEF IInv

LEMMA Stutter == ASSUME IInv, UNCHANGED vars PROVE IInv'
<1>1. UNCHANGED <<arg_count, var_count, pc, i, rsp, rbp, regs, stack>>
  BY DEF vars
<1>2. /\ InRegs' = InRegs /\ OnStack' = OnStack /\ Frame' = Frame
      /\ CallerRbp' = CallerRbp
      /\ \A q, t : Held(q, t)' = Held(q, t)
      /\ \A k : Arriving(k)' = Arriving(k)
  BY <1>1, Constant DEF Unmoved, CallerRbp
<1>3. TypeOK' /\ CallerIntact' /\ (pc # "lost")'
  BY <1>1 DEF IInv, TypeOK, CallerIntact
<1>4. pc = "skip" => AtSkip'  BY <1>1, <1>2 DEF IInv, AtSkip, Args
<1>5. pc = "pop" => AtPop'  BY <1>1, <1>2 DEF IInv, AtPop, Args, Popping
<1>6. pc = "reverse" => AtReverse'
  BY <1>1, <1>2 DEF IInv, AtReverse, Args, Popping
<1>7. pc = "frame" => AtFrame'
  BY <1>1, <1>2 DEF IInv, AtFrame, ArgsLeft, Popping
<1>8. pc = "load_regs" => AtRegs'
  BY <1>1, <1>2 DEF IInv, AtRegs, InFrame, ArgsLeft, Popping, Loaded
<1>9. pc = "load_stack" => AtStack'
  BY <1>1, <1>2 DEF IInv, AtStack, InFrame, ArgsLeft, Loaded
<1>10. pc = "body" => AtBody'  BY <1>1, <1>2 DEF IInv, AtBody, InFrame
<1>11. (pc = "drop" => AtDrop') /\ (pc = "done" => AtDone')
  BY <1>1, <1>2 DEF IInv, AtDrop, AtDone
<1>12. QED
  BY <1>1, <1>3, <1>4, <1>5, <1>6, <1>7, <1>8, <1>9, <1>10, <1>11 DEF IInv

LEMMA NextInvariant == IInv /\ [Next]_vars => IInv'
<1> SUFFICES ASSUME IInv, [Next]_vars PROVE IInv'  OBVIOUS
<1>1. CASE SkipStackArgs  BY <1>1, SkipStep
<1>2. CASE PopRegister  BY <1>2, PopStep
<1>3. CASE ReserveStackArgs  BY <1>3, ReserveStep
<1>4. CASE MoveStackArg  BY <1>4, MoveStep
<1>5. CASE Call  BY <1>5, CallStep
<1>6. CASE DropStackArgs  BY <1>6, DropStep
<1>7. CASE SetupFrame  BY <1>7, FrameStep
<1>8. CASE LoadRegister  BY <1>8, RegisterStep
<1>9. CASE RegistersLoaded  BY <1>9, LoadedStep
<1>10. CASE LoadStackArg  BY <1>10, StackArgStep
<1>11. CASE EnterBody  BY <1>11, EnterStep
<1>12. CASE PushValue  BY <1>12, PushStep
<1>13. CASE PopValue  BY <1>13, PopValueStep
<1>14. CASE SetVar  BY <1>14, SetVarStep
<1>15. CASE Return  BY <1>15, ReturnStep
<1>16. CASE Returned \/ UNCHANGED vars  BY <1>16, Stutter DEF Returned
<1>17. QED
  BY <1>1, <1>2, <1>3, <1>4, <1>5, <1>6, <1>7, <1>8, <1>9, <1>10, <1>11,
     <1>12, <1>13, <1>14, <1>15, <1>16 DEF Next, Caller, Callee

LEMMA Invariance == Spec => []IInv
BY InitInvariant, NextInvariant, PTL DEF Spec

(* The call keeps its variables in their types: the stack pointer never     *)
(* leaves the memory the caller provides.                                   *)
THEOREM TypeCorrect == Spec => []TypeOK
<1>1. IInv => TypeOK  BY DEF IInv
<1>2. QED  BY <1>1, Invariance, PTL

(* Whatever the argument and variable counts, and whatever the body assigns *)
(* and pushes, the saved RBP and the return address stay in place.          *)
THEOREM FrameStaysIntact == Spec => []FrameIntact
<1>1. IInv => FrameIntact
  BY DEF IInv, FrameIntact, AtRegs, AtStack, AtBody, InFrame
<1>2. QED  BY <1>1, Invariance, PTL

(* A call returns to the instruction after it with its arguments gone and   *)
(* everything below them untouched.                                         *)
THEOREM CallsAreNeutral == Spec => []CallIsNeutral
<1>1. IInv => CallIsNeutral
  BY DEF IInv, CallIsNeutral, CallerIntact, AtDone
<1>2. QED  BY <1>1, Invariance, PTL

LEMMA WhatArrives ==
  ASSUME IInv, Next, Entering
  PROVE  \A k \in 0 .. arg_count - 1 : stack[rbp + k] = D("arg", Arriving(k), 0)
<1>1. TypeOK /\ AtStack /\ pc = "load_stack" /\ pc' = "body"
  BY DEF IInv, Entering
<1>2. i = OnStack
  BY <1>1 DEF Next, Caller, Callee, SkipStackArgs, PopRegister,
     ReserveStackArgs, MoveStackArg, Call, DropStackArgs, SetupFrame,
     LoadRegister, RegistersLoaded, LoadStackArg, EnterBody, PushValue,
     PopValue, SetVar, Return, Returned
<1>3. InRegs + i = arg_count  BY <1>1, <1>2, Sizes
<1>4. QED  BY <1>1, <1>3 DEF AtStack, Loaded

(* Which argument arrives in which variable, for every count up to 21 (from  *)
(* 13 on in a release build only).                                          *)
THEOREM WhatTheReversalDelivers == Spec => ReversalArrives
<1>1. IInv /\ [Next]_vars =>
        [Entering => \A k \in 0 .. arg_count - 1 :
                       stack[rbp + k] = D("arg", Arriving(k), 0)]_vars
  BY WhatArrives
<1>2. QED  BY <1>1, Invariance, PTL DEF Spec, ReversalArrives

(* Up to 13 arguments (12 in a debug build), every argument arrives in its    *)
(* own variable.                                                            *)
THEOREM ThirteenArgumentsArrive == Spec => ArgumentsArrive
<1>1. IInv /\ [Next]_vars =>
        [Entering /\ arg_count <= 13 =>
           \A k \in 0 .. arg_count - 1 : stack[rbp + k] = D("arg", k, 0)]_vars
  <2>1. ASSUME IInv, Next, Entering, arg_count <= 13, NEW k \in 0 .. arg_count - 1
        PROVE  stack[rbp + k] = D("arg", k, 0)
    <3>1. arg_count \in 0 .. 13
      <4>1. arg_count \in 0 .. 21
        BY <2>1, Sizes DEF IInv, TypeOK
      <4>2. QED  BY <2>1, <4>1
    <3>2. Arriving(k) = k  BY <3>1 DEF Arriving
    <3>3. QED  BY <2>1, <3>2, WhatArrives
  <2>2. QED  BY <2>1
<1>2. QED  BY <1>1, Invariance, PTL DEF Spec, ArgumentsArrive
=============================================================================
