------------------------------ MODULE JitProofs ------------------------------
(***************************************************************************)
(* What src/jit/ keeps true outside the compiler.  First JitMemory and       *)
(* main(), for every number of scripts, every set of calls between them and  *)
(* every entry point.  Then as_ast(), for every script: it loses no command,  *)
(* and it gives each node the operands that the evaluation stack gives its   *)
(* command.                                                                 *)
(***************************************************************************)
EXTENDS Jit, Ast, Lemmas

Memory == [ours : BOOLEAN, prot : {"rw", "rx"}, locked : BOOLEAN]

(* What is known of a memory whoever calls: one that is not ours goes back   *)
(* to a failed allocation, and only a failed mprotect separates the flag     *)
(* from the pages.                                                          *)
MemoryExplained ==
  \A i \in 1 .. Len(mem) :
    /\ ~mem[i].ours => "posix_memalign" \in failing
    /\ "mprotect" \notin failing /\ mem[i].locked => mem[i].prot = "rx"

(* Everything can be written until compile() has returned ...               *)
NothingLocked ==
  user = "main" /\ pc = "compile" =>
    next = 1 /\ \A i \in 1 .. Len(mem) : mem[i].prot = "rw"

(* ... and from then on what lock_all() has passed can be executed.          *)
LockedSoFar ==
  user = "main" /\ pc \in {"lock_all", "running"} =>
    /\ Len(mem) = Scripts /\ links = {} /\ entry \in 1 .. Scripts
    /\ \A i \in 1 .. Scripts : i < next => mem[i].prot = "rx"

RunsInside ==
  user = "main" /\ pc = "running" => next = Scripts + 1 /\ at \in 1 .. Scripts

IInv == /\ TypeOK /\ MemoryExplained /\ NothingLocked /\ LockedSoFar
        /\ RunsInside /\ FaultsExplained
-----------------------------------------------------------------------------
(* Sequences of memories: what one appended or changed memory leaves.       *)

LEMMA Appended ==
  ASSUME NEW s \in Seq(Memory), NEW m \in Memory
  PROVE  /\ Append(s, m) \in Seq(Memory) /\ Len(Append(s, m)) = Len(s) + 1
         /\ \A i \in 1 .. Len(s) : Append(s, m)[i] = s[i]
         /\ Append(s, m)[Len(s) + 1] = m
OBVIOUS

LEMMA Changed ==
  ASSUME NEW s \in Seq(Memory), NEW i \in 1 .. Len(s), NEW m \in Memory
  PROVE  /\ [s EXCEPT ![i] = m] \in Seq(Memory)
         /\ Len([s EXCEPT ![i] = m]) = Len(s)
         /\ \A j \in 1 .. Len(s) : [s EXCEPT ![i] = m][j] = IF j = i THEN m ELSE s[j]
OBVIOUS

(* lock() and unlock() change one memory: its flag, and its pages if mprotect *)
(* succeeds.                                                                *)
LEMMA LockChanges ==
  ASSUME mem \in Seq(Memory), NEW i \in 1 .. Len(mem), NEW ok \in BOOLEAN
  PROVE  /\ Lock(i, ok) \in Seq(Memory) /\ Len(Lock(i, ok)) = Len(mem)
         /\ \A j \in 1 .. Len(mem) : j # i => Lock(i, ok)[j] = mem[j]
         /\ Lock(i, ok)[i].ours = mem[i].ours
         /\ ok => Lock(i, ok)[i].prot = "rx"
<1> DEFINE m == [mem[i] EXCEPT !.locked = TRUE, !.prot = IF ok THEN "rx" ELSE @]
<1>1. mem[i] \in Memory  OBVIOUS
<1>2. m \in Memory /\ m.ours = mem[i].ours /\ (ok => m.prot = "rx")  BY <1>1 DEF Memory
<1>3. Lock(i, ok) = [mem EXCEPT ![i] = m]  BY <1>1 DEF Lock, Memory
<1> HIDE DEF m
<1>4. QED  BY <1>2, <1>3, Changed

LEMMA UnlockChanges ==
  ASSUME mem \in Seq(Memory), NEW i \in 1 .. Len(mem), NEW ok \in BOOLEAN
  PROVE  /\ Unlock(i, ok) \in Seq(Memory) /\ Len(Unlock(i, ok)) = Len(mem)
         /\ \A j \in 1 .. Len(mem) : j # i => Unlock(i, ok)[j] = mem[j]
         /\ Unlock(i, ok)[i].ours = mem[i].ours
         /\ ~Unlock(i, ok)[i].locked
<1> DEFINE m == [mem[i] EXCEPT !.locked = FALSE, !.prot = IF ok THEN "rw" ELSE @]
<1>1. mem[i] \in Memory  OBVIOUS
<1>2. m \in Memory /\ m.ours = mem[i].ours /\ ~m.locked  BY <1>1 DEF Memory
<1>3. Unlock(i, ok) = [mem EXCEPT ![i] = m]  BY <1>1 DEF Unlock, Memory
<1> HIDE DEF m
<1>4. QED  BY <1>2, <1>3, Changed

(* JitMemory::new: a memory that can be written, or a fault.                 *)
Fresh(m) == /\ mem' = Append(mem, m) /\ m.prot = "rw" /\ ~m.locked
            /\ ~m.ours => "posix_memalign" \in failing

LEMMA NewAdds ==
  ASSUME mem \in Seq(Memory), New
  PROVE  \/ /\ pc' = "fault" /\ mem' = mem /\ "posix_memalign" \in failing
         \/ /\ pc' = pc
            /\ \E m \in Memory : Fresh(m)
<1>1. FALSE \in Answers("posix_memalign") => "posix_memalign" \in failing
  BY DEF Answers
<1>2. [ours |-> TRUE, prot |-> "rw", locked |-> FALSE] \in Memory  BY DEF Memory
<1>3. [ours |-> FALSE, prot |-> "rw", locked |-> FALSE] \in Memory  BY DEF Memory
<1>4. QED  BY <1>1, <1>2, <1>3 DEF New, Fresh
-----------------------------------------------------------------------------
(* A memory more, whoever asks for it, or a fault.                          *)
LEMMA NewKeeps ==
  ASSUME IInv, New, Len(mem) < Scripts, pc \in {"compile", "returned"},
         UNCHANGED <<failing, user, links, entry, next, at>>
  PROVE  IInv'
<1> USE DEF IInv, TypeOK
<1>0. mem \in Seq(Memory) /\ Scripts \in Nat  BY FileAssumption DEF Memory
<1>1. CASE pc' = "fault" /\ mem' = mem /\ "posix_memalign" \in failing
  BY <1>1 DEF MemoryExplained, NothingLocked, LockedSoFar, RunsInside, FaultsExplained
<1>2. ASSUME NEW m \in Memory, pc' = pc, Fresh(m)  PROVE IInv'
  <2>1. /\ mem' \in Seq(Memory) /\ Len(mem') = Len(mem) + 1 /\ Len(mem) \in Nat
        /\ \A i \in 1 .. Len(mem) : mem'[i] = mem[i]
        /\ mem'[Len(mem) + 1] = m
    BY <1>0, <1>2, Appended DEF Fresh
  <2>2. TypeOK'  BY <1>0, <1>2, <2>1 DEF Memory
  <2>3. \A i \in 1 .. Len(mem') : i \in 1 .. Len(mem) \/ i = Len(mem) + 1  BY <2>1
  <2>4. MemoryExplained'  BY <1>2, <2>1, <2>3 DEF MemoryExplained, Fresh
  <2>5. NothingLocked'  BY <1>2, <2>1, <2>3 DEF NothingLocked, Fresh
  <2>6. LockedSoFar' /\ RunsInside' /\ FaultsExplained'
    BY <1>2 DEF LockedSoFar, RunsInside, FaultsExplained
  <2>7. QED  BY <2>2, <2>4, <2>5, <2>6
<1>3. \/ pc' = "fault" /\ mem' = mem /\ "posix_memalign" \in failing
      \/ pc' = pc /\ \E m \in Memory : Fresh(m)
  BY <1>0, NewAdds
<1> HIDE DEF IInv, TypeOK
<1>4. QED  BY <1>1, <1>2, <1>3

LEMMA MainKeeps ==
  ASSUME IInv, user = "main", Main \/ CallLinked \/ ReturnToHost,
         UNCHANGED <<failing, user>>
  PROVE  IInv'
<1> USE DEF IInv, TypeOK
<1>0. /\ mem \in Seq(Memory) /\ Scripts \in Nat \ {0} /\ Len(mem) \in Nat
      /\ \A l \in Links : l[1] \in 1 .. Scripts /\ l[2] \in 1 .. Scripts
  BY FileAssumption DEF Memory
<1>1. CASE Place  BY <1>1, NewKeeps DEF Place
<1>2. ASSUME NEW l \in Links, Link(l)  PROVE IInv'
  <2>1. l[1] \in 1 .. Len(mem) /\ mem[l[1]].prot = "rw"
    BY <1>0, <1>2 DEF Link, NothingLocked
  <2>2. UNCHANGED pc \/ (pc' = "fault" /\ ~mem[l[1]].ours)
    BY <1>2, <2>1 DEF Link, Store, MayFault
  <2>3. FaultsExplained'
    BY <1>2, <2>1, <2>2 DEF Link, FaultsExplained, MemoryExplained
  <2>4. QED
    BY <1>2, <2>2, <2>3 DEF Link, MemoryExplained, NothingLocked, LockedSoFar, RunsInside
<1>3. CASE Compiled
  <2>1. entry # 0 => entry \in 1 .. Scripts  BY FileAssumption
  <2>2. QED
    BY <1>0, <1>3, <2>1
    DEF Compiled, MemoryExplained, NothingLocked, LockedSoFar, RunsInside, FaultsExplained
<1>4. CASE LockNext
  <2>1. PICK ok \in Answers("mprotect") :
          mem' = Lock(next, ok) /\ pc' = IF ok THEN pc ELSE "panic"
    BY <1>4 DEF LockNext
  <2>2. ok \in BOOLEAN /\ ("mprotect" \notin failing => ok)  BY DEF Answers
  <2>3. next \in 1 .. Len(mem)  BY <1>0, <1>4 DEF LockNext
  <2>4. /\ mem' \in Seq(Memory) /\ Len(mem') = Len(mem)
        /\ \A j \in 1 .. Len(mem) : j # next => mem'[j] = mem[j]
        /\ mem'[next].ours = mem[next].ours
        /\ ok => mem'[next].prot = "rx"
    BY <1>0, <2>1, <2>2, <2>3, LockChanges
  <2>5. MemoryExplained'  BY <1>4, <2>2, <2>3, <2>4 DEF LockNext, MemoryExplained
  <2>6. TypeOK'  BY <1>0, <1>4, <2>1, <2>2, <2>3, <2>4 DEF LockNext, Memory
  <2>7. LockedSoFar'
    BY <1>0, <1>4, <2>1, <2>2, <2>3, <2>4 DEF LockNext, LockedSoFar
  <2>8. NothingLocked' /\ RunsInside' /\ FaultsExplained'
    BY <1>4, <2>1 DEF LockNext, NothingLocked, RunsInside, FaultsExplained
  <2>9. QED  BY <2>5, <2>6, <2>7, <2>8
<1>5. ASSUME NEW i \in 1 .. Scripts, Execute(i), UNCHANGED <<mem, links, entry, next>>,
             pc \in {"lock_all", "running"}, next > Len(mem)
      PROVE  IInv'
  <2>1. i \in 1 .. Len(mem) /\ mem[i].prot = "rx" /\ next = Scripts + 1
    BY <1>0, <1>5 DEF LockedSoFar
  <2>2. pc' = "running" \/ (pc' = "fault" /\ ~mem[i].ours)
    BY <1>5, <2>1 DEF Execute, MayFault
  <2>3. at' = i  BY <1>5 DEF Execute
  <2>4. FaultsExplained'  BY <1>5, <2>1, <2>2 DEF FaultsExplained, MemoryExplained
  <2>5. QED
    BY <1>5, <2>1, <2>2, <2>3, <2>4 DEF MemoryExplained, NothingLocked, LockedSoFar, RunsInside
<1>6. CASE RunEntry
  <2>1. entry \in 1 .. Scripts  BY <1>6 DEF RunEntry, LockedSoFar
  <2>2. CASE Execute(entry)  BY <1>5, <1>6, <2>1, <2>2 DEF RunEntry
  <2>3. CASE pc' = "panic" /\ UNCHANGED at
    BY <1>6, <2>3
    DEF RunEntry, MemoryExplained, NothingLocked, LockedSoFar, RunsInside, FaultsExplained
  <2>4. QED  BY <1>6, <2>2, <2>3 DEF RunEntry, Run
<1>7. CASE CallLinked
  <2>1. PICK l \in Links : Execute(IF at = l[1] THEN l[2] ELSE l[1])
    BY <1>7 DEF CallLinked
  <2>2. next > Len(mem)  BY <1>0, <1>7 DEF CallLinked, RunsInside, LockedSoFar
  <2>3. (IF at = l[1] THEN l[2] ELSE l[1]) \in 1 .. Scripts  BY <1>0
  <2>4. QED  BY <1>5, <1>7, <2>1, <2>2, <2>3 DEF CallLinked
<1>8. CASE ReturnToHost
  BY <1>0, <1>8
  DEF ReturnToHost, MemoryExplained, NothingLocked, LockedSoFar, RunsInside, FaultsExplained
<1>9. QED  BY <1>1, <1>2, <1>3, <1>4, <1>6, <1>7, <1>8 DEF Main

LEMMA ClientKeeps ==
  ASSUME IInv, user = "client", Client \/ ClientReturns, UNCHANGED <<failing, user>>
  PROVE  IInv'
<1> USE DEF IInv, TypeOK
<1>0. mem \in Seq(Memory) /\ Scripts \in Nat \ {0} /\ Len(mem) \in Nat
      /\ DOMAIN mem = 1 .. Len(mem)
  BY FileAssumption DEF Memory
<1>1. NothingLocked' /\ LockedSoFar' /\ RunsInside' /\ FaultsExplained'
  BY DEF NothingLocked, LockedSoFar, RunsInside, FaultsExplained
<1>2. CASE Client /\ Len(mem) < Scripts /\ New /\ UNCHANGED at
  BY <1>2, NewKeeps DEF Client
<1>3. ASSUME NEW i \in DOMAIN mem, NEW ok \in Answers("mprotect"), Client,
             mem' \in {Lock(i, ok), Unlock(i, ok)}, UNCHANGED <<at, pc>>
      PROVE  IInv'
  <2>1. ok \in BOOLEAN /\ ("mprotect" \notin failing => ok)  BY DEF Answers
  <2>2. /\ mem' \in Seq(Memory) /\ Len(mem') = Len(mem)
        /\ \A j \in 1 .. Len(mem) : j # i => mem'[j] = mem[j]
        /\ mem'[i].ours = mem[i].ours
        /\ ok /\ mem'[i].locked => mem'[i].prot = "rx"
    <3>1. i \in 1 .. Len(mem)  BY <1>0
    <3>2. CASE mem' = Lock(i, ok)
      <4>1. /\ Lock(i, ok) \in Seq(Memory) /\ Len(Lock(i, ok)) = Len(mem)
            /\ \A j \in 1 .. Len(mem) : j # i => Lock(i, ok)[j] = mem[j]
            /\ Lock(i, ok)[i].ours = mem[i].ours
            /\ ok => Lock(i, ok)[i].prot = "rx"
        BY ONLY <1>0, <2>1, <3>1, LockChanges
      <4>2. QED  BY ONLY <3>2, <4>1
    <3>3. CASE mem' = Unlock(i, ok)
      <4>1. /\ Unlock(i, ok) \in Seq(Memory) /\ Len(Unlock(i, ok)) = Len(mem)
            /\ \A j \in 1 .. Len(mem) : j # i => Unlock(i, ok)[j] = mem[j]
            /\ Unlock(i, ok)[i].ours = mem[i].ours
            /\ ~Unlock(i, ok)[i].locked
        BY ONLY <1>0, <2>1, <3>1, UnlockChanges
      <4>2. QED  BY ONLY <3>3, <4>1
    <3>4. QED  BY <1>3, <3>2, <3>3
  <2>3. MemoryExplained'  BY <1>0, <1>3, <2>1, <2>2 DEF MemoryExplained
  <2>4. TypeOK'  BY <1>0, <1>3, <2>2 DEF Client, Memory
  <2>5. QED  BY <1>1, <2>3, <2>4
<1>4. ASSUME NEW i \in DOMAIN mem, Run(i), UNCHANGED mem, Client  PROVE IInv'
  <2>1. at' \in 0 .. Scripts  BY <1>0, <1>4 DEF Run, Execute
  <2>2. pc' \in {"running", "fault", "panic"}  BY <1>4 DEF Run, Execute
  <2>3. QED  BY <1>1, <1>4, <2>1, <2>2 DEF Client, MemoryExplained
<1>5. CASE ClientReturns  BY <1>0, <1>1, <1>5 DEF ClientReturns, MemoryExplained
<1>6. QED  BY <1>2, <1>3, <1>4, <1>5 DEF Client
-----------------------------------------------------------------------------
LEMMA InitHolds ==
  ASSUME Init  PROVE IInv
BY FileAssumption
DEF Init, IInv, TypeOK, MemoryExplained, NothingLocked, LockedSoFar, RunsInside,
    FaultsExplained

LEMMA NextKeeps ==
  ASSUME IInv, [Next]_vars  PROVE IInv'
<1>1. CASE user = "main" /\ (Main \/ CallLinked \/ ReturnToHost) /\ UNCHANGED <<failing, user>>
  BY <1>1, MainKeeps
<1>2. CASE user = "client" /\ (Client \/ ClientReturns) /\ UNCHANGED <<failing, user>>
  BY <1>2, ClientKeeps
<1>3. CASE UNCHANGED vars
  BY <1>3
  DEF vars, IInv, TypeOK, MemoryExplained, NothingLocked, LockedSoFar, RunsInside,
      FaultsExplained
<1>4. QED  BY <1>1, <1>2, <1>3 DEF Next, Ended

LEMMA Invariant == Spec => []IInv
<1>1. Init => IInv  BY InitHolds
<1>2. IInv /\ [Next]_vars => IInv'  BY NextKeeps
<1>3. QED  BY <1>1, <1>2, PTL DEF Spec

(* The type invariant of JitMemory and main().                              *)
THEOREM TypeCorrect == Spec => []TypeOK
<1>1. IInv => TypeOK  BY DEF IInv
<1>2. QED  BY <1>1, Invariant, PTL

(* Once main() runs, every script can be executed and no call is unlinked:   *)
(* lock_all() locks all of them or ends the process.                        *)
THEOREM AlwaysReachableCodeExecutable == Spec => []ReachableCodeExecutable
<1>1. IInv => ReachableCodeExecutable
  <2>1. SUFFICES ASSUME IInv, user = "main", pc = "running"
                 PROVE  links = {} /\ \A i \in 1 .. Scripts : i \in DOMAIN mem /\ mem[i].prot = "rx"
    BY DEF ReachableCodeExecutable
  <2>2. Len(mem) = Scripts /\ next = Scripts + 1 /\ links = {} /\ mem \in Seq(Memory)
    BY <2>1 DEF IInv, TypeOK, Memory, LockedSoFar, RunsInside
  <2>3. QED  BY <2>1, <2>2, FileAssumption DEF IInv, LockedSoFar
<1>2. QED  BY <1>1, Invariant, PTL

(* main() faults only where an allocation has failed.                       *)
THEOREM FaultsAreExplained == Spec => []FaultsExplained
<1>1. IInv => FaultsExplained  BY DEF IInv
<1>2. QED  BY <1>1, Invariant, PTL

(* While mprotect succeeds, what has its flag set is executable, in whatever  *)
(* order the functions are called.                                          *)
THEOREM LockedStaysExecutable == Spec => []LockedIsExecutable
<1>1. IInv => LockedIsExecutable
  <2>1. IInv => mem \in Seq(Memory)  BY DEF IInv, TypeOK, Memory
  <2>2. QED  BY <2>1 DEF IInv, MemoryExplained, LockedIsExecutable
<1>2. QED  BY <1>1, Invariant, PTL
-----------------------------------------------------------------------------
AstCommands == [op : Opcodes, push : BOOLEAN, argc : Nat]
Types == {"Int", "Float", "None"}
Nodes == [type : Types, args : Seq(Nat)]

(* The operands of a command and the types they are suspected to have.       *)
LEMMA CountsOperands ==
  ASSUME NEW c \in AstCommands
  PROVE  Operands(c) \in Nat
<1>1. c.argc \in Nat /\ c.op \in Opcodes  BY DEF AstCommands
<1>2. QED  BY <1>1 DEF Operands

LEMMA SuspectsType ==
  ASSUME NEW c, NEW i, NEW suspect \in Types
  PROVE  Suspected(c, i) \in Types /\ NodeType(c, suspect) \in Types
<1>1. OpType(c.op) \in Types  BY DEF OpType, IntOrFloat, Types
<1>2. QED  BY <1>1 DEF Suspected, NodeType, IntOrFloat, Types
-----------------------------------------------------------------------------
(* The evaluation stack: Values(s) is what its recursion says.               *)

Stacks(f, s, m) ==
  f = [k \in 0 .. m |-> IF k = 0 THEN <<>> ELSE Executed(s[k], k, f[k - 1])]

(* A stack for m commands gives one for m + 1, so there is one for any script.  *)
LEMMA StacksMore ==
  ASSUME NEW f, NEW s, NEW m \in Nat, Stacks(f, s, m)
  PROVE  \E g : Stacks(g, s, m + 1)
<1> DEFINE last == Executed(s[m + 1], m + 1, f[m])
           g == [k \in 0 .. m + 1 |-> IF k <= m THEN f[k] ELSE last]
           h == [k \in 0 .. m + 1 |-> IF k = 0 THEN <<>> ELSE Executed(s[k], k, g[k - 1])]
<1>1. \A k \in 0 .. m : f[k] = IF k = 0 THEN <<>> ELSE Executed(s[k], k, f[k - 1])  BY DEF Stacks
<1>2. ASSUME NEW k \in 0 .. m + 1  PROVE g[k] = h[k]
  <2>1. h[k] = IF k = 0 THEN <<>> ELSE Executed(s[k], k, g[k - 1])  OBVIOUS
  <2>2. CASE k \in 0 .. m
    <3>1. g[k] = f[k] /\ (k # 0 => g[k - 1] = f[k - 1])  BY <2>2
    <3> HIDE DEF g, h
    <3>2. QED  BY <1>1, <2>1, <2>2, <3>1
  <2>3. CASE k = m + 1
    <3>1. g[m + 1] = last /\ g[m] = f[m]  OBVIOUS
    <3>2. k - 1 = m /\ k # 0  BY <2>3
    <3> HIDE DEF g, h
    <3>3. QED  BY <2>1, <2>3, <3>1, <3>2
  <2>4. QED  BY <2>2, <2>3
<1>3. g = h
  <2>1. DOMAIN g = 0 .. m + 1 /\ DOMAIN h = 0 .. m + 1  OBVIOUS
  <2>2. g = [k \in DOMAIN g |-> g[k]] /\ h = [k \in DOMAIN h |-> h[k]]  OBVIOUS
  <2> HIDE DEF g, h
  <2>3. QED  BY <1>2, <2>1, <2>2
<1>4. Stacks(g, s, m + 1)
  <2> HIDE DEF g
  <2>1. QED  BY <1>3 DEF Stacks
<1>5. QED  BY <1>4

LEMMA StacksExist ==
  ASSUME NEW s, NEW m \in Nat
  PROVE  \E f : Stacks(f, s, m)
<1> DEFINE T == {k \in Nat : \E f : Stacks(f, s, k)}
<1>1. 0 \in T
  <2> DEFINE g == [k \in 0 .. 0 |-> <<>>]
  <2>1. Stacks(g, s, 0)  BY DEF Stacks
  <2>2. QED  BY <2>1
<1>2. \A k \in T : k + 1 \in T
  <2> SUFFICES ASSUME NEW k \in T PROVE k + 1 \in T  OBVIOUS
  <2>1. PICK f : Stacks(f, s, k)  OBVIOUS
  <2>2. \E g : Stacks(g, s, k + 1)  BY <2>1, StacksMore
  <2>3. QED  BY <2>2
<1>3. T \in SUBSET Nat  OBVIOUS
<1>4. T = Nat
  <2> HIDE DEF T
  <2>1. QED  BY <1>1, <1>2, <1>3, NatSetInduction
<1>5. QED  BY <1>4

(* Hence Values(s) satisfies its equation.                                   *)
LEMMA ValuesStep ==
  ASSUME NEW s, Len(s) \in Nat
  PROVE  /\ Values(s)[0] = <<>>
         /\ \A k \in 1 .. Len(s) : Values(s)[k] = Executed(s[k], k, Values(s)[k - 1])
<1> DEFINE g == CHOOSE f : Stacks(f, s, Len(s))
<1>1. \E f : Stacks(f, s, Len(s))  BY StacksExist
<1>2. Stacks(g, s, Len(s))  BY <1>1
<1>3. Values(s) = g  BY DEF Values, Stacks
<1> HIDE DEF g
<1>4. \A k \in 0 .. Len(s) : g[k] = IF k = 0 THEN <<>> ELSE Executed(s[k], k, g[k - 1])
  BY <1>2 DEF Stacks
<1>5. QED  BY <1>3, <1>4

(* One command: what is skipped leaves the stack as it is, anything else      *)
(* pops its operands and pushes its number if it has a value.                *)
Leaves(c, k, v, below, w) ==
  /\ Len(w) = IF IsValue(c) THEN below + 1 ELSE below
  /\ IsValue(c) => w[below + 1] = k
  /\ \A h \in 1 .. below : w[h] = v[h]

LEMMA OneExecuted ==
  ASSUME NEW c \in AstCommands, NEW k \in Nat, NEW v \in Seq(Nat)
  PROVE  /\ Executed(c, k, v) \in Seq(Nat)
         /\ Skips(c) => Executed(c, k, v) = v
         /\ ~Skips(c) /\ Len(v) - Operands(c) >= 0 =>
              Leaves(c, k, v, Len(v) - Operands(c), Executed(c, k, v))
<1> DEFINE n == Operands(c)
           kept == SubSeq(v, 1, Len(v) - n)
           pushed == IF IsValue(c) THEN <<k>> ELSE <<>>
<1>1. n \in Nat /\ Len(v) \in Nat  BY CountsOperands, LenProperties
<1>2. kept \in Seq(Nat)
  <2>1. CASE n \in 0 .. Len(v)  BY <2>1, Popping
  <2>2. CASE n > Len(v)
    <3>1. kept = <<>>  BY <1>1, <2>2, SubSeqEmpty
    <3>2. <<>> \in Seq(Nat)  OBVIOUS
    <3> HIDE DEF kept
    <3>3. QED  BY <3>1, <3>2
  <2>3. QED  BY <1>1, <2>1, <2>2
<1>3. pushed \in Seq(Nat) /\ Len(pushed) = (IF IsValue(c) THEN 1 ELSE 0)
      /\ (IsValue(c) => pushed[1] = k)
  OBVIOUS
<1>4. n \in 0 .. Len(v) => /\ Len(kept) = Len(v) - n
                           /\ \A h \in 1 .. Len(v) - n : kept[h] = v[h]
  BY Popping
<1>5. Executed(c, k, v) = IF Skips(c) THEN v ELSE kept \o pushed  BY DEF Executed
<1> HIDE DEF n, kept, pushed
<1>6. /\ kept \o pushed \in Seq(Nat) /\ Len(kept \o pushed) = Len(kept) + Len(pushed)
      /\ \A h \in 1 .. Len(kept) : (kept \o pushed)[h] = kept[h]
      /\ \A h \in Len(kept) + 1 .. Len(kept) + Len(pushed) : (kept \o pushed)[h] = pushed[h - Len(kept)]
  BY <1>2, <1>3, Joining
<1>7. ASSUME ~Skips(c), Len(v) - n >= 0
      PROVE  /\ Len(Executed(c, k, v)) = IF IsValue(c) THEN Len(v) - n + 1 ELSE Len(v) - n
             /\ IsValue(c) => Executed(c, k, v)[Len(v) - n + 1] = k
             /\ \A h \in 1 .. Len(v) - n : Executed(c, k, v)[h] = v[h]
  <2>1. n \in 0 .. Len(v)  BY <1>1, <1>7
  <2>2. Len(kept) = Len(v) - n /\ Len(kept) \in Nat  BY <1>1, <1>4, <2>1
  <2>3. IsValue(c) => (kept \o pushed)[Len(kept) + 1] = k
    <3>1. IsValue(c) => Len(kept) + 1 \in Len(kept) + 1 .. Len(kept) + Len(pushed) /\ Len(kept) + 1 - Len(kept) = 1
      BY <1>3, <2>2
    <3>2. QED  BY <1>3, <1>6, <3>1
  <2>4. Executed(c, k, v) = kept \o pushed  BY <1>5, <1>7
  <2>5. ASSUME NEW h \in 1 .. Len(v) - n  PROVE (kept \o pushed)[h] = v[h]
    <3>1. h \in 1 .. Len(kept)  BY <2>2
    <3>2. QED  BY <1>4, <1>6, <2>1, <3>1
  <2>6. Len(kept \o pushed) = IF IsValue(c) THEN Len(v) - n + 1 ELSE Len(v) - n
    BY <1>3, <1>6, <2>2
  <2>7. QED  BY <2>2, <2>3, <2>4, <2>5, <2>6
<1>8. ~Skips(c) /\ Len(v) - n >= 0 => Leaves(c, k, v, Len(v) - n, Executed(c, k, v))
  BY <1>7 DEF Leaves
<1>9. QED  BY <1>5, <1>6, <1>8 DEF n

(* The evaluation stack of a script, command by command.                     *)
Stack(k) == Values(script)[k]
Floor(k) == Below(script, k)

LEMMA StackIs ==
  ASSUME script \in Seq(AstCommands)
  PROVE  /\ Len(script) \in Nat /\ DOMAIN script = 1 .. Len(script)
         /\ Stack(0) = <<>>
         /\ \A k \in 0 .. Len(script) : Stack(k) \in Seq(Nat) /\ Len(Stack(k)) \in Nat
         /\ \A k \in 1 .. Len(script) :
              /\ script[k] \in AstCommands /\ Operands(script[k]) \in Nat
              /\ Floor(k) \in Int /\ Floor(k) + Operands(script[k]) = Len(Stack(k - 1))
              /\ Skips(script[k]) => Stack(k) = Stack(k - 1)
              /\ ~Skips(script[k]) /\ Floor(k) >= 0 =>
                   /\ Len(Stack(k)) = IF IsValue(script[k]) THEN Floor(k) + 1 ELSE Floor(k)
                   /\ IsValue(script[k]) => Stack(k)[Floor(k) + 1] = k
                   /\ \A h \in 1 .. Floor(k) : Stack(k)[h] = Stack(k - 1)[h]
<1>1. /\ Len(script) \in Nat /\ DOMAIN script = 1 .. Len(script)
      /\ \A k \in 1 .. Len(script) : script[k] \in AstCommands
  BY LenProperties, ElementOfSeq
<1>2. /\ Stack(0) = <<>>
      /\ \A k \in 1 .. Len(script) : Stack(k) = Executed(script[k], k, Stack(k - 1))
  BY <1>1, ValuesStep DEF Stack
<1>3. \A k \in 0 .. Len(script) : Stack(k) \in Seq(Nat)
  <2> DEFINE T == {k \in Nat : k <= Len(script) => Stack(k) \in Seq(Nat)}
  <2>1. 0 \in T
    <3>1. <<>> \in Seq(Nat)  OBVIOUS
    <3>2. Stack(0) \in Seq(Nat)  BY <1>2, <3>1
    <3>3. QED  BY <3>2
  <2>2. ASSUME NEW k \in T  PROVE k + 1 \in T
    <3>1. CASE k + 1 <= Len(script)
      <4> DEFINE j == k + 1
      <4>1. j \in 1 .. Len(script) /\ j - 1 = k /\ Stack(k) \in Seq(Nat) /\ j \in Nat  BY <1>1, <3>1
      <4> HIDE DEF j
      <4>2. Stack(j) = Executed(script[j], j, Stack(k))  BY <1>2, <4>1
      <4>3. Stack(j) \in Seq(Nat)  BY <1>1, <4>1, <4>2, OneExecuted
      <4>4. j \in T  BY <4>1, <4>3
      <4>5. QED  BY <4>4 DEF j
    <3>2. CASE ~(k + 1 <= Len(script))  BY <3>2
    <3>3. QED  BY <3>1, <3>2
  <2>3. T \in SUBSET Nat  OBVIOUS
  <2>4. T = Nat
    <3> HIDE DEF T
    <3>1. QED  BY <2>1, <2>2, <2>3, NatSetInduction
  <2>5. QED  BY <1>1, <2>4
<1>4. \A k \in 0 .. Len(script) : Len(Stack(k)) \in Nat  BY <1>3, LenProperties
<1>5. ASSUME NEW k \in 1 .. Len(script)
      PROVE  /\ Operands(script[k]) \in Nat
             /\ Floor(k) \in Int /\ Floor(k) + Operands(script[k]) = Len(Stack(k - 1))
             /\ Skips(script[k]) => Stack(k) = Stack(k - 1)
             /\ ~Skips(script[k]) /\ Floor(k) >= 0 =>
                  /\ Len(Stack(k)) = IF IsValue(script[k]) THEN Floor(k) + 1 ELSE Floor(k)
                  /\ IsValue(script[k]) => Stack(k)[Floor(k) + 1] = k
                  /\ \A h \in 1 .. Floor(k) : Stack(k)[h] = Stack(k - 1)[h]
  <2> DEFINE c == script[k]
             v == Stack(k - 1)
  <2>1. c \in AstCommands /\ k \in Nat /\ v \in Seq(Nat) /\ Len(v) \in Nat
        /\ Operands(c) \in Nat
    BY <1>1, <1>3, <1>4, CountsOperands
  <2>2. Stack(k) = Executed(c, k, v)  BY <1>2
  <2>3. Floor(k) = Len(v) - Operands(c)  BY DEF Floor, Below, Stack
  <2> HIDE DEF c, v
  <2>4. Floor(k) \in Int /\ Floor(k) + Operands(c) = Len(v)  BY <2>1, <2>3
  <2>5. Skips(c) => Stack(k) = v  BY <2>1, <2>2, OneExecuted
  <2>6. ~Skips(c) /\ Floor(k) >= 0 =>
          /\ Len(Stack(k)) = IF IsValue(c) THEN Floor(k) + 1 ELSE Floor(k)
          /\ IsValue(c) => Stack(k)[Floor(k) + 1] = k
          /\ \A h \in 1 .. Floor(k) : Stack(k)[h] = v[h]
    <3>1. ~Skips(c) /\ Floor(k) >= 0 => Leaves(c, k, v, Floor(k), Stack(k))
      BY <2>1, <2>2, <2>3, OneExecuted
    <3>2. QED  BY <3>1 DEF Leaves
  <2>7. QED  BY <2>1, <2>4, <2>5, <2>6 DEF c, v
<1>6. QED  BY <1>1, <1>2, <1>3, <1>4, <1>5
-----------------------------------------------------------------------------
ReadAfter(k) == {j \in k + 1 .. Len(script) : ~Skips(script[j])}

AstTyped ==
  /\ script \in Seq(AstCommands) /\ rest \in 0 .. Len(script)
  /\ waiting \in Seq(Nat) /\ statements \in Seq(Nat)
  /\ tree \in [ReadAfter(rest) -> Nodes]
  /\ \A i \in 1 .. Len(waiting) : waiting[i] \in DOMAIN tree

(* What the types say of every sequence and every node.                      *)
LEMMA TypedIs ==
  ASSUME AstTyped
  PROVE  /\ Len(script) \in Nat /\ Len(waiting) \in Nat /\ Len(statements) \in Nat
         /\ DOMAIN waiting = 1 .. Len(waiting) /\ DOMAIN statements = 1 .. Len(statements)
         /\ \A i \in 1 .. Len(waiting) : waiting[i] \in Nat
         /\ \A i \in 1 .. Len(statements) : statements[i] \in Nat
         /\ DOMAIN tree = ReadAfter(rest)
         /\ \A k \in DOMAIN tree :
              /\ k \in 1 .. Len(script) /\ k > rest /\ ~Skips(script[k])
              /\ tree[k] \in Nodes /\ tree[k].args \in Seq(Nat) /\ Len(tree[k].args) \in Nat
              /\ DOMAIN tree[k].args = 1 .. Len(tree[k].args)
              /\ Operands(script[k]) \in Nat /\ Wants(k) \in Int
              /\ Wants(k) = Operands(script[k]) - Len(tree[k].args)
<1>1. /\ script \in Seq(AstCommands) /\ rest \in 0 .. Len(script)
      /\ waiting \in Seq(Nat) /\ statements \in Seq(Nat)
      /\ tree \in [ReadAfter(rest) -> Nodes]
  BY DEF AstTyped
<1>2. /\ Len(script) \in Nat /\ Len(waiting) \in Nat /\ Len(statements) \in Nat
      /\ DOMAIN waiting = 1 .. Len(waiting) /\ DOMAIN statements = 1 .. Len(statements)
  BY <1>1, LenProperties
<1>3. /\ \A i \in 1 .. Len(waiting) : waiting[i] \in Nat
      /\ \A i \in 1 .. Len(statements) : statements[i] \in Nat
  BY <1>1, ElementOfSeq
<1>4. DOMAIN tree = ReadAfter(rest) /\ \A k \in DOMAIN tree : tree[k] \in Nodes  BY <1>1
<1>5. \A k \in DOMAIN tree : k \in 1 .. Len(script) /\ k > rest /\ ~Skips(script[k])
  BY <1>1, <1>2, <1>4 DEF ReadAfter
<1>6. \A k \in DOMAIN tree : tree[k].args \in Seq(Nat)  BY <1>4 DEF Nodes
<1>7. \A k \in DOMAIN tree : /\ Len(tree[k].args) \in Nat
                             /\ DOMAIN tree[k].args = 1 .. Len(tree[k].args)
  BY <1>6, LenProperties
<1>8. \A k \in DOMAIN tree : Operands(script[k]) \in Nat  BY <1>1, <1>5, StackIs
<1>9. QED  BY <1>2, <1>3, <1>4, <1>5, <1>6, <1>7, <1>8 DEF Wants

(* The innermost of the calls that wait, and the others.                     *)
LEMMA LastAndFront ==
  ASSUME NEW s \in Seq(Nat), s # <<>>
  PROVE  /\ Len(s) \in Nat \ {0} /\ Last(s) = s[Len(s)]
         /\ Front(s) \in Seq(Nat) /\ Len(Front(s)) = Len(s) - 1
         /\ \A i \in 1 .. Len(s) - 1 : Front(s)[i] = s[i]
<1>1. Len(s) \in Nat \ {0}  BY EmptySeq, LenProperties
<1>2. 1 \in 0 .. Len(s)  BY <1>1
<1>3. Front(s) = SubSeq(s, 1, Len(s) - 1)  BY DEF Front
<1>4. /\ Front(s) \in Seq(Nat) /\ Len(Front(s)) = Len(s) - 1
      /\ \A i \in 1 .. Len(s) - 1 : Front(s)[i] = s[i]
  BY <1>2, <1>3, Popping
<1>5. QED  BY <1>1, <1>4 DEF Last

(* What each action does.                                                   *)
LEMMA TakeIs ==
  ASSUME AstTyped, Take
  PROVE  LET n == Len(waiting)
         IN /\ script' = script /\ statements' = statements /\ state' = state
            /\ rest \in 1 .. Len(script) /\ rest' = rest - 1 /\ ~Skips(script[rest])
            /\ Len(waiting') = n + 1 /\ waiting'[n + 1] = rest
            /\ \A i \in 1 .. n : waiting'[i] = waiting[i]
            /\ rest \notin DOMAIN tree /\ DOMAIN tree' = DOMAIN tree \cup {rest}
            /\ tree'[rest].args = <<>> /\ \A k \in DOMAIN tree : tree'[k] = tree[k]
            /\ n > 0 => Wants(waiting[n]) > 0
            /\ AstTyped'
<1> DEFINE n == Len(waiting)
<1>1. /\ n \in Nat /\ Len(script) \in Nat /\ rest \in 0 .. Len(script)
      /\ script \in Seq(AstCommands) /\ waiting \in Seq(Nat) /\ statements \in Seq(Nat)
      /\ tree \in [ReadAfter(rest) -> Nodes]
      /\ \A i \in 1 .. n : waiting[i] \in DOMAIN tree
  BY TypedIs DEF AstTyped
<1>2. /\ script' = script /\ statements' = statements /\ state' = state
      /\ rest \in 1 .. Len(script) /\ rest' = rest - 1 /\ ~Skips(script[rest])
  BY <1>1 DEF Take, Previous, Here
<1>3. /\ waiting' \in Seq(Nat) /\ Len(waiting') = n + 1 /\ waiting'[n + 1] = rest
      /\ \A i \in 1 .. n : waiting'[i] = waiting[i]
  <2>1. waiting' = Append(waiting, rest) /\ rest \in Nat  BY <1>1 DEF Take
  <2>2. QED  BY <1>1, <2>1, Pushing
<1>4. n > 0 => Wants(waiting[n]) > 0
  <2>1. CASE n > 0
    <3>1. waiting # <<>>  BY <1>1, <2>1, EmptySeq
    <3>2. Wants(Last(waiting)) > 0  BY <3>1 DEF Take, Wanted
    <3>3. QED  BY <1>1, <3>1, <3>2, LastAndFront
  <2>2. QED  BY <2>1
<1> DEFINE node == [type |-> NodeType(Here, Suspect), args |-> <<>>]
<1>5. node \in Nodes /\ node.args = <<>>
  <2>1. Suspect \in Types
    <3>1. "None" \in Types  BY DEF Types
    <3>2. QED  BY <3>1, SuspectsType DEF Suspect
  <2>2. NodeType(Here, Suspect) \in Types  BY <2>1, SuspectsType
  <2>3. <<>> \in Seq(Nat)  OBVIOUS
  <2>4. QED  BY <2>2, <2>3 DEF Nodes
<1>6. tree' = [k \in DOMAIN tree \cup {rest} |-> IF k = rest THEN node ELSE tree[k]]
  BY DEF Take
<1> HIDE DEF node
<1>7. DOMAIN tree = ReadAfter(rest) /\ rest \notin DOMAIN tree
      /\ ReadAfter(rest) \cup {rest} = ReadAfter(rest - 1)
  BY <1>1, <1>2 DEF ReadAfter
<1>8. /\ DOMAIN tree' = DOMAIN tree \cup {rest} /\ tree'[rest].args = <<>>
      /\ \A k \in DOMAIN tree : tree'[k] = tree[k]
      /\ tree' \in [ReadAfter(rest - 1) -> Nodes]
  <2>1. tree' \in [DOMAIN tree \cup {rest} -> Nodes]  BY <1>1, <1>5, <1>6, <1>7
  <2>2. QED  BY <1>5, <1>6, <1>7, <2>1
<1>9. ReadAfter(rest)' = ReadAfter(rest - 1)  BY <1>2 DEF ReadAfter
<1>10. \A i \in 1 .. n + 1 : waiting'[i] \in DOMAIN tree'
  <2>1. \A i \in 1 .. n + 1 : i \in 1 .. n \/ i = n + 1  BY <1>1
  <2>2. QED  BY <1>1, <1>3, <1>8, <2>1
<1>11. AstTyped'
  BY <1>1, <1>2, <1>3, <1>8, <1>9, <1>10 DEF AstTyped
<1>12. QED  BY <1>2, <1>3, <1>4, <1>7, <1>8, <1>11

LEMMA GiveIs ==
  ASSUME AstTyped, Give
  PROVE  LET n == Len(waiting)
         IN /\ script' = script /\ rest' = rest /\ state' = state
            /\ n \in Nat \ {0} /\ Wants(waiting[n]) = 0
            /\ Len(waiting') = n - 1 /\ \A i \in 1 .. n - 1 : waiting'[i] = waiting[i]
            /\ DOMAIN tree' = DOMAIN tree
            /\ n = 1 => tree' = tree /\ statements' = <<waiting[n]>> \o statements
            /\ n > 1 =>
                 /\ statements' = statements
                 /\ tree'[waiting[n - 1]].args = <<waiting[n]>> \o tree[waiting[n - 1]].args
                 /\ \A k \in DOMAIN tree : k # waiting[n - 1] => tree'[k] = tree[k]
            /\ AstTyped'
<1> DEFINE n == Len(waiting)
<1>1. /\ n \in Nat /\ Len(script) \in Nat /\ rest \in 0 .. Len(script)
      /\ script \in Seq(AstCommands) /\ waiting \in Seq(Nat) /\ statements \in Seq(Nat)
      /\ tree \in [ReadAfter(rest) -> Nodes]
      /\ \A i \in 1 .. n : waiting[i] \in DOMAIN tree /\ waiting[i] \in Nat
  BY TypedIs DEF AstTyped
<1>2. script' = script /\ rest' = rest /\ state' = state  BY DEF Give, Remaining
<1>3. /\ n \in Nat \ {0} /\ Last(waiting) = waiting[n] /\ waiting' \in Seq(Nat)
      /\ Len(waiting') = n - 1 /\ \A i \in 1 .. n - 1 : waiting'[i] = waiting[i]
  <2>1. waiting # <<>> /\ waiting' = Front(waiting)  BY DEF Give
  <2>2. QED  BY <1>1, <2>1, LastAndFront
<1>4. Wants(waiting[n]) = 0  BY <1>3 DEF Give
<1>5. ReadAfter(rest)' = ReadAfter(rest)  BY <1>2 DEF ReadAfter
<1>6. CASE n = 1
  <2>1. tree' = tree /\ statements' = <<waiting[n]>> \o statements  BY <1>3, <1>6 DEF Give
  <2>2. <<waiting[n]>> \in Seq(Nat)  BY <1>1, <1>3
  <2>3. statements' \in Seq(Nat)  BY <1>1, <2>1, <2>2, Joining
  <2>4. AstTyped'  BY <1>1, <1>2, <1>3, <1>5, <1>6, <2>1, <2>3 DEF AstTyped
  <2>5. QED  BY <1>2, <1>3, <1>4, <1>6, <2>1, <2>4
<1>7. CASE n > 1
  <2> DEFINE p == waiting[n - 1]
             node == [tree[p] EXCEPT !.args = Placed(@, waiting[n])]
  <2>1. p \in DOMAIN tree /\ tree[p] \in Nodes /\ tree[p].args \in Seq(Nat)
    BY <1>1, <1>7, TypedIs
  <2>2. Last(waiting') = p
    <3>1. waiting' # <<>>  BY <1>3, <1>7, EmptySeq
    <3>2. Last(waiting') = waiting'[n - 1]  BY <1>3, <3>1, LastAndFront
    <3>3. QED  BY <1>3, <1>7, <3>2
  <2>3. tree' = [tree EXCEPT ![p] = node] /\ statements' = statements
    <3>1. Len(waiting) # 1
      <4>1. n \in Nat  BY <1>1
      <4>2. \A m \in Nat : m > 1 => m # 1  OBVIOUS
      <4> HIDE DEF n
      <4>3. n # 1  BY <1>7, <4>1, <4>2
      <4>4. QED  BY <4>3 DEF n
    <3>2. /\ tree' = [tree EXCEPT ![Last(waiting')].args = Placed(@, Last(waiting))]
          /\ statements' = statements
      BY <3>1 DEF Give
    <3>3. tree' = [tree EXCEPT ![p].args = Placed(@, waiting[n])]  BY <1>3, <2>2, <3>2
    <3>4. QED  BY <3>2, <3>3
  <2>4. node \in Nodes /\ node.args = <<waiting[n]>> \o tree[p].args
    <3>1. <<waiting[n]>> \in Seq(Nat)  BY <1>1, <1>3
    <3>2. <<waiting[n]>> \o tree[p].args \in Seq(Nat)  BY <2>1, <3>1, Joining
    <3>3. QED  BY <2>1, <3>2 DEF Nodes, Placed
  <2> HIDE DEF p, node
  <2>5. /\ DOMAIN tree' = DOMAIN tree /\ tree'[p] = node
        /\ \A k \in DOMAIN tree : k # p => tree'[k] = tree[k]
        /\ tree' \in [ReadAfter(rest) -> Nodes]
    BY <1>1, <2>1, <2>3, <2>4
  <2>6. AstTyped'  BY <1>1, <1>2, <1>3, <1>5, <2>3, <2>5 DEF AstTyped
  <2>7. QED  BY <1>2, <1>3, <1>4, <1>7, <2>3, <2>4, <2>5, <2>6 DEF p
<1>8. QED  BY <1>3, <1>6, <1>7
-----------------------------------------------------------------------------
(* Where the commands are.                                                  *)
Within(s, k) == \E i \in 1 .. Len(s) : s[i] = k
Has(t, p, c) == Within(t[p].args, c)

(* Everything read has a place: it waits, is a statement or an operand.      *)
AllPlaced ==
  /\ \A k \in DOMAIN tree : Within(waiting, k) \/ Within(statements, k) \/ \E p \in DOMAIN tree : Has(tree, p, k)
  /\ \A i \in 1 .. Len(statements) : statements[i] \in DOMAIN tree
  /\ \A p \in DOMAIN tree : \A c : Has(tree, p, c) => c \in DOMAIN tree /\ c < p

(* The operands of a node and the statements lie in their order, and those     *)
(* that wait before them, the innermost first.                               *)
Ordered ==
  /\ Increasing(statements) /\ \A p \in DOMAIN tree : Increasing(tree[p].args)
  /\ \A i, j \in 1 .. Len(waiting) :
       i < j => waiting[j] < waiting[i] /\ \A c : Has(tree, waiting[i], c) => waiting[j] < c
  /\ \A i \in 1 .. Len(waiting), j \in 1 .. Len(statements) : waiting[i] < statements[j]

(* Nothing that belongs elsewhere lies between an operand and its command, and *)
(* a node with an operand before a command that waits ends before it too.     *)
Nested ==
  /\ \A p, q \in DOMAIN tree : \A c, d :
       Has(tree, p, c) /\ Has(tree, q, d) /\ c <= d /\ d < p => q <= p
  /\ \A p \in DOMAIN tree : \A c, k : Has(tree, p, c) /\ (Within(waiting, k) \/ Within(statements, k)) => ~(c <= k /\ k < p)
  /\ \A p \in DOMAIN tree : \A c, k : Has(tree, p, c) /\ Within(waiting, k) /\ c < k => p <= k

OrderInv == AllPlaced /\ Ordered /\ Nested

(* Commands that wait were read, and what was read lies after what was not.    *)
LEMMA Nobody ==
  ASSUME AstTyped
  PROVE  /\ \A k : Within(waiting, k) => k \in DOMAIN tree
         /\ \A k \in DOMAIN tree : k \in Nat /\ k > rest
         /\ rest \in Nat
BY TypedIs DEF Within, AstTyped

(* A command begins to wait before everything that was read.                 *)
LEMMA TakeMoves ==
  ASSUME AstTyped, Take
  PROVE  /\ \A k : Within(waiting', k) <=> Within(waiting, k) \/ k = rest
         /\ \A k : Within(statements', k) <=> Within(statements, k)
         /\ \A p \in DOMAIN tree : \A c : Has(tree', p, c) <=> Has(tree, p, c)
         /\ \A c : ~Has(tree', rest, c)
<1> DEFINE n == Len(waiting)
<1>1. /\ statements' = statements /\ n \in Nat
      /\ Len(waiting') = n + 1 /\ waiting'[n + 1] = rest
      /\ \A i \in 1 .. n : waiting'[i] = waiting[i]
      /\ tree'[rest].args = <<>> /\ \A k \in DOMAIN tree : tree'[k] = tree[k]
  BY TakeIs, TypedIs
<1> HIDE DEF n
<1>2. \A i \in 1 .. n + 1 : i \in 1 .. n \/ i = n + 1  BY <1>1
<1>3. \A i \in 1 .. n : i \in 1 .. n + 1  BY <1>1
<1>4. n + 1 \in 1 .. n + 1  BY <1>1
<1>5. \A k : Within(waiting', k) <=> Within(waiting, k) \/ k = rest
  BY <1>1, <1>2, <1>3, <1>4 DEF Within, n
<1>6. \A k : Within(statements', k) <=> Within(statements, k)  BY <1>1 DEF Within
<1>7. \A p \in DOMAIN tree : \A c : Has(tree', p, c) <=> Has(tree, p, c)  BY <1>1 DEF Has
<1>8. \A c : ~Has(tree', rest, c)
  <2>1. Len(tree'[rest].args) = 0  BY <1>1
  <2>2. QED  BY <2>1 DEF Has, Within
<1>9. QED  BY <1>5, <1>6, <1>7, <1>8

(* So the order stays: the command has no operands yet.                      *)
LEMMA TakeOrdered ==
  ASSUME AstTyped, OrderInv, Take
  PROVE  OrderInv'
<1> DEFINE n == Len(waiting)
<1>1. /\ statements' = statements /\ n \in Nat
      /\ Len(waiting') = n + 1 /\ waiting'[n + 1] = rest
      /\ \A i \in 1 .. n : waiting'[i] = waiting[i]
      /\ rest \notin DOMAIN tree /\ DOMAIN tree' = DOMAIN tree \cup {rest}
      /\ tree'[rest].args = <<>> /\ \A k \in DOMAIN tree : tree'[k] = tree[k]
      /\ \A i \in 1 .. n : waiting[i] \in DOMAIN tree
      /\ \A k \in DOMAIN tree : k \in Nat /\ k > rest
      /\ rest \in Nat
  BY TakeIs, TypedIs, Nobody DEF AstTyped
<1>2. /\ \A k : Within(waiting', k) <=> Within(waiting, k) \/ k = rest
      /\ \A k : Within(statements', k) <=> Within(statements, k)
      /\ \A p \in DOMAIN tree : \A c : Has(tree', p, c) <=> Has(tree, p, c)
      /\ \A c : ~Has(tree', rest, c)
  BY TakeMoves
<1> HIDE DEF n
<1>3. \A p \in DOMAIN tree : \A c : Has(tree, p, c) => c \in DOMAIN tree /\ c < p  BY DEF OrderInv, AllPlaced
<1>4. \A i \in 1 .. n + 1 : i \in 1 .. n \/ i = n + 1  BY <1>1
<1>5. AllPlaced'
  <2>1. \A k \in DOMAIN tree' : Within(waiting', k) \/ Within(statements', k) \/ \E p \in DOMAIN tree' : Has(tree', p, k)
    BY <1>1, <1>2 DEF OrderInv, AllPlaced
  <2>2. \A i \in 1 .. Len(statements') : statements'[i] \in DOMAIN tree'
    BY <1>1 DEF OrderInv, AllPlaced
  <2>3. \A p \in DOMAIN tree' : \A c : Has(tree', p, c) => c \in DOMAIN tree' /\ c < p
    BY <1>1, <1>2, <1>3
  <2>4. QED  BY <2>1, <2>2, <2>3 DEF AllPlaced
<1>6. Ordered'
  <2>1. Increasing(statements')  BY <1>1 DEF OrderInv, Ordered
  <2>2. \A p \in DOMAIN tree' : Increasing(tree'[p].args)
    <3>1. Increasing(<<>>)  BY DEF Increasing
    <3>2. QED  BY <1>1, <3>1 DEF OrderInv, Ordered
  <2>3. ASSUME NEW i \in 1 .. n + 1, NEW j \in 1 .. n + 1, i < j
        PROVE  waiting'[j] < waiting'[i] /\ \A c : Has(tree', waiting'[i], c) => waiting'[j] < c
    <3>1. i \in 1 .. n /\ waiting'[i] = waiting[i] /\ waiting[i] \in DOMAIN tree  BY <1>1, <2>3
    <3>2. CASE j \in 1 .. n
      <4>1. waiting'[j] = waiting[j]  BY <1>1, <3>2
      <4>2. waiting[j] < waiting[i] /\ \A c : Has(tree, waiting[i], c) => waiting[j] < c
        BY <2>3, <3>1, <3>2 DEF OrderInv, Ordered, n
      <4>3. QED  BY <1>2, <3>1, <4>1, <4>2
    <3>3. CASE j = n + 1
      <4>1. waiting'[j] = rest  BY <1>1, <3>3
      <4>2. \A c : Has(tree, waiting[i], c) => rest < c  BY <1>1, <1>3, <3>1
      <4>3. QED  BY <1>1, <1>2, <3>1, <4>1, <4>2
    <3>4. QED  BY <1>4, <3>2, <3>3
  <2>4. ASSUME NEW i \in 1 .. n + 1, NEW j \in 1 .. Len(statements')
        PROVE  waiting'[i] < statements'[j]
    <3>1. statements'[j] = statements[j] /\ j \in 1 .. Len(statements) /\ statements[j] \in DOMAIN tree
      BY <1>1 DEF OrderInv, AllPlaced
    <3>2. CASE i \in 1 .. n  BY <1>1, <3>1, <3>2 DEF OrderInv, Ordered, n
    <3>3. CASE i = n + 1     BY <1>1, <3>1, <3>3
    <3>4. QED  BY <1>4, <3>2, <3>3
  <2>5. QED  BY <1>1, <2>1, <2>2, <2>3, <2>4 DEF Ordered
<1>7. Nested'
  <2>1. \A p \in DOMAIN tree' : \A c : Has(tree', p, c) => p \in DOMAIN tree /\ Has(tree, p, c) /\ c > rest /\ c \in Nat
    BY <1>1, <1>2, <1>3
  <2>2. \A p, q \in DOMAIN tree' : \A c, d : Has(tree', p, c) /\ Has(tree', q, d) /\ c <= d /\ d < p => q <= p
    BY <2>1 DEF OrderInv, Nested
  <2>3. \A p \in DOMAIN tree' : \A c, k : Has(tree', p, c) /\ (Within(waiting', k) \/ Within(statements', k)) => ~(c <= k /\ k < p)
    <3>1. SUFFICES ASSUME NEW p \in DOMAIN tree', NEW c, NEW k, Has(tree', p, c), Within(waiting', k) \/ Within(statements', k)
                   PROVE  ~(c <= k /\ k < p)
      OBVIOUS
    <3>2. p \in DOMAIN tree /\ Has(tree, p, c) /\ c > rest /\ c \in Nat  BY <2>1, <3>1
    <3>3. CASE k = rest  BY <1>1, <3>2, <3>3
    <3>4. CASE Within(waiting, k) \/ Within(statements, k)  BY <3>2, <3>4 DEF OrderInv, Nested
    <3>5. QED  BY <1>2, <3>1, <3>3, <3>4
  <2>4. \A p \in DOMAIN tree' : \A c, k : Has(tree', p, c) /\ Within(waiting', k) /\ c < k => p <= k
    <3>1. SUFFICES ASSUME NEW p \in DOMAIN tree', NEW c, NEW k, Has(tree', p, c), Within(waiting', k), c < k
                   PROVE  p <= k
      OBVIOUS
    <3>2. p \in DOMAIN tree /\ Has(tree, p, c) /\ c > rest /\ c \in Nat  BY <2>1, <3>1
    <3>3. CASE k = rest  BY <1>1, <3>1, <3>2, <3>3
    <3>4. CASE Within(waiting, k)  BY <3>1, <3>2, <3>4 DEF OrderInv, Nested
    <3>5. QED  BY <1>2, <3>1, <3>3, <3>4
  <2>5. QED  BY <2>2, <2>3, <2>4 DEF Nested
<1>8. QED  BY <1>5, <1>6, <1>7 DEF OrderInv

(* A command in front of a sequence.                                         *)
LEMMA Prepended ==
  ASSUME NEW s \in Seq(Nat), NEW e \in Nat
  PROVE  /\ \A k : Within(<<e>> \o s, k) <=> k = e \/ Within(s, k)
         /\ Len(<<e>> \o s) = Len(s) + 1 /\ (<<e>> \o s)[1] = e
         /\ \A i \in 1 .. Len(s) : (<<e>> \o s)[i + 1] = s[i]
         /\ Increasing(s) /\ (\A i \in 1 .. Len(s) : e < s[i]) => Increasing(<<e>> \o s)
<1> DEFINE one == <<e>>
           t == one \o s
<1>1. one \in Seq(Nat) /\ Len(one) = 1 /\ one[1] = e  OBVIOUS
<1> HIDE DEF one
<1>0. /\ t \in Seq(Nat) /\ Len(t) = Len(one) + Len(s)
      /\ \A k \in 1 .. Len(one) : t[k] = one[k]
      /\ \A k \in Len(one) + 1 .. Len(one) + Len(s) : t[k] = s[k - Len(one)]
      /\ Len(s) \in Nat
  BY <1>1, Joining
<1> HIDE DEF t
<1>2. Len(s) \in Nat /\ t \in Seq(Nat) /\ Len(t) = Len(s) + 1
  BY <1>0, <1>1
<1>3. t[1] = e
  <2>1. 1 \in 1 .. Len(one)  BY <1>1
  <2>2. t[1] = one[1]  BY <1>0, <1>1, <2>1
  <2>3. QED  BY <1>1, <2>2
<1>4. ASSUME NEW i \in 1 .. Len(s)  PROVE t[i + 1] = s[i]
  <2>1. i + 1 \in Len(one) + 1 .. Len(one) + Len(s) /\ i + 1 - Len(one) = i  BY <1>1, <1>2
  <2>2. t[i + 1] = s[i + 1 - Len(one)]  BY <1>0, <1>1, <2>1
  <2>3. QED  BY <2>1, <2>2
<1>5. /\ DOMAIN t = 1 .. Len(s) + 1 /\ DOMAIN s = 1 .. Len(s)
      /\ \A i \in 1 .. Len(s) : s[i] \in Nat
  BY <1>2, LenProperties, ElementOfSeq
<1>6. ASSUME NEW j \in 1 .. Len(s) + 1  PROVE j = 1 \/ (j - 1 \in 1 .. Len(s) /\ t[j] = s[j - 1])
  <2>1. j = 1 \/ (j - 1 \in 1 .. Len(s) /\ (j - 1) + 1 = j)  BY <1>2
  <2>2. QED  BY <1>4, <2>1
<1>7. ASSUME NEW k  PROVE Within(t, k) <=> k = e \/ Within(s, k)
  <2>1. ASSUME Within(t, k)  PROVE k = e \/ Within(s, k)
    BY <1>2, <1>3, <1>6, <2>1 DEF Within
  <2>2. ASSUME k = e  PROVE Within(t, k)
    <3>1. 1 \in 1 .. Len(t)  BY <1>2
    <3>2. QED  BY <1>3, <2>2, <3>1 DEF Within
  <2>3. ASSUME Within(s, k)  PROVE Within(t, k)
    <3>1. PICK i \in 1 .. Len(s) : s[i] = k  BY <2>3 DEF Within
    <3>2. i + 1 \in 1 .. Len(t)  BY <1>2
    <3>3. QED  BY <1>4, <3>1, <3>2 DEF Within
  <2>4. QED  BY <2>1, <2>2, <2>3
<1>8. ASSUME Increasing(s), \A i \in 1 .. Len(s) : e < s[i]
      PROVE  Increasing(t)
  <2>1. SUFFICES ASSUME NEW i \in 1 .. Len(s) + 1, NEW j \in 1 .. Len(s) + 1, i < j  PROVE t[i] < t[j]
    BY <1>5 DEF Increasing
  <2>2. j - 1 \in 1 .. Len(s) /\ t[j] = s[j - 1]
    <3>1. j # 1  BY <1>2, <2>1
    <3>2. QED  BY <1>6, <3>1
  <2>3. CASE i = 1  BY <1>3, <1>8, <2>2, <2>3
  <2>4. CASE i - 1 \in 1 .. Len(s) /\ t[i] = s[i - 1]
    <3>1. i - 1 < j - 1  BY <1>2, <2>1
    <3>2. QED  BY <1>5, <1>8, <2>2, <2>4, <3>1 DEF Increasing
  <2>5. QED  BY <1>6, <2>3, <2>4
<1>9. QED  BY <1>2, <1>3, <1>4, <1>7, <1>8 DEF t, one

(* Whoever returns waits no more: its node becomes the first statement, or the *)
(* first operand of the node before it.                                     *)
LEMMA GiveMoves ==
  ASSUME AstTyped, Ordered, Give
  PROVE  LET n == Len(waiting)
             c == waiting[n]
         IN /\ \A k : Within(waiting', k) <=> Within(waiting, k) /\ k # c
            /\ \A k : Within(statements', k) <=> Within(statements, k) \/ (n = 1 /\ k = c)
            /\ \A p \in DOMAIN tree : \A x : Has(tree', p, x) <=> Has(tree, p, x) \/ (n > 1 /\ p = waiting[n - 1] /\ x = c)
<1> DEFINE n == Len(waiting)
           c == waiting[n]
<1>1. /\ n \in Nat \ {0} /\ Len(waiting') = n - 1
      /\ \A i \in 1 .. n - 1 : waiting'[i] = waiting[i]
      /\ n = 1 => tree' = tree /\ statements' = <<c>> \o statements
      /\ n > 1 =>
           /\ statements' = statements
           /\ tree'[waiting[n - 1]].args = <<c>> \o tree[waiting[n - 1]].args
           /\ \A k \in DOMAIN tree : k # waiting[n - 1] => tree'[k] = tree[k]
      /\ statements \in Seq(Nat)
      /\ \A i \in 1 .. n : waiting[i] \in Nat /\ waiting[i] \in DOMAIN tree
  BY GiveIs, TypedIs DEF AstTyped
<1>2. \A i \in 1 .. n - 1 : waiting[n] < waiting[i]
  <2>1. \A i \in 1 .. n - 1 : i \in 1 .. n /\ n \in 1 .. n /\ i < n  BY <1>1
  <2>2. QED  BY <2>1 DEF Ordered
<1>3. n \in 1 .. n  BY <1>1
<1> HIDE DEF n
<1>4. ASSUME NEW k  PROVE Within(waiting', k) <=> Within(waiting, k) /\ k # c
  <2>1. \A i \in 1 .. n - 1 : i \in 1 .. n /\ waiting[i] # c  BY <1>1, <1>2, <1>3
  <2>2. \A i \in 1 .. n : i \in 1 .. n - 1 \/ i = n  BY <1>1
  <2> HIDE DEF c
  <2>3. Within(waiting, k) <=> \E i \in 1 .. n : waiting[i] = k  BY DEF Within, n
  <2>4. Within(waiting', k) <=> \E i \in 1 .. n - 1 : waiting'[i] = k  BY <1>1 DEF Within
  <2>5. QED  BY <1>1, <2>1, <2>2, <2>3, <2>4 DEF c
<1> HIDE DEF c
<1>5. n = 1 \/ n > 1  BY <1>1
<1>6. c \in Nat  BY <1>1, <1>3 DEF c
<1>7. ASSUME NEW k  PROVE Within(statements', k) <=> Within(statements, k) \/ (n = 1 /\ k = c)
  <2>1. CASE n = 1
    <3>1. statements' = <<c>> \o statements /\ statements \in Seq(Nat)  BY <1>1, <2>1
    <3>2. Within(<<c>> \o statements, k) <=> k = c \/ Within(statements, k)
      BY <1>6, <3>1, Prepended
    <3>3. QED  BY <2>1, <3>1, <3>2
  <2>2. CASE n > 1
    <3>1. n # 1  BY <1>1, <2>2
    <3>2. QED  BY <1>1, <2>2, <3>1 DEF Within
  <2>3. QED  BY <1>5, <2>1, <2>2
<1>8. ASSUME NEW p \in DOMAIN tree, NEW x
      PROVE  Has(tree', p, x) <=> Has(tree, p, x) \/ (n > 1 /\ p = waiting[n - 1] /\ x = c)
  <2>1. CASE n = 1
    <3>1. ~(n > 1)  BY <2>1
    <3>2. tree' = tree  BY <1>1, <2>1
    <3>3. QED  BY <3>1, <3>2 DEF Has
  <2>2. CASE n > 1 /\ p # waiting[n - 1]
    <3>1. tree'[p] = tree[p]  BY <1>1, <2>2
    <3>2. QED  BY <2>2, <3>1 DEF Has
  <2>3. CASE n > 1 /\ p = waiting[n - 1]
    <3>1. tree'[p].args = <<c>> \o tree[p].args  BY <1>1, <2>3
    <3>2. tree[p].args \in Seq(Nat)  BY TypedIs
    <3>3. Within(<<c>> \o tree[p].args, x) <=> x = c \/ Within(tree[p].args, x)
      BY <1>6, <3>2, Prepended
    <3>4. QED  BY <2>3, <3>1, <3>3 DEF Has
  <2>4. QED  BY <1>5, <2>1, <2>2, <2>3
<1>9. QED  BY <1>4, <1>7, <1>8 DEF n, c

(* It lies before all other operands of its command, and nothing that was       *)
(* read lies between the two that is not theirs.                            *)
LEMMA GiveOrdered ==
  ASSUME AstTyped, OrderInv, Give
  PROVE  OrderInv'
<1> DEFINE n == Len(waiting)
           c == waiting[n]
           p0 == waiting[n - 1]
<1>1. /\ n \in Nat \ {0} /\ Len(waiting') = n - 1 /\ DOMAIN tree' = DOMAIN tree
      /\ \A i \in 1 .. n - 1 : waiting'[i] = waiting[i]
      /\ n = 1 => tree' = tree /\ statements' = <<c>> \o statements
      /\ n > 1 =>
           /\ statements' = statements
           /\ tree'[p0].args = <<c>> \o tree[p0].args
           /\ \A k \in DOMAIN tree : k # p0 => tree'[k] = tree[k]
      /\ statements \in Seq(Nat)
      /\ \A i \in 1 .. n : waiting[i] \in Nat /\ waiting[i] \in DOMAIN tree
  BY GiveIs, TypedIs DEF AstTyped
<1>2. /\ \A k : Within(waiting', k) <=> Within(waiting, k) /\ k # c
      /\ \A k : Within(statements', k) <=> Within(statements, k) \/ (n = 1 /\ k = c)
      /\ \A p \in DOMAIN tree : \A x : Has(tree', p, x) <=> Has(tree, p, x) \/ (n > 1 /\ p = p0 /\ x = c)
  BY GiveMoves DEF OrderInv
<1>3. /\ \A k : Within(waiting, k) => k \in DOMAIN tree
      /\ \A k \in DOMAIN tree : k \in Nat
  BY Nobody
<1>4. /\ n > 1 => n - 1 \in 1 .. n /\ n - 1 \in 1 .. n - 1
      /\ n = 1 \/ n > 1
      /\ \A i \in 1 .. n : i \in 1 .. n - 1 \/ i = n
      /\ \A i \in 1 .. n - 1 : i \in 1 .. n /\ i < n /\ (i = n - 1 \/ i < n - 1) /\ n > 1
      /\ n > 1 => n - 1 < n
      /\ n \in 1 .. n
  <2>1. n \in Nat \ {0}  BY <1>1
  <2> HIDE DEF n
  <2>2. QED  BY <2>1
<1>5. /\ \A i, j \in 1 .. n :
           i < j => waiting[j] < waiting[i] /\ \A x : Has(tree, waiting[i], x) => waiting[j] < x
      /\ \A i \in 1 .. n, j \in 1 .. Len(statements) : waiting[i] < statements[j]
      /\ Increasing(statements) /\ \A p \in DOMAIN tree : Increasing(tree[p].args)
  BY DEF OrderInv, Ordered
<1>6. Within(waiting, c) /\ (n > 1 => Within(waiting, p0))
  BY <1>4 DEF Within
<1> HIDE DEF n
<1>7. n > 1 => /\ p0 \in DOMAIN tree /\ p0 \in Nat /\ c < p0
               /\ \A x : Has(tree, p0, x) => c < x
               /\ \A k : Within(waiting', k) => p0 <= k
               /\ \A k : Within(statements, k) => p0 < k
  <2>1. SUFFICES ASSUME n > 1  PROVE /\ p0 \in DOMAIN tree /\ p0 \in Nat /\ c < p0
                                     /\ \A x : Has(tree, p0, x) => c < x
                                     /\ \A k : Within(waiting', k) => p0 <= k
                                     /\ \A k : Within(statements, k) => p0 < k
    OBVIOUS
  <2>2. n - 1 \in 1 .. n /\ n \in 1 .. n /\ n - 1 < n  BY <1>4, <2>1
  <2>3. p0 \in DOMAIN tree /\ p0 \in Nat /\ c < p0 /\ \A x : Has(tree, p0, x) => c < x
    BY <1>1, <1>5, <2>2
  <2>4. ASSUME NEW k, Within(waiting', k)  PROVE p0 <= k
    <3>1. PICK i \in 1 .. n - 1 : waiting[i] = k  BY <1>1, <2>4 DEF Within
    <3>2. CASE i = n - 1  BY <2>3, <3>1, <3>2
    <3>3. CASE i < n - 1
      <4>1. p0 < waiting[i]  BY <1>4, <1>5, <2>2, <3>3
      <4>2. waiting[i] \in Nat  BY <1>1, <1>4
      <4>3. QED  BY <2>3, <3>1, <4>1, <4>2
    <3>4. QED  BY <1>4, <3>2, <3>3
  <2>5. ASSUME NEW k, Within(statements, k)  PROVE p0 < k
    BY <1>5, <2>2, <2>5 DEF Within
  <2>6. QED  BY <2>3, <2>4, <2>5
<1>8. c \in DOMAIN tree /\ c \in Nat  BY <1>1, <1>4
<1> HIDE DEF c, p0
<1>9. /\ \A p \in DOMAIN tree : \A x : Has(tree, p, x) => x \in DOMAIN tree /\ x < p /\ x \in Nat /\ p \in Nat
      /\ \A k : Within(statements, k) => k \in DOMAIN tree
  BY <1>3 DEF OrderInv, AllPlaced, Within
<1>10. AllPlaced'
  <2>1. ASSUME NEW k \in DOMAIN tree
        PROVE  Within(waiting', k) \/ Within(statements', k) \/ \E p \in DOMAIN tree : Has(tree', p, k)
    <3>1. Within(waiting, k) \/ Within(statements, k) \/ \E p \in DOMAIN tree : Has(tree, p, k)
      BY DEF OrderInv, AllPlaced
    <3>2. CASE k = c  BY <1>2, <1>4, <1>7, <3>2
    <3>3. CASE k # c  BY <1>2, <3>1, <3>3
    <3>4. QED  BY <3>2, <3>3
  <2>2. ASSUME NEW i \in 1 .. Len(statements')  PROVE statements'[i] \in DOMAIN tree
    <3>1. Within(statements', statements'[i])  BY DEF Within
    <3>2. QED  BY <1>2, <1>8, <1>9, <3>1
  <2>3. \A p \in DOMAIN tree : \A x : Has(tree', p, x) => x \in DOMAIN tree /\ x < p
    BY <1>2, <1>7, <1>8, <1>9
  <2>4. QED  BY <1>1, <2>1, <2>2, <2>3 DEF AllPlaced
<1>11. Ordered'
  <2>1. Increasing(statements')
    <3>1. CASE n = 1
      <4>1. statements' = <<c>> \o statements  BY <1>1, <3>1
      <4>2. \A j \in 1 .. Len(statements) : c < statements[j]  BY <1>4, <1>5 DEF c
      <4>3. QED  BY <1>1, <1>5, <1>8, <4>1, <4>2, Prepended
    <3>2. CASE n > 1  BY <1>1, <1>5, <3>2
    <3>3. QED  BY <1>4, <3>1, <3>2
  <2>2. ASSUME NEW p \in DOMAIN tree  PROVE Increasing(tree'[p].args)
    <3>1. CASE n = 1
      <4>1. tree' = tree  BY <1>1, <3>1
      <4>2. QED  BY <1>5, <4>1
    <3>2. CASE n > 1 /\ p # p0
      <4>1. tree'[p] = tree[p]  BY <1>1, <3>2
      <4>2. QED  BY <1>5, <4>1
    <3>3. CASE n > 1 /\ p = p0
      <4>1. tree'[p].args = <<c>> \o tree[p].args /\ tree[p].args \in Seq(Nat)  BY <1>1, <3>3, TypedIs
      <4>2. \A j \in 1 .. Len(tree[p].args) : c < tree[p].args[j]
        <5>1. \A j \in 1 .. Len(tree[p].args) : Has(tree, p0, tree[p].args[j])  BY <3>3 DEF Has, Within
        <5>2. QED  BY <1>7, <3>3, <5>1
      <4>3. QED  BY <1>5, <1>8, <4>1, <4>2, Prepended
    <3>4. QED  BY <1>4, <3>1, <3>2, <3>3
  <2>3. ASSUME NEW i \in 1 .. n - 1, NEW j \in 1 .. n - 1, i < j
        PROVE  waiting'[j] < waiting'[i] /\ \A x : Has(tree', waiting'[i], x) => waiting'[j] < x
    <3>1. /\ waiting'[i] = waiting[i] /\ waiting'[j] = waiting[j] /\ waiting[i] \in DOMAIN tree
          /\ waiting[i] \in Nat
      BY <1>1, <1>4
    <3>2. waiting[j] < waiting[i] /\ \A x : Has(tree, waiting[i], x) => waiting[j] < x
      BY <1>4, <1>5, <2>3
    <3>3. waiting[i] # p0
      <4>1. i < n - 1 /\ n - 1 \in 1 .. n /\ i \in 1 .. n
        <5>1. n \in Int /\ i \in Int /\ j \in Int  BY <1>1
        <5>2. QED  BY <2>3, <5>1
      <4>2. p0 < waiting[i] /\ p0 \in Nat  BY <1>1, <1>5, <4>1 DEF p0
      <4>3. QED  BY <3>1, <4>2
    <3>4. \A x : Has(tree', waiting[i], x) => Has(tree, waiting[i], x)  BY <1>2, <3>1, <3>3
    <3>5. QED  BY <3>1, <3>2, <3>4
  <2>4. ASSUME NEW i \in 1 .. n - 1, NEW j \in 1 .. Len(statements')  PROVE waiting'[i] < statements'[j]
    <3>1. n > 1  BY <1>4
    <3>2. statements' = statements  BY <1>1, <3>1
    <3>3. QED  BY <1>1, <1>4, <1>5, <3>2
  <2>5. QED  BY <1>1, <2>1, <2>2, <2>3, <2>4 DEF Ordered
<1>12. Nested'
  <2>1. /\ \A p, q \in DOMAIN tree : \A x, d : Has(tree, p, x) /\ Has(tree, q, d) /\ x <= d /\ d < p => q <= p
        /\ \A p \in DOMAIN tree : \A x, k : Has(tree, p, x) /\ (Within(waiting, k) \/ Within(statements, k)) => ~(x <= k /\ k < p)
        /\ \A p \in DOMAIN tree : \A x, k : Has(tree, p, x) /\ Within(waiting, k) /\ x < k => p <= k
    BY DEF OrderInv, Nested
  <2>2. ASSUME NEW p \in DOMAIN tree, NEW q \in DOMAIN tree, NEW x, NEW d,
               Has(tree', p, x), Has(tree', q, d), x <= d, d < p
        PROVE  q <= p
    <3>1. p \in Nat /\ q \in Nat  BY <1>3
    <3>2. CASE Has(tree, p, x) /\ Has(tree, q, d)  BY <2>1, <2>2, <3>2
    <3>3. CASE Has(tree, p, x) /\ d = c  BY <1>6, <2>1, <2>2, <3>3
    <3>4. CASE n > 1 /\ p = p0 /\ x = c /\ Has(tree, q, d)
      <4>1. ~(d <= p0 /\ p0 < q)  BY <1>6, <2>1, <3>4
      <4>2. d \in Nat /\ d < p0  BY <1>9, <2>2, <3>4
      <4>3. QED  BY <3>1, <3>4, <4>1, <4>2
    <3>5. CASE p = p0 /\ q = p0  BY <3>1, <3>5
    <3>6. QED  BY <1>2, <2>2, <3>2, <3>3, <3>4, <3>5
  <2>3. ASSUME NEW p \in DOMAIN tree, NEW x, NEW k, Has(tree', p, x), Within(waiting', k) \/ Within(statements', k)
        PROVE  ~(x <= k /\ k < p)
    <3>1. CASE Has(tree, p, x)
      <4>1. Within(waiting, k) \/ Within(statements, k)  BY <1>2, <1>6, <2>3
      <4>2. QED  BY <2>1, <3>1, <4>1
    <3>2. CASE n > 1 /\ p = p0
      <4>1. ~(n = 1)  BY <1>1, <3>2
      <4>2. p0 <= k /\ k \in Nat /\ p0 \in Nat
        <5>1. CASE Within(waiting', k)  BY <1>2, <1>3, <1>7, <3>2, <5>1
        <5>2. CASE Within(statements', k)
          <6>1. Within(statements, k)  BY <1>2, <4>1, <5>2
          <6>2. p0 < k /\ k \in Nat /\ p0 \in Nat  BY <1>3, <1>7, <1>9, <3>2, <6>1
          <6>3. QED  BY <6>2
        <5>3. QED  BY <2>3, <5>1, <5>2
      <4>3. QED  BY <3>2, <4>2
    <3>3. QED  BY <1>2, <2>3, <3>1, <3>2
  <2>4. ASSUME NEW p \in DOMAIN tree, NEW x, NEW k, Has(tree', p, x), Within(waiting', k), x < k
        PROVE  p <= k
    BY <1>2, <1>7, <2>1, <2>4
  <2>5. QED  BY <1>1, <2>2, <2>3, <2>4 DEF Nested
<1>13. QED  BY <1>10, <1>11, <1>12 DEF OrderInv

(* The place on the stack before a command of the last operand it lacks.       *)
Lacks(s, t, k) == Operands(s[k]) - Len(t[k].args)
Slot(s, t, k)  == Below(s, k) + Lacks(s, t, k)

(* Only commands that wait lack something, all but the innermost at least the  *)
(* one that is being taken for them.                                        *)
Lacking(s, w, t) ==
  /\ \A k \in DOMAIN t : Lacks(s, t, k) >= 0 /\ (~Within(w, k) => Lacks(s, t, k) = 0)
  /\ \A i \in 1 .. Len(w) : i < Len(w) => Lacks(s, t, w[i]) >= 1

(* What a command lacks lies below the operands of those that wait for its     *)
(* sake, and the innermost's on the stack that is still to be read.          *)
Heights(s, w, t, r) ==
  /\ \A i, j \in 1 .. Len(w) : i < j => Slot(s, t, w[i]) <= Below(s, w[j]) + 1
  /\ Len(w) > 0 => Slot(s, t, w[Len(w)]) <= Len(Values(s)[r])

(* If statements leave nothing behind, what lies in those places is what the    *)
(* stack machine puts there.                                                *)
Contents(s, w, t, r) ==
  /\ Len(w) > 0 => Slot(s, t, w[Len(w)]) = Len(Values(s)[r])
  /\ \A i \in 1 .. Len(w) : i < Len(w) =>
       /\ Slot(s, t, w[i]) = Below(s, w[i + 1]) + 1
       /\ Values(s)[w[i] - 1][Slot(s, t, w[i])] = w[i + 1]
  /\ \A i \in 1 .. Len(w), h \in Nat \ {0} :
       h <= Slot(s, t, w[i]) /\ (i < Len(w) => h # Slot(s, t, w[i])) =>
         h <= Len(Values(s)[r]) /\ Values(s)[w[i] - 1][h] = Values(s)[r][h]
  /\ \A k \in DOMAIN t : \A i \in 1 .. Len(t[k].args) : t[k].args[i] = Values(s)[k - 1][Slot(s, t, k) + i]

StackInv ==
  /\ Lacking(script, waiting, tree)
  /\ NeverShort(script) => Heights(script, waiting, tree, rest)
  /\ NeverShort(script) /\ Unmixed(script) => Contents(script, waiting, tree, rest)

(* The numbers these speak of.                                               *)
LEMMA Numbers ==
  ASSUME AstTyped
  PROVE  /\ Len(script) \in Nat /\ rest \in 0 .. Len(script)
         /\ Values(script)[0] = <<>>
         /\ \A k \in 0 .. Len(script) : Values(script)[k] \in Seq(Nat) /\ Len(Values(script)[k]) \in Nat
         /\ \A k \in 1 .. Len(script) :
              /\ Operands(script[k]) \in Nat /\ Below(script, k) \in Int
              /\ Below(script, k) + Operands(script[k]) = Len(Values(script)[k - 1])
              /\ Skips(script[k]) => Values(script)[k] = Values(script)[k - 1]
              /\ NeverShort(script) /\ ~Skips(script[k]) => Below(script, k) \in Nat
              /\ Unmixed(script) /\ ~Skips(script[k]) /\ ~IsValue(script[k]) => Below(script, k) = 0
              /\ ~Skips(script[k]) /\ Below(script, k) >= 0 =>
                   /\ Len(Values(script)[k]) = IF IsValue(script[k]) THEN Below(script, k) + 1 ELSE Below(script, k)
                   /\ IsValue(script[k]) => Values(script)[k][Below(script, k) + 1] = k
                   /\ \A h \in 1 .. Below(script, k) : Values(script)[k][h] = Values(script)[k - 1][h]
         /\ \A k \in DOMAIN tree :
              /\ k \in 1 .. Len(script) /\ ~Skips(script[k])
              /\ Wants(k) = Lacks(script, tree, k)
              /\ Lacks(script, tree, k) \in Int
              /\ Slot(script, tree, k) \in Int
              /\ Slot(script, tree, k) = Below(script, k) + Lacks(script, tree, k)
<1>1. script \in Seq(AstCommands) /\ rest \in 0 .. Len(script)  BY DEF AstTyped
<1>2. /\ Len(script) \in Nat /\ DOMAIN script = 1 .. Len(script)
      /\ Values(script)[0] = <<>>
      /\ \A k \in 0 .. Len(script) : Values(script)[k] \in Seq(Nat) /\ Len(Values(script)[k]) \in Nat
      /\ \A k \in 1 .. Len(script) :
           /\ Operands(script[k]) \in Nat /\ Below(script, k) \in Int
           /\ Below(script, k) + Operands(script[k]) = Len(Values(script)[k - 1])
           /\ Skips(script[k]) => Values(script)[k] = Values(script)[k - 1]
           /\ ~Skips(script[k]) /\ Below(script, k) >= 0 =>
                   /\ Len(Values(script)[k]) = IF IsValue(script[k]) THEN Below(script, k) + 1 ELSE Below(script, k)
                   /\ IsValue(script[k]) => Values(script)[k][Below(script, k) + 1] = k
                   /\ \A h \in 1 .. Below(script, k) : Values(script)[k][h] = Values(script)[k - 1][h]
  BY <1>1, StackIs DEF Stack, Floor
<1>3. \A k \in 1 .. Len(script) :
        /\ NeverShort(script) /\ ~Skips(script[k]) => Below(script, k) \in Nat
        /\ Unmixed(script) /\ ~Skips(script[k]) /\ ~IsValue(script[k]) => Below(script, k) = 0
  <2>1. SUFFICES ASSUME NEW k \in 1 .. Len(script)
                 PROVE  /\ NeverShort(script) /\ ~Skips(script[k]) => Below(script, k) \in Nat
                        /\ Unmixed(script) /\ ~Skips(script[k]) /\ ~IsValue(script[k]) => Below(script, k) = 0
    OBVIOUS
  <2>2. Below(script, k) \in Int /\ k \in DOMAIN script  BY <1>2
  <2>3. NeverShort(script) /\ ~Skips(script[k]) => Below(script, k) >= 0  BY <2>2 DEF NeverShort
  <2>4. Unmixed(script) /\ ~Skips(script[k]) /\ ~IsValue(script[k]) => Below(script, k) = 0
    BY <2>2 DEF Unmixed
  <2>5. QED  BY <2>2, <2>3, <2>4
<1>4. \A k \in DOMAIN tree :
        /\ k \in 1 .. Len(script) /\ ~Skips(script[k])
        /\ Wants(k) = Lacks(script, tree, k) /\ Lacks(script, tree, k) \in Int
  BY TypedIs DEF Lacks
<1>5. \A k \in DOMAIN tree :
        /\ Slot(script, tree, k) \in Int
        /\ Slot(script, tree, k) = Below(script, k) + Lacks(script, tree, k)
  BY <1>2, <1>4 DEF Slot
<1>6. QED  BY <1>1, <1>2, <1>3, <1>4, <1>5

(* A command that is skipped leaves everything where it is.                   *)
LEMMA SkipIs ==
  ASSUME AstTyped, Skip
  PROVE  /\ rest \in 1 .. Len(script) /\ rest' = rest - 1 /\ Skips(script[rest])
         /\ AstTyped'
<1>1. rest \in 1 .. Len(script) /\ rest' = rest - 1 /\ Skips(script[rest])
      /\ UNCHANGED <<script, waiting, tree, statements, state>>
  <2>1. Len(script) \in Nat /\ rest \in 0 .. Len(script)  BY TypedIs DEF AstTyped
  <2>2. QED  BY <2>1 DEF Skip, Previous, Here
<1>2. ReadAfter(rest)' = ReadAfter(rest)
  <2>1. Len(script) \in Nat  BY TypedIs
  <2>2. ReadAfter(rest - 1) = ReadAfter(rest)  BY <1>1, <2>1 DEF ReadAfter
  <2>3. ReadAfter(rest)' = ReadAfter(rest - 1)  BY <1>1 DEF ReadAfter
  <2>4. QED  BY <2>2, <2>3
<1>3. rest - 1 \in 0 .. Len(script)  BY <1>1, TypedIs
<1>4. QED  BY <1>1, <1>2, <1>3 DEF AstTyped

LEMMA SkipOrdered ==
  ASSUME AstTyped, OrderInv, StackInv, Skip
  PROVE  OrderInv' /\ StackInv'
<1>1. /\ rest \in 1 .. Len(script) /\ rest' = rest - 1 /\ Skips(script[rest])
      /\ script' = script /\ waiting' = waiting /\ tree' = tree /\ statements' = statements
  BY SkipIs DEF Skip
<1>2. OrderInv'  BY <1>1 DEF OrderInv, AllPlaced, Ordered, Nested
<1>3. Values(script)[rest - 1] = Values(script)[rest]  BY <1>1, Numbers
<1>4. StackInv'  BY <1>1, <1>3 DEF StackInv, Heights, Contents
<1>5. QED  BY <1>2, <1>4

(* A chain of heights.                                                       *)
LEMMA Higher ==
  \A a, b, c \in Int : a <= b /\ b <= c => a <= c
OBVIOUS

(* The command that begins to wait.                                          *)
LEMMA TakeStack ==
  ASSUME AstTyped, OrderInv, StackInv, Take
  PROVE  StackInv'
<1> DEFINE n == Len(waiting)
           k == rest
           V(j) == Values(script)[j]
           B(j) == Below(script, j)
<1>1. /\ script' = script /\ rest' = k - 1 /\ k \in 1 .. Len(script) /\ ~Skips(script[k])
      /\ Len(waiting') = n + 1 /\ waiting'[n + 1] = k
      /\ \A i \in 1 .. n : waiting'[i] = waiting[i]
      /\ k \notin DOMAIN tree /\ DOMAIN tree' = DOMAIN tree \cup {k}
      /\ tree'[k].args = <<>> /\ \A j \in DOMAIN tree : tree'[j] = tree[j]
      /\ n > 0 => Wants(waiting[n]) > 0
  BY TakeIs
<1>2. n \in Nat /\ \A i \in 1 .. n : waiting[i] \in DOMAIN tree  BY TypedIs DEF AstTyped
<1>3. /\ Len(script) \in Nat /\ k \in Nat /\ k - 1 \in 0 .. Len(script) /\ k \in 0 .. Len(script)
      /\ Operands(script[k]) \in Nat /\ B(k) \in Int
      /\ B(k) + Operands(script[k]) = Len(V(k - 1))
      /\ Len(V(k)) \in Nat /\ Len(V(k - 1)) \in Nat
      /\ NeverShort(script) => B(k) \in Nat
      /\ Unmixed(script) /\ ~IsValue(script[k]) => B(k) = 0
      /\ B(k) >= 0 =>
           /\ Len(V(k)) = IF IsValue(script[k]) THEN B(k) + 1 ELSE B(k)
           /\ IsValue(script[k]) => V(k)[B(k) + 1] = k
           /\ \A h \in 1 .. B(k) : V(k)[h] = V(k - 1)[h]
  BY <1>1, Numbers
<1>4. \A j \in DOMAIN tree :
        /\ j \in 1 .. Len(script) /\ Wants(j) = Lacks(script, tree, j)
        /\ Lacks(script, tree, j) \in Int /\ Slot(script, tree, j) \in Int /\ B(j) \in Int
        /\ Slot(script, tree, j) = B(j) + Lacks(script, tree, j)
        /\ NeverShort(script) => B(j) \in Nat
  BY Numbers
<1>5. /\ \A j \in DOMAIN tree : /\ Lacks(script, tree', j) = Lacks(script, tree, j)
                                /\ Slot(script, tree', j) = Slot(script, tree, j)
      /\ Lacks(script, tree', k) = Operands(script[k])
      /\ Slot(script, tree', k) = Len(V(k - 1))
  <2>1. Len(tree'[k].args) = 0  BY <1>1
  <2>2. QED  BY <1>1, <1>3, <2>1 DEF Lacks, Slot
<1>6. \A j : Within(waiting', j) <=> Within(waiting, j) \/ j = k  BY TakeMoves
<1>7. /\ \A i \in 1 .. n + 1 : i \in 1 .. n \/ i = n + 1
      /\ \A i \in 1 .. n : i + 1 \in 1 .. n + 1 /\ i \in 1 .. n + 1 /\ i < n + 1 /\ (i = n \/ i < n)
      /\ \A i \in 1 .. n : i < n => i + 1 \in 1 .. n
      /\ \A i \in 1 .. n : n \in 1 .. n /\ n > 0
      /\ n + 1 \in 1 .. n + 1
  <2> HIDE DEF n
  <2>1. QED  BY <1>2
<1> HIDE DEF n, V, B
<1>8. Lacking(script, waiting, tree)  BY DEF StackInv
<1>9. Lacking(script, waiting', tree')
  <2>1. ASSUME NEW j \in DOMAIN tree'
        PROVE  Lacks(script, tree', j) >= 0 /\ (~Within(waiting', j) => Lacks(script, tree', j) = 0)
    <3>1. CASE j = k  BY <1>3, <1>5, <1>6, <3>1
    <3>2. CASE j \in DOMAIN tree  BY <1>5, <1>6, <1>8, <3>2 DEF Lacking
    <3>3. QED  BY <1>1, <3>1, <3>2
  <2>2. ASSUME NEW i \in 1 .. n + 1, i < n + 1  PROVE Lacks(script, tree', waiting'[i]) >= 1
    <3>1. i \in 1 .. n /\ waiting'[i] = waiting[i] /\ waiting[i] \in DOMAIN tree  BY <1>1, <1>2, <2>2
    <3>2. CASE i = n  BY <1>1, <1>4, <1>5, <1>7, <3>1, <3>2
    <3>3. CASE i < n  BY <1>5, <1>8, <3>1, <3>3 DEF Lacking, n
    <3>4. QED  BY <1>7, <3>1, <3>2, <3>3
  <2>3. QED  BY <1>1, <2>1, <2>2 DEF Lacking
<1>10. \A i \in 1 .. n : Lacks(script, tree, waiting[i]) >= 1
  BY <1>1, <1>2, <1>4, <1>7, <1>8 DEF Lacking, n
<1>11. ASSUME NeverShort(script)  PROVE Heights(script, waiting', tree', k - 1)
  <2>1. /\ \A i, j \in 1 .. n : i < j => Slot(script, tree, waiting[i]) <= B(waiting[j]) + 1
        /\ n > 0 => Slot(script, tree, waiting[n]) <= Len(V(k))
    BY <1>11 DEF StackInv, Heights, n, V, B
  <2>2. Len(V(k)) <= B(k) + 1  BY <1>3, <1>11
  <2>3. ASSUME NEW i \in 1 .. n  PROVE Slot(script, tree, waiting[i]) <= B(k) + 1
    <3>1. n > 0 /\ n \in 1 .. n /\ waiting[n] \in DOMAIN tree /\ waiting[i] \in DOMAIN tree  BY <1>2, <1>7
    <3>0. /\ Slot(script, tree, waiting[n]) \in Int /\ Slot(script, tree, waiting[i]) \in Int
          /\ B(waiting[n]) + 1 \in Int /\ B(k) + 1 \in Int /\ Len(V(k)) \in Int
      <4>1. /\ Slot(script, tree, waiting[n]) \in Int /\ Slot(script, tree, waiting[i]) \in Int
            /\ B(waiting[n]) \in Int
        BY <1>4, <3>1
      <4>2. B(k) \in Int /\ Len(V(k)) \in Nat  BY <1>3
      <4>3. QED  BY ONLY <4>1, <4>2
    <3>2. Slot(script, tree, waiting[n]) <= B(k) + 1
      <4>1. Slot(script, tree, waiting[n]) <= Len(V(k))  BY <2>1, <3>1
      <4>2. QED  BY ONLY Higher, <2>2, <3>0, <4>1
    <3>3. CASE i < n
      <4>1. Slot(script, tree, waiting[i]) <= B(waiting[n]) + 1  BY <2>1, <3>1, <3>3
      <4>2. B(waiting[n]) + 1 <= Slot(script, tree, waiting[n])  BY <1>4, <1>10, <3>1
      <4>3. Slot(script, tree, waiting[i]) <= Slot(script, tree, waiting[n])
        BY ONLY Higher, <3>0, <4>1, <4>2
      <4>4. QED  BY ONLY Higher, <3>0, <3>2, <4>3
    <3>4. QED  BY <1>7, <3>2, <3>3
  <2>4. ASSUME NEW i \in 1 .. n + 1, NEW j \in 1 .. n + 1, i < j
        PROVE  Slot(script, tree', waiting'[i]) <= B(waiting'[j]) + 1
    <3>1. i \in 1 .. n  BY <1>2, <2>4
    <3>2. waiting'[i] = waiting[i] /\ Slot(script, tree', waiting'[i]) = Slot(script, tree, waiting[i])
      BY <1>1, <1>2, <1>5, <3>1
    <3>3. CASE j \in 1 .. n  BY <1>1, <2>1, <2>4, <3>1, <3>2, <3>3
    <3>4. CASE j = n + 1     BY <1>1, <2>3, <3>1, <3>2, <3>4
    <3>5. QED  BY <1>7, <3>3, <3>4
  <2>5. Slot(script, tree', waiting'[n + 1]) <= Len(V(k - 1))  BY <1>1, <1>3, <1>5
  <2>6. QED  BY <1>1, <2>4, <2>5 DEF Heights, V, B
<1>12. ASSUME NeverShort(script), Unmixed(script)  PROVE Contents(script, waiting', tree', k - 1)
  <2>1. /\ n > 0 => Slot(script, tree, waiting[n]) = Len(V(k))
        /\ \A i \in 1 .. n : i < n =>
             /\ Slot(script, tree, waiting[i]) = B(waiting[i + 1]) + 1
             /\ V(waiting[i] - 1)[Slot(script, tree, waiting[i])] = waiting[i + 1]
        /\ \A i \in 1 .. n, h \in Nat \ {0} :
             h <= Slot(script, tree, waiting[i]) /\ (i < n => h # Slot(script, tree, waiting[i])) =>
               h <= Len(V(k)) /\ V(waiting[i] - 1)[h] = V(k)[h]
        /\ \A j \in DOMAIN tree : \A i \in 1 .. Len(tree[j].args) :
             tree[j].args[i] = V(j - 1)[Slot(script, tree, j) + i]
    BY <1>12 DEF StackInv, Contents, n, V, B
  <2>2. \A i, j \in 1 .. n : i < j => Slot(script, tree, waiting[i]) <= B(waiting[j]) + 1
    BY <1>12 DEF StackInv, Heights, n, V, B
  <2>3. B(k) \in Nat /\ B(k) <= Len(V(k - 1)) /\ \A h \in 1 .. B(k) : V(k)[h] = V(k - 1)[h]  BY <1>3, <1>12
  <2>4. ASSUME n > 0
        PROVE  /\ Slot(script, tree, waiting[n]) = B(k) + 1 /\ Len(V(k)) = B(k) + 1
               /\ V(k)[B(k) + 1] = k
    <3>1. n \in 1 .. n /\ waiting[n] \in DOMAIN tree  BY <1>2, <2>4
    <3>2. Slot(script, tree, waiting[n]) = Len(V(k)) /\ Slot(script, tree, waiting[n]) >= 1
      BY <1>4, <1>10, <1>12, <2>1, <2>4, <3>1
    <3>3. IsValue(script[k])
      <4>1. ASSUME ~IsValue(script[k])  PROVE FALSE
        <5>1. B(k) = 0 /\ Len(V(k)) = 0  BY <1>3, <1>12, <4>1
        <5>2. QED  BY <3>2, <5>1
      <4>2. QED  BY <4>1
    <3>4. QED  BY <1>3, <2>3, <3>2, <3>3
  <2>5. ASSUME NEW i \in 1 .. n
        PROVE  /\ waiting'[i] = waiting[i] /\ waiting[i] \in DOMAIN tree /\ n > 0
               /\ Slot(script, tree', waiting'[i]) = Slot(script, tree, waiting[i])
               /\ Slot(script, tree, waiting[i]) \in Int
    BY <1>1, <1>2, <1>4, <1>5, <1>7
  <2>6. ASSUME NEW i \in 1 .. n + 1, i < n + 1
        PROVE  /\ Slot(script, tree', waiting'[i]) = B(waiting'[i + 1]) + 1
               /\ V(waiting'[i] - 1)[Slot(script, tree', waiting'[i])] = waiting'[i + 1]
    <3>1. i \in 1 .. n  BY <1>2, <2>6
    <3>2. CASE i < n
      <4>1. i + 1 \in 1 .. n  BY <1>7, <3>1, <3>2
      <4>2. waiting'[i + 1] = waiting[i + 1]  BY <2>5, <4>1
      <4>3. QED  BY <2>1, <2>5, <3>1, <3>2, <4>2
    <3>3. CASE i = n
      <4>1. Slot(script, tree, waiting[n]) = B(k) + 1 /\ Len(V(k)) = B(k) + 1 /\ V(k)[B(k) + 1] = k
        BY <2>4, <2>5, <3>1
      <4>2. B(k) + 1 \in Nat \ {0} /\ B(k) + 1 <= Slot(script, tree, waiting[n]) /\ ~(n < n)
        BY <1>2, <2>3, <4>1
      <4>3. V(waiting[n] - 1)[B(k) + 1] = V(k)[B(k) + 1]  BY <2>1, <3>1, <3>3, <4>2
      <4>4. QED  BY <1>1, <2>5, <3>1, <3>3, <4>1, <4>3
    <3>4. QED  BY <1>7, <3>1, <3>2, <3>3
  <2>7. ASSUME NEW i \in 1 .. n + 1, NEW h \in Nat \ {0},
               h <= Slot(script, tree', waiting'[i]), i < n + 1 => h # Slot(script, tree', waiting'[i])
        PROVE  h <= Len(V(k - 1)) /\ V(waiting'[i] - 1)[h] = V(k - 1)[h]
    <3>1. CASE i = n + 1  BY <1>1, <1>5, <2>7, <3>1
    <3>2. CASE i \in 1 .. n
      <4>1. h <= Slot(script, tree, waiting[i]) /\ h # Slot(script, tree, waiting[i])
            /\ Slot(script, tree, waiting[i]) \in Int
        BY <1>7, <2>5, <2>7, <3>2
      <4>2. V(waiting[i] - 1)[h] = V(k)[h]  BY <2>1, <3>2, <4>1
      <4>3. Slot(script, tree, waiting[i]) <= B(k) + 1
        <5>1. n > 0 /\ n \in 1 .. n /\ waiting[n] \in DOMAIN tree  BY <1>2, <1>7, <3>2
        <5>2. Slot(script, tree, waiting[n]) = B(k) + 1  BY <2>4, <5>1
        <5>3. CASE i = n  BY <1>3, <5>2, <5>3
        <5>4. CASE i < n
          <6>1. Slot(script, tree, waiting[i]) <= B(waiting[n]) + 1  BY <2>2, <3>2, <5>1, <5>4
          <6>2. B(waiting[n]) + 1 <= Slot(script, tree, waiting[n])  BY <1>4, <1>10, <5>1
          <6>3. /\ Slot(script, tree, waiting[n]) \in Int /\ Slot(script, tree, waiting[i]) \in Int
                /\ B(waiting[n]) + 1 \in Int
            <7>1. /\ Slot(script, tree, waiting[n]) \in Int /\ B(waiting[n]) \in Int
              BY <1>4, <5>1
            <7>2. QED  BY ONLY <4>1, <7>1
          <6>4. Slot(script, tree, waiting[i]) <= Slot(script, tree, waiting[n])
            BY ONLY Higher, <6>1, <6>2, <6>3
          <6>5. QED  BY ONLY <5>2, <6>4
        <5>5. QED  BY <1>7, <3>2, <5>3, <5>4
      <4>4. h \in 1 .. B(k)  BY <1>3, <4>1, <4>3
      <4>5. QED  BY <1>3, <2>3, <2>5, <3>2, <4>2, <4>4
    <3>3. QED  BY <1>7, <3>1, <3>2
  <2>8. ASSUME NEW j \in DOMAIN tree', NEW i \in 1 .. Len(tree'[j].args)
        PROVE  tree'[j].args[i] = V(j - 1)[Slot(script, tree', j) + i]
    <3>1. CASE j = k
      <4>1. Len(tree'[j].args) = 0  BY <1>1, <3>1
      <4>2. QED  BY <4>1
    <3>2. CASE j \in DOMAIN tree
      <4>1. tree'[j] = tree[j] /\ Slot(script, tree', j) = Slot(script, tree, j)  BY <1>1, <1>5, <3>2
      <4>2. QED  BY <2>1, <3>2, <4>1
    <3>3. QED  BY <1>1, <3>1, <3>2
  <2>9. Slot(script, tree', waiting'[n + 1]) = Len(V(k - 1))  BY <1>1, <1>5
  <2>10. QED  BY <1>1, <2>6, <2>7, <2>8, <2>9 DEF Contents, V, B
<1>13. QED  BY <1>1, <1>9, <1>11, <1>12 DEF StackInv

(* The command that returns.                                                 *)
LEMMA GiveStack ==
  ASSUME AstTyped, OrderInv, StackInv, Give
  PROVE  StackInv'
<1> DEFINE n == Len(waiting)
           c == waiting[n]
           p == waiting[n - 1]
           V(j) == Values(script)[j]
           B(j) == Below(script, j)
<1>1. /\ script' = script /\ rest' = rest
      /\ n \in Nat \ {0} /\ Len(waiting') = n - 1 /\ DOMAIN tree' = DOMAIN tree
      /\ Wants(c) = 0
      /\ \A i \in 1 .. n - 1 : waiting'[i] = waiting[i]
      /\ n = 1 => tree' = tree
      /\ n > 1 => /\ tree'[p].args = <<c>> \o tree[p].args
                  /\ \A k \in DOMAIN tree : k # p => tree'[k] = tree[k]
      /\ \A i \in 1 .. n : waiting[i] \in DOMAIN tree
  BY GiveIs DEF AstTyped
<1>2. /\ \A j \in DOMAIN tree :
           /\ j \in 1 .. Len(script) /\ Wants(j) = Lacks(script, tree, j) /\ j \in Nat
           /\ Lacks(script, tree, j) \in Int /\ Slot(script, tree, j) \in Int /\ B(j) \in Int
           /\ Slot(script, tree, j) = B(j) + Lacks(script, tree, j)
      /\ Len(V(rest)) \in Nat
  BY Numbers
<1>3. /\ n > 1 => n - 1 \in 1 .. n /\ n - 1 < n /\ (n - 1) + 1 = n
      /\ n = 1 \/ n > 1
      /\ \A i \in 1 .. n - 1 : i \in 1 .. n /\ i < n /\ (i = n - 1 \/ i < n - 1) /\ n > 1
      /\ \A i \in 1 .. n - 1 : i < n - 1 => i + 1 \in 1 .. n - 1
      /\ n \in 1 .. n /\ n > 0
  <2>1. n \in Nat \ {0}  BY <1>1
  <2> HIDE DEF n
  <2>2. QED  BY <2>1
<1>4. \A k : Within(waiting', k) <=> Within(waiting, k) /\ k # c  BY GiveMoves DEF OrderInv
<1>5. \A i \in 1 .. n - 1 : i < n - 1 => waiting[i] # p
  <2>1. \A i, j \in 1 .. n : i < j => waiting[j] < waiting[i]  BY DEF OrderInv, Ordered
  <2>2. SUFFICES ASSUME NEW i \in 1 .. n - 1, i < n - 1  PROVE waiting[i] # p  OBVIOUS
  <2>3. i \in 1 .. n /\ n - 1 \in 1 .. n  BY <1>3
  <2>4. waiting[n - 1] < waiting[i]  BY <2>1, <2>2, <2>3
  <2>5. waiting[i] \in Nat /\ waiting[n - 1] \in Nat  BY <1>1, <1>2, <2>3
  <2>6. QED  BY <2>4, <2>5
<1>6. c \in DOMAIN tree /\ (n > 1 => p \in DOMAIN tree) /\ Lacks(script, tree, c) = 0  BY <1>1, <1>2, <1>3
<1> HIDE DEF n, V, B, c, p
<1>7. n > 1 => /\ tree[p].args \in Seq(Nat) /\ Len(tree[p].args) \in Nat
               /\ Len(tree'[p].args) = Len(tree[p].args) + 1 /\ tree'[p].args[1] = c
               /\ \A i \in 1 .. Len(tree[p].args) : tree'[p].args[i + 1] = tree[p].args[i]
  <2>1. SUFFICES ASSUME n > 1
                 PROVE  /\ tree[p].args \in Seq(Nat) /\ Len(tree[p].args) \in Nat
                        /\ Len(tree'[p].args) = Len(tree[p].args) + 1 /\ tree'[p].args[1] = c
                        /\ \A i \in 1 .. Len(tree[p].args) : tree'[p].args[i + 1] = tree[p].args[i]
    OBVIOUS
  <2>2. tree[p].args \in Seq(Nat) /\ Len(tree[p].args) \in Nat  BY <1>6, <2>1, TypedIs
  <2>3. c \in Nat  BY <1>2, <1>6
  <2>4. tree'[p].args = <<c>> \o tree[p].args  BY <1>1, <2>1
  <2>5. /\ Len(<<c>> \o tree[p].args) = Len(tree[p].args) + 1 /\ (<<c>> \o tree[p].args)[1] = c
        /\ \A i \in 1 .. Len(tree[p].args) : (<<c>> \o tree[p].args)[i + 1] = tree[p].args[i]
    BY <2>2, <2>3, Prepended
  <2>6. QED  BY <2>2, <2>4, <2>5
<1>8. /\ \A k \in DOMAIN tree : ~(n > 1 /\ k = p) =>
           /\ tree'[k] = tree[k] /\ Lacks(script, tree', k) = Lacks(script, tree, k)
           /\ Slot(script, tree', k) = Slot(script, tree, k)
      /\ n > 1 => /\ Lacks(script, tree', p) = Lacks(script, tree, p) - 1
                  /\ Slot(script, tree', p) = Slot(script, tree, p) - 1
  <2>1. ASSUME NEW k \in DOMAIN tree, ~(n > 1 /\ k = p)
        PROVE  /\ tree'[k] = tree[k] /\ Lacks(script, tree', k) = Lacks(script, tree, k)
               /\ Slot(script, tree', k) = Slot(script, tree, k)
    <3>1. tree'[k] = tree[k]  BY <1>1, <1>3, <2>1
    <3>2. QED  BY <3>1 DEF Lacks, Slot
  <2>2. ASSUME n > 1
        PROVE  /\ Lacks(script, tree', p) = Lacks(script, tree, p) - 1
               /\ Slot(script, tree', p) = Slot(script, tree, p) - 1
    <3>1. Operands(script[p]) \in Nat /\ Below(script, p) \in Int
      <4>1. p \in 1 .. Len(script)  BY <1>2, <1>6, <2>2
      <4>2. QED  BY <4>1, Numbers
    <3>2. Len(tree[p].args) \in Nat /\ Len(tree'[p].args) = Len(tree[p].args) + 1  BY <1>7, <2>2
    <3>3. Lacks(script, tree', p) = Lacks(script, tree, p) - 1 /\ Lacks(script, tree, p) \in Int
      BY ONLY <3>1, <3>2 DEF Lacks
    <3>4. QED  BY ONLY <3>1, <3>3 DEF Slot
  <2>3. QED  BY <2>1, <2>2
<1>9. /\ \A k \in DOMAIN tree : Lacks(script, tree, k) >= 0 /\ (~Within(waiting, k) => Lacks(script, tree, k) = 0)
      /\ \A i \in 1 .. n : i < n => Lacks(script, tree, waiting[i]) >= 1
  BY DEF StackInv, Lacking, n
<1>10. n > 1 => Lacks(script, tree, p) >= 1 /\ Within(waiting', p)
  <2>1. SUFFICES ASSUME n > 1  PROVE Lacks(script, tree, p) >= 1 /\ Within(waiting', p)  OBVIOUS
  <2>2. Lacks(script, tree, p) >= 1  BY <1>3, <1>9, <2>1 DEF p
  <2>3. n - 1 \in 1 .. n - 1  BY <1>1, <2>1
  <2>4. waiting'[n - 1] = p  BY <1>1, <2>3 DEF p
  <2>5. QED  BY <1>1, <2>2, <2>3, <2>4 DEF Within
<1>11. Lacking(script, waiting', tree')
  <2>1. ASSUME NEW k \in DOMAIN tree
        PROVE  Lacks(script, tree', k) >= 0 /\ (~Within(waiting', k) => Lacks(script, tree', k) = 0)
    <3>1. CASE n > 1 /\ k = p  BY <1>2, <1>6, <1>8, <1>10, <3>1
    <3>2. CASE ~(n > 1 /\ k = p)
      <4>1. Lacks(script, tree', k) = Lacks(script, tree, k) /\ Lacks(script, tree, k) >= 0  BY <1>8, <1>9, <3>2
      <4>2. ~Within(waiting', k) => Lacks(script, tree, k) = 0  BY <1>4, <1>6, <1>9
      <4>3. QED  BY <4>1, <4>2
    <3>3. QED  BY <3>1, <3>2
  <2>2. ASSUME NEW i \in 1 .. n - 1, i < n - 1  PROVE Lacks(script, tree', waiting'[i]) >= 1
    <3>1. waiting'[i] = waiting[i] /\ waiting[i] \in DOMAIN tree /\ waiting[i] # p  BY <1>1, <1>3, <1>5, <2>2
    <3>2. Lacks(script, tree, waiting[i]) >= 1  BY <1>3, <1>9
    <3>3. QED  BY <1>8, <3>1, <3>2
  <2>3. QED  BY <1>1, <2>1, <2>2 DEF Lacking
(* All that still waits, but for the one that is given its operand.           *)
<1>12. ASSUME NEW i \in 1 .. n - 1, i < n - 1
       PROVE  /\ waiting'[i] = waiting[i] /\ waiting[i] \in DOMAIN tree
              /\ Slot(script, tree', waiting'[i]) = Slot(script, tree, waiting[i])
  <2>1. waiting'[i] = waiting[i] /\ waiting[i] \in DOMAIN tree /\ waiting[i] # p  BY <1>1, <1>3, <1>5, <1>12
  <2>2. QED  BY <1>8, <2>1
<1>13. n > 1 => /\ waiting'[n - 1] = p /\ waiting[n - 1] = p /\ waiting[n] = c
                /\ n - 1 \in 1 .. n - 1
  <2>1. n > 1 => n - 1 \in 1 .. n - 1  BY <1>1
  <2>2. QED  BY <1>1, <2>1 DEF p, c
<1>14. ASSUME NeverShort(script)  PROVE Heights(script, waiting', tree', rest)
  <2>1. /\ \A i, j \in 1 .. n : i < j => Slot(script, tree, waiting[i]) <= B(waiting[j]) + 1
        /\ n > 0 => Slot(script, tree, waiting[n]) <= Len(V(rest))
    BY <1>14 DEF StackInv, Heights, n, V, B
  <2>2. ASSUME NEW i \in 1 .. n - 1, NEW j \in 1 .. n - 1, i < j
        PROVE  Slot(script, tree', waiting'[i]) <= B(waiting'[j]) + 1
    <3>1. i < n - 1
      <4>1. n \in Int /\ i \in Int /\ j \in Int  BY <1>1
      <4>2. QED  BY <2>2, <4>1
    <3>2. QED  BY <1>1, <1>3, <1>12, <2>1, <2>2, <3>1
  <2>3. ASSUME n - 1 > 0  PROVE Slot(script, tree', waiting'[n - 1]) <= Len(V(rest))
    <3>1. n > 1  BY <1>1, <2>3
    <3>2. Slot(script, tree, p) <= B(c) + 1  BY <1>3, <1>13, <2>1, <3>1
    <3>3. B(c) = Slot(script, tree, c) /\ Slot(script, tree, c) <= Len(V(rest))
      BY <1>2, <1>3, <1>6, <1>13, <2>1, <3>1
    <3>4. QED  BY <1>2, <1>6, <1>8, <1>13, <3>1, <3>2, <3>3
  <2>4. QED  BY <1>1, <2>2, <2>3 DEF Heights, V, B
<1>15. ASSUME NeverShort(script), Unmixed(script)  PROVE Contents(script, waiting', tree', rest)
  <2>1. /\ Slot(script, tree, waiting[n]) = Len(V(rest))
        /\ \A i \in 1 .. n : i < n =>
             /\ Slot(script, tree, waiting[i]) = B(waiting[i + 1]) + 1
             /\ V(waiting[i] - 1)[Slot(script, tree, waiting[i])] = waiting[i + 1]
        /\ \A i \in 1 .. n, h \in Nat \ {0} :
             h <= Slot(script, tree, waiting[i]) /\ (i < n => h # Slot(script, tree, waiting[i])) =>
               h <= Len(V(rest)) /\ V(waiting[i] - 1)[h] = V(rest)[h]
        /\ \A j \in DOMAIN tree : \A i \in 1 .. Len(tree[j].args) :
             tree[j].args[i] = V(j - 1)[Slot(script, tree, j) + i]
    <3>1. n > 0  BY <1>3
    <3>2. QED  BY <1>15, <3>1 DEF StackInv, Contents, n, V, B
  <2>2. n > 1 => Slot(script, tree, p) = B(c) + 1 /\ V(p - 1)[Slot(script, tree, p)] = c
    <3>1. n > 1 => n - 1 \in 1 .. n /\ n - 1 < n /\ (n - 1) + 1 = n  BY <1>3
    <3>2. QED  BY <1>13, <2>1, <3>1
  <2>3. ASSUME n - 1 > 0  PROVE Slot(script, tree', waiting'[n - 1]) = Len(V(rest))
    <3>1. n > 1  BY <1>1, <2>3
    <3>2. B(c) = Slot(script, tree, c) /\ Slot(script, tree, c) = Len(V(rest))
      BY <1>2, <1>6, <1>13, <2>1, <3>1
    <3>3. QED  BY <1>2, <1>6, <1>8, <1>13, <2>2, <3>1, <3>2
  <2>4. ASSUME NEW i \in 1 .. n - 1, i < n - 1
        PROVE  /\ Slot(script, tree', waiting'[i]) = B(waiting'[i + 1]) + 1
               /\ V(waiting'[i] - 1)[Slot(script, tree', waiting'[i])] = waiting'[i + 1]
    <3>1. i + 1 \in 1 .. n - 1  BY <1>3, <2>4
    <3>2. waiting'[i + 1] = waiting[i + 1]  BY <1>1, <3>1
    <3>3. QED  BY <1>3, <1>12, <2>1, <2>4, <3>2
  <2>5. ASSUME NEW i \in 1 .. n - 1, NEW h \in Nat \ {0},
               h <= Slot(script, tree', waiting'[i]), i < n - 1 => h # Slot(script, tree', waiting'[i])
        PROVE  h <= Len(V(rest)) /\ V(waiting'[i] - 1)[h] = V(rest)[h]
    <3>1. i \in 1 .. n /\ waiting'[i] = waiting[i]  BY <1>1, <1>3
    <3>2. h <= Slot(script, tree, waiting[i]) /\ h # Slot(script, tree, waiting[i])
      <4>1. CASE i < n - 1  BY <1>12, <2>5, <4>1
      <4>2. CASE i = n - 1
        <5>1. n > 1  BY <1>3
        <5>2. h <= Slot(script, tree, p) - 1 /\ Slot(script, tree, p) \in Int
          BY <1>2, <1>6, <1>8, <1>13, <2>5, <4>2, <5>1
        <5>3. h <= Slot(script, tree, p) /\ h # Slot(script, tree, p)  BY <5>2
        <5>4. QED  BY <1>13, <4>2, <5>1, <5>3
      <4>3. QED  BY <1>3, <4>1, <4>2
    <3>3. QED  BY <2>1, <3>1, <3>2
  <2>6. ASSUME NEW j \in DOMAIN tree, NEW i \in 1 .. Len(tree'[j].args)
        PROVE  tree'[j].args[i] = V(j - 1)[Slot(script, tree', j) + i]
    <3>1. CASE ~(n > 1 /\ j = p)
      <4>1. tree'[j] = tree[j] /\ Slot(script, tree', j) = Slot(script, tree, j)  BY <1>8, <3>1
      <4>2. QED  BY <2>1, <4>1
    <3>2. CASE n > 1 /\ j = p
      <4>1. Slot(script, tree', p) = Slot(script, tree, p) - 1 /\ Slot(script, tree, p) \in Int
            /\ Len(tree[p].args) \in Nat /\ Len(tree'[p].args) = Len(tree[p].args) + 1
        BY <1>2, <1>6, <1>7, <1>8, <3>2
      <4>2. CASE i = 1
        <5>1. Slot(script, tree', p) + i = Slot(script, tree, p)  BY <4>1, <4>2
        <5>2. QED  BY <1>7, <2>2, <3>2, <4>2, <5>1
      <4>3. CASE i # 1
        <5>1. /\ i - 1 \in 1 .. Len(tree[p].args) /\ (i - 1) + 1 = i
              /\ Slot(script, tree', p) + i = Slot(script, tree, p) + (i - 1)
          BY <3>2, <4>1, <4>3
        <5>2. tree'[p].args[i] = tree[p].args[i - 1]  BY <1>7, <3>2, <5>1
        <5>3. tree[p].args[i - 1] = V(p - 1)[Slot(script, tree, p) + (i - 1)]  BY <2>1, <3>2, <5>1
        <5>4. QED  BY <3>2, <5>1, <5>2, <5>3
      <4>4. QED  BY <4>2, <4>3
    <3>3. QED  BY <3>1, <3>2
  <2>7. /\ Len(waiting') = n - 1 /\ DOMAIN tree' = DOMAIN tree
        /\ \A i \in 1 .. n - 1, h \in Nat \ {0} :
             h <= Slot(script, tree', waiting'[i]) /\ (i < n - 1 => h # Slot(script, tree', waiting'[i])) =>
               h <= Len(V(rest)) /\ V(waiting'[i] - 1)[h] = V(rest)[h]
    BY <1>1, <2>5
  <2>8. /\ Len(waiting') > 0 => Slot(script, tree', waiting'[Len(waiting')]) = Len(V(rest))
        /\ \A i \in 1 .. Len(waiting') : i < Len(waiting') =>
             /\ Slot(script, tree', waiting'[i]) = B(waiting'[i + 1]) + 1
             /\ V(waiting'[i] - 1)[Slot(script, tree', waiting'[i])] = waiting'[i + 1]
    BY <2>3, <2>4, <2>7
  <2>9. QED  BY <2>6, <2>7, <2>8 DEF Contents, V, B
<1>16. QED  BY <1>1, <1>11, <1>14, <1>15 DEF StackInv

(* as_ast stops at the beginning of the script, within the calls that still    *)
(* want an operand.                                                         *)
AtTheEnd == state = "done" => rest = 0 /\ (waiting # <<>> => Wants(Last(waiting)) > 0)

AstInv == AstTyped /\ OrderInv /\ StackInv /\ AtTheEnd

(* Before the first command nothing is known, and nothing needs to be.         *)
LEMMA AstStarts ==
  ASSUME AstInit
  PROVE  AstInv
<1>1. /\ script \in Seq(AstCommands) /\ rest = Len(script)
      /\ waiting = <<>> /\ tree = <<>> /\ statements = <<>> /\ state \in {"take", "panic"}
  <2>1. PICK s \in Listings :
          IF s # <<>> /\ Head(s).op = "Begin"
          THEN script = Tail(s) /\ state = "take"
          ELSE script = <<>> /\ state = "panic"
    BY DEF AstInit
  <2>2. s \in Seq(AstCommands)  BY ListingsAssumption DEF AstCommands
  <2>3. <<>> \in Seq(AstCommands)  OBVIOUS
  <2>4. CASE s # <<>> /\ Head(s).op = "Begin"
    <3>1. Tail(s) \in Seq(AstCommands)  BY <2>2, <2>4
    <3>2. QED  BY <2>1, <2>4, <3>1 DEF AstInit
  <2>5. CASE ~(s # <<>> /\ Head(s).op = "Begin")  BY <2>1, <2>3, <2>5 DEF AstInit
  <2>6. QED  BY <2>4, <2>5
<1>2. Len(script) \in Nat  BY <1>1, LenProperties
<1>3. <<>> \in Seq(Nat) /\ Len(<<>>) = 0  OBVIOUS
<1>4. AstTyped
  <2>1. ReadAfter(rest) = {}  BY <1>1, <1>2 DEF ReadAfter
  <2>2. tree \in [{} -> Nodes]  BY <1>1
  <2>3. rest \in 0 .. Len(script)  BY <1>1, <1>2
  <2>4. \A i \in 1 .. Len(waiting) : waiting[i] \in DOMAIN tree  BY <1>1
  <2>5. waiting \in Seq(Nat) /\ statements \in Seq(Nat)  BY <1>1, <1>3
  <2>6. QED  BY <1>1, <2>1, <2>2, <2>3, <2>4, <2>5 DEF AstTyped
<1>5. Len(waiting) = 0 /\ Len(statements) = 0 /\ DOMAIN tree = {}  BY <1>1
<1>6. OrderInv
  <2>1. Increasing(statements)  BY <1>1 DEF Increasing
  <2>2. QED  BY <1>5, <2>1 DEF OrderInv, AllPlaced, Ordered, Nested
<1>7. StackInv  BY <1>5 DEF StackInv, Lacking, Heights, Contents
<1>8. QED  BY <1>1, <1>4, <1>6, <1>7 DEF AstInv, AtTheEnd

(* Every action keeps the invariant.                                         *)
LEMMA AstKeeps ==
  ASSUME AstInv, [AstNext]_astVars
  PROVE  AstInv'
<1>1. AstTyped /\ OrderInv /\ StackInv /\ AtTheEnd  BY DEF AstInv
<1>2. CASE Skip
  <2>1. AstTyped' /\ OrderInv' /\ StackInv'  BY <1>1, <1>2, SkipIs, SkipOrdered
  <2>2. state' = "take"  BY <1>2 DEF Skip, Wanted
  <2>3. QED  BY <2>1, <2>2 DEF AstInv, AtTheEnd
<1>3. CASE Take
  <2>1. AstTyped' /\ OrderInv' /\ StackInv'  BY <1>1, <1>3, TakeIs, TakeOrdered, TakeStack
  <2>2. state' = "take"  BY <1>3 DEF Take, Wanted
  <2>3. QED  BY <2>1, <2>2 DEF AstInv, AtTheEnd
<1>4. CASE Give
  <2>1. AstTyped' /\ OrderInv' /\ StackInv'  BY <1>1, <1>4, GiveIs, GiveOrdered, GiveStack
  <2>2. state' = "take"  BY <1>4 DEF Give
  <2>3. QED  BY <2>1, <2>2 DEF AstInv, AtTheEnd
<1>5. ASSUME UNCHANGED <<script, rest, waiting, tree, statements>>
      PROVE  AstTyped' /\ OrderInv' /\ StackInv'
  <2>1. AstTyped'  BY <1>1, <1>5 DEF AstTyped, ReadAfter
  <2>2. OrderInv'  BY <1>1, <1>5 DEF OrderInv, AllPlaced, Ordered, Nested
  <2>3. StackInv'  BY <1>1, <1>5 DEF StackInv
  <2>4. QED  BY <2>1, <2>2, <2>3
<1>6. CASE Panic
  <2>1. UNCHANGED <<script, rest, waiting, tree, statements>> /\ state' = "panic"  BY <1>6 DEF Panic
  <2>2. QED  BY <1>5, <2>1 DEF AstInv, AtTheEnd
<1>7. CASE End
  <2>1. UNCHANGED <<script, rest, waiting, tree, statements>>  BY <1>7 DEF End
  <2>2. rest = 0
    <3>1. rest <= 0 /\ rest \in 0 .. Len(script) /\ Len(script) \in Nat
      BY <1>1, <1>7, TypedIs DEF End, AstTyped
    <3>2. QED  BY <3>1
  <2>3. waiting # <<>> => Wants(Last(waiting)) > 0  BY <1>7 DEF End, Wanted
  <2>4. AtTheEnd'  BY <2>1, <2>2, <2>3 DEF AtTheEnd, Wants
  <2>5. QED  BY <1>5, <2>1, <2>4 DEF AstInv
<1>8. CASE UNCHANGED astVars
  <2>1. UNCHANGED <<script, rest, waiting, tree, statements, state>>  BY <1>8 DEF astVars
  <2>2. AtTheEnd'  BY <1>1, <2>1 DEF AtTheEnd, Wants
  <2>3. QED  BY <1>5, <2>1, <2>2 DEF AstInv
<1>9. QED  BY <1>2, <1>3, <1>4, <1>6, <1>7, <1>8 DEF AstNext, Finished

(* The inductive invariant of the module Ast holds in every state.           *)
THEOREM AstInvariant == AstSpec => []AstInv
BY AstStarts, AstKeeps, PTL DEF AstSpec
-----------------------------------------------------------------------------
(* The places of the model and those of the library.                          *)
LEMMA RangeIs ==
  ASSUME NEW s \in Seq(Nat)
  PROVE  \A k : Within(s, k) <=> k \in Range(s)
<1>1. DOMAIN s = 1 .. Len(s)  BY LenProperties
<1>2. QED  BY <1>1 DEF Within, Range

(* A sequence backwards.                                                     *)
LEMMA Reversed ==
  ASSUME NEW s \in Seq(Nat)
  PROVE  /\ Reverse(s) \in Seq(Nat) /\ Len(Reverse(s)) = Len(s)
         /\ \A i \in 1 .. Len(s) : Reverse(s)[i] = s[Len(s) - i + 1]
<1>1. Len(s) \in Nat /\ DOMAIN s = 1 .. Len(s)  BY LenProperties
<1>2. Reverse(s) = [i \in 1 .. Len(s) |-> s[Len(s) - i + 1]]  BY DEF Reverse
<1>3. \A i \in 1 .. Len(s) : Len(s) - i + 1 \in 1 .. Len(s)  BY <1>1
<1>4. \A i \in 1 .. Len(s) : s[Len(s) - i + 1] \in Nat  BY <1>3, ElementOfSeq
<1>5. QED  BY <1>1, <1>2, <1>4, IsASeq

(* The order of what waits and of the statements in one sequence.             *)
LEMMA InOrder ==
  ASSUME AstTyped, Ordered
  PROVE  Increasing(Reverse(waiting) \o statements)
<1> DEFINE n == Len(waiting)
           m == Len(statements)
           back == Reverse(waiting)
           all == back \o statements
<1>1. /\ waiting \in Seq(Nat) /\ statements \in Seq(Nat) /\ n \in Nat /\ m \in Nat
      /\ DOMAIN statements = 1 .. m
  BY TypedIs DEF AstTyped
<1>2. back \in Seq(Nat) /\ Len(back) = n /\ \A i \in 1 .. n : back[i] = waiting[n - i + 1]
  BY <1>1, Reversed
<1> HIDE DEF back
<1>3. /\ all \in Seq(Nat) /\ Len(all) = Len(back) + m
      /\ \A i \in 1 .. Len(back) : all[i] = back[i]
      /\ \A i \in Len(back) + 1 .. Len(back) + m : all[i] = statements[i - Len(back)]
  <2>1. back \in Seq(Nat) /\ statements \in Seq(Nat)  BY <1>1, <1>2
  <2>2. QED  BY <2>1, Joining
<1> HIDE DEF all
<1>4. DOMAIN all = 1 .. n + m
  <2>1. DOMAIN all = 1 .. Len(all)  BY <1>3, LenProperties
  <2>2. QED  BY <1>2, <1>3, <2>1
<1>5. /\ \A i, j \in 1 .. n : i < j => waiting[j] < waiting[i]
      /\ \A i \in 1 .. n, j \in 1 .. m : waiting[i] < statements[j]
      /\ \A i, j \in 1 .. m : i < j => statements[i] < statements[j]
  BY <1>1 DEF Ordered, Increasing
<1> HIDE DEF n, m
<1>6. ASSUME NEW i \in 1 .. n + m
      PROVE  \/ i \in 1 .. n /\ n - i + 1 \in 1 .. n /\ all[i] = waiting[n - i + 1]
             \/ i - n \in 1 .. m /\ all[i] = statements[i - n]
  <2>1. CASE i \in 1 .. n
    <3>1. n - i + 1 \in 1 .. n  BY <1>1, <2>1
    <3>2. all[i] = back[i]  BY <1>2, <1>3, <2>1
    <3>3. QED  BY <1>2, <2>1, <3>1, <3>2
  <2>2. CASE i \in n + 1 .. n + m
    <3>1. i - n \in 1 .. m  BY <1>1, <2>2
    <3>2. all[i] = statements[i - n]  BY <1>2, <1>3, <2>2
    <3>3. QED  BY <3>1, <3>2
  <2>3. QED  BY <1>1, <2>1, <2>2
<1>7. ASSUME NEW i \in 1 .. n + m, NEW j \in 1 .. n + m, i < j
      PROVE  all[i] < all[j]
  <2>1. CASE i \in 1 .. n /\ j \in 1 .. n
    <3>1. all[i] = waiting[n - i + 1] /\ all[j] = waiting[n - j + 1]
      <4>1. ~(i - n \in 1 .. m) /\ ~(j - n \in 1 .. m)  BY <1>1, <2>1
      <4>2. QED  BY <1>6, <4>1
    <3>2. n - i + 1 \in 1 .. n /\ n - j + 1 \in 1 .. n /\ n - j + 1 < n - i + 1  BY <1>1, <1>7, <2>1
    <3>3. QED  BY <1>5, <3>1, <3>2
  <2>2. CASE j \notin 1 .. n
    <3>1. j - n \in 1 .. m /\ all[j] = statements[j - n]  BY <1>6, <2>2
    <3>2. CASE i \in 1 .. n
      <4>1. n - i + 1 \in 1 .. n /\ all[i] = waiting[n - i + 1]
        <5>1. ~(i - n \in 1 .. m)  BY <1>1, <3>2
        <5>2. QED  BY <1>6, <5>1
      <4>2. QED  BY <1>5, <3>1, <4>1
    <3>3. CASE i \notin 1 .. n
      <4>1. i - n \in 1 .. m /\ all[i] = statements[i - n]  BY <1>6, <3>3
      <4>2. i - n < j - n  BY <1>1, <1>7
      <4>3. QED  BY <1>5, <3>1, <4>1, <4>2
    <3>4. QED  BY <3>2, <3>3
  <2>3. i \in 1 .. n \/ j \notin 1 .. n  BY <1>1, <1>7
  <2>4. QED  BY <2>1, <2>2, <2>3
<1>8. QED  BY <1>4, <1>7 DEF Increasing, all, back

(* The properties follow from the invariant.                                 *)
LEMMA NothingLost ==
  ASSUME AstTyped, OrderInv
  PROVE  LosesNothing
<1>1. /\ waiting \in Seq(Nat) /\ statements \in Seq(Nat)
      /\ DOMAIN tree = ReadAfter(rest)
      /\ \A p \in DOMAIN tree : /\ p \in Nat /\ tree[p].args \in Seq(Nat) /\ Len(tree[p].args) \in Nat
                                /\ DOMAIN tree[p].args = 1 .. Len(tree[p].args)
      /\ \A k : Within(waiting, k) => k \in DOMAIN tree
  BY TypedIs, Nobody DEF AstTyped
<1>2. /\ \A k : Within(waiting, k) <=> k \in Range(waiting)
      /\ \A k : Within(statements, k) <=> k \in Range(statements)
  BY <1>1, RangeIs
<1>3. \A p \in DOMAIN tree : \A c : Has(tree, p, c) <=> Owns(p, c)  BY <1>1, RangeIs DEF Has, Owns
<1>4. \A k : k \in Roots <=> Within(waiting, k) \/ Within(statements, k)  BY <1>2 DEF Roots
<1>5. AllPlaced /\ Ordered /\ Nested  BY DEF OrderInv
<1>6. Roots \cup UNION {Range(tree[p].args) : p \in DOMAIN tree} = DOMAIN tree
  <2>1. \A k : Within(statements, k) => k \in DOMAIN tree  BY <1>5 DEF AllPlaced, Within
  <2>2. \A k : k \in UNION {Range(tree[p].args) : p \in DOMAIN tree} <=> \E p \in DOMAIN tree : Has(tree, p, k)
    BY <1>3 DEF Owns
  <2>3. \A k \in DOMAIN tree : k \in Roots \/ \E p \in DOMAIN tree : Has(tree, p, k)
    BY <1>4, <1>5 DEF AllPlaced
  <2>4. \A p \in DOMAIN tree : \A c : Has(tree, p, c) => c \in DOMAIN tree  BY <1>5 DEF AllPlaced
  <2>5. QED  BY <1>1, <1>4, <2>1, <2>2, <2>3, <2>4
<1>7. ASSUME NEW p \in DOMAIN tree  PROVE Increasing(Append(tree[p].args, p))
  <2> DEFINE s == tree[p].args
             t == Append(s, p)
  <2>1. s \in Seq(Nat) /\ p \in Nat /\ Len(s) \in Nat /\ DOMAIN s = 1 .. Len(s)  BY <1>1
  <2>2. Increasing(s) /\ \A i \in 1 .. Len(s) : s[i] < p
    <3>1. \A i \in 1 .. Len(s) : Has(tree, p, s[i])  BY DEF Has, Within
    <3>2. QED  BY <1>5, <3>1 DEF Ordered, AllPlaced
  <2> HIDE DEF s
  <2>3. /\ t \in Seq(Nat) /\ Len(t) = Len(s) + 1 /\ t[Len(s) + 1] = p
        /\ \A i \in 1 .. Len(s) : t[i] = s[i]
    BY <2>1, Pushing
  <2> HIDE DEF t
  <2>4. DOMAIN t = 1 .. Len(s) + 1  BY <2>3, LenProperties
  <2>5. ASSUME NEW i \in 1 .. Len(s) + 1, NEW j \in 1 .. Len(s) + 1, i < j  PROVE t[i] < t[j]
    <3>1. i \in 1 .. Len(s) /\ t[i] = s[i]
      <4>1. i \in 1 .. Len(s)  BY <2>1, <2>5
      <4>2. QED  BY <2>3, <4>1
    <3>2. CASE j = Len(s) + 1  BY <2>2, <2>3, <3>1, <3>2
    <3>3. CASE j \in 1 .. Len(s)
      <4>1. t[j] = s[j]  BY <2>3, <3>3
      <4>2. s[i] < s[j]  BY <2>1, <2>2, <2>5, <3>1, <3>3 DEF Increasing
      <4>3. QED  BY <3>1, <4>1, <4>2
    <3>4. QED  BY <2>1, <3>2, <3>3
  <2>6. QED  BY <2>4, <2>5 DEF Increasing, s, t
<1>8. \A p, c \in DOMAIN tree : Owns(p, c) =>
        /\ \A r \in Roots : ~(c <= r /\ r < p)
        /\ \A q, d \in DOMAIN tree : Owns(q, d) /\ c <= d /\ d < p => q <= p
  BY <1>3, <1>4, <1>5 DEF Nested
<1>9. Increasing(Reverse(waiting) \o statements)  BY <1>5, InOrder
<1>10. QED  BY <1>1, <1>6, <1>7, <1>8, <1>9 DEF LosesNothing, ReadAfter

LEMMA NothingCut ==
  ASSUME AstInv
  PROVE  CutOnlyAtUnderflow
<1>1. SUFFICES ASSUME state = "done", NeverShort(script), waiting # <<>>  PROVE FALSE
  BY DEF CutOnlyAtUnderflow
<1> DEFINE n == Len(waiting)
           k == waiting[n]
<1>2. AstTyped /\ StackInv /\ AtTheEnd  BY DEF AstInv
<1>3. n \in Nat \ {0} /\ Last(waiting) = k  BY <1>1, <1>2, LastAndFront DEF AstTyped
<1>4. rest = 0 /\ Wants(k) > 0  BY <1>1, <1>2, <1>3 DEF AtTheEnd
<1>5. k \in DOMAIN tree  BY <1>2, <1>3, TypedIs DEF AstTyped
<1>6. /\ Below(script, k) \in Nat /\ Lacks(script, tree, k) \in Int
      /\ Lacks(script, tree, k) > 0
      /\ Slot(script, tree, k) = Below(script, k) + Lacks(script, tree, k)
      /\ Len(Values(script)[0]) = 0
  BY <1>1, <1>2, <1>4, <1>5, Numbers
<1>7. Slot(script, tree, k) <= Len(Values(script)[rest])
  BY <1>1, <1>2, <1>3 DEF StackInv, Heights
<1> HIDE DEF n, k
<1>8. QED  BY <1>4, <1>6, <1>7

LEMMA TakesWhatTheStackHolds ==
  ASSUME AstInv
  PROVE  OperandsOfTheStack
<1>1. SUFFICES ASSUME state = "done", NeverShort(script), Unmixed(script), NEW k \in DOMAIN tree
               PROVE  tree[k].args = SubSeq(Values(script)[k - 1], Below(script, k) + 1,
                                            Len(Values(script)[k - 1]))
  BY DEF OperandsOfTheStack
<1> DEFINE v == Values(script)[k - 1]
           b == Below(script, k)
           a == tree[k].args
<1>2. AstTyped /\ StackInv  BY DEF AstInv
<1>3. waiting = <<>>  BY <1>1, NothingCut DEF CutOnlyAtUnderflow
<1>4. Lacks(script, tree, k) = 0
  <2>1. ~Within(waiting, k)  BY <1>3 DEF Within
  <2>2. QED  BY <1>2, <2>1 DEF StackInv, Lacking
<1>5. /\ a \in Seq(Nat) /\ Len(a) \in Nat /\ k \in 1 .. Len(script) /\ Len(script) \in Nat
      /\ Wants(k) = Operands(script[k]) - Len(a) /\ Operands(script[k]) \in Nat
      /\ ~Skips(script[k])
  BY <1>2, TypedIs
<1>6. /\ b \in Nat /\ b + Operands(script[k]) = Len(v) /\ v \in Seq(Nat) /\ Len(v) \in Nat
      /\ Wants(k) = 0 /\ Slot(script, tree, k) = b
  <2>1. k - 1 \in 0 .. Len(script)  BY <1>5
  <2>2. /\ b \in Nat /\ b + Operands(script[k]) = Len(v) /\ v \in Seq(Nat) /\ Len(v) \in Nat
        /\ Wants(k) = Lacks(script, tree, k)
        /\ Slot(script, tree, k) = b + Lacks(script, tree, k)
    BY <1>1, <1>2, <1>5, <2>1, Numbers
  <2> HIDE DEF b, v
  <2>3. QED  BY <1>4, <2>2
<1>7. \A i \in 1 .. Len(a) : a[i] = v[b + i]
  BY <1>1, <1>2, <1>6 DEF StackInv, Contents
<1> HIDE DEF v, b, a
<1>8. Len(v) = b + Len(a)  BY <1>5, <1>6
<1>9. /\ SubSeq(v, b + 1, Len(v)) \in Seq(Nat)
      /\ Len(SubSeq(v, b + 1, Len(v))) = Len(a)
      /\ \A i \in 1 .. Len(a) : SubSeq(v, b + 1, Len(v))[i] = v[b + i]
  <2>1. b + 1 \in 1 .. Len(v) + 1  BY <1>5, <1>6, <1>8
  <2>2. /\ SubSeq(v, b + 1, Len(v)) \in Seq(Nat)
        /\ Len(SubSeq(v, b + 1, Len(v))) = IF b + 1 <= Len(v) THEN Len(v) - (b + 1) + 1 ELSE 0
        /\ \A i \in 1 .. Len(v) - (b + 1) + 1 : SubSeq(v, b + 1, Len(v))[i] = v[(b + 1) + i - 1]
    <3>1. \A i \in (b + 1) .. Len(v) : v[i] \in Nat
      <4>1. \A i \in 1 .. Len(v) : v[i] \in Nat  BY <1>6, ElementOfSeq
      <4>2. QED  BY <1>6, <4>1
    <3>2. QED  BY <1>6, <2>1, <3>1, SubSeqProperties
  <2>3. Len(SubSeq(v, b + 1, Len(v))) = Len(a)  BY <1>5, <1>6, <1>8, <2>2
  <2>4. ASSUME NEW i \in 1 .. Len(a)  PROVE SubSeq(v, b + 1, Len(v))[i] = v[b + i]
    <3>1. i \in 1 .. Len(v) - (b + 1) + 1 /\ (b + 1) + i - 1 = b + i  BY <1>5, <1>6, <1>8
    <3>2. QED  BY <2>2, <3>1
  <2>5. QED  BY <2>2, <2>3, <2>4
<1>10. a = SubSeq(v, b + 1, Len(v))
  <2> DEFINE u == SubSeq(v, b + 1, Len(v))
  <2>1. u \in Seq(Nat) /\ Len(u) = Len(a) /\ \A i \in 1 .. Len(a) : a[i] = u[i]  BY <1>7, <1>9
  <2> HIDE DEF u
  <2>2. a = u  BY <1>5, <2>1, SeqEqual
  <2>3. QED  BY <2>2 DEF u
<1>11. QED  BY <1>10 DEF a, v, b

(* Everything that as_ast (ast.rs:275-297) has read and not skipped is in one   *)
(* place and in the order of the script, whatever the script: no command is   *)
(* lost or taken twice, and no operand comes from beyond another command's.  *)
THEOREM NothingIsLost == AstSpec => []LosesNothing
<1>1. AstInv => LosesNothing  BY NothingLost DEF AstInv
<1>2. QED  BY <1>1, AstInvariant, PTL

(* A read that ends with take_node's None within a call (ast.rs:121) has come  *)
(* upon a command that takes a value nothing pushed.                         *)
THEOREM CutMeansUnderflow == AstSpec => []CutOnlyAtUnderflow
BY NothingCut, AstInvariant, PTL

(* The node of a command has as its operands the commands whose values the     *)
(* evaluation stack hands it, if statements leave nothing on the stack.      *)
THEOREM NodesTakeTheirValues == AstSpec => []OperandsOfTheStack
BY TakesWhatTheStackHolds, AstInvariant, PTL

(* Every turn of take_node's loop reads a command or returns (ast.rs:121,       *)
(* 241), so no script keeps as_ast for ever.                                 *)
THEOREM AlwaysReadsOn == AstSpec => ReadsOn
<1>1. ASSUME AstInv, [AstNext]_astVars
      PROVE  [state' = "take" =>
                rest' < rest \/ (rest' = rest /\ Len(waiting') < Len(waiting))]_astVars
  <2>1. AstTyped  BY <1>1 DEF AstInv
  <2>2. CASE Skip
    <3>1. rest \in 1 .. Len(script) /\ rest' = rest - 1  BY <2>1, <2>2, SkipIs
    <3>2. QED  BY <3>1
  <2>3. CASE Take
    <3>1. rest \in 1 .. Len(script) /\ rest' = rest - 1  BY <2>1, <2>3, TakeIs
    <3>2. QED  BY <3>1
  <2>4. CASE Give
    <3>1. rest' = rest /\ Len(waiting) \in Nat \ {0} /\ Len(waiting') = Len(waiting) - 1
      BY <2>1, <2>4, GiveIs
    <3>2. QED  BY <3>1
  <2>5. CASE Panic  BY <2>5 DEF Panic
  <2>6. CASE End    BY <2>6 DEF End
  <2>7. CASE UNCHANGED astVars  BY <2>7
  <2>8. QED  BY <1>1, <2>2, <2>3, <2>4, <2>5, <2>6, <2>7 DEF AstNext, Finished
<1>2. QED  BY <1>1, AstInvariant, PTL DEF AstSpec, ReadsOn
=============================================================================
