--------------------------------- MODULE Jit ---------------------------------
(***************************************************************************)
(* The life of machine code in memory: JitMemory of src/jit/mod.rs, which   *)
(* compile() fills and links, lock_all() makes executable and run() enters, *)
(* in the order in which main() does so and in any order a client can call  *)
(* the public functions in.  Memory is never freed.                         *)
(***************************************************************************)
EXTENDS Integers, Sequences

CONSTANTS
  Scripts,   \* how many scripts the file has
  Entries,   \* what get_script_from_loc may find for the entry point, 0: none
  Links      \* call_relocs: pairs <<script, callee>>

ASSUME FileAssumption ==
  /\ Scripts \in Nat \ {0} /\ Entries \subseteq 0 .. Scripts
  /\ Links \subseteq (1 .. Scripts) \X (1 .. Scripts)

VARIABLES
  failing, \* which of "posix_memalign" and "mprotect" may fail
  user,    \* "main" or "client": who calls the functions
  mem,     \* JitMemory values: [ours, prot, locked]
  links,   \* the calls not yet linked
  entry,
  next,    \* lock_all: the next memory to lock
  at,      \* the script that executes, 0 for none
  pc       \* where main() is; "fault" and "panic" end the process

vars == <<failing, user, mem, links, entry, next, at, pc>>

(* external: what posix_memalign and mprotect may answer.                   *)
Answers(call) == IF call \in failing THEN BOOLEAN ELSE {TRUE}

(* A store or a jump to memory of script i either does what it should or,   *)
(* without the permission, faults.  Memory that is not ours does anything.  *)
MayStore(i)   == ~mem[i].ours \/ mem[i].prot = "rw"
MayFault(i, prot) == ~mem[i].ours \/ mem[i].prot # prot
-----------------------------------------------------------------------------
(* MUTANT: code is made executable before it is linked.                     *)
MutNew ==
  mem' = Append(mem, [ours |-> TRUE, prot |-> "rx", locked |-> TRUE]) /\ UNCHANGED pc

(* JitMemory::new looks at no result: the pointer of a failed allocation is *)
(* used uninitialized, by memset first.                                     *)
New ==
  \/ /\ mem' = Append(mem, [ours |-> TRUE, prot |-> "rw", locked |-> FALSE])
     /\ UNCHANGED pc
  \/ /\ FALSE \in Answers("posix_memalign")
     /\ \/ mem' = Append(mem, [ours |-> FALSE, prot |-> "rw", locked |-> FALSE])
           /\ UNCHANGED pc
        \/ pc' = "fault" /\ UNCHANGED mem

(* JitMemory::lock and unlock set the flag whatever mprotect answers.       *)
MutLock(i, ok) == [mem EXCEPT ![i].locked = TRUE]   \* MUTANT: nothing is protected
Lock(i, ok) ==
  [mem EXCEPT ![i].locked = TRUE, ![i].prot = IF ok THEN "rx" ELSE @]
Unlock(i, ok) ==
  [mem EXCEPT ![i].locked = FALSE, ![i].prot = IF ok THEN "rw" ELSE @]

(* as_slice, and the pointer in contents.                                   *)
Store(i) ==
  \/ MayStore(i) /\ UNCHANGED pc
  \/ MayFault(i, "rw") /\ pc' = "fault"

(* Code of script i is entered.                                             *)
Execute(i) ==
  \/ (~mem[i].ours \/ mem[i].prot = "rx") /\ pc' = "running" /\ at' = i
  \/ MayFault(i, "rx") /\ pc' = "fault" /\ at' = i

(* JitMemory::run.                                                          *)
Run(i) ==
  \/ mem[i].locked /\ Execute(i)
  \/ ~mem[i].locked /\ pc' = "panic" /\ UNCHANGED at
-----------------------------------------------------------------------------
(* compile(): pages are allocated and filled for one script after the other; *)
(* then the call addresses are stored, then the entry point is looked up.   *)
MutPlace ==   \* MUTANT: one script too many
  /\ pc = "compile" /\ Len(mem) <= Scripts
  /\ New /\ UNCHANGED <<links, entry, next, at>>
Place ==
  /\ pc = "compile" /\ Len(mem) < Scripts
  /\ New /\ UNCHANGED <<links, entry, next, at>>

Link(l) ==
  /\ pc = "compile" /\ Len(mem) = Scripts /\ l \in links
  /\ Store(l[1])
  /\ links' = links \ {l} /\ UNCHANGED <<mem, entry, next, at>>

Compiled ==
  /\ pc = "compile" /\ Len(mem) = Scripts /\ links = {}
  /\ pc' = IF entry = 0 THEN "panic" ELSE "lock_all"
  /\ UNCHANGED <<mem, links, entry, next, at>>

(* lock_all(): any failure ends the process.                                *)
MutLockLoop ==   \* MUTANT: the loop does not advance
  /\ pc = "lock_all" /\ next <= Len(mem)
  /\ \E ok \in Answers("mprotect") :
       mem' = Lock(next, ok) /\ pc' = IF ok THEN pc ELSE "panic"
  /\ UNCHANGED <<links, entry, next, at>>
MutLockNext ==   \* MUTANT: the result of lock() is ignored
  /\ pc = "lock_all" /\ next <= Len(mem)
  /\ \E ok \in Answers("mprotect") : mem' = Lock(next, ok)
  /\ next' = next + 1 /\ UNCHANGED <<links, entry, at, pc>>
LockNext ==
  /\ pc = "lock_all" /\ next <= Len(mem)
  /\ \E ok \in Answers("mprotect") :
       mem' = Lock(next, ok) /\ pc' = IF ok THEN pc ELSE "panic"
  /\ next' = next + 1 /\ UNCHANGED <<links, entry, at>>

(* CompiledProgram::run() enters the entry point; only its flag is checked. *)
RunEntry ==
  /\ pc = "lock_all" /\ next > Len(mem)
  /\ Run(entry)
  /\ UNCHANGED <<mem, links, entry, next>>

(* A script calls another, or returns to one that may have called it.       *)
CallLinked ==
  /\ pc = "running"
  /\ \E l \in Links : at \in {l[1], l[2]} /\ Execute(IF at = l[1] THEN l[2] ELSE l[1])
  /\ UNCHANGED <<mem, links, entry, next>>

ReturnToHost ==
  /\ pc = "running" /\ at = entry
  /\ pc' = "returned" /\ at' = 0 /\ UNCHANGED <<mem, links, entry, next>>

Main == \/ Place \/ Compiled \/ LockNext \/ RunEntry
        \/ \E l \in Links : Link(l)

(* A client of the public functions that ignores the results of lock() and  *)
(* unlock(), which are plain integers.                                      *)
Client ==
  /\ pc \in {"compile", "returned"} /\ UNCHANGED <<links, entry, next>>
  /\ \/ Len(mem) < Scripts /\ New /\ UNCHANGED at
     \/ \E i \in DOMAIN mem, ok \in Answers("mprotect") :
          /\ mem' \in {Lock(i, ok), Unlock(i, ok)}
          /\ UNCHANGED <<at, pc>>
     \/ \E i \in DOMAIN mem : Run(i) /\ UNCHANGED mem

ClientReturns ==
  /\ pc = "running"
  /\ pc' = "returned" /\ at' = 0 /\ UNCHANGED <<mem, links, entry, next>>

Ended == pc \in {"returned", "panic", "fault"} /\ UNCHANGED vars

Init ==
  /\ failing \in SUBSET {"posix_memalign", "mprotect"}
  /\ user \in {"main", "client"}
  /\ mem = <<>> /\ links = Links /\ entry \in Entries
  /\ next = 1 /\ at = 0 /\ pc = "compile"

Next ==
  \/ /\ \/ user = "main" /\ (Main \/ CallLinked \/ ReturnToHost)
        \/ user = "client" /\ (Client \/ ClientReturns)
     /\ UNCHANGED <<failing, user>>
  \/ Ended

(* One thread does all this: what main() can do next, it does.  A client    *)
(* need not do anything, and a script may run for ever.                     *)
Spec == Init /\ [][Next]_vars
             /\ WF_vars(user = "main" /\ Main /\ UNCHANGED <<failing, user>>)
-----------------------------------------------------------------------------
TypeOK ==
  /\ failing \subseteq {"posix_memalign", "mprotect"} /\ user \in {"main", "client"}
  /\ mem \in Seq([ours : BOOLEAN, prot : {"rw", "rx"}, locked : BOOLEAN])
  /\ Len(mem) <= Scripts
  /\ links \subseteq Links /\ entry \in Entries
  /\ next \in 1 .. Scripts + 1 /\ at \in 0 .. Scripts
  /\ pc \in {"compile", "lock_all", "running", "returned", "panic", "fault"}

(* Only the flag of the entry point is checked, yet once main() runs it     *)
(* every script it may reach can be executed, and no call is unlinked,      *)
(* whatever mprotect answers.                                               *)
ReachableCodeExecutable ==
  user = "main" /\ pc = "running" =>
    links = {} /\ \A i \in 1 .. Scripts : i \in DOMAIN mem /\ mem[i].prot = "rx"

(* Whatever mprotect answers, main() never stores to locked code and never  *)
(* enters code that is not executable: a fault needs a failed allocation.   *)
FaultsExplained ==
  user = "main" /\ pc = "fault" =>
    /\ "posix_memalign" \in failing
    /\ Len(mem) < Scripts \/ \E i \in DOMAIN mem : ~mem[i].ours

(* main() comes as far as running the script, or stops with a reason.       *)
RunsOrStops ==
  user = "main" /\ pc = "compile" ~> pc \in {"running", "panic", "fault"}

(* "Cannot run unlocked JitMemory": what has its flag set is executable, in *)
(* whatever order the functions are called, unless mprotect fails, which    *)
(* lock() reports but does not remember.                                    *)
LockedIsExecutable ==
  "mprotect" \notin failing =>
    \A i \in DOMAIN mem : mem[i].locked /\ mem[i].ours => mem[i].prot = "rx"
=============================================================================
