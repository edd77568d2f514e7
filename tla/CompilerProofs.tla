--------------------------- MODULE CompilerProofs ---------------------------
(***************************************************************************)
(* Proofs about Compiler: for every set of well-formed MSC files and every  *)
(* length x86asm may give to a fragment, the emitted code is always a row   *)
(* of whole instructions, jumps land where they should, calls reach their     *)
(* scripts, and linking changes nothing but what it fills.                   *)
(***************************************************************************)
EXTENDS Compiler, TLAPS

(* Rows of fragments.                                                      *)

(* Writing a row right after another one appends it.                       *)
LEMMA JoinRows ==
  ASSUME NEW C \in SUBSET Fragment, NEW K \in SUBSET Fragment,
         NEW a \in Nat, NEW n \in Nat, NEW e \in Nat,
         Row(C, a, n), Row(K, n, e), a <= n, n <= e
  PROVE  Write(C, K) = C \cup K /\ Row(C \cup K, a, e)
<1>1. \A f \in C, g \in K : ~Overlap(f, g)
  BY DEF Row, Overlap, End, Fragment
<1>2. Write(C, K) = C \cup K
  BY <1>1 DEF Write
<1>3. \A f \in C \cup K : f.len > 0 /\ a <= f.at /\ End(f) <= e
  BY DEF Row, End, Fragment
<1>4. ASSUME NEW f \in C \cup K, NEW g \in C \cup K, Overlap(f, g) PROVE f = g
  <2>1. CASE f \in C /\ g \in C  BY <1>4, <2>1 DEF Row
  <2>2. CASE f \in K /\ g \in K  BY <1>4, <2>2 DEF Row
  <2>3. CASE f \in C /\ g \in K  BY <1>1, <1>4, <2>3
  <2>4. CASE f \in K /\ g \in C
    BY <1>4, <2>4 DEF Row, Overlap, End, Fragment
  <2>5. QED  BY <2>1, <2>2, <2>3, <2>4
<1>5. ASSUME NEW b \in a .. e - 1
      PROVE  \E f \in C \cup K : f.at <= b /\ b < End(f)
  <2>1. CASE b \in a .. n - 1  BY <2>1 DEF Row
  <2>2. CASE b \in n .. e - 1  BY <2>2 DEF Row
  <2>3. QED  BY <2>1, <2>2
<1>6. QED  BY <1>2, <1>3, <1>4, <1>5 DEF Row

(* Without its last fragment a row ends where that fragment began.          *)
LEMMA DropLast ==
  ASSUME NEW C \in SUBSET Fragment, NEW n \in Nat, NEW f \in C,
         Row(C, 0, n), End(f) = n
  PROVE  Row(C \ {f}, 0, f.at)
<1>1. ASSUME NEW g \in C \ {f} PROVE End(g) <= f.at
  BY DEF Row, Overlap, End, Fragment
<1>2. ASSUME NEW b \in 0 .. f.at - 1
      PROVE  \E g \in C \ {f} : g.at <= b /\ b < End(g)
  <2>1. b \in 0 .. n - 1  BY DEF Fragment, End
  <2>2. PICK g \in C : g.at <= b /\ b < End(g)  BY <2>1 DEF Row
  <2>3. QED  BY <2>2 DEF Fragment
<1>3. QED  BY <1>1, <1>2 DEF Row

(* Writing a row over the last fragment takes its place.                    *)
LEMMA WriteOverLast ==
  ASSUME NEW C \in SUBSET Fragment, NEW K \in SUBSET Fragment,
         NEW n \in Nat, NEW e \in Nat, NEW f \in C,
         Row(C, 0, n), End(f) = n, Row(K, f.at, e), n <= e
  PROVE  /\ Write(C, K) = (C \ {f}) \cup K
         /\ Row((C \ {f}) \cup K, 0, e)
<1>1. f.at \in Nat /\ f.len \in Nat /\ f.len > 0 /\ f.at < e
  BY DEF Row, Fragment, End
<1>2. Row(C \ {f}, 0, f.at)
  BY DropLast
<1>3. Write(C \ {f}, K) = (C \ {f}) \cup K /\ Row((C \ {f}) \cup K, 0, e)
  <2>1. C \ {f} \in SUBSET Fragment  OBVIOUS
  <2>2. 0 \in Nat /\ 0 <= f.at /\ f.at <= e  BY <1>1
  <2>3. QED  BY <1>1, <1>2, <2>1, <2>2, JoinRows
<1>4. \E g \in K : Overlap(f, g)
  <2>1. f.at \in f.at .. e - 1  BY <1>1
  <2>2. PICK g \in K : g.at <= f.at /\ f.at < End(g)  BY <2>1 DEF Row
  <2>3. QED  BY <1>1, <2>2 DEF Overlap, End, Fragment
<1>5. Write(C, K) = Write(C \ {f}, K)
  BY <1>4 DEF Write
<1>6. QED  BY <1>3, <1>5

(* Replacing a fragment by one that occupies the same bytes.                *)
LEMMA Replace ==
  ASSUME NEW C \in SUBSET Fragment, NEW n \in Nat, NEW f \in C,
         NEW g \in Fragment, g.at = f.at, g.len = f.len, Row(C, 0, n)
  PROVE  /\ Write(C, {g}) = (C \ {f}) \cup {g}
         /\ Row((C \ {f}) \cup {g}, 0, n)
<1>1. \A h \in C : Overlap(h, g) <=> h = f
  BY DEF Row, Overlap, End, Fragment
<1>2. Write(C, {g}) = (C \ {f}) \cup {g}
  BY <1>1 DEF Write
<1>3. \A h \in C : Overlap(g, h) <=> h = f
  BY DEF Row, Overlap, End, Fragment
<1>4. End(g) = End(f)
  BY DEF End
<1>5. ASSUME NEW b \in 0 .. n - 1
      PROVE  \E h \in (C \ {f}) \cup {g} : h.at <= b /\ b < End(h)
  <2>1. PICK h \in C : h.at <= b /\ b < End(h)  BY DEF Row
  <2>2. QED  BY <1>4, <2>1
<1>6. \A h \in (C \ {f}) \cup {g} : h.len > 0 /\ 0 <= h.at /\ End(h) <= n
  BY <1>4 DEF Row
<1>7. \A h, k \in (C \ {f}) \cup {g} : Overlap(h, k) => h = k
  BY <1>1, <1>3 DEF Row
<1>8. QED  BY <1>2, <1>5, <1>6, <1>7 DEF Row
-----------------------------------------------------------------------------
(* The inductive invariant.  The code is a row, and what later steps will   *)
(* overwrite is really there: the pushed function pointer a call takes      *)
(* back, the jumps that are patched, the MOVs that are linked.              *)

Rows ==
  /\ Row(code, 0, len)
  /\ \A k \in DOMAIN mem : Row(mem[k].code, 0, mem[k].len)

Progress ==
  /\ phase \in {"script", "commands", "patch"} => script_index = Len(mem) + 1
  /\ phase \in {"commands", "patch"} => script_index \in DOMAIN file.scripts
  /\ phase = "commands" => cursor = len

(* A fragment that ends at the cursor is the last one written.             *)
PushIsLast ==
  phase = "commands" /\ last_cmd_pushint # <<>> =>
    /\ pc > 1 /\ pc - 1 \in DOMAIN Current.cmds
    /\ \/ /\ Current.cmds[pc-1].op \in Immediates
          /\ Current.cmds[pc-1].push =>
               \E f \in code : f.kind = "pushimm" /\ f.len = 5 /\ End(f) = cursor
       \/ Current.cmds[pc-1].op = "PrintF" /\ Current.cmds[pc-1].argc = 0

ValuesAreKept ==
  phase = "commands" =>
    \A l \in ret_val_locations : \E t \in DOMAIN Current.cmds :
      /\ Current.cmds[t].op = "Try" /\ Current.cmds[t].push
      /\ Current.cmds[t].loc = l

JumpIn(frags, r) ==
  \E f \in frags : f.at = r.at /\ f.kind = r.mnem /\ f.len = Bytes(r.mnem, r)
JumpsWritten ==
  phase \in {"commands", "patch"} =>
    \A i \in DOMAIN jump_relocations : JumpIn(code, jump_relocations[i])

MovIn(frags, at) ==
  \E f \in frags : f.at = at /\ f.kind = "movrax" /\ f.len = 10
CallWritten(r) ==
  \/ r.script \in DOMAIN mem /\ MovIn(mem[r.script].code, r.at)
  \/ /\ phase \in {"commands", "patch"}
     /\ r.script = script_index /\ MovIn(code, r.at)
CallsWritten ==
  phase # "panic" => \A i \in DOMAIN call_relocs : CallWritten(call_relocs[i])

IInv == /\ file \in Files /\ TypeOK /\ Rows /\ Progress
        /\ PushIsLast /\ ValuesAreKept /\ JumpsWritten /\ CallsWritten
-----------------------------------------------------------------------------
(* Facts about the command being compiled.                                 *)

(* Every script of a file is a well-formed script.                          *)
LEMMA CurrentIsScript ==
  ASSUME IInv, script_index \in DOMAIN file.scripts
  PROVE  /\ Current \in Script /\ WellFormed(Current) /\ Start \in Nat
         /\ Encoded("prologue", Current) \in Nat \ {0}
<1>1. file \in Files /\ file \in File  BY FilesAssumption DEF IInv
<1>2. file.scripts \in Seq(Script)  BY <1>1 DEF File
<1>3. Current \in Script  BY <1>2 DEF Current
<1>4. WellFormed(Current)  BY <1>1, FilesAssumption DEF Current
<1>5. Start \in Nat  BY <1>3 DEF Start, Script
<1>6. Encoded("prologue", Current) \in Nat \ {0}
  BY <1>1, EncodedAssumption DEF Current
<1>7. QED  BY <1>3, <1>4, <1>5, <1>6

(* The command under the program counter and the lengths of its fragments.  *)
LEMMA CmdIsCommand ==
  ASSUME IInv, phase = "commands", pc <= Len(Current.cmds)
  PROVE  /\ Current \in Script /\ WellFormed(Current) /\ Start \in Nat
         /\ pc \in DOMAIN Current.cmds /\ pc \in Nat /\ Cmd \in Command
         /\ \A kind \in FixedKinds \cup (SizedKinds \ {"prologue"}) :
              Bytes(kind, Cmd) \in Nat \ {0}
<1>1. file \in Files /\ script_index \in DOMAIN file.scripts
  BY DEF IInv, Progress
<1>2. Current \in Script /\ WellFormed(Current) /\ Start \in Nat
  BY <1>1, CurrentIsScript
<1>3. Current.cmds \in Seq(Command)  BY <1>2 DEF Script
<1>4. pc \in Nat \ {0}  BY DEF IInv, TypeOK
<1>5. pc \in DOMAIN Current.cmds  BY <1>3, <1>4
<1>6. Cmd \in Command  BY <1>3, <1>5 DEF Cmd
<1>7. \A kind \in {"body", "test", "popargs", "dropargs"} :
        Encoded(kind, Cmd) \in Nat \ {0}
  BY <1>1, <1>5, EncodedAssumption DEF Cmd, Current
<1>8. \A kind \in FixedKinds \cup (SizedKinds \ {"prologue"}) :
        Bytes(kind, Cmd) \in Nat \ {0}
  BY <1>7 DEF Bytes, FixedKinds, SizedKinds, Mnemonics
<1>9. QED  BY <1>2, <1>4, <1>5, <1>6, <1>8

(* One fragment of the command, and the row it is.                          *)
AtOffset(kind, offset) ==
  /\ At(kind, offset) \in Fragment
  /\ At(kind, offset).at = offset /\ At(kind, offset).kind = kind
  /\ At(kind, offset).len = Bytes(kind, Cmd)
  /\ At(kind, offset).cmd = pc /\ At(kind, offset).arg = 0
  /\ End(At(kind, offset)) \in Nat /\ offset < End(At(kind, offset))
  /\ Row({At(kind, offset)}, offset, End(At(kind, offset)))
LEMMA AtIsRow ==
  ASSUME IInv, phase = "commands", pc <= Len(Current.cmds),
         NEW kind \in FixedKinds \cup (SizedKinds \ {"prologue"}),
         NEW offset \in Nat
  PROVE  AtOffset(kind, offset)
<1>1. Bytes(kind, Cmd) \in Nat \ {0} /\ pc \in Nat  BY CmdIsCommand
<1>2. At(kind, offset) \in Fragment
  BY <1>1 DEF At, Fragment
<1>3. /\ At(kind, offset).at = offset /\ At(kind, offset).kind = kind
      /\ At(kind, offset).len = Bytes(kind, Cmd)
      /\ At(kind, offset).cmd = pc /\ At(kind, offset).arg = 0
  BY DEF At
<1>4. /\ End(At(kind, offset)) = offset + Bytes(kind, Cmd)
  BY <1>3 DEF End
<1>5. Row({At(kind, offset)}, offset, End(At(kind, offset)))
  BY <1>1, <1>3, <1>4 DEF Row
<1>6. QED  BY <1>1, <1>2, <1>3, <1>4, <1>5 DEF AtOffset

(* The push of a return value, if any, is a row from the cursor to Here.    *)
LEMMA SavedReturnIsRow ==
  ASSUME IInv, phase = "commands", pc <= Len(Current.cmds)
  PROVE  /\ cursor \in Nat /\ cursor = len
         /\ Here \in Nat /\ cursor <= Here /\ SavedReturn \in SUBSET Fragment
         /\ Row(SavedReturn, cursor, Here)
<1>1. cursor \in Nat /\ cursor = len  BY DEF IInv, TypeOK, Progress
<1>2. CASE ReturnsHere
  <2>1. /\ At("saveret", cursor) \in Fragment
        /\ End(At("saveret", cursor)) \in Nat
        /\ cursor < End(At("saveret", cursor))
        /\ Row({At("saveret", cursor)}, cursor, End(At("saveret", cursor)))
    BY <1>1, AtIsRow DEF AtOffset, FixedKinds
  <2>2. Here = End(At("saveret", cursor))
    BY <1>2 DEF Here, End, At
  <2>3. SavedReturn = {At("saveret", cursor)}  BY <1>2 DEF SavedReturn
  <2>4. QED  BY <1>1, <2>1, <2>2, <2>3
<1>3. CASE ~ReturnsHere
  <2>1. Here = cursor /\ SavedReturn = {}  BY <1>3 DEF Here, SavedReturn
  <2>2. Row({}, cursor, cursor)  BY <1>1 DEF Row
  <2>3. QED  BY <1>1, <2>1, <2>2
<1>4. QED  BY <1>2, <1>3

(* A command's fragments extend the code and leave the cursor at its end.   *)
LEMMA Emit ==
  ASSUME IInv, phase = "commands", pc <= Len(Current.cmds),
         NEW K \in SUBSET Fragment, NEW e \in Nat, Here <= e,
         Row(K, Here, e), Advance(Write(code, SavedReturn \cup K), e)
  PROVE  /\ code \subseteq code' /\ K \subseteq code'
         /\ code' = code \cup (SavedReturn \cup K)
         /\ code' \in SUBSET Fragment
         /\ cursor' = e /\ len' = e /\ Row(code', 0, len')
<1>1. /\ cursor \in Nat /\ cursor = len
      /\ Here \in Nat /\ cursor <= Here /\ SavedReturn \in SUBSET Fragment
      /\ Row(SavedReturn, cursor, Here)
  BY SavedReturnIsRow
<1>2. Row(SavedReturn \cup K, cursor, e)
  BY <1>1, JoinRows
<1>3. code \in SUBSET Fragment /\ Row(code, 0, cursor)
  BY <1>1 DEF IInv, TypeOK, Rows
<1>4. SavedReturn \cup K \in SUBSET Fragment /\ cursor <= e /\ 0 <= cursor
  BY <1>1
<1>5. /\ Write(code, SavedReturn \cup K) = code \cup (SavedReturn \cup K)
      /\ Row(code \cup (SavedReturn \cup K), 0, e)
  BY <1>1, <1>2, <1>3, <1>4, JoinRows
<1>6. cursor' = e /\ len' = Grown(e)
      /\ code' = Write(code, SavedReturn \cup K)
  BY DEF Advance
<1>7. Grown(e) = e
  BY <1>1, <1>4 DEF Grown
<1>8. cursor' = e /\ len' = e /\ code' = code \cup (SavedReturn \cup K)
  BY <1>5, <1>6, <1>7
<1>9. QED  BY <1>3, <1>4, <1>5, <1>8
-----------------------------------------------------------------------------
(* What a step of the loop over the commands keeps.                        *)

(* Appending to a sequence.                                                 *)
LEMMA AppendIsSeq ==
  ASSUME NEW S, NEW s \in Seq(S), NEW x \in S
  PROVE  Append(s, x) \in Seq(S)
OBVIOUS

LEMMA AppendElements ==
  ASSUME NEW S, NEW s \in Seq(S), NEW x \in S
  PROVE  \A i \in DOMAIN Append(s, x) :
           \/ i \in DOMAIN s /\ Append(s, x)[i] = s[i]
           \/ Append(s, x)[i] = x
OBVIOUS

(* The loop body as the invariant sees it: the code stays a row, no         *)
(* fragment but a pushed function pointer disappears, and every table grows *)
(* by at most one entry, which names a fragment that is there.              *)
LEMMA CompileStep ==
  ASSUME IInv, phase = "commands", pc <= Len(Current.cmds),
         UNCHANGED <<file, phase, script_index, mem>>, pc' = pc + 1,
         code' \in SUBSET Fragment, cursor' = len', len' \in Nat,
         Row(code', 0, len'),
         \A g \in code : g.kind # "pushimm" => g \in code',
         NEW offset \in Nat, command_locations' = Locate(offset),
         NEW r \in JumpRelocation,
         \/ jump_relocations' = jump_relocations
         \/ jump_relocations' = Append(jump_relocations, r) /\ JumpIn(code', r),
         NEW q \in CallRelocation,
         \/ call_relocs' = call_relocs
         \/ /\ call_relocs' = Append(call_relocs, q)
            /\ q.script = script_index /\ MovIn(code', q.at),
         \/ ret_val_locations' = ret_val_locations
         \/ /\ ret_val_locations' = ret_val_locations \cup {Cmd.loc}
            /\ Cmd.op = "Try" /\ Cmd.push,
         \/ last_cmd_pushint' = <<>>
         \/ /\ Cmd.op \in Immediates /\ last_cmd_pushint' = <<Cmd.val>>
            /\ Cmd.push => \E f \in code' : /\ f.kind = "pushimm" /\ f.len = 5
                                            /\ End(f) = cursor'
         \/ /\ Cmd.op = "PrintF" /\ Cmd.argc = 0
            /\ last_cmd_pushint' = last_cmd_pushint
  PROVE  IInv'
<1>1. /\ Current \in Script /\ pc \in DOMAIN Current.cmds /\ pc \in Nat \ {0}
      /\ Cmd \in Command
  BY CmdIsCommand DEF IInv, TypeOK
<1>2. /\ Current' = Current /\ file' = file /\ phase' = phase /\ mem' = mem
      /\ script_index' = script_index
  BY DEF Current
<1>3. Cmd.pos \in Nat /\ Cmd.loc \in Nat /\ Cmd.val \in Nat
  BY <1>1 DEF Command
<1>4. file' \in Files /\ TypeOK'
  <2>1. TypeOK /\ file \in Files  BY DEF IInv
  <2>2. /\ file' \in File /\ script_index' \in Nat \ {0}
        /\ mem' \in Seq(PlacedScript)
        /\ phase' \in {"script", "commands", "patch", "link",
                       "panic", "none", "some"}
    BY <1>2, <2>1 DEF TypeOK
  <2>3. pc' \in Nat \ {0} /\ cursor' \in Nat  BY <1>1
  <2>4. last_cmd_pushint' \in Seq(Nat) /\ Len(last_cmd_pushint') <= 1
    <3>1. \/ last_cmd_pushint' = <<>> \/ last_cmd_pushint' = <<Cmd.val>>
          \/ last_cmd_pushint' = last_cmd_pushint
      OBVIOUS
    <3>2. last_cmd_pushint \in Seq(Nat) /\ Len(last_cmd_pushint) <= 1
      BY <2>1 DEF TypeOK
    <3>3. <<Cmd.val>> \in Seq(Nat) /\ Len(<<Cmd.val>>) = 1  BY <1>3
    <3>4. <<>> \in Seq(Nat) /\ Len(<<>>) = 0  OBVIOUS
    <3>5. CASE last_cmd_pushint' = <<>>  BY <3>4, <3>5
    <3>6. CASE last_cmd_pushint' = <<Cmd.val>>  BY <3>3, <3>6
    <3>7. CASE last_cmd_pushint' = last_cmd_pushint  BY <3>2, <3>7
    <3>8. QED  BY <3>1, <3>5, <3>6, <3>7
  <2>5. ret_val_locations' \in SUBSET Nat  BY <1>3, <2>1 DEF TypeOK
  <2>6. jump_relocations' \in Seq(JumpRelocation)
    BY <2>1, AppendIsSeq DEF TypeOK
  <2>7. /\ DOMAIN command_locations' \in SUBSET Nat
        /\ \A p \in DOMAIN command_locations' : command_locations'[p] \in Nat
    BY <1>3, <2>1 DEF TypeOK, Locate
  <2>8. call_relocs' \in Seq(CallRelocation)
    BY <2>1, AppendIsSeq DEF TypeOK
  <2>9. QED  BY <1>2, <2>1, <2>2, <2>3, <2>4, <2>5, <2>6, <2>7, <2>8
             DEF TypeOK
<1>5. Rows'
  BY <1>2 DEF IInv, Rows
<1>6. Progress'
  BY <1>2 DEF IInv, Progress
<1>7. PushIsLast'
  <2>1. SUFFICES ASSUME last_cmd_pushint' # <<>>
                 PROVE  /\ (pc > 1 /\ pc - 1 \in DOMAIN Current.cmds)'
                        /\ \/ /\ Cmd.op \in Immediates
                              /\ Cmd.push =>
                                   \E f \in code' : /\ f.kind = "pushimm"
                                                    /\ f.len = 5
                                                    /\ End(f) = cursor'
                           \/ Cmd.op = "PrintF" /\ Cmd.argc = 0
    <3>1. pc' - 1 = pc /\ Current'.cmds[pc' - 1] = Cmd
      BY <1>1, <1>2 DEF Cmd
    <3>2. QED  BY <3>1 DEF PushIsLast, End
  <2>2. pc' > 1 /\ pc' - 1 \in DOMAIN Current'.cmds  BY <1>1, <1>2
  <2>3. QED  BY <2>1, <2>2
<1>8. ValuesAreKept'
  <2>1. SUFFICES ASSUME NEW l \in ret_val_locations'
                 PROVE  \E t \in DOMAIN Current.cmds :
                          /\ Current.cmds[t].op = "Try" /\ Current.cmds[t].push
                          /\ Current.cmds[t].loc = l
    BY <1>2 DEF ValuesAreKept
  <2>2. CASE l \in ret_val_locations  BY <2>2 DEF IInv, ValuesAreKept
  <2>3. CASE l = Cmd.loc /\ Cmd.op = "Try" /\ Cmd.push
    BY <1>1, <2>3 DEF Cmd
  <2>4. QED  BY <2>2, <2>3
<1>9. JumpsWritten'
  <2>1. \A s \in JumpRelocation : JumpIn(code, s) => JumpIn(code', s)
    BY DEF JumpIn, JumpRelocation, Mnemonics
  <2>2. jump_relocations \in Seq(JumpRelocation)  BY DEF IInv, TypeOK
  <2>3. \A i \in DOMAIN jump_relocations : JumpIn(code', jump_relocations[i])
    <3>1. \A i \in DOMAIN jump_relocations : jump_relocations[i] \in JumpRelocation
      BY <2>2
    <3>2. QED  BY <2>1, <3>1 DEF IInv, JumpsWritten
  <2>4. \A i \in DOMAIN jump_relocations' : JumpIn(code', jump_relocations'[i])
    BY <2>2, <2>3, AppendElements
  <2>5. QED  BY <2>4 DEF JumpsWritten, JumpIn, Bytes
<1>10. CallsWritten'
  <2>1. \A at : MovIn(code, at) => MovIn(code', at)  BY DEF MovIn
  <2>2. call_relocs \in Seq(CallRelocation)  BY DEF IInv, TypeOK
  <2>3. \A i \in DOMAIN call_relocs : CallWritten(call_relocs[i])
    BY DEF IInv, CallsWritten
  <2>4. DEFINE There(s) == \/ s.script \in DOMAIN mem /\ MovIn(mem[s.script].code, s.at)
                           \/ s.script = script_index /\ MovIn(code', s.at)
  <2>5. \A i \in DOMAIN call_relocs : There(call_relocs[i])
    BY <2>1, <2>3 DEF CallWritten
  <2>6. \A i \in DOMAIN call_relocs' : There(call_relocs'[i])
    <3>1. CASE call_relocs' = call_relocs  BY <3>1, <2>5
    <3>2. CASE call_relocs' = Append(call_relocs, q) /\ There(q)
      <4> HIDE DEF There
      <4> QED  BY <2>2, <2>5, <3>2, AppendElements
    <3>3. QED  BY <3>1, <3>2
  <2>7. QED  BY <1>2, <2>6 DEF CallsWritten, CallWritten, MovIn
<1>11. QED  BY <1>4, <1>5, <1>6, <1>7, <1>8, <1>9, <1>10 DEF IInv
-----------------------------------------------------------------------------
(* The steps of the loop over the commands.                                *)

LEMMA TemplateStep ==
  ASSUME IInv, CompileTemplate
  PROVE  IInv'
<1>1. phase = "commands" /\ pc <= Len(Current.cmds) /\ Cmd.op \notin Calls
  BY DEF CompileTemplate, Compiling
<1>2. /\ Cmd \in Command /\ Here \in Nat /\ code \in SUBSET Fragment
      /\ pc \in Nat /\ Start \in Nat
  BY <1>1, CmdIsCommand, SavedReturnIsRow DEF IInv, TypeOK
<1> DEFINE kind == IF Cmd.op \in Immediates THEN "pushimm" ELSE "body"
           body == At(kind, Here)
<1>3. /\ body \in Fragment /\ End(body) \in Nat /\ Here < End(body)
      /\ Row({body}, Here, End(body))
      /\ body.kind = kind /\ body.len = Bytes(kind, Cmd)
  BY <1>1, <1>2, AtIsRow DEF AtOffset, FixedKinds, SizedKinds
<1>4. /\ code \subseteq code' /\ code' \in SUBSET Fragment
      /\ cursor' = len' /\ len' \in Nat /\ Row(code', 0, len')
      /\ ~EmitsNothing(Cmd) => body \in code' /\ End(body) = cursor'
  <2>1. CASE EmitsNothing(Cmd)
    <3>1. Advance(Write(code, SavedReturn \cup {}), Here)
      BY <2>1 DEF CompileTemplate
    <3>2. Row({}, Here, Here) /\ Here <= Here  BY <1>2 DEF Row
    <3>3. {} \in SUBSET Fragment  OBVIOUS
    <3> HIDE DEF body
    <3>4. /\ code \subseteq code' /\ code' \in SUBSET Fragment
          /\ cursor' = Here /\ len' = Here /\ Row(code', 0, len')
      BY <1>1, <1>2, <3>1, <3>2, <3>3, Emit
    <3>5. QED  BY <1>2, <2>1, <3>4
  <2>2. CASE ~EmitsNothing(Cmd)
    <3>1. Advance(Write(code, SavedReturn \cup {body}), End(body))
      BY <2>2 DEF CompileTemplate
    <3>2. Here <= End(body) /\ {body} \in SUBSET Fragment  BY <1>2, <1>3
    <3> HIDE DEF body
    <3>3. /\ code \subseteq code' /\ {body} \subseteq code' /\ code' \in SUBSET Fragment
          /\ cursor' = End(body) /\ len' = End(body) /\ Row(code', 0, len')
      BY <1>1, <1>3, <3>1, <3>2, Emit
    <3>4. QED  BY <1>3, <3>3
  <2>3. QED  BY <2>1, <2>2
<1>5. UNCHANGED <<file, phase, script_index, mem>> /\ pc' = pc + 1
  BY DEF CompileTemplate, Advance
<1>6. \/ last_cmd_pushint' = <<>>
      \/ /\ Cmd.op \in Immediates /\ last_cmd_pushint' = <<Cmd.val>>
         /\ Cmd.push => \E f \in code' : /\ f.kind = "pushimm" /\ f.len = 5
                                         /\ End(f) = cursor'
      \/ /\ Cmd.op = "PrintF" /\ Cmd.argc = 0
         /\ last_cmd_pushint' = last_cmd_pushint
  <2>1. CASE Cmd.op = "PrintF" /\ Cmd.argc = 0
    BY <2>1 DEF CompileTemplate
  <2>2. CASE Cmd.op \in Immediates
    <3>1. last_cmd_pushint' = <<Cmd.val>>
      BY <2>2 DEF CompileTemplate, PushedBy, Immediates
    <3>2. Cmd.push => ~EmitsNothing(Cmd)
      BY <2>2 DEF EmitsNothing, Immediates
    <3>3. kind = "pushimm" /\ Bytes(kind, Cmd) = 5
      BY <2>2 DEF Bytes
    <3> HIDE DEF body
    <3>4. QED  BY <1>3, <1>4, <2>2, <3>1, <3>2, <3>3
  <2>3. CASE Cmd.op \notin Immediates /\ ~(Cmd.op = "PrintF" /\ Cmd.argc = 0)
    BY <2>3 DEF CompileTemplate, PushedBy
  <2>4. QED  BY <2>1, <2>2, <2>3
<1>7. \/ ret_val_locations' = ret_val_locations
      \/ /\ ret_val_locations' = ret_val_locations \cup {Cmd.loc}
         /\ Cmd.op = "Try" /\ Cmd.push
  BY DEF CompileTemplate
<1>8. /\ command_locations' = Locate(Here)
      /\ jump_relocations' = jump_relocations /\ call_relocs' = call_relocs
  BY DEF CompileTemplate
<1>9. /\ [at |-> 0, mnem |-> "JMP", target |-> 0, cmd |-> 0] \in JumpRelocation
      /\ [script |-> 1, at |-> 0, loc |-> 0] \in CallRelocation
  BY DEF JumpRelocation, CallRelocation, Mnemonics
<1> HIDE DEF body, kind
<1>10. QED
  BY <1>1, <1>2, <1>4, <1>5, <1>6, <1>7, <1>8, <1>9, CompileStep

LEMMA JumpStep ==
  ASSUME IInv, CompileJump
  PROVE  IInv'
<1>1. phase = "commands" /\ pc <= Len(Current.cmds)
  BY DEF CompileJump, Compiling
<1>2. /\ Cmd \in Command /\ Here \in Nat /\ code \in SUBSET Fragment
      /\ pc \in Nat /\ Start \in Nat
  BY <1>1, CmdIsCommand, SavedReturnIsRow DEF IInv, TypeOK
<1> DEFINE jump == At("JMP", Here)
           r == Relocation("JMP", Here)
<1>3. /\ jump \in Fragment /\ End(jump) \in Nat /\ Here < End(jump)
      /\ Row({jump}, Here, End(jump))
      /\ jump.at = Here /\ jump.kind = "JMP" /\ jump.len = Bytes("JMP", Cmd)
  BY <1>1, <1>2, AtIsRow DEF AtOffset, FixedKinds, Mnemonics
<1>4. Advance(Write(code, SavedReturn \cup {jump}), End(jump))
  BY DEF CompileJump
<1>5. Here <= End(jump)  BY <1>2, <1>3
<1>6. r \in JumpRelocation /\ r.at = Here /\ r.mnem = "JMP"
  BY <1>2 DEF Relocation, JumpRelocation, Mnemonics, Command
<1>7. /\ command_locations' = Locate(Here) /\ last_cmd_pushint' = <<>>
      /\ jump_relocations' = Append(jump_relocations, r)
      /\ ret_val_locations' = ret_val_locations /\ call_relocs' = call_relocs
      /\ UNCHANGED <<file, phase, script_index, mem>> /\ pc' = pc + 1
  BY DEF CompileJump, Advance
<1> HIDE DEF jump, r
<1>8. /\ code \subseteq code' /\ jump \in code' /\ code' \in SUBSET Fragment
      /\ cursor' = len' /\ len' \in Nat /\ Row(code', 0, len')
  BY <1>1, <1>2, <1>3, <1>4, <1>5, Emit
<1>9. JumpIn(code', r)  BY <1>3, <1>6, <1>8 DEF JumpIn, Bytes
<1>10. [script |-> 1, at |-> 0, loc |-> 0] \in CallRelocation
  BY DEF CallRelocation
<1>11. QED
  BY <1>1, <1>2, <1>6, <1>7, <1>8, <1>9, <1>10, CompileStep

LEMMA IfStep ==
  ASSUME IInv, CompileIf
  PROVE  IInv'
<1>1. phase = "commands" /\ pc <= Len(Current.cmds)
  BY DEF CompileIf, Compiling
<1>2. /\ Cmd \in Command /\ Here \in Nat /\ code \in SUBSET Fragment
      /\ pc \in Nat /\ Start \in Nat
  BY <1>1, CmdIsCommand, SavedReturnIsRow DEF IInv, TypeOK
<1> DEFINE mnem == IF Cmd.op = "If" THEN "JE" ELSE "JNE"
           test == At("test", Here)
           jump == At(mnem, End(test))
           r    == Relocation(mnem, End(test))
<1>3. mnem \in Mnemonics  BY DEF Mnemonics
<1>4. /\ command_locations' = Locate(Here) /\ last_cmd_pushint' = <<>>
      /\ jump_relocations' = Append(jump_relocations, r)
      /\ ret_val_locations' = ret_val_locations /\ call_relocs' = call_relocs
      /\ UNCHANGED <<file, phase, script_index, mem>> /\ pc' = pc + 1
      /\ Advance(Write(code, SavedReturn \cup {test, jump}), End(jump))
  BY DEF CompileIf, Advance
<1> HIDE DEF mnem
<1>5. /\ test \in Fragment /\ End(test) \in Nat /\ Here < End(test)
      /\ Row({test}, Here, End(test))
  BY <1>1, <1>2, AtIsRow DEF AtOffset, SizedKinds
<1>6. r \in JumpRelocation /\ r.at = End(test) /\ r.mnem = mnem
  BY <1>2, <1>3, <1>5 DEF Relocation, JumpRelocation, Command
<1> HIDE DEF test
<1>7. /\ jump \in Fragment /\ End(jump) \in Nat /\ End(test) < End(jump)
      /\ Row({jump}, End(test), End(jump))
      /\ jump.at = End(test) /\ jump.kind = mnem /\ jump.len = Bytes(mnem, Cmd)
  BY <1>1, <1>3, <1>5, AtIsRow DEF AtOffset, FixedKinds
<1> HIDE DEF jump, r
<1>8. Row({test, jump}, Here, End(jump))
  <2>1. {test} \in SUBSET Fragment /\ {jump} \in SUBSET Fragment
        /\ Here <= End(test) /\ End(test) <= End(jump)
    BY <1>2, <1>5, <1>7
  <2>2. {test, jump} = {test} \cup {jump}  OBVIOUS
  <2>3. QED  BY <1>2, <1>5, <1>7, <2>1, <2>2, JoinRows
<1>9. {test, jump} \in SUBSET Fragment /\ Here <= End(jump)
  BY <1>2, <1>5, <1>7
<1>10. /\ code \subseteq code' /\ {test, jump} \subseteq code'
       /\ code' \in SUBSET Fragment
       /\ cursor' = len' /\ len' \in Nat /\ Row(code', 0, len')
  BY <1>1, <1>4, <1>7, <1>8, <1>9, Emit
<1>11. JumpIn(code', r)
  <2>1. Bytes(mnem, Cmd) = Bytes(mnem, r)  BY <1>3 DEF Bytes, Mnemonics
  <2>2. QED  BY <1>6, <1>7, <1>10, <2>1 DEF JumpIn
<1>12. [script |-> 1, at |-> 0, loc |-> 0] \in CallRelocation
  BY DEF CallRelocation
<1>13. QED
  BY <1>1, <1>2, <1>4, <1>5, <1>6, <1>10, <1>11, <1>12, CompileStep

CallKinds == {"popargs", "movrax", "callrax", "dropargs"}
TakesBack(f, K, mov, e) ==
  /\ f.kind = "pushimm" /\ f.len = 5 /\ End(f) = cursor
  /\ mov \in K /\ mov.kind = "movrax" /\ mov.len = 10
  /\ Row(K, f.at, e) /\ cursor <= e
  /\ \A g \in K : g.kind \in CallKinds /\ g.cmd = pc /\ g.arg = 0
  /\ \A g \in K : IF g.kind = "popargs" THEN End(g) <= mov.at ELSE g.at >= mov.at
  /\ \A g, h \in K : g.kind = h.kind => g = h
  /\ ~ReturnsHere
  /\ code' = (code \ {f}) \cup K /\ Row(code', 0, e)
  /\ cursor' = e /\ len' = e
  /\ command_locations' = Locate(mov.at)
  /\ call_relocs' = Append(call_relocs, [script |-> script_index, at |-> mov.at,
                                        loc |-> last_cmd_pushint[1]])
  /\ last_cmd_pushint' = <<>>
  /\ UNCHANGED <<file, phase, script_index, mem, ret_val_locations, jump_relocations>>
  /\ pc' = pc + 1

(* A call writes over exactly the push of its function pointer: the files   *)
(* are well formed, so it was the last fragment written, and no saved       *)
(* return value follows it.                                                 *)
LEMMA CallWrites ==
  ASSUME IInv, CompileCall
  PROVE  \E f \in code, K \in SUBSET Fragment, mov \in Fragment, e \in Nat :
           TakesBack(f, K, mov, e)
<1>1. /\ phase = "commands" /\ pc <= Len(Current.cmds) /\ Cmd.op \in Calls
      /\ last_cmd_pushint # <<>>
  BY DEF CompileCall, Compiling, Panics
<1>2. /\ Cmd \in Command /\ Start \in Nat /\ code \in SUBSET Fragment
      /\ pc \in Nat \ {0} /\ pc \in DOMAIN Current.cmds
      /\ cursor \in Nat /\ cursor = len /\ Row(code, 0, len)
  BY <1>1, CmdIsCommand, SavedReturnIsRow DEF IInv, TypeOK, Rows
<1>3. PICK f \in code : f.kind = "pushimm" /\ f.len = 5 /\ End(f) = cursor
  <2>1. WellFormed(Current)  BY <1>1, CmdIsCommand
  <2>2. pc > 1 => /\ Current.cmds[pc-1].op \in Immediates
                        => Current.cmds[pc-1].push
                  /\ ~(Current.cmds[pc-1].op = "PrintF"
                         /\ Current.cmds[pc-1].argc = 0)
    BY <1>1, <1>2, <2>1 DEF WellFormed, Cmd
  <2>3. QED  BY <1>1, <2>2 DEF IInv, PushIsLast
<1>4. Here = cursor /\ SavedReturn = {} /\ ~ReturnsHere
  <2>1. ~KeepsValueAt(Current, pc)
    BY <1>1, <1>2, CmdIsCommand DEF WellFormed, Cmd
  <2>2. Start + Cmd.pos = Cmd.pos + Start
    BY <1>2 DEF Command
  <2>3. ~ReturnsHere
    BY <1>1, <2>1, <2>2
       DEF IInv, ValuesAreKept, ReturnsHere, KeepsValueAt, Cmd, Start
  <2>4. QED  BY <2>3 DEF Here, SavedReturn
<1>5. Here - RewindBytes = f.at /\ f.at \in Nat
  BY <1>2, <1>3, <1>4 DEF RewindBytes, End, Fragment
<1> DEFINE args == At("popargs", f.at)
           mov  == At("movrax", IF Cmd.argc > 0 THEN End(args) ELSE f.at)
           call == At("callrax", End(mov))
           drop == At("dropargs", End(call))
           pops  == IF Cmd.argc > 0 THEN {args} ELSE {}
           drops == IF Cmd.argc > 6 THEN {drop} ELSE {}
           new   == {mov, call} \cup pops \cup drops
           end   == IF Cmd.argc > 6 THEN End(drop) ELSE End(call)
           q     == [script |-> script_index, at |-> mov.at,
                     loc |-> last_cmd_pushint[1]]
<1>6. /\ Advance(Write(Write(code, SavedReturn), new), end)
      /\ command_locations' = Locate(mov.at)
      /\ call_relocs' = Append(call_relocs, q)
      /\ last_cmd_pushint' = <<>>
      /\ UNCHANGED <<ret_val_locations, jump_relocations>>
  BY <1>5 DEF CompileCall
<1>7. Cmd.argc \in Nat  BY <1>2 DEF Command
<1>8. /\ args \in Fragment /\ End(args) \in Nat /\ f.at < End(args)
      /\ Row({args}, f.at, End(args))
      /\ args.kind = "popargs" /\ args.cmd = pc /\ args.arg = 0
  <2>1. "popargs" \in SizedKinds \ {"prologue"}  BY DEF SizedKinds
  <2>2. args = At("popargs", f.at)  OBVIOUS
  <2> HIDE DEF args
  <2>3. QED  BY <1>1, <1>5, <2>1, <2>2, AtIsRow DEF AtOffset
<1> HIDE DEF args
<1>9. /\ mov \in Fragment /\ mov.at \in Nat /\ mov.kind = "movrax"
      /\ mov.len = 10 /\ End(mov) = mov.at + 10 /\ End(mov) \in Nat
      /\ mov.at = IF Cmd.argc > 0 THEN End(args) ELSE f.at
      /\ Row({mov}, mov.at, End(mov)) /\ mov.cmd = pc /\ mov.arg = 0
  <2>1. (IF Cmd.argc > 0 THEN End(args) ELSE f.at) \in Nat  BY <1>5, <1>8
  <2>2. Bytes("movrax", Cmd) = 10  BY DEF Bytes, Mnemonics
  <2>3. "movrax" \in FixedKinds  BY DEF FixedKinds
  <2> DEFINE offset == IF Cmd.argc > 0 THEN End(args) ELSE f.at
  <2>4. mov = At("movrax", offset) /\ offset \in Nat  BY <2>1
  <2> HIDE DEF offset, mov
  <2>5. /\ mov \in Fragment /\ mov.at = offset /\ mov.kind = "movrax"
        /\ mov.len = Bytes("movrax", Cmd) /\ End(mov) \in Nat
        /\ Row({mov}, offset, End(mov)) /\ mov.cmd = pc /\ mov.arg = 0
    BY <1>1, <2>3, <2>4, AtIsRow DEF AtOffset
  <2>6. mov.len = 10 /\ End(mov) = mov.at + 10  BY <2>2, <2>5 DEF End
  <2>7. mov.at = IF Cmd.argc > 0 THEN End(args) ELSE f.at  BY <2>5 DEF offset
  <2>8. Row({mov}, mov.at, End(mov)) /\ mov.at \in Nat  BY <2>4, <2>5
  <2>9. QED  BY <2>5, <2>6, <2>7, <2>8
<1> HIDE DEF mov
<1>10. /\ call \in Fragment /\ call.at = End(mov) /\ End(call) \in Nat
       /\ End(mov) < End(call) /\ Row({call}, End(mov), End(call))
       /\ call.kind = "callrax" /\ call.cmd = pc /\ call.arg = 0
  <2>1. "callrax" \in FixedKinds  BY DEF FixedKinds
  <2>2. End(mov) \in Nat /\ call = At("callrax", End(mov))  BY <1>9
  <2> DEFINE kind == "callrax"
  <2>3. /\ call = At(kind, End(mov)) /\ kind \in FixedKinds
        /\ phase = "commands" /\ pc <= Len(Current.cmds)
    BY <1>1, <2>1, <2>2
  <2> HIDE DEF call, kind
  <2>4. /\ call \in Fragment /\ call.at = End(mov) /\ End(call) \in Nat
        /\ End(mov) < End(call) /\ Row({call}, End(mov), End(call))
        /\ call.kind = kind /\ call.cmd = pc /\ call.arg = 0
    <3> DEFINE o == End(mov)
    <3>1. o \in Nat /\ call = At(kind, o)  BY <2>2, <2>3
    <3> HIDE DEF o
    <3>2. AtOffset(kind, o)  BY ONLY IInv, <2>3, <3>1, AtIsRow
    <3>3. QED  BY ONLY <3>1, <3>2 DEF AtOffset, o
  <2>5. QED  BY <2>4 DEF kind
<1> HIDE DEF call
<1>11. /\ drop \in Fragment /\ End(drop) \in Nat /\ End(call) < End(drop)
       /\ Row({drop}, End(call), End(drop))
       /\ drop.kind = "dropargs" /\ drop.cmd = pc /\ drop.arg = 0
  <2>1. "dropargs" \in SizedKinds \ {"prologue"}  BY DEF SizedKinds
  <2>2. End(call) \in Nat /\ drop = At("dropargs", End(call))  BY <1>10
  <2> DEFINE kind == "dropargs"
  <2>3. /\ drop = At(kind, End(call)) /\ kind \in SizedKinds \ {"prologue"}
        /\ phase = "commands" /\ pc <= Len(Current.cmds)
    BY <1>1, <2>1, <2>2
  <2> HIDE DEF drop, kind
  <2>4. /\ drop \in Fragment /\ End(drop) \in Nat /\ End(call) < End(drop)
        /\ Row({drop}, End(call), End(drop))
        /\ drop.kind = kind /\ drop.cmd = pc /\ drop.arg = 0
    <3> DEFINE o == End(call)
    <3>1. o \in Nat /\ drop = At(kind, o)  BY <2>2, <2>3
    <3> HIDE DEF o
    <3>2. AtOffset(kind, o)  BY ONLY IInv, <2>3, <3>1, AtIsRow
    <3>3. QED  BY ONLY <3>1, <3>2 DEF AtOffset, o
  <2>5. QED  BY <2>4 DEF kind
<1> HIDE DEF drop
<1>12. /\ pops \in SUBSET Fragment /\ Row(pops, f.at, mov.at) /\ f.at <= mov.at
       /\ pops \subseteq {args}
  <2>1. Row({}, f.at, f.at)  BY <1>5 DEF Row
  <2>2. QED  BY <1>5, <1>8, <1>9, <2>1
<1>13. /\ drops \in SUBSET Fragment /\ Row(drops, End(call), end)
       /\ end \in Nat /\ End(call) <= end /\ drops \subseteq {drop}
  <2>1. Row({}, End(call), End(call))  BY <1>10 DEF Row
  <2>2. QED  BY <1>10, <1>11, <2>1
<1> HIDE DEF pops, drops, end
<1>14. new \in SUBSET Fragment /\ Row(new, f.at, end)
  <2>1. /\ {mov} \in SUBSET Fragment /\ {call} \in SUBSET Fragment
        /\ mov.at <= End(mov) /\ End(mov) <= End(call) /\ End(mov) \in Nat
        /\ f.at <= End(mov) /\ f.at <= End(call)
    BY <1>5, <1>9, <1>10, <1>12
  <2>2. Row(pops \cup {mov}, f.at, End(mov))
    BY <1>5, <1>9, <1>12, <2>1, JoinRows
  <2>3. pops \cup {mov} \in SUBSET Fragment  BY <1>12, <2>1
  <2>4. Row((pops \cup {mov}) \cup {call}, f.at, End(call))
    BY <1>5, <1>10, <2>1, <2>2, <2>3, JoinRows
  <2>5. (pops \cup {mov}) \cup {call} \in SUBSET Fragment  BY <2>1, <2>3
  <2>6. Row(((pops \cup {mov}) \cup {call}) \cup drops, f.at, end)
    BY <1>5, <1>10, <1>13, <2>1, <2>4, <2>5, JoinRows
  <2>7. new = ((pops \cup {mov}) \cup {call}) \cup drops  OBVIOUS
  <2>8. QED  BY <1>13, <2>5, <2>6, <2>7
<1>15. mov \in new  OBVIOUS
<1>20. /\ \A g \in new : g.kind \in CallKinds /\ g.cmd = pc /\ g.arg = 0
       /\ \A g, h \in new : g.kind = h.kind => g = h
  <2>1. \A g \in new : g \in {args, mov, call, drop}  BY <1>12, <1>13
  <2> HIDE DEF new
  <2>2. QED  BY <1>8, <1>9, <1>10, <1>11, <2>1 DEF CallKinds
<1>25. \A g \in new : IF g.kind = "popargs" THEN End(g) <= mov.at ELSE g.at >= mov.at
  <2>1. \A g \in new : g \in pops \/ g = mov \/ g = call \/ g \in drops  OBVIOUS
  <2>2. \A g \in pops : g.kind = "popargs" /\ End(g) <= mov.at  BY <1>8, <1>12 DEF Row
  <2>3. \A g \in drops : g.kind = "dropargs" /\ g.at >= End(call)
    BY <1>11, <1>13 DEF Row
  <2>4. mov.at <= End(mov) /\ End(mov) <= End(call) /\ call.at >= mov.at
    BY <1>9, <1>10
  <2>5. \A g \in drops : g.at >= mov.at  BY <1>9, <1>10, <1>13, <2>3, <2>4 DEF Fragment
  <2> HIDE DEF new
  <2>6. QED  BY <1>9, <1>10, <2>1, <2>2, <2>3, <2>4, <2>5
<1> HIDE DEF new
<1>16. cursor <= end
  BY <1>2, <1>3, <1>5, <1>9, <1>10, <1>12, <1>13 DEF End
<1>17. /\ Write(code, new) = (code \ {f}) \cup new
       /\ Row((code \ {f}) \cup new, 0, end)
  <2>1. Row(code, 0, cursor)  BY <1>2
  <2>2. QED  BY <1>2, <1>3, <1>13, <1>14, <1>16, <2>1, WriteOverLast
<1>18. Write(code, {}) = code  BY DEF Write
<1>19. /\ code' = (code \ {f}) \cup new /\ cursor' = end /\ len' = end
       /\ UNCHANGED <<file, phase, script_index, mem>> /\ pc' = pc + 1
  <2>1. /\ code' = Write(code, new) /\ cursor' = end /\ len' = Grown(end)
        /\ UNCHANGED <<file, phase, script_index, mem>> /\ pc' = pc + 1
    BY <1>4, <1>6, <1>18 DEF Advance
  <2>2. Grown(end) = end  BY <1>2, <1>13, <1>16 DEF Grown
  <2>3. QED  BY <1>17, <2>1, <2>2
<1>21. call_relocs' = Append(call_relocs, [script |-> script_index, at |-> mov.at,
                                          loc |-> last_cmd_pushint[1]])
  BY <1>6
<1>22. Row(code', 0, end)  BY <1>17, <1>19
<1>23. TakesBack(f, new, mov, end)
  <2> HIDE DEF mov, end
  <2>1. QED
    BY <1>3, <1>4, <1>6, <1>9, <1>14, <1>15, <1>16, <1>19, <1>20, <1>21, <1>22, <1>25
       DEF TakesBack
<1>24. QED  BY <1>9, <1>13, <1>14, <1>23

LEMMA CallStep ==
  ASSUME IInv, CompileCall
  PROVE  IInv'
<1>1. PICK f \in code, K \in SUBSET Fragment, mov \in Fragment, e \in Nat : TakesBack(f, K, mov, e)
  BY CallWrites
<1> USE <1>1 DEF TakesBack
<1>2. /\ phase = "commands" /\ pc <= Len(Current.cmds) /\ last_cmd_pushint # <<>>
      /\ code \in SUBSET Fragment /\ TypeOK /\ mov.at \in Nat
  BY DEF CompileCall, Compiling, Panics, IInv, TypeOK, Fragment
<1>3. /\ code' \in SUBSET Fragment /\ cursor' = len' /\ len' \in Nat /\ Row(code', 0, len')
      /\ \A g \in code : g.kind # "pushimm" => g \in code'
  BY <1>1, <1>2
<1> DEFINE q == [script |-> script_index, at |-> mov.at, loc |-> last_cmd_pushint[1]]
<1>4. q \in CallRelocation /\ q.script = script_index /\ q.at = mov.at
  <2>1. last_cmd_pushint[1] \in Nat /\ script_index \in Nat \ {0}
    <3>1. last_cmd_pushint \in Seq(Nat) /\ script_index \in Nat \ {0}  BY <1>2 DEF TypeOK
    <3>2. QED  BY <1>2, <3>1
  <2>2. QED  BY <1>2, <2>1 DEF CallRelocation
<1>5. MovIn(code', q.at)  BY <1>1, <1>4 DEF MovIn
<1>6. [at |-> 0, mnem |-> "JMP", target |-> 0, cmd |-> 0] \in JumpRelocation
  BY DEF JumpRelocation, Mnemonics
<1>7. call_relocs' = Append(call_relocs, q)  BY <1>1
<1> HIDE DEF q
<1>8. QED  BY <1>1, <1>2, <1>3, <1>4, <1>5, <1>6, <1>7, CompileStep
-----------------------------------------------------------------------------
(* The other steps.                                                        *)

LEMMA StartStep ==
  ASSUME IInv, StartScript \/ StartBareScript
  PROVE  IInv'
<1>1. /\ file \in Files /\ TypeOK /\ phase = "script"
      /\ script_index = Len(mem) + 1 /\ script_index <= Len(file.scripts)
  BY DEF IInv, Progress, StartScript, StartBareScript
<1>2. file.scripts \in Seq(Script)  BY <1>1 DEF TypeOK, File
<1>3. script_index \in DOMAIN file.scripts  BY <1>1, <1>2 DEF TypeOK
<1>4. Encoded("prologue", Current) \in Nat \ {0}
  BY <1>3, CurrentIsScript
<1>5. UNCHANGED <<file, script_index, call_relocs, mem>>
  BY DEF StartScript, StartBareScript
<1>6. PICK f \in Fragment : /\ f.at = 0 /\ f.len > 0 /\ code' = {f}
                            /\ cursor' = f.len /\ len' = f.len
  <2>1. CASE StartScript
    <3> DEFINE p == [at |-> 0, len |-> Encoded("prologue", Current),
                     kind |-> "prologue", cmd |-> 0, arg |-> 0]
    <3>1. p \in Fragment  BY <1>4 DEF Fragment, SizedKinds
    <3>2. code' = {p} /\ cursor' = End(p) /\ len' = End(p)
      BY <2>1 DEF StartScript
    <3>3. End(p) = p.len /\ p.len > 0 /\ p.at = 0  BY <1>4 DEF End
    <3>4. QED  BY <3>1, <3>2, <3>3
  <2>2. CASE StartBareScript
    <3> DEFINE p == [at |-> 0, len |-> 1, kind |-> "ret", cmd |-> 0, arg |-> 0]
    <3>1. p \in Fragment  BY DEF Fragment, FixedKinds
    <3>2. code' = {p} /\ cursor' = 1 /\ len' = 1
      BY <2>2 DEF StartBareScript
    <3>3. QED  BY <3>1, <3>2
  <2>3. QED  BY <2>1, <2>2
<1>7. Row(code', 0, len') /\ len' \in Nat /\ cursor' = len'
  <2>1. End(f) = f.len /\ f.len \in Nat  BY <1>6 DEF End, Fragment
  <2>2. QED  BY <1>6, <2>1 DEF Row
<1>8. /\ phase' \in {"commands", "patch"} /\ pc' = 1
      /\ last_cmd_pushint' = <<>> /\ ret_val_locations' = {}
      /\ jump_relocations' = <<>> /\ command_locations' = <<>>
  BY DEF StartScript, StartBareScript
<1>9. TypeOK'
  BY <1>1, <1>5, <1>6, <1>7, <1>8 DEF TypeOK
<1>10. Rows'  BY <1>5, <1>7 DEF IInv, Rows
<1>11. Progress'  BY <1>1, <1>3, <1>5, <1>7, <1>8 DEF Progress
<1>12. PushIsLast' /\ ValuesAreKept' /\ JumpsWritten'
  BY <1>8 DEF PushIsLast, ValuesAreKept, JumpsWritten
<1>13. CallsWritten'
  <2>1. \A i \in DOMAIN call_relocs :
          /\ call_relocs[i].script \in DOMAIN mem
          /\ MovIn(mem[call_relocs[i].script].code, call_relocs[i].at)
    BY <1>1 DEF IInv, CallsWritten, CallWritten
  <2>2. QED  BY <1>5, <2>1 DEF CallsWritten, CallWritten, MovIn
<1>14. QED  BY <1>1, <1>5, <1>9, <1>10, <1>11, <1>12, <1>13 DEF IInv

(* Steps that only move to another phase.                                   *)
LEMMA PhaseStep ==
  ASSUME IInv, UNCHANGED <<file, scriptVars, call_relocs, mem>>,
         \/ phase' = phase
         \/ phase = "commands" /\ phase' = "patch"
         \/ phase = "script" /\ phase' = "link"
         \/ phase' = "panic"
         \/ phase' \in {"none", "some"} /\ call_relocs = <<>>
  PROVE  IInv'
<1>1. /\ file' = file /\ script_index' = script_index /\ pc' = pc
      /\ code' = code /\ cursor' = cursor /\ len' = len
      /\ last_cmd_pushint' = last_cmd_pushint
      /\ ret_val_locations' = ret_val_locations
      /\ jump_relocations' = jump_relocations
      /\ command_locations' = command_locations
      /\ call_relocs' = call_relocs /\ mem' = mem
  BY DEF scriptVars
<1>2. TypeOK'  BY <1>1 DEF IInv, TypeOK
<1>3. Rows'  BY <1>1 DEF IInv, Rows
<1>4. Progress'  BY <1>1 DEF IInv, Progress
<1>5. PushIsLast'  BY <1>1 DEF IInv, PushIsLast, Current, End
<1>6. ValuesAreKept'  BY <1>1 DEF IInv, ValuesAreKept, Current
<1>7. JumpsWritten'
  <2>1. phase' \in {"commands", "patch"} => phase \in {"commands", "patch"}
    OBVIOUS
  <2>2. QED  BY <1>1, <2>1 DEF IInv, JumpsWritten, JumpIn, Bytes
<1>8. CallsWritten'
  <2>1. SUFFICES ASSUME phase' # "panic", NEW i \in DOMAIN call_relocs
                 PROVE  CallWritten(call_relocs[i])'
    BY <1>1 DEF CallsWritten
  <2>2. phase # "panic" => CallWritten(call_relocs[i])
    BY DEF IInv, CallsWritten
  <2>3. CASE phase' = phase
    BY <1>1, <2>1, <2>2, <2>3 DEF CallWritten, MovIn
  <2>4. CASE phase = "commands" /\ phase' = "patch"
    BY <1>1, <2>2, <2>4 DEF CallWritten, MovIn
  <2>5. CASE phase = "script" /\ phase' = "link"
    BY <1>1, <2>2, <2>5 DEF CallWritten, MovIn
  <2>6. CASE call_relocs = <<>>  BY <2>1, <2>6
  <2>7. QED  BY <2>1, <2>3, <2>4, <2>5, <2>6
<1>9. QED
  BY <1>1, <1>2, <1>3, <1>4, <1>5, <1>6, <1>7, <1>8 DEF IInv

(* A patched jump takes the place of its placeholder.                       *)
LEMMA PatchStep ==
  ASSUME IInv, PatchJump
  PROVE  IInv'
<1> DEFINE r == Head(jump_relocations)
           g == [at |-> r.at, len |-> Bytes(r.mnem, r), kind |-> r.mnem,
                 cmd |-> r.cmd,
                 arg |-> command_locations[r.target] - r.at
                           - JumpLength(r.mnem)]
<1>1. /\ phase = "patch" /\ jump_relocations # <<>>
      /\ r.target \in DOMAIN command_locations
      /\ code' = Write(code, {g}) /\ cursor' = End(g)
      /\ jump_relocations' = Tail(jump_relocations)
      /\ UNCHANGED <<file, phase, script_index, pc, len, last_cmd_pushint,
                     ret_val_locations, command_locations, call_relocs, mem>>
  BY DEF PatchJump
<1>2. TypeOK /\ jump_relocations \in Seq(JumpRelocation)
  BY DEF IInv, TypeOK
<1>3. r \in JumpRelocation /\ 1 \in DOMAIN jump_relocations
      /\ r = jump_relocations[1]
  BY <1>1, <1>2
<1>4. JumpIn(code, r)
  BY <1>1, <1>3 DEF IInv, JumpsWritten
<1>5. PICK f \in code : f.at = r.at /\ f.kind = r.mnem /\ f.len = Bytes(r.mnem, r)
  BY <1>4 DEF JumpIn
<1>6. g \in Fragment /\ g.at = f.at /\ g.len = f.len /\ g.kind = f.kind
  <2>1. Bytes(r.mnem, r) \in Nat
    BY <1>3 DEF JumpRelocation, Bytes, Mnemonics
  <2>2. command_locations[r.target] - r.at - JumpLength(r.mnem) \in Int
    <3>1. command_locations[r.target] \in Nat  BY <1>1, <1>2 DEF TypeOK
    <3>2. r.at \in Nat /\ JumpLength(r.mnem) \in Nat  BY <1>3 DEF JumpRelocation, JumpLength
    <3> HIDE DEF r
    <3>3. QED  BY <3>1, <3>2
  <2>3. r.at \in Nat /\ r.cmd \in Nat /\ r.mnem \in FixedKinds
    BY <1>3 DEF JumpRelocation, FixedKinds
  <2>4. QED  BY <1>5, <2>1, <2>2, <2>3 DEF Fragment
<1> HIDE DEF r, g
<1>7. code \in SUBSET Fragment /\ Row(code, 0, len) /\ len \in Nat
  BY DEF IInv, TypeOK, Rows
<1>8. code' = (code \ {f}) \cup {g} /\ Row(code', 0, len)
  <2>1. /\ Write(code, {g}) = (code \ {f}) \cup {g}
        /\ Row((code \ {f}) \cup {g}, 0, len)
    BY <1>5, <1>6, <1>7, Replace
  <2>2. code' = Write(code, {g})  BY <1>1
  <2>3. QED  BY <2>1, <2>2
<1>9. TypeOK'
  <2>1. End(g) \in Nat  BY <1>6 DEF End, Fragment
  <2>2. code' \in SUBSET Fragment  BY <1>6, <1>7, <1>8
  <2>3. jump_relocations' \in Seq(JumpRelocation)  BY <1>1, <1>2
  <2>4. QED  BY <1>1, <1>2, <2>1, <2>2, <2>3 DEF TypeOK
<1>10. Rows'  BY <1>1, <1>8 DEF IInv, Rows
<1>11. Progress' /\ PushIsLast' /\ ValuesAreKept'
  BY <1>1 DEF IInv, Progress, PushIsLast, ValuesAreKept
<1>12. JumpsWritten'
  <2>1. \A s : JumpIn(code, s) => JumpIn(code', s)
    BY <1>6, <1>8 DEF JumpIn
  <2>2. \A i \in DOMAIN jump_relocations : JumpIn(code, jump_relocations[i])
    BY <1>1 DEF IInv, JumpsWritten
  <2>3. \A i \in DOMAIN jump_relocations' :
          i + 1 \in DOMAIN jump_relocations
          /\ jump_relocations'[i] = jump_relocations[i + 1]
    BY <1>1, <1>2
  <2>4. \A i \in DOMAIN jump_relocations' : JumpIn(code', jump_relocations'[i])
    BY <2>1, <2>2, <2>3
  <2>5. QED  BY <2>4 DEF JumpsWritten, JumpIn, Bytes
<1>13. CallsWritten'
  <2>1. f.kind # "movrax"
    BY <1>3, <1>5 DEF JumpRelocation, Mnemonics
  <2>2. \A at : MovIn(code, at) => MovIn(code', at)
    BY <1>8, <2>1 DEF MovIn
  <2>3. \A i \in DOMAIN call_relocs : CallWritten(call_relocs[i])
    BY <1>1 DEF IInv, CallsWritten
  <2>4. \A i \in DOMAIN call_relocs :
          LET s == call_relocs[i]
          IN \/ s.script \in DOMAIN mem /\ MovIn(mem[s.script].code, s.at)
             \/ s.script = script_index /\ MovIn(code', s.at)
    BY <2>2, <2>3 DEF CallWritten
  <2>5. QED  BY <1>1, <2>4 DEF CallsWritten, CallWritten, MovIn
<1>14. QED
  BY <1>1, <1>9, <1>10, <1>11, <1>12, <1>13 DEF IInv

LEMMA PlaceStep ==
  ASSUME IInv, PlaceScript
  PROVE  IInv'
<1> DEFINE pages == (len + PageSize - 1) \div PageSize
           placed == [code |-> code, len |-> len, size |-> pages * PageSize]
<1>1. /\ phase = "patch" /\ phase' = "script"
      /\ mem' = Append(mem, placed) /\ script_index' = script_index + 1
      /\ UNCHANGED <<file, pc, code, cursor, len, last_cmd_pushint,
                     ret_val_locations, jump_relocations, command_locations,
                     call_relocs>>
  BY DEF PlaceScript
<1>2. TypeOK /\ mem \in Seq(PlacedScript) /\ script_index = Len(mem) + 1
  BY <1>1 DEF IInv, TypeOK, Progress
<1>3. placed \in PlacedScript
  <2>1. len \in Nat /\ code \in SUBSET Fragment /\ PageSize \in Nat \ {0}
    BY <1>2, SettingsAssumption DEF TypeOK
  <2>2. pages \in Nat  BY <2>1
  <2> HIDE DEF pages
  <2>3. pages * PageSize \in Nat  BY <2>1, <2>2
  <2>4. QED  BY <2>1, <2>3 DEF PlacedScript
<1>4. placed.code = code /\ placed.len = len  OBVIOUS
<1> HIDE DEF placed
<1>5. /\ mem' \in Seq(PlacedScript) /\ Len(mem') = Len(mem) + 1
      /\ DOMAIN mem' = DOMAIN mem \cup {Len(mem) + 1}
      /\ \A k \in DOMAIN mem : mem'[k] = mem[k]
      /\ mem'[Len(mem) + 1] = placed
  BY <1>1, <1>2, <1>3
<1>6. TypeOK'
  BY <1>1, <1>2, <1>5 DEF TypeOK
<1>7. Rows'
  BY <1>1, <1>4, <1>5 DEF IInv, Rows
<1>8. Progress'
  <2>1. script_index' = Len(mem') + 1  BY <1>1, <1>2, <1>5
  <2>2. QED  BY <1>1, <2>1 DEF Progress
<1>9. PushIsLast' /\ ValuesAreKept' /\ JumpsWritten'
  BY <1>1 DEF PushIsLast, ValuesAreKept, JumpsWritten
<1>10. CallsWritten'
  <2>1. \A i \in DOMAIN call_relocs : CallWritten(call_relocs[i])
    BY <1>1 DEF IInv, CallsWritten
  <2>2. \A i \in DOMAIN call_relocs :
          /\ call_relocs[i].script \in DOMAIN mem'
          /\ MovIn(mem'[call_relocs[i].script].code, call_relocs[i].at)
    BY <1>2, <1>4, <1>5, <2>1 DEF CallWritten
  <2>3. QED  BY <1>1, <2>2 DEF CallsWritten, CallWritten, MovIn
<1>11. QED
  BY <1>1, <1>6, <1>7, <1>8, <1>9, <1>10 DEF IInv

(* Storing the address of a callee changes one MOV and nothing else.        *)
LEMMA PatchReplaces ==
  ASSUME NEW C \in SUBSET Fragment, NEW n \in Nat, Row(C, 0, n),
         NEW f \in C, f.kind = "movrax", f.len = 10, NEW target \in Int
  PROVE  Patch(C, f.at, target) = (C \ {f}) \cup {[f EXCEPT !.arg = target]}
<1> DEFINE imm == [at |-> ImmediateAt(f.at), len |-> 8]
<1>1. imm.at = f.at + 2 /\ End(imm) = f.at + 10 /\ End(f) = f.at + 10
      /\ f.at \in Nat
  BY DEF ImmediateAt, End, Fragment
<1> HIDE DEF imm
<1>2. ASSUME NEW h \in C PROVE Overlap(h, imm) <=> h = f
  <2>1. h.at \in Nat /\ h.len \in Nat /\ h.len > 0 /\ End(h) = h.at + h.len
    BY DEF Row, End, Fragment
  <2>2. Overlap(h, imm) => Overlap(h, f)  BY <1>1, <2>1 DEF Overlap
  <2>3. Overlap(h, f) => h = f  BY DEF Row
  <2>4. Overlap(f, imm)  BY <1>1 DEF Overlap
  <2>5. QED  BY <2>2, <2>3, <2>4
<1>3. ASSUME NEW h \in C, h.at + 2 = imm.at PROVE h = f
  <2>1. h.at = f.at /\ h.len > 0 /\ h.len \in Nat
    BY <1>1, <1>3 DEF Row, Fragment
  <2>2. Overlap(h, f)  BY <1>1, <2>1 DEF Overlap, End
  <2>3. QED  BY <2>2 DEF Row
<1>4. {h \in C : ~Overlap(h, imm)} = C \ {f}  BY <1>2
<1>5. {h \in C : h.kind = "movrax" /\ h.at + 2 = imm.at} = {f}
  BY <1>1, <1>3
<1>6. Patch(C, f.at, target)
        = {h \in C : ~Overlap(h, imm)}
            \cup {[h EXCEPT !.arg = target] :
                    h \in {j \in C : j.kind = "movrax" /\ j.at + 2 = imm.at}}
  BY DEF Patch, imm
<1>7. QED  BY <1>4, <1>5, <1>6

LEMMA LinkStep ==
  ASSUME IInv, LinkCall
  PROVE  IInv'
<1> DEFINE r == Head(call_relocs)
<1>1. /\ phase = "link" /\ call_relocs # <<>>
      /\ call_relocs' = Tail(call_relocs)
      /\ UNCHANGED <<file, phase, scriptVars>>
  BY DEF LinkCall
<1>2. PICK target \in ScriptsAt(file, r.loc) :
        mem' = [mem EXCEPT ![r.script].code = Patch(@, r.at, target)]
  BY DEF LinkCall
<1>3. target \in Int  BY DEF ScriptsAt
<1>4. /\ TypeOK /\ call_relocs \in Seq(CallRelocation)
      /\ mem \in Seq(PlacedScript)
  BY DEF IInv, TypeOK
<1>5. r \in CallRelocation /\ r = call_relocs[1] /\ 1 \in DOMAIN call_relocs
  BY <1>1, <1>4
<1>6. r.script \in DOMAIN mem /\ MovIn(mem[r.script].code, r.at)
  BY <1>1, <1>5 DEF IInv, CallsWritten, CallWritten
<1> HIDE DEF r
<1> DEFINE m == mem[r.script]
<1>7. m \in PlacedScript /\ m.code \in SUBSET Fragment /\ m.len \in Nat
      /\ Row(m.code, 0, m.len)
  <2>1. m \in PlacedScript  BY <1>4, <1>6
  <2>2. Row(m.code, 0, m.len)  BY <1>6 DEF IInv, Rows
  <2>3. QED  BY <2>1, <2>2 DEF PlacedScript
<1>8. PICK f \in m.code : f.at = r.at /\ f.kind = "movrax" /\ f.len = 10
  BY <1>6 DEF MovIn
<1> DEFINE g == [f EXCEPT !.arg = target]
           linked == (m.code \ {f}) \cup {g}
<1>9. g \in Fragment /\ g.at = f.at /\ g.len = f.len /\ g.kind = f.kind
  BY <1>3, <1>7, <1>8 DEF Fragment
<1>10. Patch(m.code, r.at, target) = linked
  BY <1>3, <1>7, <1>8, PatchReplaces
<1> HIDE DEF g
<1>11. Row(linked, 0, m.len) /\ linked \in SUBSET Fragment
  BY <1>7, <1>8, <1>9, Replace
<1>12. \A at : MovIn(m.code, at) => MovIn(linked, at)
  BY <1>8, <1>9 DEF MovIn
<1> HIDE DEF linked
<1>13. mem' = [mem EXCEPT ![r.script] = [m EXCEPT !.code = linked]]
  BY <1>2, <1>4, <1>6, <1>10
<1>14. /\ mem' \in Seq(PlacedScript) /\ DOMAIN mem' = DOMAIN mem
       /\ \A k \in DOMAIN mem : k # r.script => mem'[k] = mem[k]
       /\ mem'[r.script].code = linked /\ mem'[r.script].len = m.len
  <2>1. [m EXCEPT !.code = linked] \in PlacedScript
    BY <1>7, <1>11 DEF PlacedScript
  <2> DEFINE p == [m EXCEPT !.code = linked]
  <2>2. p.code = linked /\ p.len = m.len  BY <1>7 DEF PlacedScript
  <2> HIDE DEF p
  <2>3. mem' = [mem EXCEPT ![r.script] = p] /\ p \in PlacedScript
    BY <1>13, <2>1 DEF p
  <2> HIDE DEF m
  <2>4. mem' \in Seq(PlacedScript) /\ DOMAIN mem' = DOMAIN mem
    BY <1>4, <1>6, <2>3
  <2>5. /\ \A k \in DOMAIN mem : k # r.script => mem'[k] = mem[k]
        /\ mem'[r.script] = p
    BY <1>4, <1>6, <2>3
  <2>6. QED  BY <2>2, <2>4, <2>5
<1> HIDE DEF m
<1>15. /\ file' = file /\ phase' = phase /\ script_index' = script_index
       /\ pc' = pc /\ code' = code /\ cursor' = cursor /\ len' = len
       /\ last_cmd_pushint' = last_cmd_pushint
       /\ ret_val_locations' = ret_val_locations
       /\ jump_relocations' = jump_relocations
       /\ command_locations' = command_locations
  BY <1>1 DEF scriptVars
<1>16. TypeOK'
  <2>1. call_relocs' \in Seq(CallRelocation)  BY <1>1, <1>4
  <2>2. QED  BY <1>4, <1>14, <1>15, <2>1 DEF TypeOK
<1>17. Rows'
  <2>1. ASSUME NEW k \in DOMAIN mem'
        PROVE  Row(mem'[k].code, 0, mem'[k].len)
    <3>1. CASE k = r.script  BY <1>11, <1>14, <3>1
    <3>2. CASE k # r.script  BY <1>14, <3>2 DEF IInv, Rows
    <3>3. QED  BY <3>1, <3>2
  <2>2. QED  BY <1>15, <2>1 DEF IInv, Rows
<1>18. Progress' /\ PushIsLast' /\ ValuesAreKept' /\ JumpsWritten'
  BY <1>1, <1>15
     DEF IInv, Progress, PushIsLast, ValuesAreKept, JumpsWritten
<1>19. CallsWritten'
  <2>1. \A s : s.script \in DOMAIN mem /\ MovIn(mem[s.script].code, s.at)
             => s.script \in DOMAIN mem' /\ MovIn(mem'[s.script].code, s.at)
    BY <1>12, <1>14 DEF MovIn, m
  <2>2. \A i \in DOMAIN call_relocs :
          /\ call_relocs[i].script \in DOMAIN mem
          /\ MovIn(mem[call_relocs[i].script].code, call_relocs[i].at)
    BY <1>1 DEF IInv, CallsWritten, CallWritten
  <2>3. \A i \in DOMAIN call_relocs' :
          i + 1 \in DOMAIN call_relocs /\ call_relocs'[i] = call_relocs[i + 1]
    BY <1>1, <1>4
  <2>4. \A i \in DOMAIN call_relocs' :
          /\ call_relocs'[i].script \in DOMAIN mem'
          /\ MovIn(mem'[call_relocs'[i].script].code, call_relocs'[i].at)
    BY <2>1, <2>2, <2>3
  <2>5. QED  BY <2>4 DEF CallsWritten, CallWritten, MovIn
<1>20. QED
  BY <1>15, <1>16, <1>17, <1>18, <1>19 DEF IInv
-----------------------------------------------------------------------------
(* The invariant holds.                                                    *)

LEMMA InitInvariant == Init => IInv
<1> SUFFICES ASSUME Init PROVE IInv
  OBVIOUS
<1>1. file \in Files /\ TypeOK
  BY FilesAssumption DEF Init, TypeOK
<1>2. Rows  BY DEF Init, Rows, Row
<1>3. Progress
  <2>1. Len(mem) = 0  BY DEF Init
  <2>2. QED  BY <2>1 DEF Init, Progress
<1>4. PushIsLast /\ ValuesAreKept /\ JumpsWritten
  BY DEF Init, PushIsLast, ValuesAreKept, JumpsWritten
<1>5. CallsWritten  BY DEF Init, CallsWritten
<1>6. QED  BY <1>1, <1>2, <1>3, <1>4, <1>5 DEF IInv

LEMMA NextInvariant == IInv /\ [Next]_vars => IInv'
<1> SUFFICES ASSUME IInv, [Next]_vars PROVE IInv'
  OBVIOUS
<1>1. CASE StartScript \/ StartBareScript  BY <1>1, StartStep
<1>2. CASE CompileTemplate  BY <1>2, TemplateStep
<1>3. CASE CompileJump  BY <1>3, JumpStep
<1>4. CASE CompileIf  BY <1>4, IfStep
<1>5. CASE CompileCall  BY <1>5, CallStep
<1>6. CASE CompilePanic \/ PatchPanic \/ LinkPanic
  BY <1>6, PhaseStep DEF CompilePanic, PatchPanic, LinkPanic
<1>7. CASE EndCommands  BY <1>7, PhaseStep DEF EndCommands
<1>8. CASE PatchJump  BY <1>8, PatchStep
<1>9. CASE PlaceScript  BY <1>9, PlaceStep
<1>10. CASE EndScripts  BY <1>10, PhaseStep DEF EndScripts
<1>11. CASE LinkCall  BY <1>11, LinkStep
<1>12. CASE Finish  BY <1>12, PhaseStep DEF Finish
<1>13. CASE Stopped \/ UNCHANGED vars
  BY <1>13, PhaseStep DEF Stopped, vars
<1>14. QED
  BY <1>1, <1>2, <1>3, <1>4, <1>5, <1>6, <1>7, <1>8, <1>9, <1>10, <1>11,
     <1>12, <1>13 DEF Next

LEMMA Invariance == Spec => []IInv
<1>1. QED  BY InitInvariant, NextInvariant, PTL DEF Spec

(* compile() keeps its variables in their types, whatever files it is given *)
(* and whatever lengths its instructions have.                              *)
THEOREM TypeCorrect == Spec => []TypeOK
<1>1. IInv => TypeOK  BY DEF IInv
<1>2. QED  BY <1>1, Invariance, PTL

(* However calls rewind the cursor over a function pointer push, jumps are  *)
(* written again over their placeholders and call addresses are stored into *)
(* placed scripts, the code is always whole instructions side by side.      *)
THEOREM AlwaysWholeInstructions == Spec => []WholeInstructions
<1>1. IInv => WholeInstructions
  BY DEF IInv, TypeOK, Rows, Progress, WholeInstructions
<1>2. QED  BY <1>1, Invariance, PTL
-----------------------------------------------------------------------------
(* What the code does: where its jumps land, which scripts its calls reach,   *)
(* where it pushes returned values, and what linking changes.               *)

(* A return value is pushed before the commands that an earlier Try names,   *)
(* and before any other code of theirs.                                     *)
Wanted(sc, i) ==
  \E t \in 1 .. i - 1 : /\ sc.cmds[t].op = "Try" /\ sc.cmds[t].push
                        /\ sc.cmds[t].loc = sc.start + sc.cmds[i].pos
ReturnPushed(frags, sc, i) ==
  IF Wanted(sc, i)
  THEN \E f \in frags : /\ f.kind = "saveret" /\ f.cmd = i
                        /\ \A g \in frags : g.cmd = i /\ g # f => g.at >= End(f)
  ELSE \A f \in frags : ~(f.kind = "saveret" /\ f.cmd = i)

(* A call goes through a MOV and has taken back the push before it.          *)
CallMade(frags, sc, i) ==
  /\ i > 1 /\ sc.cmds[i - 1].op \in Immediates
  /\ \E f \in frags : f.kind = "movrax" /\ f.cmd = i
  /\ \A f \in frags : ~(f.kind = "pushimm" /\ f.cmd = i - 1)

(* The code of the first n commands of a script.                            *)
Compiled(frags, sc, n) ==
  /\ \A f \in frags : f.cmd \in 0 .. n
  /\ \A f, g \in frags : f.cmd = g.cmd /\ f.kind = g.kind => f = g
  /\ \A i \in 1 .. n : ReturnPushed(frags, sc, i)
  /\ \A i \in 1 .. n : sc.cmds[i].op \in Calls => CallMade(frags, sc, i)

Working == phase \in {"commands", "patch"}

CodeOfCommands ==
  /\ Working => /\ Compiled(code, Current, pc - 1)
                /\ phase = "commands" => Current.begin /\ pc <= Len(Current.cmds) + 1
                /\ phase = "patch" => pc = IF Current.begin THEN Len(Current.cmds) + 1 ELSE 1
  /\ \A k \in DOMAIN mem :
       /\ k \in DOMAIN file.scripts
       /\ file.scripts[k].begin =>
            Compiled(mem[k].code, file.scripts[k], Len(file.scripts[k].cmds))

(* The tables that the loop over the commands reads and writes.              *)
TriesKnown ==
  phase = "commands" =>
    ret_val_locations = {Current.cmds[t].loc : t \in {u \in 1 .. pc - 1 :
                           Current.cmds[u].op = "Try" /\ Current.cmds[u].push}}
PushKnown ==
  phase = "commands" /\ last_cmd_pushint # <<>> /\ Current.cmds[pc - 1].op \in Immediates =>
    /\ last_cmd_pushint[1] = Current.cmds[pc - 1].val
    /\ Current.cmds[pc - 1].push =>
         \E f \in code : /\ f.kind = "pushimm" /\ f.len = 5 /\ End(f) = cursor
                         /\ f.cmd = pc - 1

(* Offset at is where the code of command i begins, after what is written    *)
(* before its location is taken.                                            *)
Lands(frags, i, at) ==
  \A f \in frags : IF f.cmd < i \/ (f.cmd = i /\ f.kind \in BeforeLocation)
                   THEN End(f) <= at ELSE f.at >= at
LocationsFit ==
  Working =>
    /\ DOMAIN command_locations = {Current.cmds[i].pos : i \in 1 .. pc - 1}
    /\ \A i \in 1 .. pc - 1 :
         LET at == command_locations[Current.cmds[i].pos]
         IN at <= len /\ Lands(code, i, at)

(* A jump is either recorded or patched.                                     *)
Target(f) == Current.cmds[f.cmd].loc - Start
JumpsKnown ==
  Working =>
    /\ \A f \in code : f.kind \in Mnemonics =>
         /\ f.cmd > 0 /\ f.len = JumpLength(f.kind)
         /\ \/ \E i \in DOMAIN jump_relocations : jump_relocations[i].at = f.at
            \/ /\ phase = "patch" /\ Target(f) \in DOMAIN command_locations
               /\ End(f) + f.arg = command_locations[Target(f)]
    /\ \A i \in DOMAIN jump_relocations :
         LET r == jump_relocations[i]
         IN /\ r.cmd \in 1 .. pc - 1 /\ r.target = Current.cmds[r.cmd].loc - Start
            /\ \E f \in code : f.at = r.at /\ f.kind = r.mnem /\ f.cmd = r.cmd

(* The code of a script, placed or being compiled.                           *)
Present   == DOMAIN mem \cup (IF Working THEN {script_index} ELSE {})
CodeOf(k) == IF k \in DOMAIN mem THEN mem[k].code ELSE code
CalleeOf(k, i) == file.scripts[k].cmds[i - 1].val

(* A MOV is either recorded, for the constant pushed before its call, or     *)
(* linked to the script of that constant.                                   *)
MovsKnown ==
  phase # "panic" =>
    /\ \A k \in Present : \A f \in CodeOf(k) : f.kind = "movrax" =>
         IF f.arg = 0
         THEN \E i \in DOMAIN call_relocs : call_relocs[i].script = k /\ call_relocs[i].at = f.at
         ELSE f.arg \in ScriptsAt(file, CalleeOf(k, f.cmd))
    /\ \A i \in DOMAIN call_relocs :
         LET r == call_relocs[i]
         IN /\ r.script \in Present
            /\ \E f \in CodeOf(r.script) :
                 /\ f.at = r.at /\ f.kind = "movrax" /\ f.len = 10 /\ f.arg = 0
                 /\ r.loc = CalleeOf(r.script, f.cmd)
    /\ \A i, j \in DOMAIN call_relocs :
         call_relocs[i].script = call_relocs[j].script /\ call_relocs[i].at = call_relocs[j].at
         => i = j

LInv == /\ IInv /\ CodeOfCommands /\ TriesKnown /\ PushKnown /\ LocationsFit
        /\ JumpsKnown /\ MovsKnown /\ JumpsLand
-----------------------------------------------------------------------------
(* What a round of the loop over the commands does: it takes back D and       *)
(* writes K from offset a on; command_locations gets l.                      *)
Takes(D, K, a) ==
  /\ D \subseteq code /\ K \subseteq Fragment /\ a \in Nat
  /\ code' = (code \ D) \cup K /\ Row(code', 0, cursor')
  /\ cursor' \in Nat /\ len' = cursor' /\ a <= cursor'
  /\ \A f \in code \ D : End(f) <= a
  /\ \A f \in K : /\ a <= f.at /\ End(f) <= cursor' /\ f.cmd = pc /\ f.arg = 0
                  /\ f.kind # "prologue"
  /\ \A f, g \in K : f.kind = g.kind => f = g
  /\ IF Cmd.op \in Calls
     THEN \E f \in code : /\ D = {f} /\ f.kind = "pushimm" /\ End(f) = cursor /\ f.at = a
     ELSE D = {} /\ a = cursor
Saves(K) ==
  IF ReturnsHere
  THEN \E f \in K : f.kind = "saveret" /\ \A g \in K : g # f => g.at >= End(f)
  ELSE \A f \in K : f.kind # "saveret"
Locates(K, a, l) ==
  /\ l \in Nat /\ command_locations' = Locate(l)
  /\ a <= l /\ l <= cursor'
  /\ \A f \in K : IF f.kind \in BeforeLocation THEN End(f) <= l ELSE f.at >= l

(* What it adds to the tables.                                              *)
AddsJump(K) ==
  IF Cmd.op \in Jumps \cup Ifs
  THEN \E f \in K :
         /\ f.kind \in Mnemonics /\ f.len = JumpLength(f.kind)
         /\ \A g \in K : g.kind \in Mnemonics => g = f
         /\ jump_relocations' = Append(jump_relocations,
              [at |-> f.at, mnem |-> f.kind, target |-> Cmd.loc - Start, cmd |-> pc])
  ELSE (\A f \in K : f.kind \notin Mnemonics) /\ UNCHANGED jump_relocations
AddsCall(K) ==
  IF Cmd.op \in Calls
  THEN \E f \in K :
         /\ f.kind = "movrax" /\ f.len = 10
         /\ call_relocs' = Append(call_relocs, [script |-> script_index, at |-> f.at,
                                                loc |-> last_cmd_pushint[1]])
  ELSE (\A f \in K : f.kind # "movrax") /\ UNCHANGED call_relocs
AddsTry ==
  ret_val_locations' = IF Cmd.op = "Try" /\ Cmd.push
                       THEN ret_val_locations \cup {Cmd.loc} ELSE ret_val_locations
AddsPush(K) ==
  Cmd.op \in Immediates =>
    /\ last_cmd_pushint' = <<Cmd.val>>
    /\ Cmd.push => \E f \in K : f.kind = "pushimm" /\ f.len = 5 /\ End(f) = cursor'

Round(D, K, a, l) ==
  /\ phase = "commands" /\ pc <= Len(Current.cmds) /\ pc' = pc + 1
  /\ Cmd.op \in Calls => last_cmd_pushint # <<>>
  /\ UNCHANGED <<file, phase, script_index, mem>>
  /\ Takes(D, K, a) /\ Saves(K) /\ Locates(K, a, l)
  /\ AddsJump(K) /\ AddsCall(K) /\ AddsTry /\ AddsPush(K)

(* The fragments of every command but a call: SavedReturn and then K.        *)
LEMMA Appends ==
  ASSUME IInv, phase = "commands", pc <= Len(Current.cmds), Cmd.op \notin Calls,
         NEW K \in SUBSET Fragment, NEW e \in Nat, Here <= e, Row(K, Here, e),
         Advance(Write(code, SavedReturn \cup K), e), command_locations' = Locate(Here),
         \A f \in K : f.cmd = pc /\ f.arg = 0 /\ f.kind \notin BeforeLocation \cup {"prologue"},
         \A f, g \in K : f.kind = g.kind => f = g
  PROVE  LET all == SavedReturn \cup K
         IN Takes({}, all, cursor) /\ Saves(all) /\ Locates(all, cursor, Here) /\ cursor' = e
<1> DEFINE all == SavedReturn \cup K
           save == At("saveret", cursor)
<1>1. /\ cursor \in Nat /\ cursor = len /\ Here \in Nat /\ cursor <= Here
      /\ SavedReturn \in SUBSET Fragment /\ Row(SavedReturn, cursor, Here)
  BY SavedReturnIsRow
<1>2. code' = code \cup all /\ cursor' = e /\ len' = e /\ Row(code', 0, len')
  BY Emit
<1>3. /\ save.kind = "saveret" /\ save.cmd = pc /\ save.arg = 0 /\ save.at = cursor
  BY DEF At
<1>4. ReturnsHere => SavedReturn = {save} /\ End(save) = Here
  BY <1>3 DEF SavedReturn, Here, End, At
<1>5. ~ReturnsHere => SavedReturn = {}  BY DEF SavedReturn
<1> HIDE DEF save
<1>6. \A f \in SavedReturn : f = save /\ ReturnsHere  BY <1>4, <1>5
<1>7. /\ \A f \in all : cursor <= f.at /\ End(f) <= e
      /\ \A f \in K : f.at >= Here
  BY <1>1 DEF Row, End, Fragment
<1>8. \A f, g \in all : f.kind = g.kind => f = g  BY <1>3, <1>6 DEF BeforeLocation
<1>9. \A f \in all : f.cmd = pc /\ f.arg = 0 /\ f.kind # "prologue"  BY <1>3, <1>6
<1>10. \A f \in all : /\ (f.kind = "saveret") <=> (f \in SavedReturn)
                      /\ (f.kind \in BeforeLocation) <=> (f \in SavedReturn)
  <2>1. \A f \in SavedReturn : f.kind = "saveret"  BY <1>3, <1>6
  <2>2. "saveret" \in BeforeLocation  BY DEF BeforeLocation
  <2>3. \A f \in K : f.kind \notin BeforeLocation  OBVIOUS
  <2>4. QED  BY <2>1, <2>2, <2>3
<1>11. \A f \in code : End(f) <= cursor  BY <1>1 DEF IInv, Rows, Row
<1>12. Takes({}, all, cursor)
  BY <1>1, <1>2, <1>7, <1>8, <1>9, <1>11 DEF Takes
<1>13. Saves(all)
  <2>1. CASE ReturnsHere
    <3>1. save \in all /\ \A g \in all : g # save => g \in K  BY <1>4, <2>1
    <3>2. \A g \in all : g # save => g.at >= End(save)  BY <1>4, <1>7, <2>1, <3>1
    <3>3. QED  BY <1>3, <2>1, <3>1, <3>2 DEF Saves
  <2>2. CASE ~ReturnsHere  BY <1>5, <1>10, <2>2 DEF Saves
  <2>3. QED  BY <2>1, <2>2
<1>14. Locates(all, cursor, Here)
  <2>1. \A f \in all : IF f.kind \in BeforeLocation THEN End(f) <= Here ELSE f.at >= Here
    BY <1>1, <1>7, <1>10 DEF Row
  <2>2. cursor <= Here /\ Here <= cursor'  BY <1>1, <1>2
  <2>3. QED  BY <1>1, <2>1, <2>2 DEF Locates
<1>15. QED  BY <1>2, <1>12, <1>13, <1>14

LEMMA TemplateRound ==
  ASSUME IInv, CompileTemplate
  PROVE  \E D, K, a, l : Round(D, K, a, l)
<1>1. phase = "commands" /\ pc <= Len(Current.cmds) /\ Cmd.op \notin Calls \cup Jumps \cup Ifs
  BY DEF CompileTemplate, Compiling
<1>2. Here \in Nat /\ cursor \in Nat  BY <1>1, SavedReturnIsRow
<1> DEFINE kind == IF Cmd.op \in Immediates THEN "pushimm" ELSE "body"
           body == At(kind, Here)
           K == IF EmitsNothing(Cmd) THEN {} ELSE {body}
           e == IF EmitsNothing(Cmd) THEN Here ELSE End(body)
<1>3. /\ body \in Fragment /\ End(body) \in Nat /\ Here < End(body)
      /\ Row({body}, Here, End(body))
      /\ body.kind = kind /\ body.cmd = pc /\ body.arg = 0 /\ body.len = Bytes(kind, Cmd)
  <2>1. kind \in FixedKinds \cup (SizedKinds \ {"prologue"}) /\ body = At(kind, Here)
    BY DEF FixedKinds, SizedKinds
  <2> HIDE DEF body, kind
  <2>2. QED  BY <1>1, <1>2, <2>1, AtIsRow DEF AtOffset
<1>4. /\ UNCHANGED <<file, phase, script_index, mem>> /\ pc' = pc + 1
      /\ Advance(Write(code, SavedReturn \cup K), e)
      /\ command_locations' = Locate(Here) /\ UNCHANGED <<jump_relocations, call_relocs>>
      /\ AddsTry
  <2>1. Write(code, SavedReturn \cup {}) = Write(code, SavedReturn)  OBVIOUS
  <2> HIDE DEF body
  <2>2. Advance(Write(code, SavedReturn \cup K), e)
    BY <2>1 DEF CompileTemplate, body
  <2>3. QED  BY <2>2 DEF CompileTemplate, Advance, AddsTry
<1>5. kind \in {"pushimm", "body"} /\ (Cmd.op \in Immediates => kind = "pushimm")  OBVIOUS
<1> HIDE DEF body, kind
<1>6. /\ K \in SUBSET Fragment /\ e \in Nat /\ Here <= e /\ Row(K, Here, e)
      /\ \A f \in K : f = body
  <2>1. Row({}, Here, Here)  BY <1>2 DEF Row
  <2>2. QED  BY <1>2, <1>3, <2>1
<1> DEFINE all == SavedReturn \cup K
<1>7. /\ \A f \in K : f.cmd = pc /\ f.arg = 0 /\ f.kind \in {"pushimm", "body"}
      /\ \A f, g \in K : f.kind = g.kind => f = g
  BY <1>3, <1>5, <1>6
<1>15. \A f \in K : f.kind \notin BeforeLocation \cup {"prologue"}
  BY <1>7 DEF BeforeLocation
<1>8. ~EmitsNothing(Cmd) => body \in K /\ e = End(body)  OBVIOUS
<1> HIDE DEF K, e
<1>9. Takes({}, all, cursor) /\ Saves(all) /\ Locates(all, cursor, Here) /\ cursor' = e
  BY <1>1, <1>4, <1>6, <1>7, <1>15, Appends
<1>10. \A f \in all : f.kind \notin Mnemonics \cup {"movrax"}
  <2>1. \A f \in SavedReturn : f.kind = "saveret"  BY DEF SavedReturn, At
  <2>2. QED  BY <1>7, <2>1 DEF Mnemonics
<1>11. AddsPush(all)
  <2>1. SUFFICES ASSUME Cmd.op \in Immediates
                 PROVE  /\ last_cmd_pushint' = <<Cmd.val>>
                        /\ Cmd.push => \E f \in all : /\ f.kind = "pushimm" /\ f.len = 5
                                                      /\ End(f) = cursor'
    BY DEF AddsPush
  <2>2. last_cmd_pushint' = <<Cmd.val>>
    BY <2>1 DEF CompileTemplate, PushedBy, Immediates
  <2>3. Cmd.push => ~EmitsNothing(Cmd)  BY <2>1 DEF EmitsNothing, Immediates
  <2>4. body.kind = "pushimm" /\ body.len = 5  BY <1>3, <1>5, <2>1 DEF Bytes
  <2>5. QED  BY <1>8, <1>9, <2>2, <2>3, <2>4
<1>12. AddsJump(all) /\ AddsCall(all)  BY <1>1, <1>4, <1>10 DEF AddsJump, AddsCall
<1> HIDE DEF all
<1>13. Round({}, all, cursor, Here)
  BY <1>1, <1>4, <1>9, <1>11, <1>12 DEF Round
<1>14. QED  BY <1>13

LEMMA JumpRound ==
  ASSUME IInv, CompileJump
  PROVE  \E D, K, a, l : Round(D, K, a, l)
<1>1. /\ phase = "commands" /\ pc <= Len(Current.cmds) /\ Cmd.op \in Jumps
      /\ Cmd.op \notin Calls \cup Immediates \cup {"Try"}
  BY DEF CompileJump, Compiling, Jumps, Calls, Immediates
<1>2. Here \in Nat /\ cursor \in Nat  BY <1>1, SavedReturnIsRow
<1> DEFINE jump == At("JMP", Here)
           K == {jump}
           e == End(jump)
           all == SavedReturn \cup K
<1>3. /\ jump \in Fragment /\ End(jump) \in Nat /\ Here < End(jump)
      /\ Row({jump}, Here, End(jump))
      /\ jump.at = Here /\ jump.kind = "JMP" /\ jump.cmd = pc /\ jump.arg = 0
      /\ jump.len = 5
  <2> DEFINE mnem == "JMP"
  <2>1. mnem \in FixedKinds \cup (SizedKinds \ {"prologue"})  BY DEF FixedKinds, Mnemonics
  <2>2. Bytes(mnem, Cmd) = 5 /\ mnem = "JMP"  BY DEF Bytes
  <2>3. jump = At(mnem, Here)  OBVIOUS
  <2> HIDE DEF jump, mnem
  <2>4. QED  BY <1>1, <1>2, <2>1, <2>2, <2>3, AtIsRow DEF AtOffset
<1>4. /\ UNCHANGED <<file, phase, script_index, mem>> /\ pc' = pc + 1
      /\ Advance(Write(code, SavedReturn \cup K), e)
      /\ command_locations' = Locate(Here) /\ UNCHANGED <<ret_val_locations, call_relocs>>
      /\ jump_relocations' = Append(jump_relocations, Relocation("JMP", Here))
  BY DEF CompileJump, Advance
<1> HIDE DEF jump
<1>5. /\ K \in SUBSET Fragment /\ e \in Nat /\ Here <= e /\ Row(K, Here, e)
      /\ \A f \in K : f = jump
  BY <1>2, <1>3
<1>6. jump \in all  OBVIOUS
<1>7. /\ \A f \in K : f.cmd = pc /\ f.arg = 0 /\ f.kind \notin BeforeLocation \cup {"prologue"}
      /\ \A f, g \in K : f.kind = g.kind => f = g
  BY <1>3, <1>5 DEF BeforeLocation
<1>8. \A f \in all : f = jump \/ f.kind = "saveret"
  <2>1. \A f \in SavedReturn : f.kind = "saveret"  BY DEF SavedReturn, At
  <2>2. QED  BY <1>5, <2>1
<1> HIDE DEF K, e
<1>9. Takes({}, all, cursor) /\ Saves(all) /\ Locates(all, cursor, Here)
  BY <1>1, <1>4, <1>5, <1>7, Appends
<1> HIDE DEF all
<1>10. AddsJump(all)
  <2>1. jump.kind \in Mnemonics /\ jump.len = JumpLength(jump.kind)
    BY <1>3 DEF Mnemonics, JumpLength
  <2>2. \A g \in all : g.kind \in Mnemonics => g = jump  BY <1>8 DEF Mnemonics
  <2>3. jump_relocations' = Append(jump_relocations,
          [at |-> jump.at, mnem |-> jump.kind, target |-> Cmd.loc - Start, cmd |-> pc])
    BY <1>3, <1>4 DEF Relocation
  <2>4. QED  BY <1>1, <1>6, <2>1, <2>2, <2>3 DEF AddsJump
<1>11. AddsCall(all)  BY <1>1, <1>3, <1>4, <1>8 DEF AddsCall
<1>12. AddsTry /\ AddsPush(all)  BY <1>1, <1>4 DEF AddsTry, AddsPush
<1>13. Round({}, all, cursor, Here)
  BY <1>1, <1>4, <1>9, <1>10, <1>11, <1>12 DEF Round
<1>14. QED  BY <1>13

LEMMA IfRound ==
  ASSUME IInv, CompileIf
  PROVE  \E D, K, a, l : Round(D, K, a, l)
<1>1. /\ phase = "commands" /\ pc <= Len(Current.cmds) /\ Cmd.op \in Ifs
      /\ Cmd.op \notin Calls \cup Immediates \cup {"Try"}
  BY DEF CompileIf, Compiling, Ifs, Calls, Immediates
<1>2. Here \in Nat /\ cursor \in Nat  BY <1>1, SavedReturnIsRow
<1> DEFINE mnem == IF Cmd.op = "If" THEN "JE" ELSE "JNE"
           test == At("test", Here)
           jump == At(mnem, End(test))
           K == {test, jump}
           e == End(jump)
           all == SavedReturn \cup K
<1>3. /\ UNCHANGED <<file, phase, script_index, mem>> /\ pc' = pc + 1
      /\ Advance(Write(code, SavedReturn \cup K), e)
      /\ command_locations' = Locate(Here) /\ UNCHANGED <<ret_val_locations, call_relocs>>
      /\ jump_relocations' = Append(jump_relocations, Relocation(mnem, End(test)))
  BY DEF CompileIf, Advance
<1>4. mnem \in {"JE", "JNE"}  OBVIOUS
<1> HIDE DEF mnem
<1>5. /\ test \in Fragment /\ End(test) \in Nat /\ Here < End(test)
      /\ Row({test}, Here, End(test))
      /\ test.kind = "test" /\ test.cmd = pc /\ test.arg = 0
  <2>1. "test" \in FixedKinds \cup (SizedKinds \ {"prologue"})  BY DEF SizedKinds
  <2> DEFINE kind == "test"
  <2> HIDE DEF test, kind
  <2>2. test = At(kind, Here) /\ kind \in FixedKinds \cup (SizedKinds \ {"prologue"})
    BY <2>1 DEF test, kind
  <2>3. /\ test \in Fragment /\ End(test) \in Nat /\ Here < End(test)
        /\ Row({test}, Here, End(test))
        /\ test.kind = kind /\ test.cmd = pc /\ test.arg = 0
    <3>1. AtOffset(kind, Here)  BY ONLY IInv, <1>1, <1>2, <2>2, AtIsRow
    <3>2. QED  BY ONLY <2>2, <3>1 DEF AtOffset
  <2>4. QED  BY <2>3 DEF kind
<1> HIDE DEF test
<1>6. /\ jump \in Fragment /\ End(jump) \in Nat /\ End(test) < End(jump)
      /\ Row({jump}, End(test), End(jump))
      /\ jump.at = End(test) /\ jump.kind = mnem /\ jump.cmd = pc /\ jump.arg = 0
      /\ jump.len = 6
  <2>1. mnem \in FixedKinds \cup (SizedKinds \ {"prologue"})
    BY <1>4 DEF FixedKinds, Mnemonics
  <2>2. Bytes(mnem, Cmd) = 6  BY <1>4 DEF Bytes
  <2> HIDE DEF jump
  <2>3. jump = At(mnem, End(test))  BY DEF jump
  <2>4. /\ jump \in Fragment /\ End(jump) \in Nat /\ End(test) < End(jump)
        /\ Row({jump}, End(test), End(jump))
        /\ jump.at = End(test) /\ jump.kind = mnem /\ jump.cmd = pc /\ jump.arg = 0
        /\ jump.len = Bytes(mnem, Cmd)
    <3> DEFINE o == End(test)
    <3>1. o \in Nat /\ jump = At(mnem, o)  BY <1>5, <2>3
    <3> HIDE DEF o
    <3>2. AtOffset(mnem, o)  BY ONLY IInv, <1>1, <2>1, <3>1, AtIsRow
    <3>3. QED  BY ONLY <3>1, <3>2 DEF AtOffset, o
  <2>5. QED  BY <2>2, <2>4
<1> HIDE DEF jump
<1>7. Row(K, Here, e)
  <2>1. {test} \in SUBSET Fragment /\ {jump} \in SUBSET Fragment
        /\ Here <= End(test) /\ End(test) <= End(jump)
    BY <1>2, <1>5, <1>6
  <2>2. {test, jump} = {test} \cup {jump}  OBVIOUS
  <2>3. QED  BY <1>2, <1>5, <1>6, <2>1, <2>2, JoinRows
<1>8. K \in SUBSET Fragment /\ e \in Nat /\ Here <= e /\ \A f \in K : f \in {test, jump}
  BY <1>2, <1>5, <1>6
<1>9. jump \in all  OBVIOUS
<1>10. /\ \A f \in K : f.cmd = pc /\ f.arg = 0 /\ f.kind \notin BeforeLocation \cup {"prologue"}
       /\ \A f, g \in K : f.kind = g.kind => f = g
  BY <1>4, <1>5, <1>6 DEF BeforeLocation
<1>11. \A f \in all : f = jump \/ f.kind \in {"saveret", "test"}
  <2>1. \A f \in SavedReturn : f.kind = "saveret"  BY DEF SavedReturn, At
  <2>2. QED  BY <1>5, <1>8, <2>1
<1> HIDE DEF K, e
<1>12. Takes({}, all, cursor) /\ Saves(all) /\ Locates(all, cursor, Here)
  BY <1>1, <1>3, <1>7, <1>8, <1>10, Appends
<1> HIDE DEF all
<1>13. AddsJump(all)
  <2>1. jump.kind \in Mnemonics /\ jump.len = JumpLength(jump.kind)
    BY <1>4, <1>6 DEF Mnemonics, JumpLength
  <2>2. \A g \in all : g.kind \in Mnemonics => g = jump  BY <1>11 DEF Mnemonics
  <2>3. jump_relocations' = Append(jump_relocations,
          [at |-> jump.at, mnem |-> jump.kind, target |-> Cmd.loc - Start, cmd |-> pc])
    BY <1>3, <1>6 DEF Relocation
  <2>4. QED  BY <1>1, <1>9, <2>1, <2>2, <2>3 DEF AddsJump
<1>14. AddsCall(all)  BY <1>1, <1>3, <1>4, <1>6, <1>11 DEF AddsCall
<1>15. AddsTry /\ AddsPush(all)  BY <1>1, <1>3 DEF AddsTry, AddsPush
<1>16. Round({}, all, cursor, Here)
  BY <1>1, <1>3, <1>12, <1>13, <1>14, <1>15 DEF Round
<1>17. QED  BY <1>16

(* The arms of a call: the push before it is gone, and no return value is    *)
(* pushed.                                                                 *)
LEMMA CallRound ==
  ASSUME IInv, CompileCall
  PROVE  \E D, K, a, l : Round(D, K, a, l)
<1>1. /\ phase = "commands" /\ pc <= Len(Current.cmds) /\ Cmd.op \in Calls
      /\ Cmd.op \notin Jumps \cup Ifs \cup Immediates \cup {"Try"}
      /\ last_cmd_pushint # <<>>
  BY DEF CompileCall, Compiling, Panics, Jumps, Ifs, Calls, Immediates
<1>2. PICK f \in code, K \in SUBSET Fragment, mov \in Fragment, e \in Nat :
        TakesBack(f, K, mov, e)
  BY CallWrites
<1>3. code \in SUBSET Fragment /\ cursor \in Nat /\ Row(code, 0, cursor)
  BY <1>1 DEF IInv, TypeOK, Rows, Progress
<1>4. /\ f.kind = "pushimm" /\ End(f) = cursor /\ f.at \in Nat /\ f.at <= cursor
      /\ \A g \in code \ {f} : End(g) <= f.at
  <2>1. f.kind = "pushimm" /\ f.len = 5 /\ End(f) = cursor  BY <1>2 DEF TakesBack
  <2>2. f.at \in Nat /\ f.at <= cursor  BY <1>3, <2>1 DEF End, Fragment
  <2>3. Row(code \ {f}, 0, f.at)  BY <1>3, <2>1, DropLast
  <2>4. QED  BY <2>1, <2>2, <2>3 DEF Row
<1>5. /\ mov \in K /\ mov.kind = "movrax" /\ mov.len = 10 /\ mov.at \in Nat
      /\ Row(K, f.at, e) /\ cursor <= e /\ code' = (code \ {f}) \cup K /\ Row(code', 0, e)
      /\ cursor' = e /\ len' = e /\ command_locations' = Locate(mov.at)
  BY <1>2 DEF TakesBack, Fragment
<1>6. /\ \A g \in K : g.cmd = pc /\ g.arg = 0
      /\ \A g \in K : g.kind \notin Mnemonics \cup {"prologue", "saveret"}
      /\ \A g, h \in K : g.kind = h.kind => g = h
  BY <1>2 DEF TakesBack, CallKinds, Mnemonics
<1>7. Takes({f}, K, f.at)
  <2>1. \A g \in K : f.at <= g.at /\ End(g) <= e  BY <1>5 DEF Row
  <2>2. f.at <= e  BY <1>3, <1>4, <1>5
  <2>3. {f} \subseteq code /\ e \in Nat  OBVIOUS
  <2>4. IF Cmd.op \in Calls
        THEN \E h \in code : {f} = {h} /\ h.kind = "pushimm" /\ End(h) = cursor /\ h.at = f.at
        ELSE {f} = {} /\ f.at = cursor
    BY <1>1, <1>4
  <2>5. QED  BY <1>4, <1>5, <1>6, <2>1, <2>2, <2>3, <2>4 DEF Takes
<1>8. ~ReturnsHere /\ UNCHANGED <<file, phase, script_index, mem, ret_val_locations,
                                  jump_relocations>> /\ pc' = pc + 1
      /\ call_relocs' = Append(call_relocs, [script |-> script_index, at |-> mov.at,
                                             loc |-> last_cmd_pushint[1]])
  BY <1>2 DEF TakesBack
<1>9. Saves(K)  BY <1>6, <1>8 DEF Saves
<1>10. Locates(K, f.at, mov.at)
  <2>1. f.at <= mov.at /\ mov.at <= e
    <3>1. f.at <= mov.at /\ End(mov) <= e  BY <1>5 DEF Row
    <3>2. End(mov) = mov.at + 10  BY <1>5 DEF End
    <3>3. QED  BY <1>5, <3>1, <3>2
  <2>2. \A g \in K : IF g.kind = "popargs" THEN End(g) <= mov.at ELSE g.at >= mov.at
    BY <1>2 DEF TakesBack
  <2>3. \A g \in K : IF g.kind \in BeforeLocation THEN End(g) <= mov.at ELSE g.at >= mov.at
    BY <1>6, <2>2 DEF BeforeLocation
  <2>4. QED  BY <1>5, <2>1, <2>3 DEF Locates
<1>11. AddsJump(K)  BY <1>1, <1>6, <1>8 DEF AddsJump
<1>12. AddsCall(K)  BY <1>1, <1>5, <1>8 DEF AddsCall
<1>13. AddsTry /\ AddsPush(K)  BY <1>1, <1>8 DEF AddsTry, AddsPush
<1>14. Round({f}, K, f.at, mov.at)
  BY <1>1, <1>7, <1>8, <1>9, <1>10, <1>11, <1>12, <1>13 DEF Round
<1>15. QED  BY <1>14

LEMMA EveryRound ==
  ASSUME IInv, CompileTemplate \/ CompileJump \/ CompileIf \/ CompileCall
  PROVE  \E D, K, a, l : Round(D, K, a, l)
<1>1. CASE CompileTemplate  BY <1>1, TemplateRound
<1>2. CASE CompileJump  BY <1>2, JumpRound
<1>3. CASE CompileIf  BY <1>3, IfRound
<1>4. CASE CompileCall  BY <1>4, CallRound
<1>5. QED  BY <1>1, <1>2, <1>3, <1>4
-----------------------------------------------------------------------------
(* What a round keeps.                                                      *)

LEMMA RoundTypes ==
  ASSUME IInv, NEW D, NEW K, NEW a, NEW l, Round(D, K, a, l)
  PROVE  /\ Current \in Script /\ WellFormed(Current) /\ Cmd \in Command /\ Start \in Nat
         /\ Cmd = Current.cmds[pc] /\ pc \in 1 .. Len(Current.cmds) /\ Len(Current.cmds) \in Nat
         /\ phase = "commands" /\ phase' = "commands" /\ Current' = Current /\ Start' = Start
         /\ pc \in Nat \ {0} /\ pc' = pc + 1 /\ pc' - 1 = pc
         /\ code \in SUBSET Fragment /\ code' \in SUBSET Fragment
         /\ code' = (code \ D) \cup K
         /\ cursor = len /\ len \in Nat /\ cursor' \in Nat /\ Row(code, 0, len)
<1>1. /\ phase = "commands" /\ pc <= Len(Current.cmds) /\ pc' = pc + 1 /\ Takes(D, K, a)
      /\ UNCHANGED <<file, phase, script_index, mem>>
  BY DEF Round
<1>2. /\ Current \in Script /\ WellFormed(Current) /\ Start \in Nat
      /\ pc \in DOMAIN Current.cmds /\ Cmd \in Command
  BY <1>1, CmdIsCommand
<1>3. Current.cmds \in Seq(Command)  BY <1>2 DEF Script
<1>4. pc \in 1 .. Len(Current.cmds) /\ Len(Current.cmds) \in Nat  BY <1>2, <1>3
<1>5. pc \in Nat \ {0} /\ pc' - 1 = pc  BY <1>1, <1>4
<1>6. Current' = Current /\ Start' = Start  BY <1>1 DEF Current, Start
<1>7. code \in SUBSET Fragment /\ len \in Nat /\ Row(code, 0, len) /\ cursor = len
  BY <1>1 DEF IInv, TypeOK, Rows, Progress
<1>8. code' \in SUBSET Fragment /\ code' = (code \ D) \cup K /\ cursor' \in Nat
  BY <1>1, <1>7 DEF Takes
<1>9. Cmd = Current.cmds[pc]  BY DEF Cmd
<1>10. QED  BY <1>1, <1>2, <1>4, <1>5, <1>6, <1>7, <1>8, <1>9

(* Only the push of the function pointer of a call is ever taken back.       *)
LEMMA TakenBack ==
  ASSUME LInv, NEW D, NEW K, NEW a, NEW l, Round(D, K, a, l)
  PROVE  /\ D \subseteq code /\ \A f \in D : f.kind = "pushimm" /\ f.cmd = pc - 1 /\ f.at = a
         /\ Cmd.op \notin Calls => D = {} /\ a = cursor
         /\ Cmd.op \in Calls =>
              /\ pc > 1 /\ Current.cmds[pc - 1].op \in Immediates
              /\ last_cmd_pushint[1] = Current.cmds[pc - 1].val
              /\ \E f \in D : D = {f}
<1>1. IInv /\ PushKnown  BY DEF LInv
<1>2. Takes(D, K, a) /\ (Cmd.op \in Calls => last_cmd_pushint # <<>>)  BY DEF Round
<1>3. CASE Cmd.op \notin Calls  BY <1>2, <1>3 DEF Takes
<1>4. CASE Cmd.op \in Calls
  <2>1. PICK f \in code : D = {f} /\ f.kind = "pushimm" /\ End(f) = cursor /\ f.at = a
    BY <1>2, <1>4 DEF Takes
  <2>2. /\ WellFormed(Current) /\ pc \in DOMAIN Current.cmds /\ Cmd = Current.cmds[pc]
        /\ phase = "commands" /\ pc \in Nat /\ code \in SUBSET Fragment
        /\ Row(code, 0, len) /\ cursor = len
    <3>1. Current \in Script /\ pc \in 1 .. Len(Current.cmds)  BY <1>1, RoundTypes
    <3>2. pc \in DOMAIN Current.cmds  BY <3>1 DEF Script
    <3>3. QED  BY <1>1, <3>2, RoundTypes
  <2>3. pc > 1 => /\ Current.cmds[pc-1].op \in Immediates => Current.cmds[pc-1].push
                  /\ ~(Current.cmds[pc-1].op = "PrintF" /\ Current.cmds[pc-1].argc = 0)
    BY <1>4, <2>2 DEF WellFormed
  <2>4. pc > 1 /\ Current.cmds[pc-1].op \in Immediates /\ Current.cmds[pc-1].push
    BY <1>1, <1>2, <1>4, <2>2, <2>3 DEF IInv, PushIsLast
  <2>5. PICK h \in code : End(h) = cursor /\ h.cmd = pc - 1
    BY <1>1, <1>2, <1>4, <2>2, <2>4 DEF PushKnown
  <2>6. f = h
    <3>1. Overlap(f, h)  BY <2>1, <2>2, <2>5 DEF Row, Overlap, End, Fragment
    <3>2. QED  BY <2>2, <3>1 DEF Row
  <2>7. last_cmd_pushint[1] = Current.cmds[pc - 1].val
    BY <1>1, <1>2, <1>4, <2>2, <2>4 DEF PushKnown
  <2>8. QED  BY <1>4, <2>1, <2>4, <2>5, <2>6, <2>7
<1>5. QED  BY <1>3, <1>4

LEMMA RoundCode ==
  ASSUME LInv, NEW D, NEW K, NEW a, NEW l, Round(D, K, a, l)
  PROVE  CodeOfCommands'
<1>1. IInv /\ CodeOfCommands /\ TriesKnown  BY DEF LInv
<1>2. /\ Takes(D, K, a) /\ Saves(K) /\ AddsCall(K)
      /\ UNCHANGED <<file, phase, script_index, mem>>
  BY DEF Round
<1>3. /\ Current \in Script /\ WellFormed(Current) /\ Cmd \in Command
      /\ Cmd = Current.cmds[pc] /\ pc \in 1 .. Len(Current.cmds) /\ Len(Current.cmds) \in Nat
      /\ phase = "commands" /\ phase' = "commands" /\ Current' = Current
      /\ pc \in Nat \ {0} /\ pc' = pc + 1 /\ pc' - 1 = pc /\ code' = (code \ D) \cup K
  BY <1>1, RoundTypes
<1>4. Compiled(code, Current, pc - 1) /\ Current.begin
  BY <1>1, <1>3 DEF CodeOfCommands, Working
<1>5. /\ \A f \in D : f.kind = "pushimm" /\ f.cmd = pc - 1
      /\ Cmd.op \in Calls =>
              /\ pc > 1 /\ Current.cmds[pc - 1].op \in Immediates
              /\ \E f \in D : D = {f}
      /\ D \subseteq code
  BY TakenBack
<1>6. /\ \A f \in K : f.cmd = pc
      /\ \A f, g \in K : f.kind = g.kind => f = g
  BY <1>2 DEF Takes
<1>7. /\ \A f \in code : f.cmd \in 0 .. pc - 1
      /\ \A f, g \in code : f.cmd = g.cmd /\ f.kind = g.kind => f = g
      /\ \A i \in 1 .. pc - 1 : ReturnPushed(code, Current, i)
      /\ \A i \in 1 .. pc - 1 : Current.cmds[i].op \in Calls => CallMade(code, Current, i)
  BY <1>4 DEF Compiled
<1>8. \A f \in code' : f.cmd \in 0 .. pc  BY <1>3, <1>6, <1>7
<1>9. \A f \in code' : IF f.cmd = pc THEN f \in K ELSE f \in code \ D
  BY <1>3, <1>6, <1>7
<1>10. \A f, g \in code' : f.cmd = g.cmd /\ f.kind = g.kind => f = g
  BY <1>6, <1>7, <1>9
<1>11. ASSUME NEW i \in 1 .. pc  PROVE ReturnPushed(code', Current, i)
  <2>1. CASE i < pc
    <3>1. i \in 1 .. pc - 1 /\ i # pc  BY <1>3, <2>1
    <3>2. ReturnPushed(code, Current, i)  BY <1>7, <3>1
    <3>3. \A f \in code : f.kind = "saveret" => f \in code'  BY <1>3, <1>5
    <3>4. \A f \in code' : f.cmd = i => f \in code  BY <1>9, <3>1
    <3>5. QED  BY <3>2, <3>3, <3>4 DEF ReturnPushed
  <2>2. CASE i = pc
    <3>1. Wanted(Current, pc) <=> ReturnsHere
      <4>1. Start \in Nat /\ Cmd.pos \in Nat /\ Start = Current.start
        BY <1>3 DEF Start, Script, Command
      <4>2. Cmd.pos + Start = Current.start + Current.cmds[pc].pos  BY <1>3, <4>1
      <4>3. ret_val_locations = {Current.cmds[t].loc : t \in {u \in 1 .. pc - 1 :
                                   Current.cmds[u].op = "Try" /\ Current.cmds[u].push}}
        BY <1>1, <1>3 DEF TriesKnown
      <4>4. QED  BY <4>2, <4>3 DEF Wanted, ReturnsHere
    <3>2. \A f \in K : f \in code' /\ f.cmd = pc  BY <1>3, <1>6
    <3>3. \A f \in code' : f.cmd = pc => f \in K  BY <1>9
    <3>4. QED  BY <1>2, <2>2, <3>1, <3>2, <3>3 DEF ReturnPushed, Saves
  <2>3. QED  BY <1>3, <2>1, <2>2
<1>12. ASSUME NEW i \in 1 .. pc, Current.cmds[i].op \in Calls
       PROVE  CallMade(code', Current, i)
  <2>1. CASE i < pc
    <3>1. i \in 1 .. pc - 1 /\ i # pc /\ i - 1 # pc  BY <1>3, <2>1
    <3>2. CallMade(code, Current, i)  BY <1>7, <1>12, <3>1
    <3>3. \A f \in code : f.kind = "movrax" => f \in code'  BY <1>3, <1>5
    <3>4. \A f \in code' : f.cmd = i - 1 => f \in code  BY <1>9, <3>1
    <3>5. QED  BY <3>2, <3>3, <3>4 DEF CallMade
  <2>2. CASE i = pc
    <3>1. Cmd.op \in Calls  BY <1>3, <1>12, <2>2
    <3>2. PICK h \in D : D = {h}  BY <1>5, <3>1
    <3>3. \A f \in code' : ~(f.kind = "pushimm" /\ f.cmd = pc - 1)
      <4>1. pc - 1 # pc  BY <1>3
      <4>2. QED  BY <1>5, <1>7, <1>9, <3>2, <4>1
    <3>4. \E f \in K : f.kind = "movrax"  BY <1>2, <3>1 DEF AddsCall
    <3>5. \E f \in code' : f.kind = "movrax" /\ f.cmd = pc  BY <1>3, <1>6, <3>4
    <3>6. QED  BY <1>5, <2>2, <3>1, <3>3, <3>5 DEF CallMade
  <2>3. QED  BY <1>3, <2>1, <2>2
<1>13. Compiled(code', Current, pc)
  BY <1>8, <1>10, <1>11, <1>12 DEF Compiled
<1>14. \A k \in DOMAIN mem :
         /\ k \in DOMAIN file.scripts
         /\ file.scripts[k].begin =>
              Compiled(mem[k].code, file.scripts[k], Len(file.scripts[k].cmds))
  BY <1>1 DEF CodeOfCommands
<1>15. pc' <= Len(Current.cmds) + 1  BY <1>3
<1>16. QED
  BY <1>2, <1>3, <1>4, <1>13, <1>14, <1>15 DEF CodeOfCommands, Working

LEMMA RoundTables ==
  ASSUME LInv, NEW D, NEW K, NEW a, NEW l, Round(D, K, a, l)
  PROVE  TriesKnown' /\ PushKnown'
<1>1. IInv /\ TriesKnown  BY DEF LInv
<1>2. /\ Current \in Script /\ Cmd = Current.cmds[pc]
      /\ phase = "commands" /\ phase' = "commands" /\ Current' = Current
      /\ pc \in Nat \ {0} /\ pc' = pc + 1 /\ pc' - 1 = pc /\ code' = (code \ D) \cup K
  BY <1>1, RoundTypes
<1>3. Takes(D, K, a) /\ AddsTry /\ AddsPush(K)  BY DEF Round
<1>4. TriesKnown'
  <2> DEFINE Tries(n) == {u \in 1 .. n : Current.cmds[u].op = "Try" /\ Current.cmds[u].push}
  <2>1. ret_val_locations = {Current.cmds[t].loc : t \in Tries(pc - 1)}
    BY <1>1, <1>2 DEF TriesKnown
  <2>2. Tries(pc) = Tries(pc - 1)
                      \cup (IF Cmd.op = "Try" /\ Cmd.push THEN {pc} ELSE {})
    BY <1>2
  <2> HIDE DEF Tries
  <2>3. ret_val_locations' = {Current.cmds[t].loc : t \in Tries(pc)}
    BY <1>2, <1>3, <2>1, <2>2 DEF AddsTry
  <2>4. QED  BY <1>2, <2>3 DEF TriesKnown, Tries
<1>5. PushKnown'
  <2>1. SUFFICES ASSUME Cmd.op \in Immediates
                 PROVE  /\ last_cmd_pushint'[1] = Cmd.val
                        /\ Cmd.push => \E f \in code' : /\ f.kind = "pushimm" /\ f.len = 5
                                                         /\ End(f) = cursor' /\ f.cmd = pc
    BY <1>2 DEF PushKnown, End
  <2>2. \A f \in K : f \in code' /\ f.cmd = pc  BY <1>2, <1>3 DEF Takes
  <2>3. QED  BY <1>3, <2>1, <2>2 DEF AddsPush
<1>6. QED  BY <1>4, <1>5

LEMMA RoundLocations ==
  ASSUME LInv, NEW D, NEW K, NEW a, NEW l, Round(D, K, a, l)
  PROVE  LocationsFit'
<1>1. IInv /\ CodeOfCommands /\ LocationsFit  BY DEF LInv
<1>2. /\ Current \in Script /\ WellFormed(Current) /\ Cmd \in Command
      /\ Cmd = Current.cmds[pc] /\ pc \in 1 .. Len(Current.cmds)
      /\ phase = "commands" /\ phase' = "commands" /\ Current' = Current
      /\ pc \in Nat \ {0} /\ pc' = pc + 1 /\ pc' - 1 = pc /\ code' = (code \ D) \cup K
      /\ code \in SUBSET Fragment /\ cursor = len /\ len \in Nat /\ cursor' \in Nat
      /\ Row(code, 0, len)
  BY <1>1, RoundTypes
<1>3. /\ D \subseteq code /\ \A f \in D : f.kind = "pushimm" /\ f.cmd = pc - 1 /\ f.at = a
      /\ Cmd.op \notin Calls => D = {} /\ a = cursor
      /\ Cmd.op \in Calls => \E f \in D : D = {f}
  BY TakenBack
<1>4. /\ Takes(D, K, a) /\ Locates(K, a, l)  BY DEF Round
<1>5. /\ a \in Nat /\ len' = cursor' /\ a <= cursor' /\ K \subseteq Fragment
      /\ \A f \in code \ D : End(f) <= a
      /\ \A f \in K : a <= f.at /\ f.cmd = pc
  BY <1>4 DEF Takes
<1>6. \A f \in code : f.cmd \in 0 .. pc - 1
  BY <1>1, <1>2 DEF CodeOfCommands, Working, Compiled
<1>7. /\ DOMAIN command_locations = {Current.cmds[i].pos : i \in 1 .. pc - 1}
      /\ \A i \in 1 .. pc - 1 :
           LET at == command_locations[Current.cmds[i].pos]
           IN at <= len /\ Lands(code, i, at)
  BY <1>1, <1>2 DEF LocationsFit, Working
<1>8. /\ l \in Nat /\ command_locations' = Locate(l)
      /\ a <= l /\ l <= cursor'
      /\ \A f \in K : IF f.kind \in BeforeLocation THEN End(f) <= l ELSE f.at >= l
  BY <1>4 DEF Locates
<1>9. /\ DOMAIN command_locations' = DOMAIN command_locations \cup {Cmd.pos}
      /\ command_locations'[Cmd.pos] = l
      /\ \A p \in DOMAIN command_locations :
           p # Cmd.pos => command_locations'[p] = command_locations[p]
  BY <1>8 DEF Locate
<1>10. \A i \in 1 .. pc - 1 : i # pc /\ i \in 1 .. pc /\ Current.cmds[i].pos # Cmd.pos
  <2>1. Current.cmds \in Seq(Command)  BY <1>2 DEF Script
  <2>2. \A i \in 1 .. pc - 1 : i \in DOMAIN Current.cmds /\ i < pc /\ pc \in DOMAIN Current.cmds
    BY <1>2, <2>1
  <2>3. \A i \in 1 .. pc - 1 : Current.cmds[i].pos < Cmd.pos
    BY <1>2, <2>2 DEF WellFormed
  <2>4. \A i \in 1 .. pc - 1 : Current.cmds[i].pos \in Nat
    <3>1. \A i \in 1 .. pc - 1 : Current.cmds[i] \in Command  BY <2>1, <2>2
    <3>2. QED  BY <3>1 DEF Command
  <2>5. Cmd.pos \in Nat  BY <1>2 DEF Command
  <2>6. \A i \in 1 .. pc - 1 : i # pc /\ i \in 1 .. pc  BY <1>2
  <2>7. \A i \in 1 .. pc - 1 : Current.cmds[i].pos # Cmd.pos
    <3> TAKE i \in 1 .. pc - 1
    <3> DEFINE p == Current.cmds[i].pos
               q == Cmd.pos
    <3>1. p \in Nat /\ q \in Nat /\ p < q  BY <2>3, <2>4, <2>5
    <3> HIDE DEF p, q
    <3>2. p # q  BY <3>1
    <3>3. QED  BY <3>2 DEF p, q
  <2>8. QED  BY <2>6, <2>7
<1>11. DOMAIN command_locations' = {Current.cmds[i].pos : i \in 1 .. pc}
  <2>1. 1 .. pc = (1 .. pc - 1) \cup {pc}  BY <1>2
  <2>2. QED  BY <1>2, <1>7, <1>9, <2>1
<1>12. ASSUME NEW i \in 1 .. pc
       PROVE  LET at == command_locations'[Current.cmds[i].pos]
              IN at <= len' /\ Lands(code', i, at)
  <2> DEFINE at == command_locations'[Current.cmds[i].pos]
  <2>1. CASE i < pc
    <3>1. i \in 1 .. pc - 1  BY <1>2, <2>1
    <3>2. at = command_locations[Current.cmds[i].pos]
      <4>1. Current.cmds[i].pos \in DOMAIN command_locations  BY <1>7, <3>1
      <4>2. QED  BY <1>9, <1>10, <3>1, <4>1
    <3>3. at <= len /\ Lands(code, i, at)  BY <1>7, <3>1, <3>2
    <3>4. at \in Nat
      <4>1. Current.cmds[i].pos \in DOMAIN command_locations  BY <1>7, <3>1
      <4>2. QED  BY <1>1, <3>2, <4>1 DEF IInv, TypeOK
    <3> HIDE DEF at
    <3>5. at <= a
      <4>1. CASE Cmd.op \in Calls
        <5>1. PICK f \in D : D = {f}  BY <1>3, <4>1
        <5>2. f \in code /\ f.kind = "pushimm" /\ f.cmd = pc - 1 /\ f.at = a /\ ~(f.cmd < i)
          BY <1>2, <1>3, <3>1, <5>1
        <5>3. f.kind \notin BeforeLocation  BY <5>2 DEF BeforeLocation
        <5>4. QED  BY <3>3, <5>2, <5>3 DEF Lands
      <4>2. CASE Cmd.op \notin Calls  BY <1>2, <1>3, <3>3, <4>2
      <4>3. QED  BY <4>1, <4>2
    <3>6. at <= len'  BY <1>2, <1>5, <3>4, <3>5
    <3>7. ASSUME NEW f \in code'
          PROVE  IF f.cmd < i \/ (f.cmd = i /\ f.kind \in BeforeLocation)
                 THEN End(f) <= at ELSE f.at >= at
      <4>1. CASE f \in code  BY <3>3, <4>1 DEF Lands
      <4>2. CASE f \in K
        <5>1. f.cmd = pc /\ a <= f.at /\ f.at \in Nat  BY <1>5, <4>2 DEF Fragment
        <5>2. f.at >= at  BY <1>5, <3>4, <3>5, <5>1
        <5>3. ~(f.cmd < i) /\ f.cmd # i  BY <1>2, <3>1, <5>1
        <5>4. QED  BY <5>2, <5>3
      <4>3. QED  BY <1>2, <4>1, <4>2
    <3>8. QED  BY <3>6, <3>7 DEF Lands, at
  <2>2. CASE i = pc
    <3>1. at = l  BY <1>2, <1>9, <2>2
    <3> HIDE DEF at
    <3>2. at <= len'  BY <1>5, <1>8, <3>1
    <3>3. ASSUME NEW f \in code'
          PROVE  IF f.cmd < i \/ (f.cmd = i /\ f.kind \in BeforeLocation)
                 THEN End(f) <= at ELSE f.at >= at
      <4>1. CASE f \in code \ D
        <5>1. f.cmd < pc  BY <1>2, <1>6, <4>1
        <5>2. End(f) <= a /\ End(f) \in Nat  BY <1>2, <1>5, <4>1 DEF End, Fragment
        <5>3. End(f) <= l  BY <1>5, <1>8, <3>1, <5>2
        <5>4. QED  BY <2>2, <3>1, <5>1, <5>3
      <4>2. CASE f \in K
        <5>1. f.cmd = pc /\ ~(f.cmd < i)  BY <1>2, <1>5, <2>2, <4>2
        <5>2. QED  BY <1>8, <2>2, <3>1, <4>2, <5>1
      <4>3. QED  BY <1>2, <4>1, <4>2
    <3>4. QED  BY <3>2, <3>3 DEF Lands, at
  <2>3. QED  BY <1>2, <2>1, <2>2
<1>13. QED
  <2>1. LocationsFit' <=>
          (phase' \in {"commands", "patch"} =>
             /\ DOMAIN command_locations' = {Current'.cmds[i].pos : i \in 1 .. pc' - 1}
             /\ \A i \in 1 .. pc' - 1 :
                  LET at == command_locations'[Current'.cmds[i].pos]
                  IN at <= len' /\ Lands(code', i, at))
    BY DEF LocationsFit, Working, Lands, End
  <2>2. QED  BY <1>2, <1>11, <1>12, <2>1

LEMMA RoundJumps ==
  ASSUME LInv, NEW D, NEW K, NEW a, NEW l, Round(D, K, a, l)
  PROVE  JumpsKnown'
<1>1. IInv /\ JumpsKnown  BY DEF LInv
<1>2. /\ Current \in Script /\ Cmd = Current.cmds[pc] /\ Start' = Start
      /\ phase = "commands" /\ phase' = "commands" /\ Current' = Current
      /\ pc \in Nat \ {0} /\ pc' = pc + 1 /\ pc' - 1 = pc /\ code' = (code \ D) \cup K
      /\ code \in SUBSET Fragment
  BY <1>1, RoundTypes
<1>3. \A f \in D : f.kind = "pushimm"  BY TakenBack
<1>4. /\ \A f \in K : f.cmd = pc
      /\ AddsJump(K)
  BY DEF Round, Takes
<1>5. /\ \A f \in code : f.kind \in Mnemonics =>
           /\ f.cmd > 0 /\ f.len = JumpLength(f.kind)
           /\ \E i \in DOMAIN jump_relocations : jump_relocations[i].at = f.at
      /\ \A i \in DOMAIN jump_relocations :
           LET r == jump_relocations[i]
           IN /\ r.cmd \in 1 .. pc - 1 /\ r.target = Current.cmds[r.cmd].loc - Start
              /\ \E f \in code : f.at = r.at /\ f.kind = r.mnem /\ f.cmd = r.cmd
  BY <1>1, <1>2 DEF JumpsKnown, Working
<1>6. /\ jump_relocations \in Seq(JumpRelocation)
      /\ \A i \in DOMAIN jump_relocations : jump_relocations[i].mnem # "pushimm"
  <2>1. jump_relocations \in Seq(JumpRelocation)  BY <1>1 DEF IInv, TypeOK
  <2>2. \A i \in DOMAIN jump_relocations : jump_relocations[i] \in JumpRelocation  BY <2>1
  <2>3. \A i \in DOMAIN jump_relocations : jump_relocations[i].mnem \in Mnemonics
    BY <2>2 DEF JumpRelocation
  <2>4. QED  BY <2>1, <2>3 DEF Mnemonics
<1>7. \A i \in DOMAIN jump_relocations :
        LET r == jump_relocations[i]
        IN /\ r.cmd \in 1 .. pc /\ r.target = Current.cmds[r.cmd].loc - Start
           /\ \E f \in code' : f.at = r.at /\ f.kind = r.mnem /\ f.cmd = r.cmd
  <2>1. \A c \in 1 .. pc - 1 : c \in 1 .. pc  BY <1>2
  <2>2. \A f \in code : f.kind # "pushimm" => f \in code'  BY <1>2, <1>3
  <2>3. QED  BY <1>5, <1>6, <2>1, <2>2
<1>8. SUFFICES
        /\ \A f \in code' : f.kind \in Mnemonics =>
             /\ f.cmd > 0 /\ f.len = JumpLength(f.kind)
             /\ \E i \in DOMAIN jump_relocations' : jump_relocations'[i].at = f.at
        /\ \A i \in DOMAIN jump_relocations' :
             LET r == jump_relocations'[i]
             IN /\ r.cmd \in 1 .. pc /\ r.target = Current.cmds[r.cmd].loc - Start
                /\ \E f \in code' : f.at = r.at /\ f.kind = r.mnem /\ f.cmd = r.cmd
  <2>1. phase' # "patch" /\ \A f \in code' : f.kind' = f.kind  BY <1>2
  <2>2. QED  BY <1>2 DEF JumpsKnown, Working
<1>9. CASE Cmd.op \notin Jumps \cup Ifs
  <2>1. (\A f \in K : f.kind \notin Mnemonics) /\ jump_relocations' = jump_relocations
    BY <1>4, <1>9 DEF AddsJump
  <2>2. QED  BY <1>2, <1>5, <1>7, <2>1
<1>10. CASE Cmd.op \in Jumps \cup Ifs
  <2>1. PICK f \in K :
         /\ f.kind \in Mnemonics /\ f.len = JumpLength(f.kind)
         /\ \A g \in K : g.kind \in Mnemonics => g = f
         /\ jump_relocations' = Append(jump_relocations,
              [at |-> f.at, mnem |-> f.kind, target |-> Cmd.loc - Start, cmd |-> pc])
    BY <1>4, <1>10 DEF AddsJump
  <2> DEFINE r == [at |-> f.at, mnem |-> f.kind, target |-> Cmd.loc - Start, cmd |-> pc]
             n == Len(jump_relocations) + 1
  <2>2. /\ r.at = f.at /\ r.mnem = f.kind /\ r.target = Current.cmds[r.cmd].loc - Start
        /\ r.cmd = pc /\ pc \in 1 .. pc /\ jump_relocations' = Append(jump_relocations, r)
    BY <1>2, <2>1
  <2> HIDE DEF r
  <2>3. /\ DOMAIN jump_relocations' = DOMAIN jump_relocations \cup {n}
        /\ \A i \in DOMAIN jump_relocations : jump_relocations'[i] = jump_relocations[i]
        /\ jump_relocations'[n] = r
    BY <1>6, <2>2
  <2> HIDE DEF n
  <2>4. f \in code' /\ f.cmd = pc /\ f.cmd > 0  BY <1>2, <1>4, <2>1
  <2>5. \A g \in code' : g.kind \in Mnemonics => g \in code \/ g = f  BY <1>2, <2>1
  <2>6. \A g \in code' : g.kind \in Mnemonics =>
             /\ g.cmd > 0 /\ g.len = JumpLength(g.kind)
             /\ \E i \in DOMAIN jump_relocations' : jump_relocations'[i].at = g.at
    BY <1>5, <2>1, <2>2, <2>3, <2>4, <2>5
  <2>7. \A i \in DOMAIN jump_relocations' :
             LET s == jump_relocations'[i]
             IN /\ s.cmd \in 1 .. pc /\ s.target = Current.cmds[s.cmd].loc - Start
                /\ \E g \in code' : g.at = s.at /\ g.kind = s.mnem /\ g.cmd = s.cmd
    BY <1>7, <2>2, <2>3, <2>4
  <2>8. QED  BY <2>6, <2>7
<1>11. QED  BY <1>9, <1>10

LEMMA RoundMovs ==
  ASSUME LInv, NEW D, NEW K, NEW a, NEW l, Round(D, K, a, l)
  PROVE  MovsKnown'
<1>1. IInv /\ MovsKnown  BY DEF LInv
<1>2. /\ Cmd = Current.cmds[pc] /\ phase = "commands" /\ phase' = "commands"
      /\ pc \in Nat \ {0} /\ code' = (code \ D) \cup K /\ code \in SUBSET Fragment
  BY <1>1, RoundTypes
<1>3. /\ \A f \in D : f.kind = "pushimm"
      /\ Cmd.op \in Calls => last_cmd_pushint[1] = Current.cmds[pc - 1].val
  BY TakenBack
<1>4. /\ \A f \in K : f.cmd = pc /\ f.arg = 0 /\ a <= f.at
      /\ \A f \in code \ D : End(f) <= a
      /\ \A f, g \in K : f.kind = g.kind => f = g
      /\ a \in Nat /\ K \subseteq Fragment
      /\ AddsCall(K) /\ UNCHANGED <<file, phase, script_index, mem>>
  BY DEF Round, Takes
<1>5. script_index = Len(mem) + 1 /\ script_index \notin DOMAIN mem
  <2>1. script_index = Len(mem) + 1 /\ mem \in Seq(PlacedScript)
    BY <1>1, <1>2 DEF IInv, Progress, TypeOK
  <2>2. QED  BY <2>1
<1> DEFINE NewCode(k) == IF k \in DOMAIN mem THEN mem[k].code ELSE code'
<1>6. /\ Present' = Present /\ script_index \in Present
      /\ CodeOf(script_index) = code /\ NewCode(script_index) = code'
      /\ \A k \in Present : k # script_index => NewCode(k) = CodeOf(k)
      /\ CalleeOf(script_index, pc) = Current.cmds[pc - 1].val
  BY <1>2, <1>4, <1>5 DEF Present, CodeOf, CalleeOf, Working, Current
<1>7. /\ \A k \in Present : \A f \in CodeOf(k) : f.kind = "movrax" =>
           IF f.arg = 0
           THEN \E i \in DOMAIN call_relocs : call_relocs[i].script = k /\ call_relocs[i].at = f.at
           ELSE f.arg \in ScriptsAt(file, CalleeOf(k, f.cmd))
      /\ \A i \in DOMAIN call_relocs :
           LET r == call_relocs[i]
           IN /\ r.script \in Present
              /\ \E f \in CodeOf(r.script) :
                   /\ f.at = r.at /\ f.kind = "movrax" /\ f.len = 10 /\ f.arg = 0
                   /\ r.loc = CalleeOf(r.script, f.cmd)
      /\ \A i, j \in DOMAIN call_relocs :
           call_relocs[i].script = call_relocs[j].script /\ call_relocs[i].at = call_relocs[j].at
           => i = j
  BY <1>1, <1>2 DEF MovsKnown
<1>8. \A f \in code : f.kind = "movrax" => f \in code \ D /\ f \in code'
  BY <1>2, <1>3
<1>9. \A k \in Present : \A f \in CodeOf(k) : f.kind = "movrax" => f \in NewCode(k)
  BY <1>6, <1>8
<1> DEFINE Linked(k, f) == f.arg \in ScriptsAt(file, CalleeOf(k, f.cmd))
           Names(r) == /\ r.script \in Present
                       /\ \E f \in NewCode(r.script) :
                            /\ f.at = r.at /\ f.kind = "movrax" /\ f.len = 10 /\ f.arg = 0
                            /\ r.loc = CalleeOf(r.script, f.cmd)
<1>10. \A i \in DOMAIN call_relocs : Names(call_relocs[i])
  BY <1>7, <1>9
<1>11. SUFFICES
        /\ \A k \in Present : \A f \in NewCode(k) : f.kind = "movrax" =>
             IF f.arg = 0
             THEN \E i \in DOMAIN call_relocs' :
                    call_relocs'[i].script = k /\ call_relocs'[i].at = f.at
             ELSE Linked(k, f)
        /\ \A i \in DOMAIN call_relocs' : Names(call_relocs'[i])
        /\ \A i, j \in DOMAIN call_relocs' :
             call_relocs'[i].script = call_relocs'[j].script
             /\ call_relocs'[i].at = call_relocs'[j].at => i = j
  <2>1. /\ \A k : CodeOf(k)' = IF k \in DOMAIN mem' THEN mem'[k].code ELSE code'
    BY DEF CodeOf
  <2>2. MovsKnown' <=>
    (phase' # "panic" =>
        /\ \A k \in Present' : \A f \in NewCode(k) : f.kind = "movrax" =>
             IF f.arg = 0
             THEN \E i \in DOMAIN call_relocs' :
                    call_relocs'[i].script = k /\ call_relocs'[i].at = f.at
             ELSE Linked(k, f)
        /\ \A i \in DOMAIN call_relocs' :
             LET r == call_relocs'[i]
             IN /\ r.script \in Present'
                /\ \E f \in NewCode(r.script) :
                            /\ f.at = r.at /\ f.kind = "movrax" /\ f.len = 10 /\ f.arg = 0
                            /\ r.loc = CalleeOf(r.script, f.cmd)
        /\ \A i, j \in DOMAIN call_relocs' :
             call_relocs'[i].script = call_relocs'[j].script
             /\ call_relocs'[i].at = call_relocs'[j].at => i = j)
    BY <1>4 DEF MovsKnown, ScriptsAt, CalleeOf, CodeOf
  <2> HIDE DEF Linked, NewCode
  <2>3. QED  BY <1>6, <2>2
<1> HIDE DEF NewCode
<1>12. CASE Cmd.op \notin Calls
  <2>1. (\A f \in K : f.kind # "movrax") /\ call_relocs' = call_relocs
    BY <1>4, <1>12 DEF AddsCall
  <2>2. \A k \in Present : \A f \in NewCode(k) : f.kind = "movrax" => f \in CodeOf(k)
    BY <1>2, <1>6, <2>1
  <2>3. QED  BY <1>7, <1>10, <2>1, <2>2
<1>13. CASE Cmd.op \in Calls
  <2>1. PICK f \in K :
         /\ f.kind = "movrax" /\ f.len = 10
         /\ call_relocs' = Append(call_relocs, [script |-> script_index, at |-> f.at,
                                                loc |-> last_cmd_pushint[1]])
    BY <1>4, <1>13 DEF AddsCall
  <2> DEFINE r == [script |-> script_index, at |-> f.at, loc |-> last_cmd_pushint[1]]
             n == Len(call_relocs) + 1
  <2>2. /\ r.at = f.at /\ r.script = script_index /\ r.loc = Current.cmds[pc - 1].val
        /\ call_relocs' = Append(call_relocs, r)
    BY <1>3, <1>13, <2>1
  <2> HIDE DEF r
  <2>3. /\ DOMAIN call_relocs' = DOMAIN call_relocs \cup {n}
        /\ \A i \in DOMAIN call_relocs : call_relocs'[i] = call_relocs[i]
        /\ call_relocs'[n] = r
    <3>1. call_relocs \in Seq(CallRelocation)  BY <1>1 DEF IInv, TypeOK
    <3>2. QED  BY <2>2, <3>1
  <2> HIDE DEF n
  <2>4. f \in code' /\ f.cmd = pc /\ f.arg = 0  BY <1>2, <1>4, <2>1
  <2>5. \A k \in Present : \A g \in NewCode(k) : g.kind = "movrax" =>
          g \in CodeOf(k) \/ (g = f /\ k = script_index)
    BY <1>2, <1>4, <1>6, <2>1
  <2>6. \A k \in Present : \A g \in NewCode(k) : g.kind = "movrax" =>
             IF g.arg = 0
             THEN \E i \in DOMAIN call_relocs' :
                    call_relocs'[i].script = k /\ call_relocs'[i].at = g.at
             ELSE Linked(k, g)
    <3>1. ASSUME NEW k \in Present, NEW g \in NewCode(k), g.kind = "movrax"
          PROVE  IF g.arg = 0
                 THEN \E i \in DOMAIN call_relocs' :
                        call_relocs'[i].script = k /\ call_relocs'[i].at = g.at
                 ELSE Linked(k, g)
      <4>1. CASE g \in CodeOf(k)  BY <1>7, <2>3, <3>1, <4>1
      <4>2. CASE g = f /\ k = script_index  BY <2>2, <2>3, <2>4, <4>2
      <4>3. QED  BY <2>5, <3>1, <4>1, <4>2
    <3>2. QED  BY <3>1
  <2>7. Names(r)
    BY <1>6, <2>1, <2>2, <2>4
  <2>8. \A i \in DOMAIN call_relocs' : Names(call_relocs'[i])
    <3> HIDE DEF Names
    <3>1. QED  BY <1>10, <2>3, <2>7
  <2>9. \A i \in DOMAIN call_relocs :
          ~(call_relocs[i].script = script_index /\ call_relocs[i].at = f.at)
    <3>1. SUFFICES ASSUME NEW i \in DOMAIN call_relocs,
                          call_relocs[i].script = script_index, call_relocs[i].at = f.at
                   PROVE  FALSE
      OBVIOUS
    <3>2. PICK g \in code : g.at = f.at /\ g.kind = "movrax" /\ g.len = 10
      BY <1>6, <1>7, <3>1
    <3>3. End(g) <= a /\ End(g) = g.at + 10 /\ g.at \in Nat
      BY <1>2, <1>4, <1>8, <3>2 DEF End, Fragment
    <3>4. a <= f.at  BY <1>4
    <3>5. QED  BY <1>4, <3>2, <3>3, <3>4
  <2>10. \A i, j \in DOMAIN call_relocs' :
             call_relocs'[i].script = call_relocs'[j].script
             /\ call_relocs'[i].at = call_relocs'[j].at => i = j
    BY <1>7, <2>2, <2>3, <2>9
  <2>11. QED  BY <2>6, <2>8, <2>10
<1>14. QED  BY <1>12, <1>13

LEMMA RoundStep ==
  ASSUME LInv, NEW D, NEW K, NEW a, NEW l, Round(D, K, a, l), IInv'
  PROVE  LInv'
<1>1. JumpsLand'
  <2>1. JumpsLand /\ mem' = mem /\ file' = file  BY DEF LInv, Round
  <2>2. QED  BY <2>1 DEF JumpsLand, LandsOn, End
<1>2. QED
  BY <1>1, RoundCode, RoundTables, RoundLocations, RoundJumps, RoundMovs DEF LInv
-----------------------------------------------------------------------------
(* The other steps.                                                         *)

LEMMA StartKeeps ==
  ASSUME LInv, StartScript \/ StartBareScript, IInv'
  PROVE  LInv'
<1>1. IInv /\ CodeOfCommands /\ MovsKnown /\ JumpsLand /\ phase = "script"
  BY DEF LInv, StartScript, StartBareScript
<1>2. /\ UNCHANGED <<file, script_index, call_relocs, mem>>
      /\ phase' = (IF Current.begin THEN "commands" ELSE "patch") /\ pc' = 1
      /\ last_cmd_pushint' = <<>> /\ ret_val_locations' = {}
      /\ jump_relocations' = <<>> /\ command_locations' = <<>>
      /\ Current' = Current
  BY DEF StartScript, StartBareScript, Current
<1>3. PICK f : /\ code' = {f} /\ f.cmd = 0 /\ f.kind \in {"prologue", "ret"}
  <2>1. CASE StartScript
    <3> DEFINE p == [at |-> 0, len |-> Encoded("prologue", Current),
                     kind |-> "prologue", cmd |-> 0, arg |-> 0]
    <3>1. code' = {p} /\ p.cmd = 0 /\ p.kind = "prologue"  BY <2>1 DEF StartScript
    <3>2. QED  BY <3>1
  <2>2. CASE StartBareScript
    <3> DEFINE p == [at |-> 0, len |-> 1, kind |-> "ret", cmd |-> 0, arg |-> 0]
    <3>1. code' = {p} /\ p.cmd = 0 /\ p.kind = "ret"  BY <2>2 DEF StartBareScript
    <3>2. QED  BY <3>1
  <2>3. QED  BY <2>1, <2>2
<1>4. CodeOfCommands'
  <2>1. Current \in Script /\ Len(Current.cmds) \in Nat
    <3>1. script_index \in DOMAIN file.scripts
      BY <1>2 DEF IInv, Progress
    <3>2. Current \in Script  BY <1>1, <3>1, CurrentIsScript
    <3>3. QED  BY <3>2 DEF Script
  <2>2. Compiled(code', Current, 0)
    BY <1>3 DEF Compiled
  <2>3. pc' - 1 = 0 /\ 1 <= Len(Current.cmds) + 1  BY <1>2, <2>1
  <2>4. phase' = "commands" => Current.begin  BY <1>2
  <2>5. \A k \in DOMAIN mem :
          /\ k \in DOMAIN file.scripts
          /\ file.scripts[k].begin =>
               Compiled(mem[k].code, file.scripts[k], Len(file.scripts[k].cmds))
    BY <1>1 DEF CodeOfCommands
  <2>6. phase' = "patch" => ~Current.begin  BY <1>2
  <2>7. Compiled(code', Current', pc' - 1)  BY <1>2, <2>2, <2>3
  <2>8. QED
    BY <1>2, <2>3, <2>4, <2>5, <2>6, <2>7 DEF CodeOfCommands
<1>5. TriesKnown' /\ PushKnown'
  BY <1>2 DEF TriesKnown, PushKnown
<1>6. LocationsFit'  BY <1>2 DEF LocationsFit
<1>7. JumpsKnown'  BY <1>2, <1>3 DEF JumpsKnown, Mnemonics
<1>8. MovsKnown'
  <2>1. Present = DOMAIN mem /\ script_index \notin DOMAIN mem
        /\ Present' = DOMAIN mem \cup {script_index}
    <3>1. script_index = Len(mem) + 1 /\ mem \in Seq(PlacedScript)
      BY <1>1 DEF IInv, Progress, TypeOK
    <3>2. QED  BY <1>1, <1>2, <3>1 DEF Present, Working
  <2>2. /\ CodeOf(script_index)' = code' /\ \A k \in Present : CodeOf(k)' = CodeOf(k)
        /\ \A k, i : CalleeOf(k, i)' = CalleeOf(k, i)
    BY <1>2, <2>1 DEF CodeOf, CalleeOf
  <2>3. \A g \in code' : g.kind # "movrax"  BY <1>3
  <2>4. phase # "panic"  BY <1>1
  <2>5. QED  BY <1>1, <1>2, <2>1, <2>2, <2>3, <2>4 DEF MovsKnown
<1>9. JumpsLand'  BY <1>1, <1>2 DEF JumpsLand, LandsOn, End
<1>10. QED  BY <1>4, <1>5, <1>6, <1>7, <1>8, <1>9 DEF LInv

LEMMA PhaseKeeps ==
  ASSUME LInv, UNCHANGED <<file, scriptVars, call_relocs, mem>>, IInv',
         \/ phase' = phase
         \/ phase = "commands" /\ phase' = "patch" /\ pc > Len(Current.cmds)
         \/ phase = "script" /\ phase' = "link"
         \/ phase' = "panic"
         \/ phase = "link" /\ phase' \in {"none", "some"}
  PROVE  LInv'
<1>1. /\ file' = file /\ script_index' = script_index /\ pc' = pc
      /\ code' = code /\ cursor' = cursor /\ len' = len
      /\ last_cmd_pushint' = last_cmd_pushint
      /\ ret_val_locations' = ret_val_locations
      /\ jump_relocations' = jump_relocations
      /\ command_locations' = command_locations
      /\ call_relocs' = call_relocs /\ mem' = mem
      /\ Current' = Current /\ Start' = Start
  BY DEF scriptVars, Current, Start
<1>2. (Working' => Working) /\ (phase' = "commands" => phase = "commands")
  BY DEF Working
<1>3. CodeOfCommands'
  <2>1. CodeOfCommands  BY DEF LInv
  <2>2. CASE phase' = "patch" /\ phase = "commands" /\ pc > Len(Current.cmds)
    <3>1. Compiled(code, Current, pc - 1) /\ Current.begin /\ pc <= Len(Current.cmds) + 1
      BY <2>1, <2>2 DEF CodeOfCommands, Working
    <3>2. pc \in Nat /\ Len(Current.cmds) \in Nat
      <4>1. script_index \in DOMAIN file.scripts /\ IInv  BY <2>2 DEF LInv, IInv, Progress
      <4>2. Current \in Script  BY <4>1, CurrentIsScript
      <4>3. QED  BY <4>1, <4>2 DEF Script, IInv, TypeOK
    <3>3. pc = Len(Current.cmds) + 1  BY <2>2, <3>1, <3>2
    <3>4. QED  BY <1>1, <2>1, <2>2, <3>1, <3>3 DEF CodeOfCommands, Working
  <2>3. CASE phase' = phase  BY <1>1, <2>1, <2>3 DEF CodeOfCommands, Working
  <2>4. CASE phase' \notin {"commands", "patch"}
    BY <1>1, <2>1, <2>4 DEF CodeOfCommands, Working
  <2>5. QED  BY <2>2, <2>3, <2>4
<1>4. TriesKnown' /\ PushKnown'
  BY <1>1, <1>2 DEF LInv, TriesKnown, PushKnown, End
<1>5. LocationsFit'  BY <1>1, <1>2 DEF LInv, LocationsFit, Lands, End
<1>6. JumpsKnown'
  <2>1. phase = "patch" => phase' = "patch" \/ ~Working'  BY DEF Working
  <2>2. QED
    BY <1>1, <1>2, <2>1 DEF LInv, JumpsKnown, Target, End, JumpLength
<1>7. MovsKnown'
  <2>1. phase' # "panic" => phase # "panic" /\ Present' = Present
    BY <1>1 DEF Present, Working
  <2>2. (\A k : CodeOf(k)' = CodeOf(k)) /\ (\A k, i : CalleeOf(k, i)' = CalleeOf(k, i))
    BY <1>1 DEF CodeOf, CalleeOf
  <2>3. QED  BY <1>1, <2>1, <2>2 DEF LInv, MovsKnown
<1>8. JumpsLand'  BY <1>1 DEF LInv, JumpsLand, LandsOn, End
<1>9. QED  BY <1>3, <1>4, <1>5, <1>6, <1>7, <1>8 DEF LInv

(* A fragment whose displacement or script is filled in.                     *)
Filled(f, g) == g.at = f.at /\ g.len = f.len /\ g.kind = f.kind /\ g.cmd = f.cmd

LEMMA FilledCode ==
  ASSUME NEW C, NEW f \in C, NEW g, Filled(f, g), f.kind # "saveret",
         NEW sc, NEW n, Compiled(C, sc, n)
  PROVE  Compiled((C \ {f}) \cup {g}, sc, n)
<1> DEFINE N == (C \ {f}) \cup {g}
<1>1. /\ \A h \in C : h.cmd \in 0 .. n
      /\ \A h, k \in C : h.cmd = k.cmd /\ h.kind = k.kind => h = k
      /\ \A i \in 1 .. n : ReturnPushed(C, sc, i)
      /\ \A i \in 1 .. n : sc.cmds[i].op \in Calls => CallMade(C, sc, i)
  BY DEF Compiled
<1>2. /\ g.at = f.at /\ g.kind = f.kind /\ g.cmd = f.cmd /\ g \in N
      /\ \A h \in N : h = g \/ (h \in C /\ h # f)
      /\ \A h \in C : h # f => h \in N
  BY DEF Filled
<1> HIDE DEF N
<1>3. \A h \in N : h.cmd \in 0 .. n  BY <1>1, <1>2
<1>4. \A h, k \in N : h.cmd = k.cmd /\ h.kind = k.kind => h = k  BY <1>1, <1>2
<1>5. ASSUME NEW i \in 1 .. n  PROVE ReturnPushed(N, sc, i)
  <2>1. ReturnPushed(C, sc, i)  BY <1>1
  <2>2. CASE Wanted(sc, i)
    <3>1. PICK h \in C : /\ h.kind = "saveret" /\ h.cmd = i
                         /\ \A k \in C : k.cmd = i /\ k # h => k.at >= End(h)
      BY <2>1, <2>2 DEF ReturnPushed
    <3>2. h # f /\ h \in N  BY <1>2, <3>1
    <3>3. \A k \in N : k.cmd = i /\ k # h => k.at >= End(h)  BY <1>2, <3>1, <3>2
    <3>4. QED  BY <2>2, <3>1, <3>2, <3>3 DEF ReturnPushed
  <2>3. CASE ~Wanted(sc, i)  BY <1>2, <2>1, <2>3 DEF ReturnPushed
  <2>4. QED  BY <2>2, <2>3
<1>6. \A i \in 1 .. n : sc.cmds[i].op \in Calls => CallMade(N, sc, i)
  <2>1. SUFFICES ASSUME NEW i \in 1 .. n, CallMade(C, sc, i)  PROVE CallMade(N, sc, i)
    BY <1>1
  <2>2. QED  BY <1>2, <2>1 DEF CallMade
<1>7. QED  BY <1>3, <1>4, <1>5, <1>6 DEF Compiled, N

LEMMA PatchKeeps ==
  ASSUME LInv, PatchJump, IInv'
  PROVE  LInv'
<1> DEFINE r == Head(jump_relocations)
           g == [at |-> r.at, len |-> Bytes(r.mnem, r), kind |-> r.mnem,
                 cmd |-> r.cmd,
                 arg |-> command_locations[r.target] - r.at
                           - JumpLength(r.mnem)]
<1>1. /\ phase = "patch" /\ phase' = "patch" /\ jump_relocations # <<>>
      /\ r.target \in DOMAIN command_locations
      /\ code' = Write(code, {g})
      /\ jump_relocations' = Tail(jump_relocations)
      /\ file' = file /\ script_index' = script_index /\ pc' = pc /\ len' = len
      /\ command_locations' = command_locations /\ call_relocs' = call_relocs /\ mem' = mem
      /\ Current' = Current /\ Start' = Start
  BY DEF PatchJump, Current, Start
<1>2. /\ IInv /\ TypeOK /\ jump_relocations \in Seq(JumpRelocation)
      /\ CodeOfCommands /\ LocationsFit /\ JumpsKnown /\ MovsKnown /\ JumpsLand
      /\ code \in SUBSET Fragment /\ Row(code, 0, len) /\ len \in Nat
  BY DEF LInv, IInv, TypeOK, Rows
<1>3. r \in JumpRelocation /\ 1 \in DOMAIN jump_relocations
      /\ r = jump_relocations[1]
      /\ \A i \in DOMAIN jump_relocations' :
           i + 1 \in DOMAIN jump_relocations /\ jump_relocations'[i] = jump_relocations[i + 1]
  BY <1>1, <1>2
<1>20. \A i \in DOMAIN jump_relocations : i # 1 =>
         \E j \in DOMAIN jump_relocations' : jump_relocations'[j] = jump_relocations[i]
  <2>1. \A i \in DOMAIN jump_relocations : i # 1 =>
          i - 1 \in DOMAIN jump_relocations' /\ jump_relocations'[i - 1] = jump_relocations[i]
    BY <1>1, <1>2
  <2>2. QED  BY <2>1
<1>4. /\ \A f \in code : f.kind \in Mnemonics =>
         /\ f.cmd > 0 /\ f.len = JumpLength(f.kind)
         /\ \/ \E i \in DOMAIN jump_relocations : jump_relocations[i].at = f.at
            \/ /\ Target(f) \in DOMAIN command_locations
               /\ End(f) + f.arg = command_locations[Target(f)]
      /\ \A i \in DOMAIN jump_relocations :
           LET s == jump_relocations[i]
           IN /\ s.cmd \in 1 .. pc - 1 /\ s.target = Current.cmds[s.cmd].loc - Start
              /\ \E f \in code : f.at = s.at /\ f.kind = s.mnem /\ f.cmd = s.cmd
  BY <1>1, <1>2 DEF JumpsKnown, Working
<1>5. PICK f \in code : f.at = r.at /\ f.kind = r.mnem /\ f.cmd = r.cmd
  BY <1>3, <1>4
<1>6. r.mnem \in Mnemonics /\ f.kind \notin {"saveret", "movrax"} /\ f.kind \in Mnemonics
  BY <1>3, <1>5 DEF JumpRelocation, Mnemonics
<1>7. Bytes(r.mnem, r) = JumpLength(r.mnem)
  BY <1>6 DEF Bytes, JumpLength, Mnemonics
<1>8. /\ g \in Fragment /\ Filled(f, g)
      /\ End(g) + g.arg = command_locations[r.target]
      /\ g.kind \in Mnemonics /\ g.cmd = r.cmd /\ g.at = r.at
  <2>1. JumpLength(r.mnem) \in Nat  BY DEF JumpLength
  <2>2. command_locations[r.target] \in Nat  BY <1>1, <1>2 DEF TypeOK
  <2>3. r.at \in Nat /\ r.cmd \in Nat /\ r.mnem \in FixedKinds
    BY <1>3 DEF JumpRelocation, FixedKinds
  <2>4. f.len = JumpLength(r.mnem)  BY <1>4, <1>5, <1>6
  <2>5. /\ g.at = r.at /\ g.len = JumpLength(r.mnem) /\ g.kind = r.mnem /\ g.cmd = r.cmd
        /\ g.arg = command_locations[r.target] - r.at - JumpLength(r.mnem)
    BY <1>7
  <2>6. g \in Fragment
    <3>1. command_locations[r.target] - r.at - JumpLength(r.mnem) \in Int  BY <2>1, <2>2, <2>3
    <3>2. QED  BY <1>7, <2>1, <2>3, <3>1 DEF Fragment
  <2> HIDE DEF g, r
  <2>7. End(g) + g.arg = command_locations[r.target]
    BY <2>1, <2>2, <2>3, <2>5 DEF End
  <2>8. QED  BY <1>5, <1>6, <2>4, <2>5, <2>6, <2>7 DEF Filled
<1> HIDE DEF r, g
<1>9. code' = (code \ {f}) \cup {g}
  <2>1. g.at = f.at /\ g.len = f.len  BY <1>8 DEF Filled
  <2>2. code \in SUBSET Fragment /\ len \in Nat /\ Row(code, 0, len) /\ g \in Fragment
    BY <1>2, <1>8
  <2>3. /\ Write(code, {g}) = (code \ {f}) \cup {g}
        /\ Row((code \ {f}) \cup {g}, 0, len)
    BY <2>1, <2>2, Replace
  <2>4. QED  BY <1>1, <2>3
<1>10. \A h \in code : h.at = f.at => h = f
  <2>1. SUFFICES ASSUME NEW h \in code, h.at = f.at  PROVE h = f
    OBVIOUS
  <2>2. h.at \in Nat /\ h.len \in Nat /\ f.len \in Nat  BY <1>2 DEF Fragment
  <2>3. h.len > 0 /\ f.len > 0  BY <1>2 DEF Row
  <2>4. Overlap(h, f)  BY <2>1, <2>2, <2>3 DEF Overlap, End
  <2>5. QED  BY <1>2, <2>4 DEF Row
<1>11. /\ g \in code' /\ \A h \in code' : h = g \/ (h \in code /\ h # f)
       /\ \A h \in code : h # f => h \in code'
       /\ End(g) = End(f) /\ g.at = f.at /\ g.kind = f.kind /\ g.cmd = f.cmd
  BY <1>8, <1>9 DEF Filled, End
<1>12. CodeOfCommands'
  <2>1. Compiled(code, Current, pc - 1)  BY <1>1, <1>2 DEF CodeOfCommands, Working
  <2>2. Compiled(code', Current, pc - 1)  BY <1>6, <1>8, <1>9, <2>1, FilledCode
  <2>3. QED  BY <1>1, <1>2, <2>2 DEF CodeOfCommands, Working
<1>13. TriesKnown' /\ PushKnown'  BY <1>1 DEF TriesKnown, PushKnown
<1>14. LocationsFit'
  <2>1. \A i, at : Lands(code, i, at) => Lands(code', i, at)
    BY <1>11 DEF Lands
  <2>2. /\ DOMAIN command_locations = {Current.cmds[i].pos : i \in 1 .. pc - 1}
        /\ \A i \in 1 .. pc - 1 :
             LET at == command_locations[Current.cmds[i].pos]
             IN at <= len /\ Lands(code', i, at)
    BY <1>1, <1>2, <2>1 DEF LocationsFit, Working
  <2>3. QED  BY <1>1, <2>2 DEF LocationsFit, Lands, End
<1>15. JumpsKnown'
  <2>1. ASSUME NEW h \in code', h.kind \in Mnemonics
        PROVE  /\ h.cmd > 0 /\ h.len = JumpLength(h.kind)
               /\ \/ \E i \in DOMAIN jump_relocations' : jump_relocations'[i].at = h.at
                  \/ /\ Target(h) \in DOMAIN command_locations
                     /\ End(h) + h.arg = command_locations[Target(h)]
    <3>1. CASE h = g
      <4>1. f.cmd > 0 /\ f.len = JumpLength(f.kind)  BY <1>4, <1>6
      <4>2. Target(g) = r.target  BY <1>3, <1>4, <1>8 DEF Target
      <4>3. QED  BY <1>1, <1>8, <3>1, <4>1, <4>2 DEF Filled
    <3>2. CASE h \in code /\ h # f
      <4>1. h.at # r.at  BY <1>5, <1>10, <3>2
      <4>2. \A i \in DOMAIN jump_relocations : jump_relocations[i].at = h.at
              => \E j \in DOMAIN jump_relocations' : jump_relocations'[j].at = h.at
        <5>1. SUFFICES ASSUME NEW i \in DOMAIN jump_relocations, jump_relocations[i].at = h.at
                       PROVE  \E j \in DOMAIN jump_relocations' : jump_relocations'[j].at = h.at
          OBVIOUS
        <5>2. i # 1  BY <1>3, <4>1, <5>1
        <5>3. \E j \in DOMAIN jump_relocations' : jump_relocations'[j] = jump_relocations[i]
          BY <1>20, <5>2
        <5>4. QED  BY <5>1, <5>3
      <4>3. QED  BY <1>4, <2>1, <3>2, <4>2
    <3>3. QED  BY <1>11, <3>1, <3>2
  <2>2. ASSUME NEW i \in DOMAIN jump_relocations'
        PROVE  LET s == jump_relocations'[i]
               IN /\ s.cmd \in 1 .. pc - 1 /\ s.target = Current.cmds[s.cmd].loc - Start
                  /\ \E h \in code' : h.at = s.at /\ h.kind = s.mnem /\ h.cmd = s.cmd
    BY <1>3, <1>4, <1>11
  <2>3. \A h : Target(h)' = Target(h)  BY <1>1 DEF Target
  <2>4. QED
    BY <1>1, <2>1, <2>2 DEF JumpsKnown, Working, Target, End
<1>16. MovsKnown'
  <2>1. /\ Present' = Present /\ script_index \notin DOMAIN mem
        /\ \A k, i : CalleeOf(k, i)' = CalleeOf(k, i)
    <3>1. script_index = Len(mem) + 1 /\ mem \in Seq(PlacedScript)
      BY <1>1, <1>2 DEF IInv, Progress, TypeOK
    <3>2. QED  BY <1>1, <3>1 DEF Present, Working, CalleeOf
  <2> DEFINE NewCode(k) == IF k \in DOMAIN mem THEN mem[k].code ELSE code'
  <2>2. \A k, h : h.kind = "movrax" => (h \in NewCode(k) <=> h \in CodeOf(k))
    <3>1. \A h : h.kind = "movrax" => (h \in code' <=> h \in code)
      BY <1>6, <1>11
    <3>2. QED  BY <3>1 DEF CodeOf
  <2>3. MovsKnown' <=>
    /\ \A k \in Present' : \A h \in NewCode(k) : h.kind = "movrax" =>
         IF h.arg = 0
         THEN \E i \in DOMAIN call_relocs : call_relocs[i].script = k /\ call_relocs[i].at = h.at
         ELSE h.arg \in ScriptsAt(file, CalleeOf(k, h.cmd))
    /\ \A i \in DOMAIN call_relocs :
         LET s == call_relocs[i]
         IN /\ s.script \in Present'
            /\ \E h \in NewCode(s.script) :
                 /\ h.at = s.at /\ h.kind = "movrax" /\ h.len = 10 /\ h.arg = 0
                 /\ s.loc = CalleeOf(s.script, h.cmd)
    /\ \A i, j \in DOMAIN call_relocs :
         call_relocs[i].script = call_relocs[j].script /\ call_relocs[i].at = call_relocs[j].at
         => i = j
    BY <1>1 DEF MovsKnown, ScriptsAt, CalleeOf, CodeOf
  <2> HIDE DEF NewCode
  <2>4. QED  BY <1>1, <1>2, <2>1, <2>2, <2>3 DEF MovsKnown
<1>17. JumpsLand'  BY <1>1, <1>2 DEF JumpsLand, LandsOn, End
<1>18. QED  BY <1>12, <1>13, <1>14, <1>15, <1>16, <1>17 DEF LInv

(* All jumps of a script are patched when it is placed.                      *)
LEMMA PlaceKeeps ==
  ASSUME LInv, PlaceScript, IInv'
  PROVE  LInv'
<1> DEFINE n == Len(mem) + 1
<1>1. /\ phase = "patch" /\ phase' = "script" /\ jump_relocations = <<>>
      /\ file' = file /\ call_relocs' = call_relocs
  BY DEF PlaceScript
<1>2. /\ IInv /\ CodeOfCommands /\ LocationsFit /\ JumpsKnown /\ MovsKnown /\ JumpsLand
      /\ mem \in Seq(PlacedScript) /\ script_index = n /\ script_index \in DOMAIN file.scripts
      /\ pc \in Nat \ {0} /\ code \in SUBSET Fragment
  BY <1>1 DEF LInv, IInv, TypeOK, Progress
<1>3. /\ DOMAIN mem' = DOMAIN mem \cup {n} /\ n \notin DOMAIN mem
      /\ \A k \in DOMAIN mem : mem'[k] = mem[k]
      /\ mem'[n].code = code /\ DOMAIN mem' = 1 .. Len(mem')
      /\ DOMAIN mem = 1 .. Len(mem)
  <2> DEFINE placed == [code |-> code, len |-> len,
                        size |-> ((len + PageSize - 1) \div PageSize) * PageSize]
  <2>1. mem' = Append(mem, placed) /\ placed.code = code  BY DEF PlaceScript
  <2> HIDE DEF placed
  <2>2. /\ DOMAIN mem' = DOMAIN mem \cup {n} /\ n \notin DOMAIN mem
        /\ \A k \in DOMAIN mem : mem'[k] = mem[k]
        /\ mem'[n] = placed /\ DOMAIN mem' = 1 .. Len(mem')
        /\ DOMAIN mem = 1 .. Len(mem)
    BY <1>2, <2>1
  <2>3. QED  BY <2>1, <2>2
<1> HIDE DEF n
<1>4. /\ Current = file.scripts[n] /\ Current \in Script /\ Len(Current.cmds) \in Nat
      /\ Current.cmds \in Seq(Command) /\ Start = Current.start /\ Start \in Nat
  <2>1. Current \in Script /\ Start \in Nat  BY <1>2, CurrentIsScript
  <2>2. QED  BY <1>2, <2>1 DEF Current, Start, Script
<1>5. /\ Compiled(code, Current, pc - 1)
      /\ pc = IF Current.begin THEN Len(Current.cmds) + 1 ELSE 1
  BY <1>1, <1>2 DEF CodeOfCommands, Working
<1>6. CodeOfCommands'
  <2>1. Current.begin => Compiled(code, Current, Len(Current.cmds))
    <3>1. Current.begin => pc - 1 = Len(Current.cmds)  BY <1>4, <1>5
    <3>2. QED  BY <1>5, <3>1
  <2>2. ASSUME NEW k \in DOMAIN mem'
        PROVE  /\ k \in DOMAIN file.scripts
               /\ file.scripts[k].begin =>
                    Compiled(mem'[k].code, file.scripts[k], Len(file.scripts[k].cmds))
    <3>1. CASE k = n  BY <1>2, <1>3, <1>4, <2>1, <3>1
    <3>2. CASE k \in DOMAIN mem  BY <1>2, <1>3, <3>2 DEF CodeOfCommands
    <3>3. QED  BY <1>3, <3>1, <3>2
  <2>3. ~Working'  BY <1>1 DEF Working
  <2>4. QED  BY <1>1, <2>2, <2>3 DEF CodeOfCommands
<1>7. TriesKnown' /\ PushKnown' /\ LocationsFit' /\ JumpsKnown'
  BY <1>1 DEF TriesKnown, PushKnown, LocationsFit, JumpsKnown, Working
<1>8. MovsKnown'
  <2>1. /\ Present' = Present
        /\ \A k \in Present : CodeOf(k) = mem'[k].code /\ k \in DOMAIN mem'
    BY <1>1, <1>2, <1>3 DEF Present, Working, CodeOf
  <2>2. MovsKnown' <=>
    /\ \A k \in Present' : \A h \in (IF k \in DOMAIN mem' THEN mem'[k].code ELSE code') :
         h.kind = "movrax" =>
         IF h.arg = 0
         THEN \E i \in DOMAIN call_relocs : call_relocs[i].script = k /\ call_relocs[i].at = h.at
         ELSE h.arg \in ScriptsAt(file, CalleeOf(k, h.cmd))
    /\ \A i \in DOMAIN call_relocs :
         LET s == call_relocs[i]
         IN /\ s.script \in Present'
            /\ \E h \in (IF s.script \in DOMAIN mem' THEN mem'[s.script].code ELSE code') :
                 /\ h.at = s.at /\ h.kind = "movrax" /\ h.len = 10 /\ h.arg = 0
                 /\ s.loc = CalleeOf(s.script, h.cmd)
    /\ \A i, j \in DOMAIN call_relocs :
         call_relocs[i].script = call_relocs[j].script /\ call_relocs[i].at = call_relocs[j].at
         => i = j
    BY <1>1 DEF MovsKnown, ScriptsAt, CalleeOf, CodeOf
  <2>3. phase # "panic"  BY <1>1
  <2>4. QED  BY <1>2, <2>1, <2>2, <2>3 DEF MovsKnown
<1>9. JumpsLand'
  <2>1. ASSUME NEW f \in code, f.kind \in Mnemonics
        PROVE  \E t \in DOMAIN Current.cmds :
                 /\ Current.cmds[t].pos + Current.start = Current.cmds[f.cmd].loc
                 /\ \A g \in code :
                      IF g.cmd < t \/ (g.cmd = t /\ g.kind \in BeforeLocation)
                      THEN End(g) <= End(f) + f.arg ELSE g.at >= End(f) + f.arg
    <3>1. /\ f.cmd > 0 /\ Target(f) \in DOMAIN command_locations
          /\ End(f) + f.arg = command_locations[Target(f)]
      <4>1. DOMAIN jump_relocations = {}  BY <1>1
      <4>2. QED  BY <1>1, <1>2, <2>1, <4>1 DEF JumpsKnown, Working
    <3>2. /\ DOMAIN command_locations = {Current.cmds[i].pos : i \in 1 .. pc - 1}
          /\ \A i \in 1 .. pc - 1 :
               LET at == command_locations[Current.cmds[i].pos]
               IN at <= len /\ Lands(code, i, at)
      BY <1>1, <1>2 DEF LocationsFit, Working
    <3>3. PICK t \in 1 .. pc - 1 : Target(f) = Current.cmds[t].pos  BY <3>1, <3>2
    <3>4. Current.begin /\ pc - 1 = Len(Current.cmds)  BY <1>2, <1>4, <1>5, <3>3
    <3>5. t \in DOMAIN Current.cmds  BY <1>4, <3>3, <3>4
    <3>6. f.cmd \in DOMAIN Current.cmds
      <4>1. f.cmd \in 0 .. pc - 1  BY <1>5 DEF Compiled
      <4>2. QED  BY <1>4, <3>1, <3>4, <4>1
    <3>7. Current.cmds[t] \in Command /\ Current.cmds[f.cmd] \in Command
      BY <1>4, <3>5, <3>6
    <3>8. Current.cmds[t].pos \in Nat /\ Current.cmds[f.cmd].loc \in Nat
      BY <3>7 DEF Command
    <3>9. Current.cmds[t].pos = Current.cmds[f.cmd].loc - Start  BY <3>3 DEF Target
    <3>10. Current.cmds[t].pos + Current.start = Current.cmds[f.cmd].loc
      <4> DEFINE p == Current.cmds[t].pos
                 q == Current.cmds[f.cmd].loc
                 s == Current.start
      <4>1. p \in Nat /\ q \in Nat /\ s \in Nat /\ p = q - s  BY <1>4, <3>8, <3>9
      <4> HIDE DEF p, q, s
      <4>2. p + s = q  BY <4>1
      <4>3. QED  BY <4>2 DEF p, q, s
    <3>11. Lands(code, t, End(f) + f.arg)
      BY <3>1, <3>2, <3>3
    <3>12. QED  BY <3>5, <3>10, <3>11 DEF Lands
  <2>2. ASSUME NEW k \in 1 .. Len(mem'), NEW f \in mem'[k].code, f.kind \in Mnemonics
        PROVE  LET sc == file.scripts[k]
               IN \E t \in DOMAIN sc.cmds :
                    /\ sc.cmds[t].pos + sc.start = sc.cmds[f.cmd].loc
                    /\ \A g \in mem'[k].code :
                         IF g.cmd < t \/ (g.cmd = t /\ g.kind \in BeforeLocation)
                         THEN End(g) <= End(f) + f.arg ELSE g.at >= End(f) + f.arg
    <3>1. CASE k = n  BY <1>3, <1>4, <2>1, <2>2, <3>1
    <3>2. CASE k \in DOMAIN mem
      <4>1. mem'[k] = mem[k] /\ k \in 1 .. Len(mem)  BY <1>3, <3>2
      <4>2. f \in mem[k].code  BY <2>2, <4>1
      <4>3. \E t \in DOMAIN file.scripts[k].cmds :
              /\ file.scripts[k].cmds[t].pos + file.scripts[k].start
                   = file.scripts[k].cmds[f.cmd].loc
              /\ LandsOn(mem[k], f, t)
        BY <1>2, <2>2, <4>1, <4>2 DEF JumpsLand
      <4>4. QED  BY <4>1, <4>3 DEF LandsOn
    <3>3. QED  BY <1>3, <3>1, <3>2
  <2>3. QED  BY <1>1, <2>2 DEF JumpsLand, LandsOn, End
<1>10. QED  BY <1>6, <1>7, <1>8, <1>9 DEF LInv

(* Linking a call fills in the script of one MOV that had none.              *)
Links(k, f, g) ==
  /\ phase = "link" /\ phase' = "link" /\ UNCHANGED <<file, scriptVars>>
  /\ call_relocs # <<>> /\ call_relocs' = Tail(call_relocs)
  /\ k = call_relocs[1].script /\ k \in DOMAIN mem /\ f \in mem[k].code
  /\ f.at = call_relocs[1].at /\ f.kind = "movrax" /\ f.arg = 0
  /\ Filled(f, g) /\ g.arg \in ScriptsAt(file, CalleeOf(k, f.cmd)) /\ g.arg # 0
  /\ f = [g EXCEPT !.arg = 0] /\ f = [f EXCEPT !.arg = 0]
  /\ DOMAIN mem' = DOMAIN mem /\ \A j \in DOMAIN mem : j # k => mem'[j] = mem[j]
  /\ mem'[k].code = (mem[k].code \ {f}) \cup {g}
  /\ mem'[k].len = mem[k].len /\ mem'[k].size = mem[k].size

LEMMA LinkFills ==
  ASSUME LInv, LinkCall
  PROVE  \E k, f, g : Links(k, f, g)
<1> DEFINE r == call_relocs[1]
           k == r.script
<1>1. /\ phase = "link" /\ phase' = "link" /\ UNCHANGED <<file, scriptVars>>
      /\ call_relocs # <<>> /\ call_relocs' = Tail(call_relocs)
  BY DEF LinkCall
<1>2. /\ IInv /\ MovsKnown /\ call_relocs \in Seq(CallRelocation)
      /\ mem \in Seq(PlacedScript) /\ DOMAIN mem = 1 .. Len(mem)
  BY DEF LInv, IInv, TypeOK
<1>3. 1 \in DOMAIN call_relocs /\ Head(call_relocs) = r  BY <1>1, <1>2
<1>4. PICK target \in ScriptsAt(file, r.loc) :
        mem' = [mem EXCEPT ![k].code = Patch(@, r.at, target)]
  BY <1>3 DEF LinkCall
<1>5. target \in Int /\ target # 0  BY DEF ScriptsAt
<1>6. Present = DOMAIN mem  BY <1>1 DEF Present, Working
<1>7. /\ k \in DOMAIN mem
      /\ \E f \in mem[k].code : /\ f.at = r.at /\ f.kind = "movrax" /\ f.len = 10
                                /\ f.arg = 0 /\ r.loc = CalleeOf(k, f.cmd)
  BY <1>1, <1>2, <1>3, <1>6 DEF MovsKnown, CodeOf
<1> DEFINE m == mem[k]
<1>8. PICK f \in m.code : /\ f.at = r.at /\ f.kind = "movrax" /\ f.len = 10
                          /\ f.arg = 0 /\ r.loc = CalleeOf(k, f.cmd)
  BY <1>7
<1>9. m \in PlacedScript /\ m.code \in SUBSET Fragment /\ m.len \in Nat
      /\ Row(m.code, 0, m.len)
  <2>1. m \in PlacedScript  BY <1>2, <1>7
  <2>2. Row(m.code, 0, m.len)  BY <1>2, <1>7 DEF IInv, Rows
  <2>3. QED  BY <2>1, <2>2 DEF PlacedScript
<1> DEFINE g == [f EXCEPT !.arg = target]
           linked == (m.code \ {f}) \cup {g}
           p == [m EXCEPT !.code = linked]
<1> HIDE DEF k, r, m
<1>10. Patch(m.code, r.at, target) = linked
  BY <1>5, <1>8, <1>9, PatchReplaces
<1>11. /\ g.at = f.at /\ g.len = f.len /\ g.kind = f.kind /\ g.cmd = f.cmd
       /\ g.arg = target /\ f = [g EXCEPT !.arg = 0] /\ f = [f EXCEPT !.arg = 0]
  BY <1>5, <1>8, <1>9 DEF Fragment
<1> HIDE DEF g
<1>12. p.code = linked /\ p.len = m.len /\ p.size = m.size  BY <1>9 DEF PlacedScript
<1> HIDE DEF linked
<1>13. mem' = [mem EXCEPT ![k] = p]  BY <1>2, <1>4, <1>7, <1>10 DEF m
<1> HIDE DEF p
<1>14. /\ DOMAIN mem' = DOMAIN mem /\ \A j \in DOMAIN mem : j # k => mem'[j] = mem[j]
       /\ mem'[k] = p
  BY <1>2, <1>7, <1>13
<1>15. Filled(f, g) /\ g.arg \in ScriptsAt(file, CalleeOf(k, f.cmd)) /\ g.arg # 0
  BY <1>5, <1>8, <1>11 DEF Filled
<1>16. /\ mem'[k].code = (mem[k].code \ {f}) \cup {g}
       /\ mem'[k].len = mem[k].len /\ mem'[k].size = mem[k].size /\ f \in mem[k].code
  BY <1>12, <1>14 DEF m, linked
<1>17. Links(k, f, g)
  BY <1>1, <1>7, <1>8, <1>11, <1>14, <1>15, <1>16 DEF Links, k, r
<1>18. QED  BY <1>17

LEMMA LinkKeeps ==
  ASSUME LInv, LinkCall, IInv'
  PROVE  LInv'
<1>1. PICK k, f, g : Links(k, f, g)  BY LinkFills
<1>2. /\ phase = "link" /\ phase' = "link" /\ file' = file
      /\ call_relocs # <<>> /\ call_relocs' = Tail(call_relocs)
      /\ k = call_relocs[1].script /\ k \in DOMAIN mem /\ f \in mem[k].code
      /\ f.at = call_relocs[1].at /\ f.kind = "movrax" /\ f.arg = 0
      /\ Filled(f, g) /\ g.arg \in ScriptsAt(file, CalleeOf(k, f.cmd)) /\ g.arg # 0
      /\ DOMAIN mem' = DOMAIN mem /\ \A j \in DOMAIN mem : j # k => mem'[j] = mem[j]
      /\ mem'[k].code = (mem[k].code \ {f}) \cup {g}
  BY <1>1 DEF Links
<1>3. /\ IInv /\ CodeOfCommands /\ MovsKnown /\ JumpsLand /\ call_relocs \in Seq(CallRelocation)
      /\ mem \in Seq(PlacedScript) /\ DOMAIN mem = 1 .. Len(mem)
  BY DEF LInv, IInv, TypeOK
<1> DEFINE C == mem[k].code
           N == mem'[k].code
<1>4. C \in SUBSET Fragment /\ Row(C, 0, mem[k].len)
  <2>1. mem[k] \in PlacedScript  BY <1>2, <1>3
  <2>2. Row(C, 0, mem[k].len)  BY <1>2, <1>3 DEF IInv, Rows
  <2>3. QED  BY <2>1, <2>2 DEF PlacedScript
<1>5. \A h \in C : h.at = f.at => h = f
  <2>1. SUFFICES ASSUME NEW h \in C, h.at = f.at  PROVE h = f
    OBVIOUS
  <2>2. h.at \in Nat /\ h.len \in Nat /\ f.len \in Nat  BY <1>2, <1>4 DEF Fragment
  <2>3. h.len > 0 /\ f.len > 0  BY <1>2, <1>4 DEF Row
  <2>4. Overlap(h, f)  BY <2>1, <2>2, <2>3 DEF Overlap, End
  <2>5. QED  BY <1>2, <1>4, <2>4 DEF Row
<1>6. /\ g \in N /\ \A h \in N : h = g \/ (h \in C /\ h # f)
      /\ \A h \in C : h # f => h \in N
      /\ End(g) = End(f) /\ g.at = f.at /\ g.kind = f.kind /\ g.cmd = f.cmd /\ g.len = f.len
  BY <1>2 DEF Filled, End
<1>7. CodeOfCommands'
  <2>1. ASSUME NEW j \in DOMAIN mem'
        PROVE  /\ j \in DOMAIN file.scripts
               /\ file.scripts[j].begin =>
                    Compiled(mem'[j].code, file.scripts[j], Len(file.scripts[j].cmds))
    <3>1. /\ j \in DOMAIN file.scripts
          /\ file.scripts[j].begin =>
               Compiled(mem[j].code, file.scripts[j], Len(file.scripts[j].cmds))
      BY <1>2, <1>3 DEF CodeOfCommands
    <3>2. CASE j = k
      <4> DEFINE n == Len(file.scripts[j].cmds)
                 sc == file.scripts[j]
      <4> HIDE DEF n, sc
      <4>1. f.kind # "saveret"  BY <1>2
      <4>2. Compiled(C, sc, n) => Compiled((C \ {f}) \cup {g}, sc, n)
        BY <1>2, <4>1, FilledCode
      <4>3. QED  BY <1>2, <3>1, <3>2, <4>2 DEF n, sc
    <3>3. CASE j # k  BY <1>2, <3>1, <3>3
    <3>4. QED  BY <3>2, <3>3
  <2>2. ~Working'  BY <1>2 DEF Working
  <2>3. QED  BY <1>2, <2>1, <2>2 DEF CodeOfCommands
<1>8. TriesKnown' /\ PushKnown' /\ LocationsFit' /\ JumpsKnown'
  BY <1>2 DEF TriesKnown, PushKnown, LocationsFit, JumpsKnown, Working
<1>9. /\ \A j \in DOMAIN mem : \A h \in mem[j].code : h.kind = "movrax" =>
           IF h.arg = 0
           THEN \E i \in DOMAIN call_relocs : call_relocs[i].script = j /\ call_relocs[i].at = h.at
           ELSE h.arg \in ScriptsAt(file, CalleeOf(j, h.cmd))
      /\ \A i \in DOMAIN call_relocs :
           LET s == call_relocs[i]
           IN /\ s.script \in DOMAIN mem
              /\ \E h \in mem[s.script].code :
                   /\ h.at = s.at /\ h.kind = "movrax" /\ h.len = 10 /\ h.arg = 0
                   /\ s.loc = CalleeOf(s.script, h.cmd)
      /\ \A i, j \in DOMAIN call_relocs :
           call_relocs[i].script = call_relocs[j].script /\ call_relocs[i].at = call_relocs[j].at
           => i = j
  <2>1. Present = DOMAIN mem /\ phase # "panic"  BY <1>2 DEF Present, Working
  <2>2. QED  BY <1>3, <2>1 DEF MovsKnown, CodeOf
<1>10. /\ 1 \in DOMAIN call_relocs
       /\ \A i \in DOMAIN call_relocs' :
            i + 1 \in DOMAIN call_relocs /\ call_relocs'[i] = call_relocs[i + 1] /\ i + 1 # 1
            /\ i \in Nat
  BY <1>2, <1>3
<1>11. \A i \in DOMAIN call_relocs : i # 1 =>
         \E j \in DOMAIN call_relocs' : call_relocs'[j] = call_relocs[i]
  <2>1. \A i \in DOMAIN call_relocs : i # 1 =>
          i - 1 \in DOMAIN call_relocs' /\ call_relocs'[i - 1] = call_relocs[i]
    BY <1>2, <1>3
  <2>2. QED  BY <2>1
<1>12. ASSUME NEW j \in DOMAIN mem', NEW h \in mem'[j].code, h.kind = "movrax"
       PROVE  IF h.arg = 0
              THEN \E i \in DOMAIN call_relocs' :
                     call_relocs'[i].script = j /\ call_relocs'[i].at = h.at
              ELSE h.arg \in ScriptsAt(file, CalleeOf(j, h.cmd))
  <2>1. CASE j = k /\ h = g  BY <1>2, <1>6, <2>1
  <2>2. CASE h \in mem[j].code /\ ~(j = k /\ h = f)
    <3>1. CASE h.arg # 0  BY <1>2, <1>9, <1>12, <2>2, <3>1
    <3>2. CASE h.arg = 0
      <4>1. PICK i \in DOMAIN call_relocs : call_relocs[i].script = j /\ call_relocs[i].at = h.at
        BY <1>2, <1>9, <1>12, <2>2, <3>2
      <4>2. i # 1  BY <1>2, <1>5, <2>2, <4>1
      <4>3. PICK i2 \in DOMAIN call_relocs' : call_relocs'[i2] = call_relocs[i]
        BY <1>11, <4>2
      <4>4. QED  BY <3>2, <4>1, <4>3
    <3>3. QED  BY <3>1, <3>2
  <2>3. QED  BY <1>2, <1>6, <1>12, <2>1, <2>2
<1>13. ASSUME NEW i \in DOMAIN call_relocs'
       PROVE  LET s == call_relocs'[i]
              IN /\ s.script \in DOMAIN mem'
                 /\ \E h \in mem'[s.script].code :
                      /\ h.at = s.at /\ h.kind = "movrax" /\ h.len = 10 /\ h.arg = 0
                      /\ s.loc = CalleeOf(s.script, h.cmd)
  <2> DEFINE s == call_relocs'[i]
  <2>1. i + 1 \in DOMAIN call_relocs /\ s = call_relocs[i + 1] /\ i + 1 # 1
    BY <1>10
  <2>2. s.script \in DOMAIN mem
        /\ \E h \in mem[s.script].code :
              /\ h.at = s.at /\ h.kind = "movrax" /\ h.len = 10 /\ h.arg = 0
              /\ s.loc = CalleeOf(s.script, h.cmd)
    BY <1>9, <2>1
  <2>3. ~(s.script = k /\ s.at = f.at)
    <3>1. SUFFICES ASSUME s.script = call_relocs[1].script, s.at = call_relocs[1].at
                   PROVE  FALSE
      BY <1>2
    <3>2. i + 1 = 1  BY <1>9, <1>10, <2>1, <3>1
    <3>3. QED  BY <2>1, <3>2
  <2> HIDE DEF s
  <2>4. PICK h \in mem[s.script].code :
              /\ h.at = s.at /\ h.kind = "movrax" /\ h.len = 10 /\ h.arg = 0
              /\ s.loc = CalleeOf(s.script, h.cmd)
    BY <2>2
  <2>5. h \in mem'[s.script].code
    <3>1. CASE s.script = k  BY <1>6, <2>3, <2>4, <3>1
    <3>2. CASE s.script # k  BY <1>2, <2>2, <2>4, <3>2
    <3>3. QED  BY <3>1, <3>2
  <2>6. QED  BY <1>2, <2>2, <2>4, <2>5 DEF s
<1>14. \A i, j \in DOMAIN call_relocs' :
           call_relocs'[i].script = call_relocs'[j].script
           /\ call_relocs'[i].at = call_relocs'[j].at => i = j
  <2>1. SUFFICES ASSUME NEW i \in DOMAIN call_relocs', NEW j \in DOMAIN call_relocs',
                        call_relocs[i + 1].script = call_relocs[j + 1].script,
                        call_relocs[i + 1].at = call_relocs[j + 1].at
                 PROVE  i = j
    BY <1>10
  <2>2. i + 1 = j + 1 /\ i \in Nat /\ j \in Nat  BY <1>9, <1>10, <2>1
  <2>3. QED  BY <2>2
<1>15. MovsKnown'
  <2>1. Present' = DOMAIN mem' /\ phase' # "panic" /\ file' = file
    BY <1>2 DEF Present, Working
  <2>2. MovsKnown' <=>
    /\ \A j \in Present' : \A h \in (IF j \in DOMAIN mem' THEN mem'[j].code ELSE code') :
         h.kind = "movrax" =>
         IF h.arg = 0
         THEN \E i \in DOMAIN call_relocs' :
                call_relocs'[i].script = j /\ call_relocs'[i].at = h.at
         ELSE h.arg \in ScriptsAt(file, CalleeOf(j, h.cmd))
    /\ \A i \in DOMAIN call_relocs' :
         LET s == call_relocs'[i]
         IN /\ s.script \in Present'
            /\ \E h \in (IF s.script \in DOMAIN mem' THEN mem'[s.script].code ELSE code') :
                 /\ h.at = s.at /\ h.kind = "movrax" /\ h.len = 10 /\ h.arg = 0
                 /\ s.loc = CalleeOf(s.script, h.cmd)
    /\ \A i, j \in DOMAIN call_relocs' :
         call_relocs'[i].script = call_relocs'[j].script
         /\ call_relocs'[i].at = call_relocs'[j].at => i = j
    BY ONLY <2>1 DEF MovsKnown, ScriptsAt, CalleeOf, CodeOf
  <2>3. QED  BY ONLY <1>12, <1>13, <1>14, <2>1, <2>2
<1>16. JumpsLand'
  <2>1. ASSUME NEW j \in 1 .. Len(mem'), NEW h \in mem'[j].code, h.kind \in Mnemonics
        PROVE  LET sc == file.scripts[j]
               IN \E t \in DOMAIN sc.cmds :
                    /\ sc.cmds[t].pos + sc.start = sc.cmds[h.cmd].loc
                    /\ LandsOn(mem'[j], h, t)
    <3>1. j \in DOMAIN mem  BY <1>2, <1>3, IInv' DEF IInv, TypeOK
    <3>2. CASE j # k  BY <1>2, <1>3, <2>1, <3>1, <3>2 DEF JumpsLand
    <3>3. CASE j = k
      <4>1. h \in C /\ h # f  BY <1>2, <1>6, <2>1, <3>3 DEF Mnemonics
      <4>2. PICK t \in DOMAIN file.scripts[j].cmds :
              /\ file.scripts[j].cmds[t].pos + file.scripts[j].start = file.scripts[j].cmds[h.cmd].loc
              /\ LandsOn(mem[j], h, t)
        BY <1>3, <2>1, <3>1, <3>3, <4>1 DEF JumpsLand
      <4>3. LandsOn(mem[j], h, t) => LandsOn(mem'[j], h, t)
        BY <1>2, <1>6, <3>3 DEF LandsOn
      <4>4. QED  BY <4>2, <4>3
    <3>4. QED  BY <3>2, <3>3
  <2>2. QED  BY <1>2, <2>1 DEF JumpsLand, LandsOn, End
<1>17. QED  BY <1>7, <1>8, <1>15, <1>16 DEF LInv
-----------------------------------------------------------------------------
(* The invariant holds.                                                     *)

LEMMA InitLinking == Init => LInv
<1> SUFFICES ASSUME Init PROVE LInv
  OBVIOUS
<1>1. IInv  BY InitInvariant
<1>2. DOMAIN mem = {} /\ DOMAIN call_relocs = {} /\ phase = "script"  BY DEF Init
<1>3. CodeOfCommands /\ TriesKnown /\ PushKnown /\ LocationsFit /\ JumpsKnown
  BY <1>2 DEF CodeOfCommands, TriesKnown, PushKnown, LocationsFit, JumpsKnown, Working
<1>4. MovsKnown
  <2>1. Present = {}  BY <1>2 DEF Present, Working
  <2>2. QED  BY <1>2, <2>1 DEF MovsKnown
<1>5. JumpsLand
  <2>1. Len(mem) = 0  BY DEF Init
  <2>2. QED  BY <2>1 DEF JumpsLand
<1>6. QED  BY <1>1, <1>3, <1>4, <1>5 DEF LInv

LEMMA NextLinking == LInv /\ [Next]_vars => LInv'
<1> SUFFICES ASSUME LInv, [Next]_vars PROVE LInv'
  OBVIOUS
<1>1. IInv /\ IInv'  BY NextInvariant DEF LInv
<1>2. CASE StartScript \/ StartBareScript  BY <1>1, <1>2, StartKeeps
<1>3. CASE CompileTemplate \/ CompileJump \/ CompileIf \/ CompileCall
  BY <1>1, <1>3, EveryRound, RoundStep
<1>4. CASE CompilePanic \/ PatchPanic \/ LinkPanic
  BY <1>1, <1>4, PhaseKeeps DEF CompilePanic, PatchPanic, LinkPanic
<1>5. CASE EndCommands  BY <1>1, <1>5, PhaseKeeps DEF EndCommands
<1>6. CASE PatchJump  BY <1>1, <1>6, PatchKeeps
<1>7. CASE PlaceScript  BY <1>1, <1>7, PlaceKeeps
<1>8. CASE EndScripts  BY <1>1, <1>8, PhaseKeeps DEF EndScripts
<1>9. CASE LinkCall  BY <1>1, <1>9, LinkKeeps
<1>10. CASE Finish  BY <1>1, <1>10, PhaseKeeps DEF Finish
<1>11. CASE Stopped \/ UNCHANGED vars
  BY <1>1, <1>11, PhaseKeeps DEF Stopped, vars
<1>12. QED
  BY <1>2, <1>3, <1>4, <1>5, <1>6, <1>7, <1>8, <1>9, <1>10, <1>11 DEF Next

LEMMA LinkingInvariance == Spec => []LInv
<1>1. QED  BY InitLinking, NextLinking, PTL DEF Spec

(* compile() answers only when every call is linked.                         *)
AllLinked == phase = "some" => call_relocs = <<>>

LEMMA LinkedInvariance == Spec => []AllLinked
<1>1. Init => AllLinked  BY DEF Init, AllLinked
<1>2. AllLinked /\ [Next]_vars => AllLinked'
  <2> SUFFICES ASSUME AllLinked, [Next]_vars, phase' = "some"  PROVE call_relocs' = <<>>
    BY DEF AllLinked
  <2>1. CASE StartScript \/ StartBareScript
    BY <2>1 DEF StartScript, StartBareScript
  <2>2. CASE CompileTemplate \/ CompileJump \/ CompileIf \/ CompileCall
    BY <2>2 DEF CompileTemplate, CompileJump, CompileIf, CompileCall, Compiling, Advance
  <2>3. CASE CompilePanic \/ PatchPanic \/ LinkPanic \/ EndCommands \/ EndScripts
    BY <2>3 DEF CompilePanic, PatchPanic, LinkPanic, EndCommands, EndScripts
  <2>4. CASE PatchJump \/ PlaceScript \/ LinkCall
    BY <2>4 DEF PatchJump, PlaceScript, LinkCall
  <2>5. CASE Finish  BY <2>5 DEF Finish
  <2>6. CASE Stopped \/ UNCHANGED vars  BY <2>6 DEF Stopped, vars, AllLinked
  <2>7. QED  BY <2>1, <2>2, <2>3, <2>4, <2>5, <2>6 DEF Next
<1>3. QED  BY <1>1, <1>2, PTL DEF Spec

(* However jumps and their targets are ordered, and whatever calls take      *)
(* back in between, a patched jump lands where its target's code begins.     *)
THEOREM AlwaysLands == Spec => []JumpsLand
<1>1. LInv => JumpsLand  BY DEF LInv
<1>2. QED  BY <1>1, LinkingInvariance, PTL

(* RAX is pushed before exactly the commands that an earlier Try names.       *)
THEOREM AlwaysPushesReturns == Spec => []ReturnValuesPushed
<1>1. LInv => ReturnValuesPushed
  <2> SUFFICES ASSUME LInv, NEW k \in 1 .. Len(mem), file.scripts[k].begin,
                      NEW i \in DOMAIN file.scripts[k].cmds
               PROVE  LET pushes == {f \in mem[k].code : f.kind = "saveret" /\ f.cmd = i}
                      IN IF Wanted(file.scripts[k], i)
                         THEN \E f \in pushes :
                                /\ pushes = {f}
                                /\ \A g \in mem[k].code :
                                     g.cmd = i /\ g # f => g.at >= End(f)
                         ELSE pushes = {}
    BY DEF ReturnValuesPushed, Wanted
  <2> DEFINE sc == file.scripts[k]
             n == Len(sc.cmds)
  <2>1. k \in DOMAIN mem  BY DEF LInv, IInv, TypeOK
  <2>2. k \in DOMAIN file.scripts /\ Compiled(mem[k].code, sc, n)
    BY <2>1 DEF LInv, CodeOfCommands
  <2>3. i \in 1 .. n
    <3>1. file.scripts \in Seq(Script)  BY DEF LInv, IInv, TypeOK, File
    <3>2. sc \in Script  BY <2>2, <3>1
    <3>3. sc.cmds \in Seq(Command)  BY <3>2 DEF Script
    <3>4. QED  BY <3>3
  <2> HIDE DEF n
  <2>4. /\ ReturnPushed(mem[k].code, sc, i)
        /\ \A f, g \in mem[k].code : f.cmd = g.cmd /\ f.kind = g.kind => f = g
    BY <2>2, <2>3 DEF Compiled
  <2>5. QED  BY <2>4 DEF ReturnPushed
<1>2. QED  BY <1>1, LinkingInvariance, PTL

(* When compile() accepts a file, each of its calls goes through one MOV of    *)
(* the script pushed before it, and that push is gone.                        *)
THEOREM AlwaysLinked == Spec => []CallsLinked
<1>1. LInv /\ AllLinked => CallsLinked
  <2> SUFFICES ASSUME LInv, AllLinked, phase = "some",
                      NEW k \in 1 .. Len(mem), NEW i \in DOMAIN file.scripts[k].cmds,
                      file.scripts[k].begin, file.scripts[k].cmds[i].op \in Calls
               PROVE  LET sc   == file.scripts[k]
                          movs == {f \in mem[k].code : f.kind = "movrax" /\ f.cmd = i}
                      IN /\ i > 1 /\ sc.cmds[i-1].op \in Immediates
                         /\ \E f \in movs : /\ movs = {f}
                                            /\ f.arg \in ScriptsAt(file, sc.cmds[i-1].val)
                         /\ \A f \in mem[k].code : ~(f.kind = "pushimm" /\ f.cmd = i - 1)
    BY DEF CallsLinked
  <2> DEFINE sc == file.scripts[k]
             n == Len(sc.cmds)
             movs == {f \in mem[k].code : f.kind = "movrax" /\ f.cmd = i}
  <2>1. k \in DOMAIN mem  BY DEF LInv, IInv, TypeOK
  <2>2. k \in DOMAIN file.scripts /\ Compiled(mem[k].code, sc, n)
    BY <2>1 DEF LInv, CodeOfCommands
  <2>3. i \in 1 .. n
    <3>1. file.scripts \in Seq(Script)  BY DEF LInv, IInv, TypeOK, File
    <3>2. sc \in Script  BY <2>2, <3>1
    <3>3. sc.cmds \in Seq(Command)  BY <3>2 DEF Script
    <3>4. QED  BY <3>3
  <2> HIDE DEF n
  <2>4. /\ CallMade(mem[k].code, sc, i)
        /\ \A f, g \in mem[k].code : f.cmd = g.cmd /\ f.kind = g.kind => f = g
    BY <2>2, <2>3 DEF Compiled
  <2>5. PICK f \in movs : movs = {f}  BY <2>4 DEF CallMade
  <2>6. DOMAIN call_relocs = {}  BY DEF AllLinked
  <2>7. k \in Present /\ CodeOf(k) = mem[k].code  BY <2>1 DEF Present, CodeOf
  <2>8. f.arg \in ScriptsAt(file, CalleeOf(k, i))
    BY <2>5, <2>6, <2>7 DEF LInv, MovsKnown
  <2>9. QED  BY <2>4, <2>5, <2>8 DEF CallMade, CalleeOf
<1>2. QED  BY <1>1, LinkingInvariance, LinkedInvariance, PTL

(* Linking stores the address of each call once and changes no other byte of   *)
(* a placed script.                                                           *)
THEOREM LinkingFillsCalls == Spec => LinkingOnlyFillsCalls
<1> DEFINE Zero(f) == [f EXCEPT !.arg = IF @ # 0 /\ f.kind = "movrax" THEN 0 ELSE @]
           Unlinked(m) == {Zero(f) : f \in m.code}
           Kept(k) == /\ Unlinked(mem'[k]) = Unlinked(mem[k])
                      /\ mem'[k].len = mem[k].len /\ mem'[k].size = mem[k].size
                      /\ \A f \in mem[k].code :
                           f.kind = "movrax" /\ f.arg # 0 => f \in mem'[k].code
<1>1. ASSUME NEW k, mem'[k] = mem[k]  PROVE Kept(k)
  BY <1>1
<1>2. ASSUME NEW k, NEW f, NEW g, Links(k, f, g)  PROVE Kept(k)
  <2>1. /\ f \in mem[k].code /\ f.kind = "movrax" /\ f.arg = 0 /\ Filled(f, g) /\ g.arg # 0
        /\ f = [g EXCEPT !.arg = 0] /\ f = [f EXCEPT !.arg = 0]
        /\ mem'[k].code = (mem[k].code \ {f}) \cup {g}
        /\ mem'[k].len = mem[k].len /\ mem'[k].size = mem[k].size
    BY <1>2 DEF Links
  <2>2. Zero(g) = f /\ Zero(f) = f  BY <2>1 DEF Filled
  <2> HIDE DEF Zero
  <2>3. Unlinked(mem'[k]) = Unlinked(mem[k])  BY <2>1, <2>2
  <2>4. QED  BY <2>1, <2>3
<1> HIDE DEF Kept
<1>3. ASSUME LInv, [Next]_vars, NEW k \in 1 .. Len(mem), mem' # mem  PROVE Kept(k)
  <2>0. k \in DOMAIN mem /\ mem \in Seq(PlacedScript)  BY <1>3 DEF LInv, IInv, TypeOK
  <2>1. CASE PlaceScript
    <3>1. PICK p : mem' = Append(mem, p)  BY <2>1 DEF PlaceScript
    <3>2. mem'[k] = mem[k]  BY <2>0, <3>1
    <3>3. QED  BY <1>1, <3>2
  <2>2. CASE LinkCall
    <3>1. PICK j, f, g : Links(j, f, g)  BY <1>3, <2>2, LinkFills
    <3>2. CASE k = j  BY <1>2, <3>1, <3>2
    <3>3. CASE k # j
      <4>1. mem'[k] = mem[k]  BY <2>0, <3>1, <3>3 DEF Links
      <4>2. QED  BY <1>1, <4>1
    <3>4. QED  BY <3>2, <3>3
  <2>3. PlaceScript \/ LinkCall
    BY <1>3 DEF Next, vars, StartScript, StartBareScript, CompileTemplate, CompileJump, CompileIf,
                CompileCall, Advance, CompilePanic, PatchPanic, LinkPanic, EndCommands,
                EndScripts, PatchJump, Finish, Stopped
  <2>4. QED  BY <2>1, <2>2, <2>3
<1>4. LInv /\ [Next]_vars => [\A k \in 1 .. Len(mem) : Kept(k)]_mem
  BY <1>3
<1>5. QED
  BY <1>4, LinkingInvariance, PTL DEF Spec, LinkingOnlyFillsCalls, Kept
=============================================================================
