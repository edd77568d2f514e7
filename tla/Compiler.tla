------------------------------ MODULE Compiler ------------------------------
(***************************************************************************)
(* MscsbFile::compile (src/jit/x86/mod.rs): one pass over the commands of   *)
(* each script that writes x86 code at a byte cursor, then the relocation   *)
(* of the script's jumps, then, after all scripts, the linking of calls.    *)
(*                                                                         *)
(* The code buffer is a set of fragments: a run of bytes written by one     *)
(* statement of compile(), with its offset and length.  A write at the      *)
(* cursor destroys every fragment it overlaps, so a rewind or a patch that  *)
(* cuts an instruction leaves a hole that the properties see.               *)
(***************************************************************************)
EXTENDS Msc

CONSTANTS
  Files,            \* the MSC files that may be compiled
  Encoded(_, _),    \* bytes x86asm needs for a fragment kind of a command
  PageSize,         \* PAGE_SIZE
  OverflowChecks    \* TRUE in a debug build: arithmetic that overflows panics

(* What every MSC compiler writes: commands in increasing positions, and a   *)
(* function pointer that is really pushed right before its call, with no     *)
(* return value expected between the two.                                    *)
KeepsValueAt(sc, i) ==
  \E t \in DOMAIN sc.cmds : /\ sc.cmds[t].op = "Try" /\ sc.cmds[t].push
                           /\ sc.cmds[t].loc = sc.start + sc.cmds[i].pos
WellFormed(sc) ==
  /\ \A i, j \in DOMAIN sc.cmds : i < j => sc.cmds[i].pos < sc.cmds[j].pos
  /\ \A i \in DOMAIN sc.cmds :
       sc.cmds[i].op \in Calls =>
         /\ ~KeepsValueAt(sc, i)
         /\ i > 1 => /\ sc.cmds[i-1].op \in Immediates => sc.cmds[i-1].push
                     /\ ~(sc.cmds[i-1].op = "PrintF" /\ sc.cmds[i-1].argc = 0)

ASSUME FilesAssumption ==
  \A f \in Files : /\ f \in File
                   /\ \A k \in DOMAIN f.scripts : WellFormed(f.scripts[k])

ASSUME EncodedAssumption ==
  \A f \in Files : \A k \in DOMAIN f.scripts :
    /\ Encoded("prologue", f.scripts[k]) \in Nat \ {0}
    /\ \A i \in DOMAIN f.scripts[k].cmds :
         \A kind \in {"body", "test", "popargs", "dropargs"} :
           Encoded(kind, f.scripts[k].cmds[i]) \in Nat \ {0}

ASSUME SettingsAssumption == PageSize \in Nat \ {0} /\ OverflowChecks \in BOOLEAN

VARIABLES
  file,                 \* self
  phase,                \* which loop of compile() is running, or its outcome
  script_index,         \* the script being compiled, from 1
  pc,                   \* its next command
  code,                 \* fragments in the writer's buffer
  cursor,               \* writer position
  len,                  \* buffer length
  last_cmd_pushint,     \* <<>> for None, <<val>> for Some(val)
  ret_val_locations,    \* absolute locations that receive a return value
  jump_relocations,     \* jumps to patch when the script is complete
  command_locations,    \* command position -> code offset
  call_relocs,          \* calls to patch when all scripts are placed
  mem                   \* the placed scripts: the JitMemory vector

scriptVars == <<script_index, pc, code, cursor, len, last_cmd_pushint,
                ret_val_locations, jump_relocations, command_locations>>
vars == <<file, phase, scriptVars, call_relocs, mem>>
-----------------------------------------------------------------------------
(* Fragments.                                                              *)

(* cmd is the index of the command a fragment was written for, 0 for the    *)
(* prologue; arg is a jump's displacement or a call's script, 0 before it   *)
(* is patched.                                                              *)
Mnemonics == {"JMP", "JE", "JNE"}
FixedKinds == {"ret", "saveret", "pushimm", "movrax", "callrax"} \cup Mnemonics
SizedKinds == {"prologue", "body", "test", "popargs", "dropargs"}
Fragment == [at : Nat, len : Nat, kind : FixedKinds \cup SizedKinds,
             cmd : Nat, arg : Int]

JumpRelocation == [at : Nat, mnem : Mnemonics, target : Int, cmd : Nat]
CallRelocation == [script : Nat \ {0}, at : Nat, loc : Nat]
PlacedScript   == [code : SUBSET Fragment, len : Nat, size : Nat]

(* external: x86-64 encoding lengths of RET, PUSH RAX, PUSH imm32,          *)
(* MOV RAX imm64, CALL RAX, JMP rel32 and Jcc rel32.                        *)
Bytes(kind, c) ==
  CASE kind \in {"ret", "saveret"} -> 1
    [] kind = "callrax"            -> 2
    [] kind \in {"pushimm", "JMP"} -> 5
    [] kind \in {"JE", "JNE"}      -> 6
    [] kind = "movrax"             -> 10
    [] OTHER                       -> Encoded(kind, c)

End(f) == f.at + f.len
Overlap(f, g) == f.at < End(g) /\ g.at < End(f)

(* external: writing at a position of the Cursor overwrites what is there.  *)
Write(frags, new) ==
  {f \in frags : \A g \in new : ~Overlap(f, g)} \cup new

(* external: the buffer grows when a write passes its end.                  *)
Grown(end) == IF end > len THEN end ELSE len

-----------------------------------------------------------------------------
(* The command being compiled.                                             *)
Current  == file.scripts[script_index]
Cmd      == Current.cmds[pc]
Start    == Current.start

(* if ret_val_locations.contains(..) { writer.push(RAX) }: the locations are *)
(* absolute, a command's position is relative to its script.                *)
MutReturnsHere == Cmd.pos \in ret_val_locations
ReturnsHere == Cmd.pos + Start \in ret_val_locations
Here        == IF ReturnsHere THEN cursor + Bytes("saveret", Cmd) ELSE cursor

At(kind, offset) == [at |-> offset, len |-> Bytes(kind, Cmd), kind |-> kind,
                     cmd |-> pc, arg |-> 0]
SavedReturn == IF ReturnsHere THEN {At("saveret", cursor)} ELSE {}

(* The arms of the match that write no code for the command.                *)
EmitsNothing(c) ==
  \/ c.op \in {"Try", "Nop"}
  \/ c.op \in Immediates \cup FloatCompares \cup {"Push"} /\ ~c.push
  \/ c.op = "Pop" /\ c.push
  \/ c.op = "PrintF" /\ c.argc = 0

(* Arithmetic that overflows while the command is compiled: u8 on the number *)
(* of arguments; in the moves of the stack arguments, i in 0 .. argc - 7,    *)
(* u64 in i * 8 + (2^64 - 0x30), which comes before the u8 of (argc - 6) * 8; *)
(* u32 on locations.                                                        *)
Overflows(c) ==
  \/ c.op \in Foreign /\ 8 * c.argc > 255
  \/ c.op \in Calls /\ 8 * (c.argc - 7) >= 48
  \/ c.op \in Jumps \cup Ifs /\ c.loc < Start

(* Bytes of the function pointer push that a call takes back.               *)
MutRewindBytes == 6
RewindBytes == 5

(* The commands on which compile() panics.                                  *)
Panics(c) ==
  \/ c.op \in Unsupported \cup {"Begin"}
  \/ c.op \in Calls /\ (last_cmd_pushint = <<>> \/ Here < RewindBytes)
  \/ OverflowChecks /\ Overflows(c)

(* last_cmd_pushint = match cmd.cmd { .. } at the end of the loop body.     *)
MutPushedBy(c) == IF c.op \in Immediates THEN <<c.val>> ELSE last_cmd_pushint
PushedBy(c) == IF c.op \in Immediates THEN <<c.val>> ELSE <<>>

MutLocate(offset) ==
  [p \in DOMAIN command_locations \cup {Cmd.pos} |->
     IF p = Cmd.pos THEN offset - Start ELSE command_locations[p]]
Locate(offset) ==
  [p \in DOMAIN command_locations \cup {Cmd.pos} |->
     IF p = Cmd.pos THEN offset ELSE command_locations[p]]
-----------------------------------------------------------------------------
Init ==
  /\ file \in Files
  /\ phase = "script" /\ script_index = 1 /\ pc = 1
  /\ code = {} /\ cursor = 0 /\ len = 0
  /\ last_cmd_pushint = <<>> /\ ret_val_locations = {}
  /\ jump_relocations = <<>> /\ command_locations = <<>>
  /\ call_relocs = <<>> /\ mem = <<>>

(* The head of the loop body for a script that begins with Begin: fresh     *)
(* tables, the stack frame and the moves of the arguments.                  *)
StartScript ==
  /\ phase = "script" /\ script_index <= Len(file.scripts) /\ Current.begin
  /\ LET prologue == [at |-> 0, len |-> Encoded("prologue", Current),
                      kind |-> "prologue", cmd |-> 0, arg |-> 0]
     IN /\ code' = {prologue}
        /\ cursor' = End(prologue) /\ len' = End(prologue)
  /\ phase' = "commands" /\ pc' = 1
  /\ last_cmd_pushint' = <<>> /\ ret_val_locations' = {}
  /\ jump_relocations' = <<>> /\ command_locations' = <<>>
  /\ UNCHANGED <<file, script_index, call_relocs, mem>>

(* A script that does not begin with Begin compiles to a single RET.        *)
StartBareScript ==
  /\ phase = "script" /\ script_index <= Len(file.scripts) /\ ~Current.begin
  /\ code' = {[at |-> 0, len |-> 1, kind |-> "ret", cmd |-> 0, arg |-> 0]}
  /\ cursor' = 1 /\ len' = 1
  /\ phase' = "patch" /\ pc' = 1
  /\ last_cmd_pushint' = <<>> /\ ret_val_locations' = {}
  /\ jump_relocations' = <<>> /\ command_locations' = <<>>
  /\ UNCHANGED <<file, script_index, call_relocs, mem>>

(* What every iteration over the commands begins with.                      *)
Compiling(ops) ==
  /\ phase = "commands" /\ pc <= Len(Current.cmds)
  /\ Cmd.op \in ops /\ ~Panics(Cmd)

(* What every iteration ends with: new fragments in the buffer, the cursor  *)
(* at their end, the next command.                                          *)
Advance(frags, end) ==
  /\ code' = frags
  /\ cursor' = end
  /\ len' = Grown(end)
  /\ pc' = pc + 1
  /\ UNCHANGED <<file, phase, script_index, mem>>

(* Every command whose code is one template without relocations.  A Try     *)
(* that keeps its value also records where the value is expected.           *)
CompileTemplate ==
  /\ Compiling(Opcodes \ (Unsupported \cup Jumps \cup Ifs \cup Calls
                            \cup {"Begin"}))
  /\ LET kind == IF Cmd.op \in Immediates THEN "pushimm" ELSE "body"
         body == At(kind, Here)
     IN IF EmitsNothing(Cmd)
        THEN Advance(Write(code, SavedReturn), Here)
        ELSE Advance(Write(code, SavedReturn \cup {body}), End(body))
  /\ command_locations' = Locate(Here)
  /\ ret_val_locations' = IF Cmd.op = "Try" /\ Cmd.push
                          THEN ret_val_locations \cup {Cmd.loc}
                          ELSE ret_val_locations
  /\ last_cmd_pushint' = IF Cmd.op = "PrintF" /\ Cmd.argc = 0
                         THEN last_cmd_pushint       \* the arm's `continue`
                         ELSE PushedBy(Cmd)
  /\ UNCHANGED <<jump_relocations, call_relocs>>

Relocation(mnem, offset) ==
  [at |-> offset, mnem |-> mnem, target |-> Cmd.loc - Start, cmd |-> pc]

CompileJump ==
  /\ Compiling(Jumps)
  /\ LET jump == At("JMP", Here)
     IN Advance(Write(code, SavedReturn \cup {jump}), End(jump))
  /\ command_locations' = Locate(Here)
  /\ jump_relocations' = Append(jump_relocations, Relocation("JMP", Here))
  /\ last_cmd_pushint' = <<>>
  /\ UNCHANGED <<ret_val_locations, call_relocs>>

(* POP RAX; CMP RAX, 0, then the conditional jump that is relocated.        *)
CompileIf ==
  /\ Compiling(Ifs)
  /\ LET test == At("test", Here)
         mnem == IF Cmd.op = "If" THEN "JE" ELSE "JNE"
         jump == At(mnem, End(test))
     IN /\ Advance(Write(code, SavedReturn \cup {test, jump}), End(jump))
        /\ jump_relocations' =
             Append(jump_relocations, Relocation(mnem, End(test)))
  /\ command_locations' = Locate(Here)
  /\ last_cmd_pushint' = <<>>
  /\ UNCHANGED <<ret_val_locations, call_relocs>>

(* A call takes back the push of the function pointer just written and      *)
(* writes, in its place, the moves of the arguments, the call through RAX   *)
(* and the removal of the stack arguments.  The location of the command is  *)
(* overwritten with that of the MOV, after the moves.                       *)
CompileCall ==
  /\ Compiling(Calls)
  /\ LET args == At("popargs", Here - RewindBytes)
         mov  == At("movrax", IF Cmd.argc > 0 THEN End(args)
                                              ELSE Here - RewindBytes)
         call == At("callrax", End(mov))
         drop == At("dropargs", End(call))
         new  == {mov, call} \cup (IF Cmd.argc > 0 THEN {args} ELSE {})
                             \cup (IF Cmd.argc > 6 THEN {drop} ELSE {})
     IN /\ Advance(Write(Write(code, SavedReturn), new),
                   IF Cmd.argc > 6 THEN End(drop) ELSE End(call))
        /\ command_locations' = Locate(mov.at)
        /\ call_relocs' = Append(call_relocs,
             [script |-> script_index, at |-> mov.at,
              loc |-> last_cmd_pushint[1]])
  /\ last_cmd_pushint' = <<>>
  /\ UNCHANGED <<ret_val_locations, jump_relocations>>

(* panic!, unreachable arithmetic and failed unwraps end the process.       *)
CompilePanic ==
  /\ phase = "commands" /\ pc <= Len(Current.cmds) /\ Panics(Cmd)
  /\ phase' = "panic"
  /\ UNCHANGED <<file, scriptVars, call_relocs, mem>>

EndCommands ==
  /\ phase = "commands" /\ pc > Len(Current.cmds)
  /\ phase' = "patch"
  /\ UNCHANGED <<file, scriptVars, call_relocs, mem>>
-----------------------------------------------------------------------------
(* The length compile() takes each jump to have.                            *)
MutJumpLength(mnem) == 5
JumpLength(mnem) == IF mnem = "JMP" THEN 5 ELSE 6

(* for relocation in jump_relocations: the jump is written again with its   *)
(* displacement.                                                            *)
PatchJump ==
  /\ phase = "patch" /\ jump_relocations # <<>>
  /\ LET r == Head(jump_relocations)
         jump == [at |-> r.at, len |-> Bytes(r.mnem, r), kind |-> r.mnem,
                  cmd |-> r.cmd,
                  arg |-> command_locations[r.target] - r.at
                            - JumpLength(r.mnem)]
     IN /\ r.target \in DOMAIN command_locations
        /\ code' = Write(code, {jump})
        /\ cursor' = End(jump)
  /\ jump_relocations' = Tail(jump_relocations)
  /\ UNCHANGED <<file, phase, script_index, pc, len, last_cmd_pushint,
                 ret_val_locations, command_locations, call_relocs, mem>>

(* command_locations.get(..).unwrap(): no command starts at the target.  A  *)
(* location before the script, which wraps around in a release build, ends  *)
(* here too.                                                                *)
PatchPanic ==
  /\ phase = "patch" /\ jump_relocations # <<>>
  /\ Head(jump_relocations).target \notin DOMAIN command_locations
  /\ phase' = "panic"
  /\ UNCHANGED <<file, scriptVars, call_relocs, mem>>

(* The buffer is copied into whole pages of its own.                        *)
PlaceScript ==
  /\ phase = "patch" /\ jump_relocations = <<>>
  /\ mem' = Append(mem, [code |-> code, len |-> len,
                         size |-> ((len + PageSize - 1) \div PageSize)
                                    * PageSize])
  /\ script_index' = script_index + 1
  /\ phase' = "script"
  /\ UNCHANGED <<file, pc, code, cursor, len, last_cmd_pushint,
                 ret_val_locations, jump_relocations, command_locations,
                 call_relocs>>

EndScripts ==
  /\ phase = "script" /\ script_index > Len(file.scripts)
  /\ phase' = "link"
  /\ UNCHANGED <<file, scriptVars, call_relocs, mem>>

(* *(contents + pos + 2) = call_addr: eight bytes, meant to be the          *)
(* immediate of a MOV RAX at pos, whose opcode takes two bytes.             *)
MutImmediateAt(pos) == pos + 10
ImmediateAt(pos) == pos + 2
Patch(frags, pos, target) ==
  LET imm == [at |-> ImmediateAt(pos), len |-> 8]
  IN {f \in frags : ~Overlap(f, imm)}
       \cup {[f EXCEPT !.arg = target] :
               f \in {g \in frags : g.kind = "movrax" /\ g.at + 2 = imm.at}}

LinkCall ==
  /\ phase = "link" /\ call_relocs # <<>>
  /\ LET r == Head(call_relocs)
     IN \E k \in ScriptsAt(file, r.loc) :
          mem' = [mem EXCEPT ![r.script].code = Patch(@, r.at, k)]
  /\ call_relocs' = Tail(call_relocs)
  /\ UNCHANGED <<file, phase, scriptVars>>

(* get_script_from_loc(..).unwrap(): the pushed constant is no function.    *)
LinkPanic ==
  /\ phase = "link" /\ call_relocs # <<>>
  /\ ScriptsAt(file, Head(call_relocs).loc) = {}
  /\ phase' = "panic"
  /\ UNCHANGED <<file, scriptVars, call_relocs, mem>>

(* get_script_from_loc(self.entrypoint)?: compile() answers Some or None.   *)
Finish ==
  /\ phase = "link" /\ call_relocs = <<>>
  /\ phase' = IF ScriptsAt(file, file.entry) = {} THEN "none" ELSE "some"
  /\ UNCHANGED <<file, scriptVars, call_relocs, mem>>

(* compile() has returned or the process has ended.                         *)
Stopped == phase \in {"panic", "none", "some"} /\ UNCHANGED vars

Next ==
  \/ StartScript \/ StartBareScript
  \/ CompileTemplate \/ CompileJump \/ CompileIf \/ CompileCall \/ CompilePanic
  \/ EndCommands \/ PatchJump \/ PatchPanic \/ PlaceScript
  \/ EndScripts \/ LinkCall \/ LinkPanic \/ Finish
  \/ Stopped

Spec == Init /\ [][Next]_vars
-----------------------------------------------------------------------------
(* Properties.                                                             *)

(* The variables hold values of their types; at most one pushed constant is *)
(* remembered.                                                              *)
TypeOK ==
  /\ file \in File
  /\ phase \in {"script", "commands", "patch", "link",
                "panic", "none", "some"}
  /\ script_index \in Nat \ {0} /\ pc \in Nat \ {0}
  /\ code \in SUBSET Fragment /\ cursor \in Nat /\ len \in Nat
  /\ last_cmd_pushint \in Seq(Nat) /\ Len(last_cmd_pushint) <= 1
  /\ ret_val_locations \in SUBSET Nat
  /\ jump_relocations \in Seq(JumpRelocation)
  /\ DOMAIN command_locations \in SUBSET Nat
  /\ \A p \in DOMAIN command_locations : command_locations[p] \in Nat
  /\ call_relocs \in Seq(CallRelocation)
  /\ mem \in Seq(PlacedScript)

(* Whole instructions from one offset to another: no byte is in two         *)
(* fragments and none is left over from a fragment that was cut.            *)
Row(frags, from, to) ==
  /\ \A f \in frags : f.len > 0 /\ from <= f.at /\ End(f) <= to
  /\ \A f, g \in frags : Overlap(f, g) => f = g
  /\ \A b \in from .. to - 1 : \E f \in frags : f.at <= b /\ b < End(f)

(* However calls rewind the cursor over the function pointer push, jumps    *)
(* are patched over their placeholders and call addresses are stored into   *)
(* placed code, the emitted code is always whole instructions.              *)
WholeInstructions ==
  /\ Row(code, 0, len)
  /\ \A k \in 1 .. Len(mem) : Row(mem[k].code, 0, mem[k].len)
  /\ phase = "commands" => cursor = len

(* The code of a command that lies before the location the code keeps for it: *)
(* the push of a return value (mod.rs:118) and, because the location of a    *)
(* call is overwritten (215), the moves of its arguments.                   *)
BeforeLocation == {"saveret", "popargs"}

(* A patched jump of a placed script lands exactly at the location of its   *)
(* target command: all code of earlier commands, and the push of a return   *)
(* value that only the falling path receives, lie before it, all code of    *)
(* the target and of later commands lies after it.  A jump to a call skips   *)
(* the moves of the arguments and nothing else.                             *)
LandsOn(placed, f, t) ==
  LET landing == End(f) + f.arg
  IN \A g \in placed.code :
       IF g.cmd < t \/ (g.cmd = t /\ g.kind \in BeforeLocation)
       THEN End(g) <= landing
       ELSE g.at >= landing
JumpsLand ==
  \A k \in 1 .. Len(mem) : \A f \in mem[k].code : f.kind \in Mnemonics =>
    LET sc == file.scripts[k]
    IN \E t \in DOMAIN sc.cmds :
         /\ sc.cmds[t].pos + sc.start = sc.cmds[f.cmd].loc
         /\ LandsOn(mem[k], f, t)

(* Every call of an accepted file goes through exactly one MOV, linked to   *)
(* the script whose location was pushed right before the call, and nothing  *)
(* of that push is left for the callee to find on its stack.                *)
CallsLinked ==
  phase = "some" =>
    \A k \in 1 .. Len(mem) : \A i \in DOMAIN file.scripts[k].cmds :
      LET sc   == file.scripts[k]
          movs == {f \in mem[k].code : f.kind = "movrax" /\ f.cmd = i}
      IN sc.begin /\ sc.cmds[i].op \in Calls =>
           /\ i > 1 /\ sc.cmds[i-1].op \in Immediates
           /\ \E f \in movs : /\ movs = {f}
                              /\ f.arg \in ScriptsAt(file, sc.cmds[i-1].val)
           /\ \A f \in mem[k].code : ~(f.kind = "pushimm" /\ f.cmd = i - 1)

(* In a placed script RAX is pushed exactly before the commands that an     *)
(* earlier Try with its push bit names, once each, and before any other     *)
(* code of the command.                                                     *)
ReturnValuesPushed ==
  \A k \in 1 .. Len(mem) : \A i \in DOMAIN file.scripts[k].cmds :
    LET sc     == file.scripts[k]
        pushes == {f \in mem[k].code : f.kind = "saveret" /\ f.cmd = i}
        wanted == \E t \in 1 .. i - 1 :
                    /\ sc.cmds[t].op = "Try" /\ sc.cmds[t].push
                    /\ sc.cmds[t].loc = sc.start + sc.cmds[i].pos
    IN sc.begin =>
         IF wanted
         THEN \E f \in pushes :
                /\ pushes = {f}
                /\ \A g \in mem[k].code : g.cmd = i /\ g # f => g.at >= End(f)
         ELSE pushes = {}

(* Once a script is placed in its pages, linking stores the address of each *)
(* call once and changes no other byte of it.                               *)
LinkingOnlyFillsCalls ==
  [][\A k \in 1 .. Len(mem) :
       LET Unlinked(m) == {[f EXCEPT !.arg = IF @ # 0 /\ f.kind = "movrax"
                                             THEN 0 ELSE @] : f \in m.code}
       IN /\ Unlinked(mem'[k]) = Unlinked(mem[k])
          /\ mem'[k].len = mem[k].len /\ mem'[k].size = mem[k].size
          /\ \A f \in mem[k].code :
               f.kind = "movrax" /\ f.arg # 0 => f \in mem'[k].code]_mem

(* The panic "Dynamic function calls not supported" (mod.rs:229): a call    *)
(* whose function pointer depends on the path taken to it, because a jump   *)
(* leads to the call itself, is never compiled.                             *)
DynamicCallsRefused ==
  phase = "some" =>
    \A k \in 1 .. Len(mem) : \A i, j \in DOMAIN file.scripts[k].cmds :
      LET sc == file.scripts[k]
      IN ~(/\ sc.begin /\ sc.cmds[i].op \in Calls /\ sc.cmds[j].op \in Jumps
           /\ sc.cmds[j].loc = sc.start + sc.cmds[i].pos)
=============================================================================
