------------------------------- MODULE Output -------------------------------
(***************************************************************************)
(* What reaches standard output when CompiledProgram::run() enters a script  *)
(* that prints: msc_printf() of Printf through the buffers of Stdout, then    *)
(* the Exit command, a trap, or a return to run(), which prints a newline     *)
(* through libc, to flush it, and the returned value through Rust.           *)
(***************************************************************************)
EXTENDS Printf, Stdout

VARIABLE stage   \* where run() is; "exited", "dead" and "ended" end the process

prints == <<terminal, printed, buffer, descriptor>>
vars   == <<printfVars, prints, stage>>

Newline == "nl"
-----------------------------------------------------------------------------
Init ==
  /\ Begin
  /\ terminal \in BOOLEAN
  /\ printed = <<>> /\ buffer = <<>> /\ descriptor = <<>>
  /\ stage = "script"

(* Whether an item ends a line: of a %c that is up to its value.             *)
Ends(o) ==
  IF o.kind = "int" /\ Last(o.text) = "c" THEN BOOLEAN ELSE {o.text = <<Newline>>}

(* How msc_printf() prints an item: putchar, printf or println!.             *)
Through(o) ==
  IF o.kind = "oof" THEN RustPrint(P("rust", TRUE, "script"))
  ELSE \E newline \in Ends(o) : LibcPrint(P("libc", newline, "script"))

(* A step of msc_printf(); its panic ends the process.                       *)
ScriptPrints ==
  /\ stage = "script" /\ Step
  /\ IF out' = out THEN UNCHANGED prints ELSE Through(Last(out'))
  /\ stage' = IF pc' = "panic" THEN "dead" ELSE stage

(* The script goes on, and may run for ever: it returns, ends the process     *)
(* (MOV EAX, 60; SYSCALL, without exit handlers) or divides by zero.         *)
Goes(to) ==
  /\ stage = "script" /\ pc = "done" /\ stage' = to
  /\ UNCHANGED <<printfVars, prints>>
Returns == Goes("flush")
Exit    == Goes("exited")
Traps   == Goes("dead")

MutFlushNewline == FALSE   \* MUTANT: an empty string is printed
FlushNewline == TRUE
FlushPrintf ==
  /\ stage = "flush" /\ LibcPrint(P("libc", FlushNewline, "flush"))
  /\ stage' = "value" /\ UNCHANGED printfVars

PrintValue ==
  /\ stage = "value" /\ RustPrint(P("rust", TRUE, "value"))
  /\ stage' = "returned" /\ UNCHANGED printfVars

MainReturns ==
  /\ stage = "returned" /\ LibcExit
  /\ stage' = "ended" /\ UNCHANGED printfVars

Ended == stage \in {"exited", "dead", "ended"} /\ UNCHANGED vars

Runs == FlushPrintf \/ PrintValue \/ MainReturns
Next == ScriptPrints \/ Returns \/ Exit \/ Traps \/ Runs \/ Ended

(* One thread: a call of msc_printf(), and run() and main() after the script  *)
(* has returned, come to their ends.                                        *)
Spec == Init /\ [][Next]_vars /\ WF_vars(ScriptPrints) /\ WF_vars(Runs)
-----------------------------------------------------------------------------
OfScript(s) == Picked(s, {k \in DOMAIN s : s[k].what = "script"})

(* Nothing that the script printed through libc comes after the returned     *)
(* value, or is missing when that comes: what the newline that run() prints   *)
(* to flush libc is for.                                                    *)
FlushedBeforeValue ==
  \A k \in DOMAIN descriptor :
    descriptor[k].what = "value" =>
      OfScript(By("libc", SubSeq(descriptor, 1, k))) = OfScript(By("libc", printed))

(* On a terminal it does that.                                              *)
FlushedOnTerminal == terminal => FlushedBeforeValue

(* A script that returns has all its output printed, in the end.             *)
EverythingArrives ==
  stage = "flush" ~> (stage = "ended" /\ Len(descriptor) = Len(out) + 2)
=============================================================================
