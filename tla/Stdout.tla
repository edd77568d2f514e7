------------------------------- MODULE Stdout -------------------------------
(***************************************************************************)
(* The two buffers a running program prints through: printf and putchar of   *)
(* libc (src/jit/x86/printf.rs) and println! of Rust, on one descriptor.     *)
(***************************************************************************)
EXTENDS Integers, Sequences, Ranks

CONSTANT Capacity   \* of libc's buffer, in prints

VARIABLES
  terminal,     \* whether standard output is a terminal
  printed,      \* what was printed, in the order of the program
  buffer,       \* libc's buffer
  descriptor    \* what reached the descriptor

(* Who prints; whether the print ends a line, which println! always does;    *)
(* and what for: "script", "flush" or "value".                              *)
P(by, newline, what) == [by |-> by, newline |-> newline, what |-> what]
By(who, prints) == Picked(prints, {k \in DOMAIN prints : prints[k].by = who})

(* external: libc's stdout is line buffered on a terminal and written when    *)
(* it is full elsewhere; exit() flushes it.                                 *)
Flushes(p) == (terminal /\ p.newline) \/ Len(buffer) + 1 >= Capacity
LibcPrint(p) ==
  /\ printed' = Append(printed, p)
  /\ IF Flushes(p)
     THEN descriptor' = descriptor \o Append(buffer, p) /\ buffer' = <<>>
     ELSE buffer' = Append(buffer, p) /\ UNCHANGED descriptor
  /\ UNCHANGED terminal

(* external: Rust's stdout is line buffered always.                         *)
RustPrint(p) ==
  /\ printed' = Append(printed, p)
  /\ descriptor' = Append(descriptor, p)
  /\ UNCHANGED <<terminal, buffer>>

(* external: C's exit(), where Rust's runtime ends when main() returns.      *)
MutExitFlush == descriptor   \* MUTANT: as the Exit command ends the process
ExitFlush == descriptor \o buffer
LibcExit ==
  /\ descriptor' = ExitFlush /\ buffer' = <<>>
  /\ UNCHANGED <<terminal, printed>>
=============================================================================
