------------------------------ MODULE Syscalls ------------------------------
(***************************************************************************)
(* src/jit/x86/syscalls.rs: the functions a Sys command reaches through     *)
(* SYSCALL_TABLE, with the words on the evaluation stack as arguments, and   *)
(* what the Sys command does with the answer.  A word is the set of the      *)
(* positions of its ones.                                                   *)
(***************************************************************************)
EXTENDS Integers, Sequences, FiniteSetsExt

CONSTANTS
  Arguments,   \* what may lie on the evaluation stack, the last on top
  Numbers,     \* sys_num
  Input,       \* what getchar() may return: words of 32 bits
  Stale        \* a word that lies below RSP

VARIABLES
  stack,    \* the evaluation stack, words of 64 bits, the last on top
  num,      \* sys_num
  argc,     \* arg_count
  keep,     \* the push bit
  r, i,     \* of crc32_for_byte: the register and the finished rounds
  pc

vars == <<stack, num, argc, keep, r, i, pc>>

Bits32 == 0 .. 31

ASSUME WordsAssumption ==
  /\ Arguments \subseteq Seq(SUBSET (0 .. 63)) /\ Input \subseteq SUBSET Bits32
  /\ Stale \in SUBSET (0 .. 63)

Xor(a, b) == SymDiff(a, b)

(* 0xEDB8_8320 and 0xFF00_0000.                                             *)
Reversed == {5, 8, 9, 15, 19, 20, 21, 23, 24, 26, 27, 29, 30, 31}
TopByte  == 24 .. 31
AllOnes  == Bits32

(* The function at an index of the table.                                   *)
SYSCALL_TABLE(n) == CASE n = 0 -> "getc" [] n = 1 -> "crc32_for_byte" [] OTHER -> "nop"

MutRound(w) ==   \* MUTANT: the usual condition
  Xor(IF 0 \in w THEN Reversed ELSE {}, {b - 1 : b \in w \ {0}})
Round(w) ==
  Xor(IF 0 \in w THEN {} ELSE Reversed, {b - 1 : b \in w \ {0}})
-----------------------------------------------------------------------------
(* From 32 arguments on 8 * arg_count overflows its byte: compile() panics in *)
(* a debug build.                                                           *)
MaxArgc == 31

Init ==
  /\ stack \in Arguments /\ num \in Numbers
  /\ argc \in 0 .. Len(stack) /\ argc <= MaxArgc
  /\ keep \in BOOLEAN
  /\ r = {} /\ i = 0 /\ pc = "call"

MutDropped == argc - 1   \* MUTANT: one word is left
(* ADD RSP, 8 * arg_count: a byte that the processor sign-extends, here in    *)
(* words.                                                                   *)
Dropped == ((argc + 16) % 32) - 16

(* What lies above RSP then, and PUSH RAX when the answer is wanted.         *)
Answer(w) ==
  /\ stack' = (IF Dropped >= 0 THEN SubSeq(stack, 1, Len(stack) - Dropped)
                               ELSE stack \o [k \in 1 .. -Dropped |-> Stale])
                \o (IF keep THEN <<w>> ELSE <<>>)
  /\ pc' = "done"
  /\ UNCHANGED <<num, argc, keep>>

Getc == /\ pc = "call" /\ SYSCALL_TABLE(num) = "getc"
        /\ \E c \in Input : Answer(c)
        /\ UNCHANGED <<r, i>>

Nop == /\ pc = "call" /\ SYSCALL_TABLE(num) = "nop"
       /\ Answer({})
       /\ UNCHANGED <<r, i>>

(* *args_ptr as u32: the value on top.                                      *)
FirstArgument == stack[Len(stack)] \cap Bits32

CrcBegin ==
  /\ pc = "call" /\ SYSCALL_TABLE(num) = "crc32_for_byte"
  /\ IF argc > 0
     THEN /\ r' = FirstArgument /\ i' = 0 /\ pc' = "round"
          /\ UNCHANGED <<stack, num, argc, keep>>
     ELSE Answer(AllOnes) /\ UNCHANGED <<r, i>>

MutRounds == 7   \* MUTANT
Rounds == 8
CrcRound ==
  /\ pc = "round" /\ i < Rounds
  /\ r' = Round(r) /\ i' = i + 1
  /\ UNCHANGED <<stack, num, argc, keep, pc>>

CrcEnd ==
  /\ pc = "round" /\ i = Rounds
  /\ Answer(Xor(r, TopByte))
  /\ UNCHANGED <<r, i>>

Finished == pc = "done" /\ UNCHANGED vars

Next == Getc \/ Nop \/ CrcBegin \/ CrcRound \/ CrcEnd \/ Finished

Spec == Init /\ [][Next]_vars
-----------------------------------------------------------------------------
(* crc32_for_byte is a polynomial division.  A CRC-32 starts with a register *)
(* of ones and inverts its answer; the loop saves both by keeping inverted   *)
(* the bits that have not yet been shifted out, and its last line inverts    *)
(* the others.                                                              *)
Computes == SYSCALL_TABLE(num) = "crc32_for_byte" /\ argc > 0
Register ==
  IF ~Computes THEN {} ELSE IF pc = "call" THEN FirstArgument ELSE r
D == INSTANCE Division
       WITH Steps <- 8, remainder <- Xor(Register, 0 .. 31 - i), left <- 8 - i
Divides == D!Spec

(* The coefficients of a product modulo 2.                                  *)
Product(p, q) ==
  {n \in {e + f : e \in p, f \in q} : Cardinality({e \in p : n - e \in q}) % 2 = 1}
Exponents(w)  == {31 - b : b \in w}

(* The answer for a byte is the CRC-32 of the message of this byte: the      *)
(* inverted remainder of the inverted word times x^8.  A quotient of degree  *)
(* 7 or less accounts for the difference.                                   *)
ChecksumOfByte ==
  pc = "round" /\ i = Rounds =>
    LET scaled == {e + 8 : e \in Exponents(Xor(FirstArgument, AllOnes))}
        answer == Exponents(Xor(Xor(r, TopByte), AllOnes))
    IN \E q \in SUBSET (0 .. 7) : Product(q, D!Generator \cup {32}) = Xor(scaled, answer)

(* A system call takes up to 15 arguments off the stack, whatever it does     *)
(* with them, leaves what lies below them, and leaves a word of 32 bits when  *)
(* its answer is wanted.  From 16 on it takes none: all of them stay, and     *)
(* 32 - argc stale words come to lie on top of them.                         *)
Moved == IF argc <= 15 THEN -argc ELSE 32 - argc
Untouched == IF argc <= 15 THEN Len(stack) - argc ELSE Len(stack)
TakesItsArguments ==
  [][pc' = "done" /\ pc # "done" =>
       /\ Len(stack') = Len(stack) + Moved + (IF keep THEN 1 ELSE 0)
       /\ \A k \in 1 .. Untouched : stack'[k] = stack[k]
       /\ keep => stack'[Len(stack')] \in SUBSET Bits32]_vars
=============================================================================
