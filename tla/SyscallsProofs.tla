--------------------------- MODULE SyscallsProofs ---------------------------
(***************************************************************************)
(* What system calls keep true for every evaluation stack: crc32_for_byte()  *)
(* implements the division of Division, round by round, and its answer is    *)
(* the checksum of its argument, all 32 bits of it.                         *)
(***************************************************************************)
EXTENDS Syscalls, Lemmas, FiniteSetTheorems

LEMMA InXor ==
  ASSUME NEW a, NEW b, NEW z
  PROVE  z \in Xor(a, b) <=> ~(z \in a <=> z \in b)
BY DEF Xor, SymDiff

(* What is known wherever the program is.                                   *)
Stack == SUBSET (0 .. 63)
IInv ==
  /\ stack \in Seq(Stack) /\ argc \in Nat /\ keep \in BOOLEAN
  /\ r \in SUBSET Bits32 /\ i \in 0 .. 8
  /\ pc \in {"call", "round", "done"}
  /\ argc <= 31 /\ (pc # "done" => argc <= Len(stack))
  /\ pc = "call" \/ ~Computes => i = 0
  /\ pc = "round" => Computes
-----------------------------------------------------------------------------
LEMMA XorOfWords ==
  ASSUME NEW a \in SUBSET Bits32, NEW b \in SUBSET Bits32
  PROVE  Xor(a, b) \in SUBSET Bits32
BY DEF Xor, SymDiff

LEMMA RoundOfWord == ASSUME NEW w \in SUBSET Bits32  PROVE Round(w) \in SUBSET Bits32
<1>1. Reversed \in SUBSET Bits32  BY DEF Reversed, Bits32
<1>2. {b - 1 : b \in w \ {0}} \in SUBSET Bits32  BY DEF Bits32
<1>3. QED  BY <1>1, <1>2, XorOfWords DEF Round

(* ADD RSP, imm8, up to 31 arguments.                                       *)
LEMMA DroppedIs ==
  ASSUME argc \in 0 .. 31
  PROVE  Dropped = IF argc <= 15 THEN argc ELSE argc - 32
<1>1. CASE argc <= 15
  <2>1. argc + 16 \in 0 .. 31  BY <1>1
  <2>2. (argc + 16) % 32 = argc + 16  BY <2>1
  <2>3. QED  BY <1>1, <2>2 DEF Dropped
<1>2. CASE ~(argc <= 15)
  <2>1. argc - 16 \in 0 .. 31 /\ argc + 16 = 32 + (argc - 16)  BY <1>2
  <2>2. (argc + 16) % 32 = argc - 16  BY <2>1
  <2>3. QED  BY <1>2, <2>2 DEF Dropped
<1>3. QED  BY <1>1, <1>2

(* What the Sys command leaves on the evaluation stack.                      *)
LEMMA AnswerTakes ==
  ASSUME NEW S, Stale \in S, stack \in Seq(S), argc \in 0 .. Len(stack), argc <= 31,
         keep \in BOOLEAN, NEW w \in S, Answer(w)
  PROVE  /\ stack' \in Seq(S)
         /\ Len(stack') = Len(stack) + Moved + (IF keep THEN 1 ELSE 0)
         /\ \A k \in 1 .. Untouched : stack'[k] = stack[k]
         /\ keep => stack'[Len(stack')] = w
<1> DEFINE rest == IF Dropped >= 0 THEN SubSeq(stack, 1, Len(stack) - Dropped)
                                   ELSE stack \o [k \in 1 .. -Dropped |-> Stale]
<1>1. Dropped = (IF argc <= 15 THEN argc ELSE argc - 32) /\ Len(stack) \in Nat
  BY DroppedIs, LenProperties
<1>2. /\ rest \in Seq(S) /\ Len(rest) = Len(stack) + Moved
      /\ Untouched \in 0 .. Len(rest) /\ \A k \in 1 .. Untouched : rest[k] = stack[k]
  <2>1. CASE argc <= 15
    <3>1. rest = SubSeq(stack, 1, Len(stack) - argc)  BY <1>1, <2>1
    <3>2. Moved = -argc /\ Untouched = Len(stack) - argc  BY <2>1 DEF Moved, Untouched
    <3> HIDE DEF rest
    <3>3. QED  BY <1>1, <3>1, <3>2, Popping
  <2>2. CASE ~(argc <= 15)
    <3> DEFINE stale == [k \in 1 .. 32 - argc |-> Stale]
    <3>1. -Dropped = 32 - argc /\ ~(Dropped >= 0) /\ 32 - argc \in Nat  BY <1>1, <2>2
    <3>2. rest = stack \o stale  BY <3>1
    <3>3. Moved = 32 - argc /\ Untouched = Len(stack)  BY <2>2 DEF Moved, Untouched
    <3>4. stale \in Seq(S) /\ Len(stale) = 32 - argc  BY <3>1
    <3> HIDE DEF rest, stale
    <3>5. /\ stack \o stale \in Seq(S) /\ Len(stack \o stale) = Len(stack) + (32 - argc)
          /\ \A k \in 1 .. Len(stack) : (stack \o stale)[k] = stack[k]
      BY <3>4, Joining
    <3>6. QED  BY <1>1, <3>1, <3>2, <3>3, <3>5
  <2>3. QED  BY <2>1, <2>2
<1>3. stack' = rest \o (IF keep THEN <<w>> ELSE <<>>)  BY DEF Answer
<1> HIDE DEF rest
<1>4. CASE keep
  <2>1. stack' = Append(rest, w)  BY <1>2, <1>3, <1>4, AppendIsConcat
  <2>2. QED  BY <1>1, <1>2, <1>4, <2>1, Pushing
<1>5. CASE ~keep
  <2>1. stack' = rest  BY <1>2, <1>3, <1>5, ConcatEmptySeq
  <2>2. Len(rest) + 0 = Len(rest)  BY <1>2, LenProperties
  <2>3. QED  BY <1>2, <1>5, <2>1, <2>2
<1>6. QED  BY <1>4, <1>5
-----------------------------------------------------------------------------
LEMMA FirstArgumentIsWord == FirstArgument \in SUBSET Bits32
BY DEF FirstArgument

LEMMA WordsAreStacked == SUBSET Bits32 \subseteq Stack
BY DEF Bits32, Stack

(* What a step that answers does, in the terms of the invariant.            *)
LEMMA Answers ==
  ASSUME IInv, pc # "done", NEW w \in SUBSET Bits32, Answer(w)
  PROVE  /\ stack' \in Seq(Stack) /\ pc' = "done" /\ UNCHANGED <<num, argc, keep>>
         /\ Len(stack') = Len(stack) + Moved + (IF keep THEN 1 ELSE 0)
         /\ \A k \in 1 .. Untouched : stack'[k] = stack[k]
         /\ keep => stack'[Len(stack')] = w
<1>1. w \in Stack  BY WordsAreStacked
<1>2. argc \in 0 .. Len(stack)  BY LenProperties DEF IInv
<1>3. Stale \in Stack  BY WordsAssumption DEF Stack
<1>4. QED  BY <1>1, <1>2, <1>3, AnswerTakes DEF IInv, Answer

(* Every answer is a word of 32 bits.                                       *)
LEMMA AnswersAWord ==
  ASSUME IInv, Next, pc # "done", pc' = "done"
  PROVE  \E w \in SUBSET Bits32 : Answer(w) /\ UNCHANGED <<r, i>>
<1>1. CASE Getc  BY <1>1, WordsAssumption DEF Getc
<1>2. CASE Nop  BY <1>2 DEF Nop
<1>3. CASE CrcBegin
  <2>1. AllOnes \in SUBSET Bits32  BY DEF AllOnes
  <2>2. QED  BY <1>3, <2>1 DEF CrcBegin
<1>4. CASE CrcRound  BY <1>4 DEF CrcRound
<1>5. CASE CrcEnd
  <2>1. TopByte \in SUBSET Bits32  BY DEF TopByte, Bits32
  <2>2. Xor(r, TopByte) \in SUBSET Bits32  BY <2>1, XorOfWords DEF IInv
  <2>3. QED  BY <1>5, <2>2 DEF CrcEnd
<1>6. CASE Finished  BY <1>6 DEF Finished
<1>7. QED  BY <1>1, <1>2, <1>3, <1>4, <1>5, <1>6 DEF Next

LEMMA InitHolds == Init => IInv
<1>1. SUFFICES ASSUME Init  PROVE IInv  OBVIOUS
<1>2. stack \in Seq(Stack)  BY <1>1, WordsAssumption DEF Init, Stack
<1>3. argc \in Nat /\ argc <= Len(stack) /\ argc <= 31
  BY <1>1, <1>2, LenProperties DEF Init, MaxArgc
<1>4. QED  BY <1>1, <1>2, <1>3 DEF Init, IInv

LEMMA NextKeeps == IInv /\ [Next]_vars => IInv'
<1>1. SUFFICES ASSUME IInv, [Next]_vars  PROVE IInv'  OBVIOUS
<1>2. CASE UNCHANGED vars  BY <1>1, <1>2 DEF IInv, vars, Computes
<1>3. CASE Next /\ pc # "done" /\ pc' = "done"
  <2>1. PICK w \in SUBSET Bits32 : Answer(w) /\ UNCHANGED <<r, i>>
    BY <1>1, <1>3, AnswersAWord
  <2>2. stack' \in Seq(Stack) /\ UNCHANGED <<num, argc, keep>>  BY <1>1, <1>3, <2>1, Answers
  <2>3. QED  BY <1>1, <1>3, <2>1, <2>2 DEF IInv, Computes
<1>4. CASE CrcBegin /\ pc' # "done"
  <2>1. /\ pc = "call" /\ Computes /\ r' = FirstArgument /\ i' = 0 /\ pc' = "round"
        /\ UNCHANGED <<stack, num, argc, keep>>
    BY <1>4 DEF CrcBegin, Answer, Computes
  <2>2. QED  BY <1>1, <2>1, FirstArgumentIsWord DEF IInv, Computes
<1>5. CASE CrcRound
  <2>1. Round(r) \in SUBSET Bits32  BY <1>1, RoundOfWord DEF IInv
  <2>2. i' \in 0 .. 8  BY <1>1, <1>5 DEF CrcRound, IInv, Rounds
  <2>3. QED  BY <1>1, <1>5, <2>1, <2>2 DEF CrcRound, IInv, Computes
<1>6. QED
  BY <1>1, <1>2, <1>3, <1>4, <1>5
  DEF Next, Finished, Getc, Nop, CrcBegin, CrcEnd, Answer, IInv, vars

LEMMA Invariant == Spec => []IInv
BY InitHolds, NextKeeps, PTL DEF Spec

(* A system call takes up to 15 arguments off the stack, and none of more; it *)
(* touches nothing below and leaves its answer, a word of 32 bits, when it is *)
(* wanted.                                                                  *)
THEOREM AlwaysTakesItsArguments == Spec => TakesItsArguments
<1> DEFINE Takes ==
      pc' = "done" /\ pc # "done" =>
        /\ Len(stack') = Len(stack) + Moved + (IF keep THEN 1 ELSE 0)
        /\ \A k \in 1 .. Untouched : stack'[k] = stack[k]
        /\ keep => stack'[Len(stack')] \in SUBSET Bits32
<1>1. ASSUME IInv, Next  PROVE Takes
  <2>1. SUFFICES ASSUME pc # "done", pc' = "done"  PROVE Takes  OBVIOUS
  <2>2. PICK w \in SUBSET Bits32 : Answer(w)  BY <1>1, <2>1, AnswersAWord
  <2>3. QED  BY <1>1, <2>1, <2>2, Answers
<1>2. IInv /\ [Next]_vars => [Takes]_vars  BY <1>1
<1>3. QED  BY <1>2, Invariant, PTL DEF Spec, TakesItsArguments
-----------------------------------------------------------------------------
(* The register of crc32_for_byte() and the one of the division.             *)
Rem(w, n) == Xor(w, 0 .. 31 - n)

LEMMA ReversedIsGenerator == Reversed = {31 - e : e \in D!Generator}
BY DEF Reversed, D!Generator

LEMMA InRem ==
  ASSUME NEW w \in SUBSET Bits32, NEW n \in 0 .. 8, NEW z
  PROVE  z \in Rem(w, n) <=> ~(z \in w <=> z \in 0 .. 31 - n)
BY InXor DEF Rem

(* A round of the loop divides once, with fewer bits left inverted.          *)
LEMMA RoundDivides ==
  ASSUME NEW w \in SUBSET Bits32, NEW n \in 0 .. 7
  PROVE  Rem(Round(w), n + 1) = D!Reduced(D!TimesX(Rem(w, n)), 0 \in Rem(w, n))
<1> DEFINE shifted == {b - 1 : b \in w \ {0}}
           lhs == Rem(Round(w), n + 1)
           times == D!TimesX(Rem(w, n))
<1>0. 0 .. 31 - n \in SUBSET Bits32  BY DEF Bits32
<1>1. Rem(w, n) \in SUBSET Bits32  BY <1>0, XorOfWords DEF Rem
<1>2. 0 \in Rem(w, n) <=> 0 \notin w  BY InRem
<1>3. \A z : z \in shifted <=> z \in 0 .. 30 /\ z + 1 \in w  BY DEF Bits32
<1>4. \A z : z \in times <=> z \in 0 .. 30 /\ z + 1 \in Rem(w, n)
  BY <1>1 DEF D!TimesX, Bits32
<1>5. \A z \in 0 .. 30 : z + 1 \in Rem(w, n) <=> ~(z + 1 \in w <=> z \in 0 .. 30 - n)
  <2>1. \A z \in 0 .. 30 : z + 1 \in 0 .. 31 - n <=> z \in 0 .. 30 - n  OBVIOUS
  <2>2. QED  BY <2>1, InRem
<1>6. \A z : z \in Round(w) <=> ~(z \in (IF 0 \in w THEN {} ELSE Reversed) <=> z \in shifted)
  BY InXor DEF Round
<1>7. Round(w) \in SUBSET Bits32 /\ n + 1 \in 0 .. 8  BY RoundOfWord
<1>8. \A z : z \in lhs <=> ~(z \in Round(w) <=> z \in 0 .. 30 - n)
  <2>1. 31 - (n + 1) = 30 - n  OBVIOUS
  <2>2. QED  BY <1>7, <2>1, InRem
<1> DEFINE carry == IF 0 \in w THEN {} ELSE Reversed
<1>9. \A z : z \in lhs <=> ~(z \in carry <=> z \in times)
  <2>1. TAKE z
  <2>2. z \in 0 .. 30 - n => z \in 0 .. 30  OBVIOUS
  <2>3. z \in times <=> ~(z \in shifted <=> z \in 0 .. 30 - n)
    BY <1>3, <1>4, <1>5, <2>2
  <2>4. z \in Round(w) <=> ~(z \in carry <=> z \in shifted)  BY <1>6
  <2>5. z \in lhs <=> ~(z \in Round(w) <=> z \in 0 .. 30 - n)  BY <1>8
  <2> HIDE DEF carry, shifted, times, lhs
  <2>6. QED  BY <2>3, <2>4, <2>5
<1>10. D!Reduced(times, 0 \in Rem(w, n)) = Xor(times, carry)
  BY <1>2, ReversedIsGenerator DEF D!Reduced, Xor, SymDiff, D!SymDiff
<1>11. \A z : z \in lhs <=> z \in Xor(times, carry)
  <2> HIDE DEF carry, times, lhs
  <2>1. QED  BY <1>9, InXor
<1>12. QED  BY <1>10, <1>11

(* What a step does to the register that is divided.                        *)
LEMMA StepDivides ==
  ASSUME IInv, [Next]_vars
  PROVE  [D!Next]_(D!vars)
<1>1. CASE UNCHANGED vars  BY <1>1 DEF vars, D!vars, Register, Computes, FirstArgument
<1>2. CASE CrcRound
  <2>1. /\ pc = "round" /\ pc' = "round" /\ i \in 0 .. 7 /\ i' = i + 1 /\ r' = Round(r)
        /\ Computes /\ Computes' /\ r \in SUBSET Bits32
    BY <1>2 DEF CrcRound, IInv, Rounds, Computes
  <2>2. Register = r /\ Register' = Round(r)  BY <2>1 DEF Register
  <2>3. Rem(r, i)' = D!Reduced(D!TimesX(Rem(r, i)), 0 \in Rem(r, i))
    BY <2>1, RoundDivides
  <2>4. D!Divide  BY <2>1, <2>2, <2>3 DEF D!Divide, Rem
  <2>5. QED  BY <2>4 DEF D!Next
<1>3. CASE CrcBegin /\ pc' = "round"
  <2>1. i = 0 /\ i' = 0 /\ Register' = FirstArgument /\ Register = FirstArgument
    BY <1>3 DEF CrcBegin, IInv, Computes, Register, Answer
  <2>2. QED  BY <2>1 DEF D!vars
<1>4. CASE Next /\ pc # "done" /\ pc' = "done"
  <2>1. PICK w \in SUBSET Bits32 : Answer(w) /\ UNCHANGED <<r, i>>  BY <1>4, AnswersAWord
  <2>2. UNCHANGED Computes  BY <2>1 DEF Answer, Computes
  <2>3. Computes => pc = "round"
    BY <1>4 DEF Next, Getc, Nop, CrcBegin, CrcRound, CrcEnd, Finished, Computes
  <2>4. UNCHANGED Register  BY <1>4, <2>1, <2>2, <2>3 DEF Register
  <2>5. QED  BY <2>1, <2>4 DEF D!vars
<1>5. QED
  BY <1>1, <1>2, <1>3, <1>4
  DEF Next, Finished, Getc, Nop, CrcBegin, CrcEnd, Answer, IInv

LEMMA InitDivides == Init => D!Init
<1>1. SUFFICES ASSUME Init  PROVE D!Init  OBVIOUS
<1>2. Register \in SUBSET Bits32 /\ i = 0
  BY <1>1, FirstArgumentIsWord DEF Init, Register
<1>3. Xor(Register, 0 .. 31 - i) \in SUBSET (0 .. 31) /\ 8 - i = 8
  BY <1>2, XorOfWords DEF Bits32
<1>4. QED  BY <1>3 DEF D!Init

(* crc32_for_byte() divides by the generator of CRC-32, for every argument.  *)
THEOREM ImplementsDivision == Spec => Divides
<1>1. Init => D!Init  BY InitDivides
<1>2. IInv /\ [Next]_vars => [D!Next]_(D!vars)  BY StepDivides
<1>3. QED  BY <1>1, <1>2, Invariant, PTL DEF Spec, Divides, D!Spec
-----------------------------------------------------------------------------
(* Products modulo 2.  A coefficient of a product counts the pairs it comes   *)
(* from.                                                                    *)
Poly == D!Generator \cup {32}
Pairs(p, q, n) == {e \in p : n - e \in q}
Shift(p) == {e + 1 : e \in p}

LEMMA InProduct ==
  ASSUME NEW p \in SUBSET Int, NEW q \in SUBSET Int
  PROVE  /\ Product(p, q) \in SUBSET Int
         /\ \A n \in Int : n \in Product(p, q) <=> Cardinality(Pairs(p, q, n)) % 2 = 1
<1>1. Product(p, q) \in SUBSET Int  BY DEF Product
<1>2. ASSUME NEW n \in Int, Cardinality(Pairs(p, q, n)) % 2 = 1
      PROVE  n \in {e + f : e \in p, f \in q}
  <2>1. Pairs(p, q, n) # {}
    <3>1. SUFFICES ASSUME Pairs(p, q, n) = {}  PROVE FALSE  OBVIOUS
    <3>2. Cardinality(Pairs(p, q, n)) = 0  BY <3>1, FS_EmptySet
    <3>3. QED  BY <1>2, <3>2
  <2>2. PICK e \in p : n - e \in q  BY <2>1 DEF Pairs
  <2>3. n = e + (n - e)  OBVIOUS
  <2>4. QED  BY <2>2, <2>3
<1>3. QED  BY <1>1, <1>2 DEF Product, Pairs

LEMMA ShiftKeepsSize ==
  ASSUME NEW p \in SUBSET Int, IsFiniteSet(p)
  PROVE  IsFiniteSet(Shift(p)) /\ Cardinality(Shift(p)) = Cardinality(p)
<1> DEFINE f == [e \in p |-> e + 1]
<1>1. f \in [p -> Shift(p)]  BY DEF Shift
<1>2. f \in Injection(p, Shift(p))  BY <1>1 DEF Injection, IsInjective
<1>3. f \in Surjection(p, Shift(p))  BY <1>1 DEF Surjection, Shift
<1>4. ExistsBijection(p, Shift(p))  BY <1>2, <1>3 DEF ExistsBijection, Bijection
<1>5. QED  BY <1>4, FS_Bijection

LEMMA ProductOfShift ==
  ASSUME NEW p \in SUBSET Nat, IsFiniteSet(p), NEW q \in SUBSET Int, NEW n \in Int
  PROVE  /\ n \in Product(Shift(p), q) <=> n - 1 \in Product(p, q)
         /\ n \in Product(Shift(p) \cup {0}, q) <=> ~(n - 1 \in Product(p, q) <=> n \in q)
<1> DEFINE old == Pairs(p, q, n - 1)
           new == Pairs(Shift(p), q, n)
<1>1. /\ p \in SUBSET Int /\ Shift(p) \in SUBSET Int /\ Shift(p) \cup {0} \in SUBSET Int
      /\ 0 \notin Shift(p) /\ n - 1 \in Int
  BY DEF Shift
<1>2. IsFiniteSet(old) /\ old \in SUBSET Int  BY <1>1, FS_Subset DEF Pairs
<1>3. new = Shift(old)  BY DEF Pairs, Shift
<1>4. IsFiniteSet(new) /\ Cardinality(new) = Cardinality(old) /\ 0 \notin new
      /\ Cardinality(new) \in Nat
  BY <1>1, <1>2, <1>3, ShiftKeepsSize, FS_CardinalityType DEF Pairs
<1>5. Pairs(Shift(p) \cup {0}, q, n) = IF n \in q THEN new \cup {0} ELSE new
  <2>1. n - 0 = n  OBVIOUS
  <2>2. QED  BY <1>1, <2>1 DEF Pairs
<1> HIDE DEF old, new
<1>6. Cardinality(new \cup {0}) = Cardinality(new) + 1  BY <1>4, FS_AddElement
<1>7. n - 1 \in Product(p, q) <=> Cardinality(old) % 2 = 1  BY <1>1, InProduct DEF old
<1>8. n \in Product(Shift(p), q) <=> Cardinality(new) % 2 = 1  BY <1>1, InProduct DEF new
<1>9. n \in Product(Shift(p) \cup {0}, q)
        <=> Cardinality(IF n \in q THEN new \cup {0} ELSE new) % 2 = 1
  BY <1>1, <1>5, InProduct
<1>10. Cardinality(new) % 2 = 1 <=> ~((Cardinality(new) + 1) % 2 = 1)  BY <1>4
<1>11. QED  BY <1>4, <1>6, <1>7, <1>8, <1>9, <1>10
-----------------------------------------------------------------------------
(* What has been shifted in so far is a multiple of the generator and the    *)
(* remainder.                                                               *)
Scaled(n) == {e + n : e \in Exponents(Xor(FirstArgument, AllOnes))}
Accounted ==
  pc = "round" =>
    \E q \in SUBSET (0 .. i - 1) :
      Product(q, Poly) = Xor(Scaled(i), Exponents(Rem(r, i)))

LEMMA InExponents ==
  ASSUME NEW w \in SUBSET Bits32
  PROVE  /\ Exponents(w) \in SUBSET (0 .. 31)
         /\ \A n \in Int : n \in Exponents(w) <=> 31 - n \in w
BY DEF Exponents, Bits32

LEMMA ReducedExponents ==
  ASSUME NEW w \in SUBSET Bits32, NEW n \in Int
  PROVE  n \in Exponents(D!Reduced(D!TimesX(w), 0 \in w))
           <=> ~(n - 1 \in Exponents(w) <=> 0 \in w /\ n \in Poly)
<1> DEFINE times == D!TimesX(w)
           gen == {31 - e : e \in D!Generator}
<1>1. times \in SUBSET Bits32 /\ gen \in SUBSET Bits32
  BY DEF D!TimesX, D!Generator, Bits32
<1>2. D!Reduced(times, 0 \in w) = IF 0 \in w THEN Xor(times, gen) ELSE times
  BY DEF D!Reduced, Xor, SymDiff, D!SymDiff
<1>3. D!Reduced(times, 0 \in w) \in SUBSET Bits32  BY <1>1, <1>2, XorOfWords
<1>4. n \in Exponents(D!Reduced(times, 0 \in w)) <=> 31 - n \in D!Reduced(times, 0 \in w)
  BY <1>3, InExponents
<1>5. 31 - n \in times <=> 31 - n \in 0 .. 30 /\ 32 - n \in w  BY DEF D!TimesX, Bits32
<1>6. 31 - n \in gen <=> n \in D!Generator  BY DEF D!Generator
<1>7. n \in Poly <=> n \in D!Generator \/ n = 32  BY DEF Poly
<1>8. 32 \notin D!Generator  BY DEF D!Generator
<1>9. n - 1 \in Exponents(w) <=> 32 - n \in w
  <2>1. n - 1 \in Int /\ 31 - (n - 1) = 32 - n  OBVIOUS
  <2>2. QED  BY <2>1, InExponents
<1>10. 32 - n \in w => n = 32 \/ 31 - n \in 0 .. 30  BY DEF Bits32
<1>11. 31 - n \in Xor(times, gen) <=> ~(31 - n \in times <=> 31 - n \in gen)  BY InXor
<1>12. CASE n = 32
  BY <1>2, <1>4, <1>5, <1>6, <1>7, <1>8, <1>9, <1>11, <1>12
<1>13. CASE n # 32
  <2>1. 31 - n \in times <=> n - 1 \in Exponents(w)  BY <1>5, <1>9, <1>10, <1>13
  <2>2. CASE 0 \in w  BY <1>2, <1>4, <1>6, <1>7, <1>11, <1>13, <2>1, <2>2
  <2>3. CASE 0 \notin w  BY <1>2, <1>4, <2>1, <2>3
  <2>4. QED  BY <2>2, <2>3
<1>14. QED  BY <1>12, <1>13

LEMMA XorOfInts ==
  ASSUME NEW a \in SUBSET Int, NEW b \in SUBSET Int
  PROVE  Xor(a, b) \in SUBSET Int
BY DEF Xor, SymDiff

(* A round of the loop multiplies the quotient by x, and adds 1 to it when a  *)
(* coefficient leaves the register.                                         *)
LEMMA RoundAccounts ==
  ASSUME IInv, Accounted, CrcRound
  PROVE  Accounted'
<1> DEFINE rem == Rem(r, i)
           rem1 == Rem(Round(r), i + 1)
<1>1. /\ pc = "round" /\ i \in 0 .. 7 /\ r \in SUBSET Bits32 /\ i' = i + 1 /\ r' = Round(r)
      /\ UNCHANGED stack
  BY DEF CrcRound, IInv, Rounds
<1>2. PICK q \in SUBSET (0 .. i - 1) : Product(q, Poly) = Xor(Scaled(i), Exponents(rem))
  BY <1>1 DEF Accounted
<1> DEFINE q1 == IF 0 \in rem THEN Shift(q) \cup {0} ELSE Shift(q)
<1>3. q1 \in SUBSET (0 .. i)  BY <1>1 DEF Shift
<1>4. /\ q \in SUBSET Nat /\ q \in SUBSET Int /\ q1 \in SUBSET Int /\ Poly \in SUBSET Int
  BY <1>1, <1>3 DEF Poly, D!Generator
<1>5. IsFiniteSet(q)
  <2>1. IsFiniteSet(0 .. i - 1)  BY <1>1, FS_Interval
  <2>2. QED  BY <2>1, FS_Subset
<1>6. rem \in SUBSET Bits32 /\ rem1 = D!Reduced(D!TimesX(rem), 0 \in rem)
      /\ rem1 \in SUBSET Bits32
  <2>1. 0 .. 31 - i \in SUBSET Bits32 /\ 0 .. 31 - (i + 1) \in SUBSET Bits32
    BY <1>1 DEF Bits32
  <2>2. Round(r) \in SUBSET Bits32  BY <1>1, RoundOfWord
  <2>3. QED  BY <1>1, <2>1, <2>2, XorOfWords, RoundDivides DEF Rem
<1>7. \A n \in Int : n \in Scaled(i + 1) <=> n - 1 \in Scaled(i)
  <2>1. Exponents(Xor(FirstArgument, AllOnes)) \in SUBSET Int
    BY FirstArgumentIsWord, XorOfWords, InExponents DEF AllOnes, Bits32
  <2>2. \A n, e \in Int : n = e + (i + 1) <=> n - 1 = e + i  BY <1>1
  <2>3. QED  BY <2>1, <2>2 DEF Scaled
<1>8. Scaled(i) \in SUBSET Int /\ Scaled(i + 1) \in SUBSET Int
  <2>1. Exponents(Xor(FirstArgument, AllOnes)) \in SUBSET Int
    BY FirstArgumentIsWord, XorOfWords, InExponents DEF AllOnes, Bits32
  <2>2. QED  BY <1>1, <2>1 DEF Scaled
<1> HIDE DEF rem, rem1
<1>9. ASSUME NEW n \in Int
      PROVE  n \in Product(q1, Poly) <=> n \in Xor(Scaled(i + 1), Exponents(rem1))
  <2>1. n \in Product(q1, Poly)
          <=> ~(n - 1 \in Product(q, Poly) <=> 0 \in rem /\ n \in Poly)
    BY <1>4, <1>5, ProductOfShift
  <2>2. n - 1 \in Product(q, Poly) <=> ~(n - 1 \in Scaled(i) <=> n - 1 \in Exponents(rem))
    BY <1>2, InXor
  <2>3. n \in Exponents(rem1) <=> ~(n - 1 \in Exponents(rem) <=> 0 \in rem /\ n \in Poly)
    BY <1>6, ReducedExponents
  <2>4. n \in Xor(Scaled(i + 1), Exponents(rem1))
          <=> ~(n - 1 \in Scaled(i) <=> n \in Exponents(rem1))
    BY <1>7, InXor
  <2> HIDE DEF q1
  <2>5. QED  BY <2>1, <2>2, <2>3, <2>4
<1>10. Product(q1, Poly) \in SUBSET Int
       /\ Xor(Scaled(i + 1), Exponents(rem1)) \in SUBSET Int
  BY <1>4, <1>6, <1>8, InProduct, InExponents, XorOfInts
<1>11. Product(q1, Poly) = Xor(Scaled(i + 1), Exponents(rem1))  BY <1>9, <1>10
<1>12. rem1 = Rem(r, i)'  BY <1>1 DEF Rem, rem1
<1>13. Scaled(i)' = Scaled(i + 1)  BY <1>1 DEF Scaled, FirstArgument
<1>14. q1 \in SUBSET (0 .. i' - 1)  BY <1>1, <1>3
<1>15. QED  BY <1>11, <1>12, <1>13, <1>14 DEF Accounted

LEMMA BeginAccounts ==
  ASSUME CrcBegin, pc' = "round"
  PROVE  Accounted'
<1> DEFINE start == Exponents(Xor(FirstArgument, AllOnes))
<1>1. i' = 0 /\ r' = FirstArgument /\ UNCHANGED stack  BY DEF CrcBegin, Answer
<1>2. Scaled(i)' = start
  <2>1. start \in SUBSET Int
    BY FirstArgumentIsWord, XorOfWords, InExponents DEF AllOnes, Bits32
  <2>2. Scaled(i)' = {e + 0 : e \in start}  BY <1>1 DEF Scaled, FirstArgument
  <2>3. \A e \in start : e + 0 = e  BY <2>1
  <2>4. QED  BY <2>2, <2>3
<1>3. Exponents(Rem(r, i))' = start
  BY <1>1 DEF Rem, Exponents, AllOnes, Bits32, FirstArgument
<1>4. Xor(start, start) = {}  BY DEF Xor, SymDiff
<1>5. Product({}, Poly) = {}  BY DEF Product
<1>6. {} \in SUBSET (0 .. i' - 1)  OBVIOUS
<1>7. QED  BY <1>2, <1>3, <1>4, <1>5, <1>6 DEF Accounted

(* The answer of crc32_for_byte() is the CRC-32 of its argument, for all its  *)
(* 2^32 values.                                                             *)
THEOREM AlwaysChecksum == Spec => []ChecksumOfByte
<1>1. Init => Accounted  BY DEF Init, Accounted
<1>2. IInv /\ Accounted /\ [Next]_vars => Accounted'
  <2>1. SUFFICES ASSUME IInv, Accounted, [Next]_vars, pc' = "round"  PROVE Accounted'
    BY DEF Accounted
  <2>2. CASE UNCHANGED vars
    BY <2>1, <2>2 DEF vars, Accounted, Scaled, FirstArgument
  <2>3. CASE CrcRound  BY <2>1, <2>3, RoundAccounts
  <2>4. CASE CrcBegin  BY <2>1, <2>4, BeginAccounts
  <2>5. QED  BY <2>1, <2>2, <2>3, <2>4 DEF Next, Getc, Nop, CrcEnd, Finished, Answer
<1>3. IInv /\ Accounted => ChecksumOfByte
  <2>1. SUFFICES ASSUME IInv, Accounted, pc = "round", i = 8
                 PROVE  \E q \in SUBSET (0 .. 7) :
                          Product(q, D!Generator \cup {32})
                            = Xor({e + 8 : e \in Exponents(Xor(FirstArgument, AllOnes))},
                                  Exponents(Xor(Xor(r, TopByte), AllOnes)))
    BY DEF ChecksumOfByte, Rounds
  <2>2. Rem(r, i) = Xor(Xor(r, TopByte), AllOnes)
    <3>1. Rem(r, i) = Xor(r, 0 .. 23)  BY <2>1 DEF Rem
    <3>2. \A z : z \in AllOnes <=> z \in TopByte \/ z \in 0 .. 23
      BY DEF AllOnes, Bits32, TopByte
    <3>3. \A z : ~(z \in TopByte /\ z \in 0 .. 23)  BY DEF TopByte
    <3>4. ASSUME NEW z
          PROVE  z \in Xor(r, 0 .. 23) <=> z \in Xor(Xor(r, TopByte), AllOnes)
      BY <3>2, <3>3, InXor
    <3>5. QED  BY <3>1, <3>4
  <2>3. 0 .. i - 1 = 0 .. 7  BY <2>1
  <2>4. QED  BY <2>1, <2>2, <2>3 DEF Accounted, Scaled, Poly
<1>4. QED  BY <1>1, <1>2, <1>3, Invariant, PTL DEF Spec
=============================================================================
