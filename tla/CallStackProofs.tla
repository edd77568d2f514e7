--------------------------- MODULE CallStackProofs ---------------------------
(***************************************************************************)
(* The machine stack of scripts that call each other and foreign functions:  *)
(* for any number of activations, any values and any depth, every frame     *)
(* finds its caller's, and the host finds its own.                          *)
(***************************************************************************)
EXTENDS CallStack, Lemmas

(* The cells of a stack whose values are those of W: no frame depends on     *)
(* what a value is.                                                         *)
Cell(W) ==
  [is : {"word"}, val : W] \cup [is : {"locals"}, val : [1 .. 2 -> W]]
    \cup [is : {"rbp"}, base : Nat]
    \cup [is : {"r15"}, reg : {HostR15}] \cup [is : {"pad", "cret"}]
    \cup [is : {"ret"}, to : Scripts \cup {Host}, kept : BOOLEAN]

(* The frame of script s ends at r, with its saved RBP below its variables   *)
(* and the return address below that.  A value is kept only of a script that *)
(* returns one.                                                             *)
Base(r, s) == r - Frame(s)
FrameAt(m, r, s) ==
  /\ s \in Scripts /\ r \in 0 .. Len(m) /\ Base(r, s) \in 2 .. Len(m)
  /\ m[Base(r, s)].is = "rbp" /\ m[Base(r, s) - 1].is = "ret"
  /\ m[Base(r, s) - 1].kept => Signature[s].value
  /\ \A j \in Base(r, s) + 1 .. r : m[j].is = "locals"

(* Nothing but values lies between it and top.                              *)
Resting(m, r, s, top) ==
  FrameAt(m, r, s) /\ r <= top /\ \A j \in r + 1 .. top : m[j].is = "word"

(* What a return address to a script promises of the cells below it.         *)
CalledFrom(m, r, to, top) ==
  IF to = Host THEN r = HostRbp /\ top = 0 ELSE Resting(m, r, to, top)

Linked(m, i) ==
  /\ m[i].is = "rbp" => /\ i >= 2 /\ m[i - 1].is = "ret"
                        /\ CalledFrom(m, m[i].base, m[i - 1].to, i - 2)
  /\ m[i].is = "ret" => \E r : CalledFrom(m, r, m[i].to, i - 1)

StackOK ==
  /\ \E W : mem \in Seq(Cell(W))
  /\ \A i \in 1 .. Len(mem) : Linked(mem, i)

(* Where a foreign function has been entered.                               *)
Saved == Rsp - 1 - r15

Entering ==
  /\ pc = "enter" /\ script \in Scripts /\ Rsp >= 1 /\ mem[Rsp].is = "ret"
  /\ CalledFrom(mem, rbp, mem[Rsp].to, Rsp - 1)
  /\ mem[Rsp].kept => Signature[script].value
Running == pc \in {"body", "keep"} /\ Resting(mem, rbp, script, Rsp)
Outside ==
  /\ pc = "foreign" /\ r15 \in {0, 1} /\ foreign.argc \in ForeignArgs
  /\ Saved \in 1 .. Rsp /\ mem[Saved].is = "r15"
  /\ Resting(mem, rbp, script, Saved - 1) /\ rbp <= Saved - 1 - foreign.argc
  /\ (Rsp - 1) % 2 = 0 /\ \A j \in Saved .. Rsp : mem[j].is # "ret"
Over == pc = "done" /\ script = Host /\ mem = <<>> /\ rbp = HostRbp

IInv ==
  /\ StackOK
  /\ Entering \/ Running \/ Outside \/ Over
  /\ pc # "foreign" => r15 = HostR15
-----------------------------------------------------------------------------
LEMMA ForeignCount ==
  ASSUME NEW n \in ForeignArgs  PROVE n \in Nat
BY ForeignAssumption

LEMMA FrameIsNat ==
  ASSUME NEW s \in Scripts
  PROVE  /\ Signature[s].argc \in Nat /\ Signature[s].varc \in Nat /\ Frame(s) \in Nat
         /\ \A i \in 0 .. Signature[s].varc - 1 : i \div 2 \in 0 .. Frame(s) - 1
<1>1. Signature[s].argc \in Nat /\ Signature[s].varc \in Nat  BY ScriptsAssumption
<1> DEFINE n == Signature[s].varc
           q == (n + 3) \div 4
<1>2. n \in Nat  BY <1>1
<1> HIDE DEF n
<1>3. q \in Nat /\ n <= 4 * q  BY <1>2
<1>4. \A i \in 0 .. n - 1 : i \div 2 \in 0 .. 2 * q - 1
  <2> HIDE DEF q
  <2>1. \A i \in 0 .. n - 1 : i < 4 * q  BY <1>2, <1>3
  <2>2. \A i \in Nat : i < 4 * q => i \div 2 \in 0 .. 2 * q - 1  BY <1>3
  <2>3. QED  BY <1>2, <2>1, <2>2
<1>5. Frame(s) = 2 * q  BY DEF Frame, n
<1> HIDE DEF q
<1>6. QED  BY <1>1, <1>3, <1>4, <1>5 DEF n

(* A cell is kept by a change that touches nothing but variables.            *)
Alike(m, t, k) == t[k] = m[k] \/ (m[k].is = "locals" /\ t[k].is = "locals")

LEMMA Prefix ==
  ASSUME NEW m, NEW t, NEW n \in Nat, n <= Len(m), n <= Len(t), Len(m) \in Nat, Len(t) \in Nat,
         \A k \in 1 .. n : Alike(m, t, k)
  PROVE  /\ \A r, s : FrameAt(m, r, s) /\ r <= n => FrameAt(t, r, s)
         /\ \A r, s, top : Resting(m, r, s, top) /\ top <= n /\ top \in Int => Resting(t, r, s, top)
         /\ \A i \in 1 .. n : Linked(m, i) => Linked(t, i)
<1>1. ASSUME NEW r, NEW s, FrameAt(m, r, s), r <= n  PROVE FrameAt(t, r, s)
  <2> DEFINE b == Base(r, s)
  <2>1. s \in Scripts /\ Frame(s) \in Nat  BY <1>1, FrameIsNat DEF FrameAt
  <2>2. r \in Nat /\ b \in Nat /\ b >= 2 /\ b <= r
    BY <1>1, <2>1 DEF FrameAt, Base
  <2>3. /\ m[b].is = "rbp" /\ m[b - 1].is = "ret" /\ \A j \in b + 1 .. r : m[j].is = "locals"
        /\ m[b - 1].kept => Signature[s].value
    BY <1>1 DEF FrameAt
  <2> HIDE DEF b
  <2>4. Alike(m, t, b) /\ Alike(m, t, b - 1) /\ \A j \in b + 1 .. r : Alike(m, t, j)
    BY <1>1, <2>2
  <2>5. t[b].is = "rbp" /\ t[b - 1] = m[b - 1] /\ \A j \in b + 1 .. r : t[j].is = "locals"
    BY <2>3, <2>4 DEF Alike
  <2>6. r \in 0 .. Len(t) /\ b \in 2 .. Len(t)  BY <1>1, <2>2
  <2>7. QED  BY <2>1, <2>3, <2>5, <2>6 DEF FrameAt, b
<1>2. ASSUME NEW r, NEW s, NEW top \in Int, Resting(m, r, s, top), top <= n
      PROVE  Resting(t, r, s, top)
  <2>1. FrameAt(m, r, s) /\ r <= top /\ (\A j \in r + 1 .. top : m[j].is = "word") /\ r \in Nat
    BY <1>2 DEF Resting, FrameAt
  <2>2. FrameAt(t, r, s)  BY <1>1, <1>2, <2>1
  <2>3. \A j \in r + 1 .. top : Alike(m, t, j)  BY <1>2, <2>1
  <2>4. \A j \in r + 1 .. top : t[j].is = "word"  BY <2>1, <2>3 DEF Alike
  <2>5. QED  BY <2>1, <2>2, <2>4 DEF Resting
<1>3. ASSUME NEW r, NEW to, NEW top \in Int, top <= n, CalledFrom(m, r, to, top)
      PROVE  CalledFrom(t, r, to, top)
  BY <1>2, <1>3 DEF CalledFrom
<1>4. ASSUME NEW i \in 1 .. n, Linked(m, i)  PROVE Linked(t, i)
  <2>1. i - 2 \in Int /\ i - 2 <= n /\ i - 1 \in Int /\ i - 1 <= n  OBVIOUS
  <2>2. ASSUME t[i].is = "rbp"
        PROVE  /\ i >= 2 /\ t[i - 1].is = "ret"
               /\ CalledFrom(t, t[i].base, t[i - 1].to, i - 2)
    <3>1. t[i] = m[i]  BY <2>2 DEF Alike
    <3>2. i >= 2 /\ m[i - 1].is = "ret" /\ CalledFrom(m, m[i].base, m[i - 1].to, i - 2)
      BY <1>4, <2>2, <3>1 DEF Linked
    <3>3. t[i - 1] = m[i - 1]  BY <3>2 DEF Alike
    <3>4. CalledFrom(t, m[i].base, m[i - 1].to, i - 2)  BY <1>3, <2>1, <3>2
    <3>5. QED  BY <3>1, <3>2, <3>3, <3>4
  <2>3. ASSUME t[i].is = "ret"  PROVE \E r : CalledFrom(t, r, t[i].to, i - 1)
    <3>1. t[i] = m[i]  BY <2>3 DEF Alike
    <3>2. PICK r : CalledFrom(m, r, m[i].to, i - 1)  BY <1>4, <2>3, <3>1 DEF Linked
    <3>3. CalledFrom(t, r, m[i].to, i - 1)  BY <1>3, <2>1, <3>2
    <3>4. QED  BY <3>1, <3>3
  <2>4. QED  BY <2>2, <2>3 DEF Linked
<1>5. QED  BY <1>1, <1>2, <1>4
-----------------------------------------------------------------------------
LEMMA Carrier ==
  ASSUME StackOK, NEW X
  PROVE  \E W : X \subseteq W /\ mem \in Seq(Cell(W))
<1>1. PICK V : mem \in Seq(Cell(V))  BY DEF StackOK
<1> DEFINE W == V \cup X
<1>2. Cell(V) \subseteq Cell(W)  BY DEF Cell
<1>3. mem \in Seq(Cell(W))  BY <1>1, <1>2, SeqMonotonic
<1>4. X \subseteq W  OBVIOUS
<1>5. QED  BY <1>3, <1>4

LEMMA Cells ==
  ASSUME NEW W, NEW c \in Cell(W)
  PROVE  /\ c.is \in {"word", "rbp", "r15", "pad", "locals", "ret", "cret"}
         /\ c.is = "rbp" => c.base \in Nat
         /\ c.is = "r15" => c.reg = HostR15
         /\ c.is = "ret" => c.to \in Scripts \cup {Host}
         /\ c.is = "locals" => c \in [is : {"locals"}, val : [1 .. 2 -> W]]
BY DEF Cell

LEMMA NewCells ==
  ASSUME NEW W
  PROVE  /\ \A v \in W : Word(v) \in Cell(W) /\ Word(v).is = "word"
         /\ \A b \in Nat : SavedRbp(b) \in Cell(W) /\ SavedRbp(b).is = "rbp" /\ SavedRbp(b).base = b
         /\ SavedR15(HostR15) \in Cell(W) /\ SavedR15(HostR15).is = "r15"
         /\ Pad \in Cell(W) /\ Pad.is = "pad"
         /\ ForeignReturn \in Cell(W) /\ ForeignReturn.is = "cret"
         /\ \A s \in Scripts \cup {Host}, k \in BOOLEAN :
              /\ ReturnTo(s, k) \in Cell(W)
              /\ ReturnTo(s, k).is = "ret" /\ ReturnTo(s, k).to = s
              /\ ReturnTo(s, k).kept = k
BY DEF Cell, Word, SavedRbp, SavedR15, Pad, ForeignReturn, ReturnTo

LEMMA NewLocals ==
  ASSUME NEW W, NEW w \in [1 .. 2 -> W]
  PROVE  [is |-> "locals", val |-> w] \in Cell(W) /\ [is |-> "locals", val |-> w].is = "locals"
<1>1. [is |-> "locals", val |-> w] \in [is : {"locals"}, val : [1 .. 2 -> W]]  OBVIOUS
<1>2. QED  BY <1>1 DEF Cell

(* Below n the stack is as before; above are no frames, and at most a return *)
(* address that follows the values of its caller.                           *)
LEMMA Unframed ==
  ASSUME StackOK, NEW W, mem' \in Seq(Cell(W)), NEW n \in Nat, n <= Len(mem), n <= Len(mem'),
         \A k \in 1 .. n : Alike(mem, mem', k),
         \A k \in n + 1 .. Len(mem') :
           /\ mem'[k].is # "rbp"
           /\ mem'[k].is = "ret" =>
                \E r, s : s = mem'[k].to /\ s # Host /\ k - 1 <= n /\ Resting(mem, r, s, k - 1)
  PROVE  /\ StackOK'
         /\ \A r, s, top : Resting(mem, r, s, top) /\ top <= n /\ top \in Int
                           => Resting(mem', r, s, top)
<1>1. Len(mem) \in Nat /\ Len(mem') \in Nat  BY LenProperties DEF StackOK
<1>2. /\ \A i \in 1 .. n : Linked(mem, i) => Linked(mem', i)
      /\ \A r, s, top : Resting(mem, r, s, top) /\ top <= n /\ top \in Int
                        => Resting(mem', r, s, top)
  BY <1>1, Prefix
<1>3. \A i \in 1 .. n : Linked(mem', i)  BY <1>1, <1>2 DEF StackOK
<1>4. ASSUME NEW i \in n + 1 .. Len(mem')  PROVE Linked(mem', i)
  <2>1. mem'[i].is # "rbp" /\ i - 1 \in Int  OBVIOUS
  <2>2. ASSUME mem'[i].is = "ret"  PROVE \E r : CalledFrom(mem', r, mem'[i].to, i - 1)
    <3>1. PICK r, s : s = mem'[i].to /\ s # Host /\ i - 1 <= n /\ Resting(mem, r, s, i - 1)
      BY <2>2
    <3>2. Resting(mem', r, s, i - 1)  BY <1>2, <2>1, <3>1
    <3>3. CalledFrom(mem', r, s, i - 1)  BY <3>1, <3>2 DEF CalledFrom
    <3>4. QED  BY <3>1, <3>3
  <2>3. QED  BY <2>1, <2>2 DEF Linked
<1>5. \A i \in 1 .. Len(mem') : i \in 1 .. n \/ i \in n + 1 .. Len(mem')  BY <1>1
<1>6. QED  BY <1>2, <1>3, <1>4, <1>5 DEF StackOK

(* A running script may pop n values and push a cell.                       *)
LEMMA Pushes ==
  ASSUME StackOK, NEW W, mem \in Seq(Cell(W)), NEW n \in 0 .. Len(mem), NEW c \in Cell(W),
         c.is # "rbp", mem' = Append(Popped(n), c),
         c.is = "ret" => c.to # Host /\ \E r : Resting(mem, r, c.to, Len(mem) - n)
  PROVE  /\ StackOK' /\ Len(mem') = Len(mem) - n + 1 /\ mem'[Len(mem')] = c
         /\ \A k \in 1 .. Len(mem) - n : mem'[k] = mem[k]
         /\ \A r, s, top : Resting(mem, r, s, top) /\ top <= Len(mem) - n /\ top \in Int
                           => Resting(mem', r, s, top)
<1> DEFINE p == Popped(n)
           m == Len(mem) - n
<1>1. p \in Seq(Cell(W)) /\ Len(p) = m /\ \A k \in 1 .. m : p[k] = mem[k]
  BY Popping DEF Popped, Rsp
<1>2. m \in Nat /\ m <= Len(mem)  BY LenProperties
<1> HIDE DEF p
<1>3. /\ mem' \in Seq(Cell(W)) /\ Len(mem') = m + 1 /\ mem'[m + 1] = c
      /\ \A k \in 1 .. m : mem'[k] = mem[k]
  <2>1. mem' = Append(p, c)  BY DEF p
  <2>2. QED  BY <1>1, <2>1, Pushing
<1> HIDE DEF m
<1>4. \A k \in 1 .. m : Alike(mem, mem', k)  BY <1>3 DEF Alike
<1>5. ASSUME NEW k \in m + 1 .. Len(mem')
      PROVE  /\ mem'[k].is # "rbp"
             /\ mem'[k].is = "ret" =>
                  \E r, s : s = mem'[k].to /\ s # Host /\ k - 1 <= m /\ Resting(mem, r, s, k - 1)
  <2>1. k = m + 1 /\ k - 1 = m /\ m <= m  BY <1>2, <1>3
  <2>2. mem'[k] = c  BY <1>3, <2>1
  <2>3. c.is = "ret" => c.to # Host /\ \E r : Resting(mem, r, c.to, m)  BY DEF m
  <2>4. QED  BY <2>1, <2>2, <2>3
<1>6. m <= Len(mem')  BY <1>2, <1>3
<1>7. /\ StackOK'
      /\ \A r, s, top : Resting(mem, r, s, top) /\ top <= m /\ top \in Int
                        => Resting(mem', r, s, top)
  BY <1>2, <1>3, <1>4, <1>5, <1>6, Unframed
<1>8. QED  BY <1>3, <1>7 DEF m

LEMMA Pops ==
  ASSUME StackOK, NEW n \in 0 .. Len(mem), mem' = Popped(n)
  PROVE  /\ StackOK' /\ Len(mem') = Len(mem) - n
         /\ \A k \in 1 .. Len(mem) - n : mem'[k] = mem[k]
         /\ \A r, s, top : Resting(mem, r, s, top) /\ top <= Len(mem) - n /\ top \in Int
                           => Resting(mem', r, s, top)
<1> DEFINE m == Len(mem) - n
<1>1. PICK W : mem \in Seq(Cell(W))  BY DEF StackOK
<1>2. mem' \in Seq(Cell(W)) /\ Len(mem') = m /\ \A k \in 1 .. m : mem'[k] = mem[k]
  BY <1>1, Popping DEF Popped, Rsp
<1>3. m \in Nat /\ m <= Len(mem)  BY <1>1, LenProperties
<1> HIDE DEF m
<1>4. \A k \in 1 .. m : Alike(mem, mem', k)  BY <1>2 DEF Alike
<1>5. \A k \in m + 1 .. Len(mem') : FALSE  BY <1>2, <1>3
<1>6. m <= Len(mem')  BY <1>2, <1>3
<1>7. /\ StackOK'
      /\ \A r, s, top : Resting(mem, r, s, top) /\ top <= m /\ top \in Int
                        => Resting(mem', r, s, top)
  BY <1>2, <1>3, <1>4, <1>5, <1>6, Unframed
<1>8. QED  BY <1>2, <1>7 DEF m
-----------------------------------------------------------------------------
LEMMA AtRest ==
  ASSUME IInv, pc \in {"body", "keep"}
  PROVE  /\ StackOK /\ Resting(mem, rbp, script, Len(mem)) /\ script \in Scripts
         /\ Len(mem) \in Nat /\ rbp \in Nat /\ rbp <= Len(mem) /\ r15 = HostR15
         /\ \A j \in rbp + 1 .. Len(mem) : mem[j].is = "word"
<1>1. Resting(mem, rbp, script, Len(mem))
  BY DEF IInv, Entering, Running, Outside, Over, Rsp
<1>2. Len(mem) \in Nat  BY LenProperties DEF IInv, StackOK
<1>3. QED  BY <1>1, <1>2 DEF IInv, Resting, FrameAt

LEMMA RestsAgain ==
  ASSUME StackOK', pc' \in {"body", "keep"}, r15' = HostR15,
         Resting(mem', rbp', script', Len(mem'))
  PROVE  IInv'
BY DEF IInv, Running, Rsp

LEMMA MoreValues ==
  ASSUME NEW m, NEW r, NEW s, NEW top \in Int, Resting(m, r, s, top),
         NEW n \in Int, top <= n, \A j \in top + 1 .. n : m[j].is = "word"
  PROVE  Resting(m, r, s, n)
<1>1. FrameAt(m, r, s) /\ r <= top /\ r \in Int /\ \A j \in r + 1 .. top : m[j].is = "word"
  BY DEF Resting, FrameAt
<1>2. \A j \in r + 1 .. n : j \in r + 1 .. top \/ j \in top + 1 .. n  BY <1>1
<1>3. QED  BY <1>1, <1>2 DEF Resting

LEMMA FewerValues ==
  ASSUME NEW m, NEW r, NEW s, NEW top \in Int, Resting(m, r, s, top),
         NEW n \in Int, r <= n, n <= top
  PROVE  Resting(m, r, s, n)
<1>1. FrameAt(m, r, s) /\ r <= top /\ r \in Int /\ \A j \in r + 1 .. top : m[j].is = "word"
  BY DEF Resting, FrameAt
<1>2. QED  BY <1>1 DEF Resting

(* A value takes the place of n values on the evaluation stack.              *)
LEMMA ValuePushed ==
  ASSUME IInv, pc \in {"body", "keep"}, NEW v, mem' = Append(mem, Word(v)),
         UNCHANGED <<rbp, r15, script>>, pc' \in {"body", "keep"}
  PROVE  IInv'
<1>1. PICK W : {v} \subseteq W /\ mem \in Seq(Cell(W))  BY AtRest, Carrier
<1>2. 0 \in 0 .. Len(mem) /\ Word(v) \in Cell(W) /\ Word(v).is = "word"
  BY <1>1, AtRest, NewCells
<1>3. Popped(0) = mem
  <2>1. /\ Popped(0) \in Seq(Cell(W)) /\ Len(Popped(0)) = Len(mem) - 0
        /\ \A k \in 1 .. Len(mem) - 0 : Popped(0)[k] = mem[k]
    BY <1>1, <1>2, Popping DEF Popped, Rsp
  <2>2. Len(mem) - 0 = Len(mem)  BY AtRest
  <2>3. QED  BY <1>1, <2>1, <2>2, SameElements
<1>4. mem' = Append(Popped(0), Word(v))  BY <1>3
<1>5. /\ StackOK' /\ Len(mem') = Len(mem) + 1 /\ mem'[Len(mem')] = Word(v)
      /\ Resting(mem', rbp, script, Len(mem))
  <2>1. /\ StackOK' /\ Len(mem') = Len(mem) - 0 + 1 /\ mem'[Len(mem')] = Word(v)
        /\ \A r, s, top : Resting(mem, r, s, top) /\ top <= Len(mem) - 0 /\ top \in Int
                          => Resting(mem', r, s, top)
    BY <1>1, <1>2, <1>4, AtRest, Pushes
  <2>2. QED  BY <2>1, AtRest
<1>6. Resting(mem', rbp, script, Len(mem'))
  <2> DEFINE h == Len(mem)
             t == Len(mem')
  <2>1. h \in Int /\ t \in Int /\ h <= t /\ t = h + 1  BY <1>5, AtRest
  <2>2. Resting(mem', rbp, script, h) /\ mem'[t].is = "word"  BY <1>2, <1>5
  <2> HIDE DEF h, t
  <2>3. \A j \in h + 1 .. t : mem'[j].is = "word"
    <3>1. \A j \in h + 1 .. t : j = t  BY <2>1
    <3>2. QED  BY <2>2, <3>1
  <2>4. Resting(mem', rbp, script, t)  BY <2>1, <2>2, <2>3, MoreValues
  <2>5. QED  BY <2>4 DEF t
<1>7. QED  BY <1>5, <1>6, AtRest, RestsAgain

LEMMA EnterStep == ASSUME IInv, Enter  PROVE IInv'
<1> DEFINE n == Frame(script)
           Arg(i) == IF i < Signature[script].argc THEN args[i + 1] ELSE Junk
           L(k) == <<Arg(2 * (n - k)), Arg(2 * (n - k) + 1)>>
           rest == [k \in 1 .. n |-> Locals(Arg(2 * (n - k)), Arg(2 * (n - k) + 1))]
           h == Len(mem)
<1>1. /\ pc = "enter" /\ mem' = (mem \o <<SavedRbp(rbp)>>) \o rest /\ rbp' = h + 1 + n
      /\ pc' = "body" /\ UNCHANGED <<r15, script>>
  BY DEF Enter, Rsp
<1>2. /\ StackOK /\ script \in Scripts /\ h >= 1 /\ mem[h].is = "ret" /\ r15 = HostR15
      /\ CalledFrom(mem, rbp, mem[h].to, h - 1) /\ (mem[h].kept => Signature[script].value)
  BY <1>1 DEF IInv, Entering, Running, Outside, Over, Rsp
<1>3. PICK W : UNION {{L(k)[1], L(k)[2]} : k \in 1 .. n} \subseteq W /\ mem \in Seq(Cell(W))  BY <1>2, Carrier
<1>4. n \in Nat /\ h \in Nat  BY <1>2, <1>3, FrameIsNat, LenProperties
<1>5. rbp \in Nat  BY <1>2, <1>4 DEF CalledFrom, HostRbp, Resting, FrameAt
<1>6. \A k \in 1 .. n : rest[k] \in Cell(W) /\ rest[k].is = "locals"
  <2>1. \A k \in 1 .. n : L(k) \in [1 .. 2 -> W] /\ rest[k] = [is |-> "locals", val |-> L(k)]
    BY <1>3 DEF Locals
  <2> HIDE DEF L, rest
  <2>2. QED  BY <2>1, NewLocals
<1>7. rest \in Seq(Cell(W)) /\ Len(rest) = n
  <2>1. rest \in [1 .. n -> Cell(W)]  BY <1>6
  <2> HIDE DEF rest, n
  <2>2. rest \in Seq(Cell(W))  BY <1>4, <2>1, SeqDef
  <2>3. DOMAIN rest = 1 .. n  BY <2>1
  <2>4. QED  BY <1>4, <2>2, <2>3, LenProperties
<1> HIDE DEF rest, n, h
<1> DEFINE one == <<SavedRbp(rbp)>>
           mid == mem \o one
<1>8. /\ mid \in Seq(Cell(W)) /\ Len(mid) = h + 1 /\ mid[h + 1] = SavedRbp(rbp)
      /\ \A k \in 1 .. h : mid[k] = mem[k]
  <2>1. SavedRbp(rbp) \in Cell(W)  BY <1>5, NewCells
  <2>2. mid = Append(mem, SavedRbp(rbp))  BY <1>3, <2>1, AppendIsConcat
  <2>3. QED  BY <1>3, <2>1, <2>2, Pushing DEF h
<1>9. mem' = mid \o rest  BY <1>1
<1> HIDE DEF mid
<1>10. /\ mem' \in Seq(Cell(W)) /\ Len(mem') = h + 1 + n
       /\ \A k \in 1 .. h : mem'[k] = mem[k]
       /\ mem'[h + 1] = SavedRbp(rbp)
       /\ \A k \in h + 2 .. h + 1 + n : mem'[k].is = "locals"
  <2>1. /\ mem' \in Seq(Cell(W)) /\ Len(mem') = h + 1 + n
        /\ \A k \in 1 .. h + 1 : mem'[k] = mid[k]
        /\ \A k \in h + 1 + 1 .. h + 1 + n : mem'[k] = rest[k - (h + 1)]
    <3>1. /\ mid \o rest \in Seq(Cell(W)) /\ Len(mid \o rest) = Len(mid) + Len(rest)
          /\ \A k \in 1 .. Len(mid) : (mid \o rest)[k] = mid[k]
          /\ \A k \in Len(mid) + 1 .. Len(mid) + Len(rest) :
               (mid \o rest)[k] = rest[k - Len(mid)]
      BY <1>7, <1>8, Joining
    <3>2. Len(mid) = h + 1 /\ Len(rest) = n  BY <1>7, <1>8
    <3>3. QED  BY <1>9, <3>1, <3>2
  <2>2. \A k \in h + 2 .. h + 1 + n : k \in h + 1 + 1 .. h + 1 + n /\ k - (h + 1) \in 1 .. n
    BY <1>4
  <2>3. \A k \in h + 2 .. h + 1 + n : mem'[k].is = "locals"  BY <1>6, <2>1, <2>2
  <2>4. h + 1 \in 1 .. h + 1 /\ \A k \in 1 .. h : k \in 1 .. h + 1  BY <1>4
  <2>5. QED  BY <1>8, <2>1, <2>3, <2>4
<1>11. /\ \A i \in 1 .. h : Linked(mem', i)
       /\ \A r, s, top : Resting(mem, r, s, top) /\ top <= h /\ top \in Int
                         => Resting(mem', r, s, top)
  <2>1. \A k \in 1 .. h : Alike(mem, mem', k)  BY <1>10 DEF Alike
  <2>2. \A i \in 1 .. h : Linked(mem, i)  BY <1>2 DEF StackOK, h
  <2>3. h <= Len(mem) /\ h <= Len(mem') /\ Len(mem) \in Nat /\ Len(mem') \in Nat
    BY <1>4, <1>10 DEF h
  <2>4. QED  BY <1>4, <2>1, <2>2, <2>3, Prefix
<1>12. mem'[h + 1].is = "rbp" /\ mem'[h + 1].base = rbp  BY <1>5, <1>10, NewCells
<1>13. mem'[h] = mem[h] /\ mem'[h].is = "ret"  BY <1>2, <1>4, <1>10
<1>14. Linked(mem', h + 1)
  <2>1. CalledFrom(mem', rbp, mem[h].to, h - 1)
    BY <1>2, <1>4, <1>11 DEF CalledFrom
  <2> DEFINE i == h + 1
  <2>2. i >= 2 /\ i - 1 = h /\ i - 2 = h - 1  BY <1>2, <1>4 DEF h
  <2>3. mem'[i].base = rbp /\ mem'[i - 1] = mem[h] /\ mem'[i - 1].is = "ret"
    BY <1>12, <1>13, <2>2
  <2> HIDE DEF i
  <2>4. CalledFrom(mem', mem'[i].base, mem'[i - 1].to, i - 2)  BY <2>1, <2>2, <2>3
  <2>5. mem'[i].is = "rbp"  BY <1>12 DEF i
  <2>6. Linked(mem', i)  BY <2>2, <2>3, <2>4, <2>5 DEF Linked
  <2>7. QED  BY <2>6 DEF i
<1>15. StackOK'
  <2>1. \A i \in h + 2 .. h + 1 + n : mem'[i].is # "rbp" /\ mem'[i].is # "ret"  BY <1>10
  <2>2. \A i \in 1 .. Len(mem') : i \in 1 .. h \/ i = h + 1 \/ i \in h + 2 .. h + 1 + n
    BY <1>4, <1>10
  <2>3. \A i \in h + 2 .. h + 1 + n : Linked(mem', i)  BY <2>1 DEF Linked
  <2>4. QED  BY <1>10, <1>11, <1>14, <2>2, <2>3 DEF StackOK
<1>16. Resting(mem', rbp', script', Len(mem'))
  <2>1. rbp' = Len(mem') /\ Base(rbp', script') = h + 1  BY <1>1, <1>4, <1>10 DEF Base, n, h
  <2>2. h + 1 \in 2 .. Len(mem') /\ rbp' \in 0 .. Len(mem') /\ h + 1 - 1 = h
        /\ h + 1 + 1 = h + 2 /\ Len(mem') = h + 1 + n
    BY <1>2, <1>4, <1>10, <2>1
  <2>3. FrameAt(mem', rbp', script')
    <3> DEFINE b == Base(rbp', script')
    <3>1. b = h + 1 /\ b - 1 = h /\ b + 1 = h + 2 /\ rbp' = h + 1 + n
      BY <1>4, <2>1, <2>2
    <3>2. /\ mem'[b].is = "rbp" /\ mem'[b - 1].is = "ret" /\ b \in 2 .. Len(mem')
          /\ mem'[b - 1].kept => Signature[script'].value
      BY <1>1, <1>2, <1>12, <1>13, <2>2, <3>1
    <3>3. \A j \in b + 1 .. rbp' : mem'[j].is = "locals"  BY <1>10, <3>1
    <3> HIDE DEF b
    <3>4. QED  BY <1>1, <1>2, <2>2, <3>2, <3>3 DEF FrameAt, b
  <2>4. rbp' <= Len(mem') /\ \A j \in rbp' + 1 .. Len(mem') : mem'[j].is = "word"
    BY <2>1, <2>2
  <2>5. QED  BY <2>3, <2>4 DEF Resting
<1>17. QED  BY <1>1, <1>2, <1>15, <1>16, RestsAgain

(* The cells of a frame's variables.                                        *)
LEMMA CellOfVariable ==
  ASSUME IInv, pc = "body", NEW i \in 0 .. Signature[script].varc - 1
  PROVE  CellOf(i) \in 1 .. rbp /\ mem[CellOf(i)].is = "locals"
<1>1. FrameAt(mem, rbp, script) /\ script \in Scripts /\ rbp \in Nat  BY AtRest DEF Resting
<1> DEFINE n == Frame(script)
           d == i \div 2
<1>2. n \in Nat /\ d \in 0 .. n - 1  BY <1>1, FrameIsNat
<1>3. CellOf(i) = rbp - d /\ Base(rbp, script) = rbp - n  BY DEF CellOf, Base
<1> HIDE DEF n, d
<1>4. rbp - n >= 2 /\ \A j \in rbp - n + 1 .. rbp : mem[j].is = "locals"
  BY <1>1, <1>3 DEF FrameAt
<1>5. rbp - d \in rbp - n + 1 .. rbp /\ rbp - d \in 1 .. rbp  BY <1>1, <1>2, <1>4
<1>6. QED  BY <1>3, <1>4, <1>5

LEMMA SetVarStep ==
  ASSUME IInv, pc = "body", NEW i \in 0 .. Signature[script].varc - 1, SetVar(i)
  PROVE  IInv'
<1> DEFINE p == Popped(1)
           c == CellOf(i)
           k == (i % 2) + 1
           v == mem[Rsp].val
           h == Len(mem)
           new == [mem[c].val EXCEPT ![k] = v]
           e == [mem[c] EXCEPT !.val = new]
<1>1. /\ Evaluated > 0 /\ mem' = [p EXCEPT ![c].val[k] = v]
      /\ UNCHANGED <<rbp, r15, script, pc>>
  BY DEF SetVar, SetVariable
<1>2. /\ StackOK /\ Resting(mem, rbp, script, h) /\ h \in Nat /\ rbp \in Nat /\ rbp <= h - 1
      /\ r15 = HostR15 /\ script \in Scripts
  BY <1>1, AtRest DEF Evaluated, Rsp
<1>3. c \in 1 .. rbp /\ mem[c].is = "locals"  BY CellOfVariable
<1>4. PICK W : {v} \subseteq W /\ mem \in Seq(Cell(W))  BY <1>2, Carrier
<1>5. p \in Seq(Cell(W)) /\ Len(p) = h - 1 /\ \A j \in 1 .. h - 1 : p[j] = mem[j]
  <2>1. 1 \in 0 .. Len(mem)  BY <1>2
  <2>2. /\ p \in Seq(Cell(W)) /\ Len(p) = Len(mem) - 1
        /\ \A j \in 1 .. Len(mem) - 1 : p[j] = mem[j]
    BY <1>4, <2>1, Popping DEF Popped, Rsp
  <2>3. QED  BY <2>2
<1> HIDE DEF p, c, k, v
<1>6. c \in 1 .. h /\ c \in 1 .. Len(p) /\ p[c] = mem[c]  BY <1>2, <1>3, <1>5
<1>7. e \in Cell(W) /\ e.is = "locals"
  <2>1. mem[c] \in Cell(W)  BY <1>4, <1>6, ElementOfSeq
  <2>2. mem[c] \in [is : {"locals"}, val : [1 .. 2 -> W]]  BY <1>3, <2>1, Cells
  <2>3. new \in [1 .. 2 -> W]
    <3>1. mem[c].val \in [1 .. 2 -> W] /\ v \in W  BY <1>4, <2>2
    <3>2. QED  BY <3>1
  <2> HIDE DEF new
  <2>4. e \in [is : {"locals"}, val : [1 .. 2 -> W]] /\ e.is = mem[c].is  BY <2>2, <2>3
  <2>5. QED  BY <1>3, <2>4 DEF Cell
<1>8. mem' = [p EXCEPT ![c] = e]
  <2>1. mem' = [p EXCEPT ![c] = [p[c] EXCEPT !.val = [p[c].val EXCEPT ![k] = v]]]  BY <1>1
  <2>2. QED  BY <1>6, <2>1
<1> HIDE DEF e, h
<1>9. /\ mem' \in Seq(Cell(W)) /\ Len(mem') = h - 1
      /\ \A j \in 1 .. h - 1 : mem'[j] = IF j = c THEN e ELSE p[j]
  BY <1>5, <1>6, <1>7, <1>8, ExceptSeq
<1>10. \A j \in 1 .. h - 1 : Alike(mem, mem', j)
  BY <1>3, <1>5, <1>7, <1>9 DEF Alike
<1>11. /\ StackOK'
       /\ \A r, s, top : Resting(mem, r, s, top) /\ top <= h - 1 /\ top \in Int
                         => Resting(mem', r, s, top)
  <2>1. h - 1 \in Nat /\ h - 1 <= Len(mem) /\ h - 1 <= Len(mem')  BY <1>2, <1>9 DEF h
  <2>2. \A j \in h - 1 + 1 .. Len(mem') : FALSE  BY <1>2, <1>9
  <2>3. QED  BY <1>2, <1>9, <1>10, <2>1, <2>2, Unframed
<1>12. Resting(mem', rbp', script', Len(mem'))
  <2>1. h \in Int /\ h - 1 \in Int /\ h - 1 <= h /\ h - 1 <= h - 1  BY <1>2
  <2>2. Resting(mem, rbp, script, h - 1)  BY <1>2, <2>1, FewerValues
  <2>3. Resting(mem', rbp, script, h - 1)  BY <1>11, <2>1, <2>2
  <2>4. QED  BY <1>1, <1>9, <2>3
<1>13. QED  BY <1>1, <1>2, <1>11, <1>12, RestsAgain

LEMMA WorksStep == ASSUME IInv, Works  PROVE IInv'
<1>1. pc = "body" /\ script \in Scripts /\ r15 = HostR15 /\ StackOK /\ Len(mem) \in Nat
      /\ rbp \in Nat /\ Resting(mem, rbp, script, Len(mem))
  BY AtRest DEF Works
<1>2. ASSUME NEW v \in Values, PushValue(v)  PROVE IInv'
  BY <1>1, <1>2, ValuePushed DEF PushValue
<1>3. ASSUME PopValue  PROVE IInv'
  <2>1. Evaluated > 0 /\ mem' = Popped(1) /\ UNCHANGED <<rbp, r15, script, pc>>
    BY <1>3 DEF PopValue
  <2>2. rbp <= Len(mem) - 1 /\ 1 \in 0 .. Len(mem)  BY <1>1, <2>1 DEF Evaluated, Rsp
  <2>3. /\ StackOK' /\ Len(mem') = Len(mem) - 1
        /\ \A r, s, top : Resting(mem, r, s, top) /\ top <= Len(mem) - 1 /\ top \in Int
                          => Resting(mem', r, s, top)
    BY <1>1, <2>1, <2>2, Pops
  <2>4. Resting(mem, rbp, script, Len(mem) - 1)  BY <1>1, <2>2, FewerValues
  <2>5. Resting(mem', rbp', script', Len(mem'))  BY <1>1, <2>1, <2>3, <2>4
  <2>6. QED  BY <1>1, <2>1, <2>3, <2>5, RestsAgain
<1>4. ASSUME NEW i \in 0 .. Signature[script].varc - 1, PushVar(i)  PROVE IInv'
  <2>1. mem' = Append(mem, Word(Variable(i))) /\ UNCHANGED <<rbp, r15, script, pc>>
    BY <1>4 DEF PushVar
  <2>2. PICK v : v = Variable(i)  OBVIOUS
  <2>3. QED  BY <1>1, <2>1, <2>2, ValuePushed
<1>5. QED  BY <1>1, <1>2, <1>3, <1>4, SetVarStep DEF Works

LEMMA KeepStep == ASSUME IInv, KeepValue  PROVE IInv'
<1>1. pc = "keep" /\ pc' = "body" /\ mem' = Append(mem, Word(rax)) /\ UNCHANGED <<rbp, r15, script>>
  BY DEF KeepValue
<1>2. PICK v : v = rax  OBVIOUS
<1>3. QED  BY <1>1, <1>2, ValuePushed

LEMMA CallStep ==
  ASSUME IInv, NEW f \in Scripts, NEW keep \in BOOLEAN, CallFunc(f, keep)
  PROVE  IInv'
<1> DEFINE n == Signature[f].argc
           c == ReturnTo(script, keep)
           h == Len(mem)
<1>1. /\ pc = "body" /\ Evaluated >= n /\ mem' = Append(Popped(n), c)
      /\ script' = f /\ pc' = "enter" /\ UNCHANGED <<rbp, r15>>
      /\ keep => Signature[f].value
  BY DEF CallFunc
<1>2. /\ StackOK /\ Resting(mem, rbp, script, h) /\ h \in Nat /\ rbp \in Nat /\ r15 = HostR15
      /\ script \in Scripts
  BY <1>1, AtRest
<1>3. n \in Nat /\ n \in 0 .. h /\ rbp <= h - n
  <2>1. n \in Nat  BY FrameIsNat
  <2> HIDE DEF n
  <2>2. h - rbp >= n  BY <1>1 DEF Evaluated, Rsp
  <2>3. QED  BY <1>2, <2>1, <2>2
<1>4. PICK W : mem \in Seq(Cell(W))  BY <1>2 DEF StackOK
<1>5. c \in Cell(W) /\ c.is = "ret" /\ c.to = script /\ c.kept = keep  BY <1>2, NewCells
<1> HIDE DEF n, c
<1>6. Resting(mem, rbp, script, h - n)  BY <1>2, <1>3, FewerValues
<1>7. /\ StackOK' /\ Len(mem') = h - n + 1 /\ mem'[Len(mem')] = c
      /\ Resting(mem', rbp, script, h - n)
  <2>1. c.is = "ret" => c.to # Host /\ \E r : Resting(mem, r, c.to, Len(mem) - n)
    BY <1>2, <1>5, <1>6, HostAssumption
  <2>2. c.is # "rbp"  BY <1>5
  <2>3. /\ StackOK' /\ Len(mem') = h - n + 1 /\ mem'[Len(mem')] = c
        /\ \A r, s, top : Resting(mem, r, s, top) /\ top <= h - n /\ top \in Int
                          => Resting(mem', r, s, top)
    BY <1>1, <1>2, <1>3, <1>4, <1>5, <2>1, <2>2, Pushes
  <2>4. h - n \in Int /\ h - n <= h - n  BY <1>2, <1>3
  <2>5. QED  BY <1>6, <2>3, <2>4
<1>8. Entering'
  <2> DEFINE t == Len(mem')
  <2>1. t >= 1 /\ t - 1 = h - n  BY <1>2, <1>3, <1>7
  <2>2. /\ mem'[t].is = "ret" /\ mem'[t].to = script /\ script # Host
        /\ mem'[t].kept => Signature[script'].value
    BY <1>1, <1>2, <1>5, <1>7, HostAssumption
  <2>3. CalledFrom(mem', rbp', mem'[t].to, t - 1)
    BY <1>1, <1>7, <2>1, <2>2 DEF CalledFrom
  <2>4. QED  BY <1>1, <2>1, <2>2, <2>3 DEF Entering, Rsp
<1>9. QED  BY <1>1, <1>2, <1>7, <1>8 DEF IInv

(* A frame is torn down: what its caller left below it is found again.       *)
LEMMA WriteRetStep ==
  ASSUME IInv, pc = "body", NEW value, WriteRet(value)  PROVE IInv'
<1> DEFINE b == rbp - Frame(script)
           h == Len(mem)
           n == h - (b - 2)
<1>1. /\ mem' = SubSeq(mem, 1, b - 2) /\ rbp' = mem[b].base /\ script' = mem[b - 1].to
      /\ pc' = IF mem[b - 1].to = Host THEN "done" ELSE IF mem[b - 1].kept THEN "keep" ELSE "body"
      /\ UNCHANGED r15
  BY DEF WriteRet, SavedBase
<1>2. StackOK /\ h \in Nat /\ r15 = HostR15 /\ FrameAt(mem, rbp, script)
  BY AtRest DEF Resting
<1>3. b \in 2 .. h /\ mem[b].is = "rbp"  BY <1>2 DEF FrameAt, Base
<1> HIDE DEF b, h
<1>4. mem[b - 1].is = "ret" /\ CalledFrom(mem, mem[b].base, mem[b - 1].to, b - 2)
  <2>1. Linked(mem, b)  BY <1>2, <1>3 DEF StackOK, h
  <2>2. QED  BY <1>3, <2>1 DEF Linked
<1>5. n \in 0 .. h /\ h - n = b - 2 /\ b - 2 \in Nat  BY <1>2, <1>3
<1> HIDE DEF n
<1>6. /\ StackOK' /\ Len(mem') = b - 2
      /\ \A r, s, top : Resting(mem, r, s, top) /\ top <= b - 2 /\ top \in Int
                        => Resting(mem', r, s, top)
  <2>1. mem' = Popped(n)  BY <1>1, <1>5 DEF Popped, Rsp, h
  <2>2. n \in 0 .. Len(mem) /\ Len(mem) - n = b - 2  BY <1>5 DEF h
  <2>3. QED  BY <1>2, <2>1, <2>2, Pops
<1>7. CASE mem[b - 1].to = Host
  <2>1. rbp' = HostRbp /\ script' = Host /\ pc' = "done" /\ Len(mem') = 0
    BY <1>1, <1>4, <1>6, <1>7 DEF CalledFrom
  <2>2. mem' = <<>>  BY <1>6, <2>1, EmptySeq DEF StackOK
  <2>3. Over'  BY <2>1, <2>2 DEF Over
  <2>4. QED  BY <1>1, <1>2, <1>6, <2>3 DEF IInv
<1>8. CASE mem[b - 1].to # Host
  <2>1. Resting(mem, rbp', script', b - 2)  BY <1>1, <1>4, <1>8 DEF CalledFrom
  <2>2. b - 2 \in Int /\ b - 2 <= b - 2  BY <1>5
  <2>3. Resting(mem', rbp', script', Len(mem'))  BY <1>6, <2>1, <2>2
  <2>4. pc' \in {"body", "keep"}  BY <1>1, <1>8
  <2>5. QED  BY <1>1, <1>2, <1>6, <2>3, <2>4, RestsAgain
<1>9. QED  BY <1>7, <1>8

(* PUSH R15, the qword that aligns RSP where one is needed, and CALL.        *)
LEMMA CallForeignStep ==
  ASSUME IInv, NEW n \in ForeignArgs, NEW keep \in BOOLEAN, CallForeign(n, keep)
  PROVE  IInv'
<1> DEFINE h == Len(mem)
           skew == Skew(h + 1)
           pads == [i \in 1 .. skew |-> Pad]
           s1 == mem \o <<SavedR15(r15)>>
           s2 == s1 \o pads
<1>1. /\ pc = "body" /\ Evaluated >= n /\ mem' = s2 \o <<ForeignReturn>>
      /\ r15' = skew /\ foreign'.argc = n /\ pc' = "foreign" /\ UNCHANGED <<rbp, script>>
  BY DEF CallForeign, Rsp
<1>2. /\ StackOK /\ Resting(mem, rbp, script, h) /\ h \in Nat /\ rbp \in Nat /\ r15 = HostR15
      /\ script \in Scripts
  BY <1>1, AtRest
<1>3. n \in Nat /\ rbp <= h - n
  <2>1. n \in Nat  BY ForeignCount
  <2>2. h - rbp >= n  BY <1>1 DEF Evaluated, Rsp
  <2>3. QED  BY <1>2, <2>1, <2>2
<1>4. skew \in {0, 1} /\ (h + 1 + skew) % 2 = 0
  <2>1. h \in Nat /\ skew = (h + 1) % 2  BY <1>2 DEF Skew
  <2> HIDE DEF h, skew
  <2>2. QED  BY <2>1
<1>5. PICK W : mem \in Seq(Cell(W))  BY <1>2 DEF StackOK
<1>6. /\ SavedR15(r15) \in Cell(W) /\ SavedR15(r15).is = "r15"
      /\ Pad \in Cell(W) /\ Pad.is = "pad"
      /\ ForeignReturn \in Cell(W) /\ ForeignReturn.is = "cret"
  BY <1>2, NewCells
<1>7. pads \in Seq(Cell(W)) /\ Len(pads) = skew /\ \A k \in 1 .. skew : pads[k].is = "pad"
  <2>1. skew \in Nat  BY <1>4
  <2>2. pads \in [1 .. skew -> Cell(W)] /\ \A k \in 1 .. skew : pads[k].is = "pad"  BY <1>6
  <2> HIDE DEF skew, pads
  <2>3. pads \in Seq(Cell(W))  BY <2>1, <2>2, SeqDef
  <2>4. DOMAIN pads = 1 .. skew  BY <2>2
  <2>5. QED  BY <2>1, <2>2, <2>3, <2>4, LenProperties
<1>8. /\ s1 \in Seq(Cell(W)) /\ Len(s1) = h + 1 /\ s1[h + 1] = SavedR15(r15)
      /\ \A k \in 1 .. h : s1[k] = mem[k]
  <2>1. s1 = Append(mem, SavedR15(r15))  BY <1>5, <1>6, AppendIsConcat
  <2> HIDE DEF s1
  <2>2. QED  BY <1>5, <1>6, <2>1, Pushing DEF h
<1> HIDE DEF h, skew, pads, s1
<1>9. /\ s2 \in Seq(Cell(W)) /\ Len(s2) = h + 1 + skew
      /\ \A k \in 1 .. h + 1 : s2[k] = s1[k]
      /\ \A k \in h + 2 .. h + 1 + skew : s2[k].is = "pad"
  <2>1. /\ s2 \in Seq(Cell(W)) /\ Len(s2) = Len(s1) + Len(pads)
        /\ \A k \in 1 .. Len(s1) : s2[k] = s1[k]
        /\ \A k \in Len(s1) + 1 .. Len(s1) + Len(pads) : s2[k] = pads[k - Len(s1)]
    BY ONLY <1>7, <1>8, Joining
  <2> HIDE DEF s2
  <2>2. \A k \in h + 2 .. h + 1 + skew :
          k \in Len(s1) + 1 .. Len(s1) + Len(pads) /\ k - Len(s1) \in 1 .. skew
    BY <1>2, <1>4, <1>7, <1>8
  <2>3. \A k \in h + 2 .. h + 1 + skew : s2[k].is = "pad"  BY <1>7, <2>1, <2>2
  <2>4. QED  BY <1>7, <1>8, <2>1, <2>3
<1> HIDE DEF s2
<1>10. /\ mem' \in Seq(Cell(W)) /\ Len(mem') = h + 2 + skew
       /\ \A k \in 1 .. h : mem'[k] = mem[k]
       /\ mem'[h + 1] = SavedR15(r15)
       /\ \A k \in h + 1 .. Len(mem') : mem'[k].is # "rbp" /\ mem'[k].is # "ret"
  <2>1. mem' = Append(s2, ForeignReturn)  BY <1>1, <1>6, <1>9, AppendIsConcat
  <2>2. /\ mem' \in Seq(Cell(W)) /\ Len(mem') = Len(s2) + 1
        /\ \A k \in 1 .. Len(s2) : mem'[k] = s2[k]
        /\ mem'[Len(s2) + 1] = ForeignReturn
    BY <1>6, <1>9, <2>1, Pushing
  <2>3. Len(mem') = h + 2 + skew /\ Len(s2) = h + 1 + skew /\ Len(s2) + 1 = h + 2 + skew
    BY <1>2, <1>4, <1>9, <2>2
  <2>4. \A k \in 1 .. h : k \in 1 .. Len(s2) /\ k \in 1 .. h + 1  BY <1>2, <1>4, <2>3
  <2>5. \A k \in 1 .. h : mem'[k] = mem[k]  BY <1>8, <1>9, <2>2, <2>4
  <2>6. h + 1 \in 1 .. Len(s2) /\ h + 1 \in 1 .. h + 1  BY <1>2, <1>4, <2>3
  <2>7. mem'[h + 1] = SavedR15(r15)  BY <1>8, <1>9, <2>2, <2>6
  <2>8. ASSUME NEW k \in h + 1 .. Len(mem')  PROVE mem'[k].is # "rbp" /\ mem'[k].is # "ret"
    <3>1. k = h + 1 \/ k \in h + 2 .. h + 1 + skew \/ k = h + 2 + skew  BY <1>2, <1>4, <2>3
    <3>2. k \in h + 2 .. h + 1 + skew => k \in 1 .. Len(s2)  BY <1>2, <1>4, <2>3
    <3>3. k \in h + 2 .. h + 1 + skew => mem'[k].is = "pad"  BY <1>9, <2>2, <3>2
    <3>4. k = h + 2 + skew => mem'[k].is = "cret"  BY <1>6, <2>2, <2>3
    <3>5. QED  BY <1>6, <2>7, <3>1, <3>3, <3>4
  <2>9. QED  BY <2>2, <2>3, <2>5, <2>7, <2>8
<1>11. /\ StackOK'
       /\ \A r, s, top : Resting(mem, r, s, top) /\ top <= h /\ top \in Int
                         => Resting(mem', r, s, top)
  <2>1. \A k \in 1 .. h : Alike(mem, mem', k)  BY <1>10 DEF Alike
  <2>2. h <= Len(mem) /\ h <= Len(mem') /\ h \in Nat  BY <1>2, <1>4, <1>10 DEF h
  <2>3. QED  BY <1>2, <1>10, <2>1, <2>2, Unframed
<1>12. Outside'
  <2>1. Saved' = Len(mem') - 1 - skew  BY <1>1 DEF Saved, Rsp
  <2>2. Saved' = h + 1 /\ h + 1 \in 1 .. Len(mem') /\ Saved' - 1 = h
        /\ Len(mem') - 1 = h + 1 + skew
    <3> DEFINE z == Saved'
               t == Len(mem')
    <3>1. z = t - 1 - skew /\ t = h + 2 + skew  BY <1>10, <2>1
    <3>2. skew \in 0 .. 1 /\ h \in Nat  BY <1>2, <1>4
    <3> HIDE DEF z, t
    <3>3. z = h + 1 /\ h + 1 \in 1 .. t /\ z - 1 = h /\ t - 1 = h + 1 + skew
      BY <3>1, <3>2
    <3>4. QED  BY <3>3 DEF z, t
  <2>3. Resting(mem, rbp, script, h) /\ h <= h /\ h \in Int  BY <1>2
  <2>4. Resting(mem', rbp', script', Saved' - 1)  BY <1>1, <1>11, <2>2, <2>3
  <2>5. mem'[Saved'].is = "r15"  BY <1>6, <1>10, <2>2
  <2>6. rbp' <= Saved' - 1 - foreign'.argc  BY <1>1, <1>3, <2>2
  <2>7. Rsp' = Len(mem')  BY DEF Rsp
  <2>8. /\ (Rsp' - 1) % 2 = 0 /\ Saved' \in 1 .. Rsp'
        /\ \A j \in Saved' .. Rsp' : mem'[j].is # "ret"
    BY <1>4, <1>10, <2>2, <2>7
  <2>9. QED  BY <1>1, <1>3, <1>4, <2>4, <2>5, <2>6, <2>8 DEF Outside
<1>13. QED  BY <1>1, <1>11, <1>12 DEF IInv

(* ADD RSP, R15 finds the saved R15 whether or not RSP had been aligned.     *)
LEMMA ForeignReturnsStep == ASSUME IInv, ForeignReturns  PROVE IInv'
<1> DEFINE h == Len(mem)
           t == Saved - 1 - foreign.argc
           n == h - t
           q == SubSeq(mem, 1, t)
<1>1. PICK v \in Values : mem' = q \o (IF foreign.keep THEN <<Word(v)>> ELSE <<>>)
  BY DEF ForeignReturns, Saved
<1>2. /\ pc = "foreign" /\ r15' = mem[Saved].reg /\ pc' = "body" /\ UNCHANGED <<rbp, script>>
  BY DEF ForeignReturns, Saved
<1>3. /\ StackOK /\ Saved \in 1 .. h /\ mem[Saved].is = "r15" /\ foreign.argc \in Nat
      /\ Resting(mem, rbp, script, Saved - 1) /\ rbp <= t
  <2>1. StackOK /\ Outside  BY <1>2 DEF IInv, Entering, Running, Over
  <2>2. foreign.argc \in ForeignArgs  BY <2>1 DEF Outside
  <2>3. foreign.argc \in Nat  BY <2>2, ForeignCount
  <2>4. QED  BY <2>1, <2>3 DEF Outside, Rsp
<1>4. PICK W : {v} \subseteq W /\ mem \in Seq(Cell(W))  BY <1>3, Carrier
<1>5. r15' = HostR15
  <2>1. mem[Saved] \in Cell(W)  BY <1>3, <1>4, ElementOfSeq
  <2>2. QED  BY <1>2, <1>3, <2>1, Cells
<1>6. rbp \in Nat /\ h \in Nat  BY <1>3, <1>4, LenProperties DEF Resting, FrameAt
<1>7. t \in Nat /\ t <= h /\ t <= Saved - 1  BY <1>3, <1>6
<1>8. Resting(mem, rbp, script, t)
  <2>1. t \in Int /\ Saved - 1 \in Int  BY <1>3, <1>7
  <2> HIDE DEF t
  <2>2. QED  BY <1>3, <1>7, <2>1, FewerValues
<1>9. q = Popped(n) /\ n \in 0 .. h /\ h - n = t
  <2> HIDE DEF t
  <2>1. n \in 0 .. h /\ h - n = t  BY <1>6, <1>7
  <2>2. QED  BY <2>1 DEF Popped, Rsp
<1>10. q \in Seq(Cell(W))
  <2>1. n \in 0 .. Len(mem)  BY <1>9
  <2> HIDE DEF q, n
  <2>2. QED  BY <1>4, <1>9, <2>1, Popping DEF Popped, Rsp
<1> HIDE DEF t, q, n, h
<1>11. CASE foreign.keep
  <2>1. Word(v) \in Cell(W) /\ Word(v).is = "word"  BY <1>4, NewCells
  <2>2. mem' = Append(Popped(n), Word(v))
    BY <1>1, <1>9, <1>10, <1>11, <2>1, AppendIsConcat
  <2>3. n \in 0 .. Len(mem) /\ Len(mem) - n = t  BY <1>9 DEF h
  <2>4. /\ StackOK' /\ Len(mem') = t + 1 /\ mem'[Len(mem')] = Word(v)
        /\ \A r, s, top : Resting(mem, r, s, top) /\ top <= t /\ top \in Int
                          => Resting(mem', r, s, top)
    BY <1>3, <1>4, <2>1, <2>2, <2>3, Pushes
  <2>5. t \in Int /\ t <= t /\ t + 1 \in Int /\ t <= t + 1 /\ \A j \in t + 1 .. t + 1 : j = t + 1
    BY <1>7
  <2>6. Resting(mem', rbp, script, t)  BY <1>8, <2>4, <2>5
  <2>7. \A j \in t + 1 .. t + 1 : mem'[j].is = "word"  BY <2>1, <2>4, <2>5
  <2>8. Resting(mem', rbp, script, t + 1)  BY <2>5, <2>6, <2>7, MoreValues
  <2>9. Resting(mem', rbp', script', Len(mem'))  BY <1>2, <2>4, <2>8
  <2>10. QED  BY <1>2, <1>5, <2>4, <2>9, RestsAgain
<1>12. CASE ~foreign.keep
  <2>1. mem' = Popped(n)  BY <1>1, <1>9, <1>10, <1>12, ConcatEmptySeq
  <2>2. n \in 0 .. Len(mem) /\ Len(mem) - n = t  BY <1>9 DEF h
  <2>3. /\ StackOK' /\ Len(mem') = t
        /\ \A r, s, top : Resting(mem, r, s, top) /\ top <= t /\ top \in Int
                          => Resting(mem', r, s, top)
    BY <1>3, <2>1, <2>2, Pops
  <2>4. t \in Int /\ t <= t  BY <1>7
  <2>5. Resting(mem', rbp, script, t)  BY <1>8, <2>3, <2>4
  <2>6. Resting(mem', rbp', script', Len(mem'))  BY <1>2, <2>3, <2>5
  <2>7. QED  BY <1>2, <1>5, <2>3, <2>6, RestsAgain
<1>13. QED  BY <1>11, <1>12
-----------------------------------------------------------------------------
LEMMA Initially == Init => IInv
<1>1. SUFFICES ASSUME Init  PROVE IInv  OBVIOUS
<1> DEFINE c == ReturnTo(Host, FALSE)
<1>2. /\ mem = <<c>> /\ rbp = HostRbp /\ r15 = HostR15 /\ script = Entry /\ pc = "enter"
  BY <1>1 DEF Init
<1>3. c \in Cell({}) /\ c.is = "ret" /\ c.to = Host /\ c.kept = FALSE  BY NewCells
<1> HIDE DEF c
<1>4. mem \in Seq(Cell({})) /\ Len(mem) = 1 /\ mem[1] = c  BY <1>2, <1>3
<1>5. StackOK
  <2>1. \A i \in 1 .. Len(mem) : i = 1  BY <1>4
  <2>2. CalledFrom(mem, HostRbp, Host, 1 - 1)  BY DEF CalledFrom
  <2>3. Linked(mem, 1)  BY <1>3, <1>4, <2>2 DEF Linked
  <2>4. QED  BY <1>4, <2>1, <2>3 DEF StackOK
<1>6. Entering
  BY <1>2, <1>3, <1>4, ScriptsAssumption DEF Entering, Rsp, CalledFrom
<1>7. QED  BY <1>2, <1>5, <1>6 DEF IInv

LEMMA Inductive == IInv /\ [Next]_vars => IInv'
<1>1. SUFFICES ASSUME IInv, [Next]_vars  PROVE IInv'  OBVIOUS
<1>2. CASE Enter  BY <1>1, <1>2, EnterStep
<1>3. CASE KeepValue  BY <1>1, <1>3, KeepStep
<1>4. CASE ForeignReturns  BY <1>1, <1>4, ForeignReturnsStep
<1>5. CASE ReturnValue
  <2>1. PICK v : v = mem[Rsp].val  OBVIOUS
  <2>2. pc = "body" /\ WriteRet(v)  BY <1>5, <2>1 DEF ReturnValue
  <2>3. QED  BY <1>1, <2>2, WriteRetStep
<1>6. CASE ReturnVoid
  <2>1. pc = "body" /\ WriteRet(Junk)  BY <1>6 DEF ReturnVoid
  <2>2. QED  BY <1>1, <2>1, WriteRetStep
<1>7. CASE Works  BY <1>1, <1>7, WorksStep
<1>8. ASSUME NEW f \in Scripts, NEW keep \in BOOLEAN, CallFunc(f, keep)  PROVE IInv'
  BY <1>1, <1>8, CallStep
<1>9. ASSUME NEW n \in ForeignArgs, NEW keep \in BOOLEAN, CallForeign(n, keep)  PROVE IInv'
  BY <1>1, <1>9, CallForeignStep
<1>10. CASE UNCHANGED vars
  <2>1. UNCHANGED <<mem, rbp, r15, foreign, script, pc>>  BY <1>10 DEF vars
  <2>2. StackOK'  BY <1>1, <2>1 DEF IInv, StackOK
  <2>3. (Entering \/ Running \/ Outside \/ Over)'
    BY <1>1, <2>1 DEF IInv, Entering, Running, Outside, Over, Saved, Rsp
  <2>4. QED  BY <1>1, <2>1, <2>2, <2>3 DEF IInv
<1>11. QED
  BY <1>1, <1>2, <1>3, <1>4, <1>5, <1>6, <1>7, <1>8, <1>9, <1>10 DEF Next, Finished

(* The invariant of the machine stack, frame by frame.                        *)
THEOREM Invariant == Spec => []IInv
BY Initially, Inductive, PTL DEF Spec

(* RSP and RBP stay within the stack and every cell is of one of its kinds,  *)
(* whatever scripts call: no return pops more than was pushed.              *)
THEOREM TypeCorrect == Spec => []TypeOK
<1>1. IInv => TypeOK
  <2>1. SUFFICES ASSUME IInv  PROVE TypeOK  OBVIOUS
  <2>2. PICK W : mem \in Seq(Cell(W))  BY <2>1 DEF IInv, StackOK
  <2>3. Rsp \in Nat /\ Len(mem) = Rsp  BY <2>2, LenProperties DEF Rsp
  <2>4. ASSUME NEW i \in 1 .. Rsp
        PROVE mem[i].is \in {"word", "rbp", "r15", "pad", "locals", "ret", "cret"}
    <3>1. mem[i] \in Cell(W)  BY <2>2, <2>3, ElementOfSeq
    <3>2. QED  BY <3>1, Cells
  <2>5. CASE Entering
    <3>1. rbp \in 0 .. Rsp
      BY <2>3, <2>5 DEF Entering, CalledFrom, HostRbp, Resting, FrameAt
    <3>2. QED  BY <2>1, <2>4, <2>5, <3>1 DEF TypeOK, Entering, IInv
  <2>6. CASE Running
    <3>1. rbp \in 0 .. Rsp /\ script \in Scripts  BY <2>3, <2>6 DEF Running, Resting, FrameAt
    <3>2. QED  BY <2>1, <2>4, <2>6, <3>1 DEF TypeOK, Running, IInv
  <2>7. CASE Outside
    <3>1. rbp \in 0 .. Rsp /\ script \in Scripts  BY <2>3, <2>7 DEF Outside, Resting, FrameAt
    <3>2. QED  BY <2>4, <2>7, <3>1 DEF TypeOK, Outside
  <2>8. CASE Over
    <3>1. rbp \in 0 .. Rsp  BY <2>3, <2>8 DEF Over, HostRbp
    <3>2. QED  BY <2>1, <2>4, <2>8, <3>1 DEF TypeOK, Over, IInv
  <2>9. QED  BY <2>1, <2>5, <2>6, <2>7, <2>8 DEF IInv
<1>2. QED  BY <1>1, Invariant, PTL

(* Every foreign function is entered with RSP on a multiple of 16, however   *)
(* deep the calls and however many values the scripts have pushed: R15      *)
(* holds what AND R15, 8 left, for every depth.                             *)
THEOREM AlwaysAligned == Spec => []ForeignAligned
<1>1. IInv => ForeignAligned
  BY DEF IInv, Entering, Running, Outside, Over, ForeignAligned
<1>2. QED  BY <1>1, Invariant, PTL

(* Every saved RBP is the frame of the caller, down to the host's, for any   *)
(* nesting of calls, and between two frames there are values only.          *)
THEOREM AlwaysLinked == Spec => []FramesLinked
<1>1. IInv => FramesLinked
  <2>1. SUFFICES ASSUME IInv, NEW i \in 1 .. Rsp, mem[i].is = "rbp"
        PROVE /\ mem[i - 1].is = "ret"
              /\ IF mem[i - 1].to = Host THEN mem[i].base = HostRbp
                 ELSE /\ mem[mem[i].base - Frame(mem[i - 1].to)].is = "rbp"
                      /\ \A j \in mem[i].base + 1 .. i - 2 : mem[j].is = "word"
    BY DEF FramesLinked
  <2>2. Linked(mem, i)  BY <2>1 DEF IInv, StackOK, Rsp
  <2>3. QED  BY <2>1, <2>2 DEF Linked, CalledFrom, Resting, FrameAt, Base
<1>2. QED  BY <1>1, Invariant, PTL

(* The host gets back its stack, its RBP and its R15 from every run that     *)
(* ends, whatever was called and however deep.                              *)
THEOREM HostAlwaysRestored == Spec => []HostRestored
<1>1. IInv => HostRestored
  BY DEF IInv, Entering, Running, Outside, Over, HostRestored
<1>2. QED  BY <1>1, Invariant, PTL
-----------------------------------------------------------------------------
(* The frame of the script that is called from j begins at p.               *)
Below(m, p, j) ==
  /\ m[j].to \in Scripts /\ p \in Nat /\ p >= 1 /\ p + 1 + Frame(m[j].to) < j
  /\ \A i \in p + 1 .. j - 1 : m[i].is # "ret"

(* Where the running script begins.                                         *)
Top == IF pc = "enter" THEN Rsp ELSE Base(rbp, script) - 1

LEMMA FrameLies ==
  ASSUME NEW m, NEW r, NEW s, NEW top \in Int, Resting(m, r, s, top), Len(m) \in Nat
  PROVE  /\ s \in Scripts /\ Frame(s) \in Nat /\ r \in Nat
         /\ Base(r, s) - 1 \in 1 .. Len(m) /\ Base(r, s) - 1 \in Nat /\ Base(r, s) - 1 >= 1
         /\ m[Base(r, s) - 1].is = "ret"
         /\ (m[Base(r, s) - 1].kept => Signature[s].value)
         /\ Base(r, s) - 1 + 1 + Frame(s) = r /\ r <= top
         /\ \A j \in Base(r, s) .. top : m[j].is # "ret"
         /\ \A j \in Base(r, s) + 1 .. r : m[j].is = "locals"
<1> DEFINE b == Base(r, s)
<1>1. /\ s \in Scripts /\ r \in 0 .. Len(m) /\ b \in 2 .. Len(m) /\ r <= top
      /\ m[b].is = "rbp" /\ m[b - 1].is = "ret" /\ (m[b - 1].kept => Signature[s].value)
      /\ \A j \in b + 1 .. r : m[j].is = "locals"
      /\ \A j \in r + 1 .. top : m[j].is = "word"
  BY DEF Resting, FrameAt
<1>2. Frame(s) \in Nat /\ b = r - Frame(s)  BY <1>1, FrameIsNat DEF Base
<1> HIDE DEF b
<1>3. b - 1 \in 1 .. Len(m) /\ b - 1 \in Nat /\ b - 1 >= 1 /\ r \in Nat
      /\ b - 1 + 1 + Frame(s) = r
  <2>1. r \in Nat /\ b \in Nat /\ b >= 2 /\ b <= Len(m)  BY <1>1
  <2> DEFINE n == Frame(s)
  <2>2. n \in Nat /\ b = r - n  BY <1>2
  <2> HIDE DEF n
  <2>3. b - 1 + 1 + n = r  BY <2>1, <2>2
  <2>4. b - 1 \in 1 .. Len(m) /\ b - 1 \in Nat /\ b - 1 >= 1  BY <2>1
  <2>5. QED  BY <2>1, <2>3, <2>4 DEF n
<1>4. ASSUME NEW j \in b .. top  PROVE m[j].is # "ret"
  <2>1. j = b \/ j \in b + 1 .. r \/ j \in r + 1 .. top  BY <1>1, <1>2
  <2>2. m[j].is \in {"rbp", "locals", "word"}  BY <1>1, <2>1
  <2>3. QED  BY <2>2
<1>5. QED  BY <1>1, <1>2, <1>3, <1>4 DEF b

LEMMA ReturnsAre ==
  ASSUME StackOK
  PROVE  /\ Len(mem) \in Nat /\ Returns \in SUBSET (1 .. Len(mem))
         /\ \A j : j \in Returns <=> j \in 1 .. Len(mem) /\ mem[j].is = "ret"
<1>1. Len(mem) \in Nat  BY LenProperties DEF StackOK
<1>2. QED  BY <1>1 DEF Returns, Rsp

LEMMA CallerBelow ==
  ASSUME StackOK, NEW j \in Returns, mem[j].to # Host
  PROVE  \E p \in Returns : Below(mem, p, j)
<1>1. j \in 1 .. Len(mem) /\ mem[j].is = "ret" /\ Len(mem) \in Nat  BY ReturnsAre
<1>2. PICK r : CalledFrom(mem, r, mem[j].to, j - 1)  BY <1>1 DEF StackOK, Linked
<1> DEFINE s == mem[j].to
           p == Base(r, s) - 1
<1>3. Resting(mem, r, s, j - 1) /\ j - 1 \in Int  BY <1>1, <1>2 DEF CalledFrom
<1>4. /\ s \in Scripts /\ p \in 1 .. Len(mem) /\ p \in Nat /\ p >= 1
      /\ mem[p].is = "ret" /\ p + 1 + Frame(s) = r /\ r <= j - 1 /\ r \in Nat
      /\ \A i \in Base(r, s) .. j - 1 : mem[i].is # "ret"
  BY <1>1, <1>3, FrameLies
<1>5. Base(r, s) = p + 1
  <2>1. Base(r, s) \in Int  BY <1>4, FrameIsNat DEF Base
  <2>2. QED  BY <2>1
<1> HIDE DEF p
<1>6. p + 1 + Frame(s) < j  BY <1>1, <1>4
<1>7. p \in Returns  BY <1>4, ReturnsAre
<1>8. Below(mem, p, j)  BY <1>4, <1>5, <1>6 DEF Below
<1>9. QED  BY <1>7, <1>8

LEMMA Neighbours ==
  ASSUME StackOK, NEW k \in 1 .. Depth - 1, Depth \in Nat
  PROVE  /\ Start(k) \in Returns /\ Start(k + 1) \in Returns
         /\ Below(mem, Start(k), Start(k + 1))
<1> DEFINE i == Start(k)
           j == Start(k + 1)
<1>1. Len(mem) \in Nat /\ Returns \in SUBSET (1 .. Len(mem))  BY ReturnsAre
<1>2. k \in 1 .. Cardinality(Returns) /\ k + 1 \in 1 .. Cardinality(Returns)  BY DEF Depth
<1>3. i \in Returns /\ Rank(Returns, i) = k /\ j \in Returns /\ Rank(Returns, j) = k + 1
  BY <1>1, <1>2, NthOne DEF Start
<1> HIDE DEF i, j
<1>4. i \in Nat /\ j \in Nat /\ i >= 1 /\ j >= 1  BY <1>1, <1>3
<1>5. mem[j].to # Host
  <2>1. SUFFICES ASSUME mem[j].to = Host  PROVE FALSE  OBVIOUS
  <2>2. mem[j].is = "ret" /\ j \in 1 .. Len(mem)  BY <1>3, ReturnsAre
  <2>3. PICK r : CalledFrom(mem, r, mem[j].to, j - 1)  BY <2>2 DEF StackOK, Linked
  <2>4. j - 1 = 0  BY <2>1, <2>3 DEF CalledFrom
  <2>5. i = j \/ j < i  BY <1>4, <2>4
  <2>6. j < i => Rank(Returns, j) < Rank(Returns, i)  BY <1>1, <1>3, RankGrows
  <2>7. QED  BY <1>3, <2>5, <2>6
<1>6. PICK p \in Returns : Below(mem, p, j)  BY <1>3, <1>5, CallerBelow
<1>7. p \in Nat /\ p < j /\ \A q \in Returns : ~(p < q /\ q < j)
  <2>1. mem[j].to \in Scripts /\ p \in Nat /\ p + 1 + Frame(mem[j].to) < j  BY <1>6 DEF Below
  <2>2. Frame(mem[j].to) \in Nat  BY <2>1, FrameIsNat
  <2>3. p < j  BY <1>4, <2>1, <2>2
  <2>4. ASSUME NEW q \in Returns, p < q, q < j  PROVE FALSE
    <3>1. q \in Nat  BY <1>1
    <3>2. q \in p + 1 .. j - 1  BY <1>4, <2>1, <2>4, <3>1
    <3>3. mem[q].is = "ret"  BY ReturnsAre
    <3>4. QED  BY <1>6, <3>2, <3>3 DEF Below
  <2>5. QED  BY <2>1, <2>3, <2>4
<1>8. Nth(Returns, k) = p
  <2> DEFINE S == Returns
             n == Len(mem)
  <2>1. n \in Nat /\ S \in SUBSET (1 .. n) /\ p \in S /\ j \in S /\ p < j
    BY <1>1, <1>3, <1>6, <1>7
  <2>2. (\A q \in S : ~(p < q /\ q < j)) /\ k \in Int /\ k + 1 = Rank(S, j)  BY <1>3, <1>7
  <2> HIDE DEF S, n
  <2>3. Nth(S, k) = p  BY ONLY <2>1, <2>2, NthBefore
  <2>4. QED  BY <2>3 DEF S
<1>9. i = p  BY <1>8 DEF i, Start
<1>10. QED  BY <1>3, <1>6, <1>9 DEF i, j

(* The last return address is the running script's.                         *)
LEMMA TopIsLast ==
  ASSUME IInv, pc # "done"
  PROVE  /\ Top \in Returns /\ (\A j \in Returns : j <= Top) /\ Top \in Nat
         /\ script \in Scripts /\ (mem[Top].kept => Signature[script].value)
<1>1. StackOK /\ Len(mem) \in Nat /\ \A j \in Returns : j \in 1 .. Len(mem)
  BY ReturnsAre DEF IInv
<1>2. CASE Entering
  <2>1. Top = Len(mem) /\ Top \in 1 .. Len(mem) /\ mem[Top].is = "ret"
    BY <1>1, <1>2 DEF Entering, Top, Rsp
  <2>2. QED  BY <1>1, <1>2, <2>1, ReturnsAre DEF Entering, Rsp
<1>3. ASSUME NEW top \in Int, pc # "enter", Resting(mem, rbp, script, top),
             \A j \in top + 1 .. Len(mem) : mem[j].is # "ret"
      PROVE  /\ Top \in Returns /\ (\A j \in Returns : j <= Top) /\ Top \in Nat
             /\ script \in Scripts /\ (mem[Top].kept => Signature[script].value)
  <2> DEFINE p == Base(rbp, script) - 1
  <2>1. p = Top  BY <1>3 DEF Top
  <2>2. /\ script \in Scripts /\ rbp \in Nat /\ p \in 1 .. Len(mem) /\ p \in Nat
        /\ mem[p].is = "ret" /\ (mem[p].kept => Signature[script].value)
        /\ \A j \in Base(rbp, script) .. top : mem[j].is # "ret"
    BY <1>1, <1>3, FrameLies
  <2>3. Base(rbp, script) = p + 1
    <3>1. Base(rbp, script) \in Int  BY <2>2, FrameIsNat DEF Base
    <3>2. QED  BY <3>1
  <2> HIDE DEF p
  <2>4. ASSUME NEW j \in Returns  PROVE j <= p
    <3>1. j \in 1 .. Len(mem) /\ mem[j].is = "ret"  BY <1>1, ReturnsAre
    <3>2. j <= p \/ j \in p + 1 .. top \/ j \in top + 1 .. Len(mem)  BY <1>1, <2>2, <3>1
    <3>3. QED  BY <1>3, <2>2, <2>3, <3>1, <3>2
  <2>5. p \in Returns  BY <1>1, <2>2, ReturnsAre
  <2>6. QED  BY <2>1, <2>2, <2>4, <2>5
<1>4. CASE Running
  <2>1. Resting(mem, rbp, script, Len(mem)) /\ pc # "enter"  BY <1>4 DEF Running, Rsp
  <2>2. \A j \in Len(mem) + 1 .. Len(mem) : mem[j].is # "ret"  BY <1>1
  <2>3. QED  BY <1>1, <1>3, <2>1, <2>2
<1>5. CASE Outside
  <2>1. /\ Resting(mem, rbp, script, Saved - 1) /\ pc # "enter" /\ Saved \in 1 .. Len(mem)
        /\ \A j \in Saved .. Len(mem) : mem[j].is # "ret"
    BY <1>5 DEF Outside, Rsp
  <2>2. Saved - 1 \in Int /\ Saved - 1 + 1 = Saved  BY <2>1
  <2>3. QED  BY <1>3, <2>1, <2>2
<1>6. QED  BY <1>2, <1>4, <1>5 DEF IInv, Over
-----------------------------------------------------------------------------
(* The values from r up to top, and what becomes of them above another stack. *)
IsValuesOn(v, m, r, top) ==
  /\ v \in Seq({m[r + q].val : q \in 1 .. top - r}) /\ Len(v) = top - r
  /\ \A q \in 1 .. top - r : v[q] = m[r + q].val

LEMMA ValuesAre ==
  ASSUME NEW m, NEW r \in Int, NEW top \in Int, r <= top
  PROVE  IsValuesOn(ValuesOn(m, r, top), m, r, top)
<1> DEFINE X == {m[r + q].val : q \in 1 .. top - r}
           v == ValuesOn(m, r, top)
           n == top - r
<1>1. n \in Nat  OBVIOUS
<1>2. v \in [1 .. n -> X] /\ \A q \in 1 .. n : v[q] = m[r + q].val  BY DEF ValuesOn
<1> HIDE DEF X, v, n
<1>3. v \in Seq(X)  BY <1>1, <1>2, SeqDef
<1>4. DOMAIN v = 1 .. n  BY <1>2
<1>5. Len(v) = n  BY <1>1, <1>3, <1>4, LenProperties
<1>6. QED  BY <1>2, <1>3, <1>5 DEF IsValuesOn, X, v, n

LEMMA SameValues ==
  ASSUME NEW m, NEW t, NEW r \in Int, NEW top \in Int, \A k \in r + 1 .. top : t[k] = m[k]
  PROVE  ValuesOn(t, r, top) = ValuesOn(m, r, top)
<1>1. \A q \in 1 .. top - r : r + q \in r + 1 .. top  OBVIOUS
<1>2. \A q \in 1 .. top - r : t[r + q].val = m[r + q].val  BY <1>1
<1>3. QED  BY <1>2 DEF ValuesOn

LEMMA NoValues ==
  ASSUME NEW m, NEW r \in Int, NEW top \in Int, top <= r
  PROVE  ValuesOn(m, r, top) = <<>>
<1>1. 1 .. top - r = {}  BY SMT
<1>2. ValuesOn(m, r, top) = [q \in {} |-> m[r + q].val]  BY <1>1 DEF ValuesOn
<1>3. QED  BY <1>2

LEMMA OneMoreValue ==
  ASSUME NEW m, NEW t, NEW r \in Int, NEW top \in Int, r <= top,
         \A k \in r + 1 .. top : t[k] = m[k]
  PROVE  ValuesOn(t, r, top + 1) = Append(ValuesOn(m, r, top), t[top + 1].val)
<1> DEFINE v == ValuesOn(m, r, top)
           w == ValuesOn(t, r, top + 1)
           n == top - r
           e == t[top + 1].val
           X == {m[r + q].val : q \in 1 .. top - r}
           Y == {t[r + q].val : q \in 1 .. top + 1 - r}
           Z == X \cup Y
<1>1. v \in Seq(X) /\ Len(v) = n /\ \A q \in 1 .. n : v[q] = m[r + q].val
  BY ValuesAre DEF IsValuesOn
<1>2. w \in Seq(Y) /\ Len(w) = n + 1 /\ \A q \in 1 .. n + 1 : w[q] = t[r + q].val
  <2> DEFINE h == top + 1
  <2>1. h \in Int /\ r <= h  OBVIOUS
  <2>2. h - r = n + 1  OBVIOUS
  <2> HIDE DEF h
  <2>3. IsValuesOn(ValuesOn(t, r, h), t, r, h)  BY <2>1, ValuesAre
  <2>4. QED  BY <2>2, <2>3 DEF IsValuesOn, h
<1>3. n \in Nat /\ r + (n + 1) = top + 1 /\ n + 1 \in 1 .. n + 1 /\ \A q \in 1 .. n : r + q \in r + 1 .. top
  OBVIOUS
<1>4. w[n + 1] = e  BY <1>2, <1>3
<1>5. \A q \in 1 .. n : w[q] = v[q]
  <2>1. \A q \in 1 .. n : t[r + q] = m[r + q]  BY <1>3
  <2>2. \A q \in 1 .. n : q \in 1 .. n + 1  BY <1>3
  <2> HIDE DEF v, w, n
  <2>3. \A q \in 1 .. n : w[q] = t[r + q].val  BY <1>2, <2>2
  <2>4. \A q \in 1 .. n : v[q] = m[r + q].val  BY <1>1
  <2>5. QED  BY <2>1, <2>3, <2>4
<1>6. v \in Seq(Z) /\ w \in Seq(Z)
  <2>1. X \subseteq Z /\ Y \subseteq Z  OBVIOUS
  <2> HIDE DEF v, w, X, Y, Z
  <2>2. QED  BY <1>1, <1>2, <2>1, SeqMonotonic
<1>7. e \in Z  BY <1>3 DEF Y
<1> HIDE DEF v, w, n, e, X, Y, Z
<1> DEFINE a == Append(v, e)
<1>8. a \in Seq(Z) /\ Len(a) = n + 1 /\ a[n + 1] = e /\ \A q \in 1 .. n : a[q] = v[q]
  BY <1>1, <1>6, <1>7, Pushing
<1> HIDE DEF a
<1>9. \A q \in 1 .. n + 1 : q \in 1 .. n \/ q = n + 1  BY <1>3
<1>10. \A q \in 1 .. n + 1 : w[q] = a[q]  BY <1>4, <1>5, <1>8, <1>9
<1>11. w = a  BY <1>2, <1>6, <1>8, <1>10, SameElements
<1>12. QED  BY <1>11 DEF a, v, w, e

(* Above r, t is m without what lies above l, which is n below top.          *)
Trims(t, m, r, top, l, n) ==
  /\ r \in Int /\ top \in Int /\ l \in Int /\ n \in Int
  /\ r <= l /\ l <= top /\ l = top - n
  /\ \A k \in r + 1 .. l : t[k] = m[k]

LEMMA FewerOfTheValues ==
  ASSUME NEW m, NEW t, NEW r, NEW top, NEW l, NEW n, Trims(t, m, r, top, l, n)
  PROVE  ValuesOn(t, r, l) = SubSeq(ValuesOn(m, r, top), 1, Len(ValuesOn(m, r, top)) - n)
<1> USE DEF Trims
<1> DEFINE v == ValuesOn(m, r, top)
           w == ValuesOn(t, r, l)
           X == {m[r + q].val : q \in 1 .. top - r}
           Y == {t[r + q].val : q \in 1 .. l - r}
           Z == X \cup Y
           d == l - r
<1>1. v \in Seq(X) /\ Len(v) = top - r /\ \A q \in 1 .. top - r : v[q] = m[r + q].val
  <2>1. IsValuesOn(ValuesOn(m, r, top), m, r, top)  BY ValuesAre
  <2>2. QED  BY <2>1 DEF IsValuesOn
<1>2. d \in Nat /\ d = top - r - n /\ n \in 0 .. top - r
      /\ \A q \in 1 .. d : r + q \in r + 1 .. l /\ q \in 1 .. top - r
  OBVIOUS
<1>3. \A q \in 1 .. d : t[r + q] = m[r + q]  BY <1>2
<1> HIDE DEF v, X
<1>4. w \in Seq(Y) /\ Len(w) = d /\ \A q \in 1 .. d : w[q] = t[r + q].val
  <2>1. IsValuesOn(ValuesOn(t, r, l), t, r, l)  BY ValuesAre
  <2>2. QED  BY <2>1 DEF IsValuesOn
<1> HIDE DEF w, Y, d
<1>5. v \in Seq(Z) /\ w \in Seq(Z)
  <2>1. X \subseteq Z /\ Y \subseteq Z  OBVIOUS
  <2> HIDE DEF Z
  <2>2. QED  BY <1>1, <1>4, <2>1, SeqMonotonic
<1> HIDE DEF Z
<1> DEFINE p == SubSeq(v, 1, Len(v) - n)
<1>6. p \in Seq(Z) /\ Len(p) = Len(v) - n /\ \A q \in 1 .. Len(v) - n : p[q] = v[q]
  <2>1. n \in 0 .. Len(v)  BY <1>1, <1>2
  <2>2. QED  BY <1>5, <2>1, Popping
<1> HIDE DEF p
<1>7. Len(v) - n = d  BY <1>1, <1>2
<1>8. \A q \in 1 .. d : w[q] = p[q]  BY <1>1, <1>2, <1>3, <1>4, <1>6, <1>7
<1>9. w = p  BY <1>4, <1>5, <1>6, <1>7, <1>8, SameElements
<1>10. QED  BY <1>9 DEF w, p, v

LEMMA SameVariables ==
  ASSUME NEW m, NEW t, NEW s \in Scripts, NEW r \in Int,
         \A k \in Base(r, s) + 1 .. r : t[k] = m[k]
  PROVE  VariablesAt(t, r, s) = VariablesAt(m, r, s)
<1> DEFINE n == Frame(s)
<1>1. n \in Nat /\ Base(r, s) = r - n /\ \A i \in 0 .. Signature[s].varc - 1 : i \div 2 \in 0 .. n - 1
  BY FrameIsNat DEF Base
<1> HIDE DEF n
<1>2. ASSUME NEW i \in 0 .. Signature[s].varc - 1  PROVE t[r - (i \div 2)] = m[r - (i \div 2)]
  <2> DEFINE d == i \div 2
  <2>1. d \in 0 .. n - 1  BY <1>1
  <2> HIDE DEF d
  <2>2. r - d \in r - n + 1 .. r  BY <1>1, <2>1
  <2>3. t[r - d] = m[r - d]  BY <1>1, <2>2
  <2>4. QED  BY <2>3 DEF d
<1>3. QED  BY <1>2 DEF VariablesAt

LEMMA SameWaiting ==
  ASSUME NEW m, NEW t, NEW p, NEW j \in Nat, Below(m, p, j), \A k \in p .. j : t[k] = m[k]
  PROVE  Waiting(t, p, j) = Waiting(m, p, j)
<1> DEFINE s == m[j].to
           n == Frame(s)
           r == p + 1 + n
<1>1. s \in Scripts /\ p \in Nat /\ n \in Nat /\ r < j
  BY FrameIsNat DEF Below
<1>2. t[j] = m[j] /\ t[p] = m[p]
  <2>1. j \in p .. j /\ p \in p .. j  BY <1>1
  <2>2. QED  BY <2>1
<1>3. r \in Int /\ j - 1 \in Int /\ Base(r, s) = p + 1
  <2>1. Base(r, s) = r - n  BY DEF Base
  <2> HIDE DEF n
  <2>2. QED  BY <1>1, <2>1
<1>4. /\ \A k \in r + 1 .. j - 1 : k \in p .. j
      /\ \A k \in p + 1 + 1 .. r : k \in p .. j
  <2> HIDE DEF n
  <2>1. QED  BY <1>1
<1> HIDE DEF r
<1>5. ValuesOn(t, r, j - 1) = ValuesOn(m, r, j - 1)  BY <1>3, <1>4, SameValues
<1>6. VariablesAt(t, r, s) = VariablesAt(m, r, s)
  <2>1. \A k \in Base(r, s) + 1 .. r : t[k] = m[k]  BY <1>3, <1>4
  <2> HIDE DEF s
  <2>2. QED  BY <1>1, <1>3, <2>1, SameVariables
<1>7. QED  BY <1>2, <1>5, <1>6 DEF Waiting, r
-----------------------------------------------------------------------------
(* What the running script has of its own, and what its caller is promised.  *)
Activation(s, kept, vals, locals) ==
  [script |-> s, kept |-> kept, vals |-> vals, locals |-> locals]

TopValues ==
  CASE pc = "enter"   -> <<>>
    [] pc = "foreign" -> ValuesOn(mem, rbp, Saved - 1)
    [] pc = "keep"    -> Append(ValuesOn(mem, rbp, Rsp), rax)
    [] pc = "body"    -> ValuesOn(mem, rbp, Rsp)

TopVariables == IF pc = "enter" THEN Arguments ELSE VariablesAt(mem, rbp, script)

TopActivation == Activation(script, mem[Top].kept, TopValues, TopVariables)

(* The activations, as far as a step can tell them apart.                   *)
Seen ==
  /\ \E X : Acts \in Seq(X)
  /\ Depth \in Nat /\ Depth >= 1 /\ Len(Acts) = Depth /\ Start(Depth) = Top
  /\ \A k \in 1 .. Depth - 1 : Acts[k] = Waiting(mem, Start(k), Start(k + 1))
  /\ Acts[Depth] = TopActivation

LEMMA TopFrame ==
  ASSUME IInv, pc \in {"body", "keep", "foreign"}
  PROVE  /\ script \in Scripts /\ rbp \in Nat /\ Frame(script) \in Nat /\ Len(mem) \in Nat
         /\ Top = Base(rbp, script) - 1 /\ Top + 1 + Frame(script) = rbp
         /\ Base(rbp, script) = Top + 1 /\ Top >= 1 /\ Top \in Nat
         /\ pc \in {"body", "keep"} => rbp <= Len(mem)
         /\ pc = "foreign" => rbp <= Saved - 1 - foreign.argc
         /\ \A j \in Top + 2 .. rbp : mem[j].is = "locals"
<1>1. Len(mem) \in Nat  BY ReturnsAre DEF IInv
<1>2. Top = Base(rbp, script) - 1  BY DEF Top
<1>3. ASSUME NEW top \in Int, Resting(mem, rbp, script, top)
      PROVE  /\ script \in Scripts /\ rbp \in Nat /\ Frame(script) \in Nat
             /\ Top + 1 + Frame(script) = rbp /\ Top >= 1 /\ Top \in Nat /\ rbp <= top
             /\ \A j \in Base(rbp, script) + 1 .. rbp : mem[j].is = "locals"
  BY <1>1, <1>2, <1>3, FrameLies
<1>4. CASE pc \in {"body", "keep"}
  <2>1. Resting(mem, rbp, script, Len(mem))  BY <1>4, AtRest
  <2>2. /\ script \in Scripts /\ rbp \in Nat /\ Frame(script) \in Nat
        /\ Top + 1 + Frame(script) = rbp /\ Top >= 1 /\ Top \in Nat /\ rbp <= Len(mem)
        /\ \A j \in Base(rbp, script) + 1 .. rbp : mem[j].is = "locals"
    BY <1>1, <1>3, <2>1
  <2>3. Base(rbp, script) = Top + 1
    <3>1. Base(rbp, script) \in Int  BY <2>2 DEF Base
    <3>2. QED  BY <1>2, <3>1
  <2>4. Top + 1 + 1 = Top + 2  BY <2>2
  <2>5. QED  BY <1>1, <1>2, <1>4, <2>2, <2>3, <2>4
<1>5. CASE pc = "foreign"
  <2>1. Outside  BY <1>5 DEF IInv, Entering, Running, Over
  <2>2. /\ Resting(mem, rbp, script, Saved - 1) /\ Saved - 1 \in Int
        /\ rbp <= Saved - 1 - foreign.argc
    BY <2>1 DEF Outside
  <2>3. /\ script \in Scripts /\ rbp \in Nat /\ Frame(script) \in Nat
        /\ Top + 1 + Frame(script) = rbp /\ Top >= 1 /\ Top \in Nat
        /\ \A j \in Base(rbp, script) + 1 .. rbp : mem[j].is = "locals"
    BY <1>3, <2>2
  <2>4. Base(rbp, script) = Top + 1
    <3>1. Base(rbp, script) \in Int  BY <2>3 DEF Base
    <3>2. QED  BY <1>2, <3>1
  <2>5. Top + 1 + 1 = Top + 2  BY <2>3
  <2>6. QED  BY <1>1, <1>2, <1>5, <2>2, <2>3, <2>4, <2>5
<1>6. QED  BY <1>4, <1>5

LEMMA ActiveTop ==
  ASSUME IInv, pc # "done"
  PROVE  Active(Top) = TopActivation
<1>1. pc \in {"enter", "body", "keep", "foreign"}
  BY DEF IInv, Entering, Running, Outside, Over
<1>2. CASE pc = "enter"
  <2>1. script \in Scripts /\ Top = Rsp /\ Rsp \in Nat
    BY <1>2, TopIsLast DEF Top
  <2> DEFINE n == Frame(script)
             r == Top + 1 + n
  <2>2. n \in Nat  BY <2>1, FrameIsNat
  <2> HIDE DEF n
  <2>3. r \in Int /\ Rsp \in Int /\ Rsp <= r  BY <2>1, <2>2
  <2> HIDE DEF r
  <2>4. ValuesOn(mem, r, Rsp) = <<>>  BY <2>3, NoValues
  <2>5. Active(Top) = Activation(script, mem[Top].kept, ValuesOn(mem, r, Rsp), Arguments)
    BY <1>2 DEF Active, Activation, r, n
  <2>6. TopActivation = Activation(script, mem[Top].kept, <<>>, Arguments)
    BY <1>2 DEF TopActivation, TopValues, TopVariables
  <2>7. QED  BY <2>4, <2>5, <2>6
<1>3. CASE pc # "enter"
  <2>1. Top + 1 + Frame(script) = rbp  BY <1>1, <1>3, TopFrame
  <2>2. CASE pc = "body"
    BY <2>1, <2>2 DEF Active, TopActivation, Activation, TopValues, TopVariables
  <2>3. CASE pc = "keep"
    BY <2>1, <2>3 DEF Active, TopActivation, Activation, TopValues, TopVariables
  <2>4. CASE pc = "foreign"
    <3>1. Rsp - 2 - r15 = Saved - 1
      <4>1. Outside  BY <2>4 DEF IInv, Entering, Running, Over
      <4>2. r15 \in Int /\ Rsp \in Int
        BY <2>4, <4>1, TopFrame DEF Outside, Rsp
      <4>3. QED  BY <4>2 DEF Saved
    <3>2. Active(Top) = Activation(script, mem[Top].kept, ValuesOn(mem, rbp, Rsp - 2 - r15),
                                   VariablesAt(mem, rbp, script))
      BY <2>1, <2>4 DEF Active, Activation
    <3>3. TopActivation = Activation(script, mem[Top].kept, ValuesOn(mem, rbp, Saved - 1),
                                     VariablesAt(mem, rbp, script))
      BY <2>4 DEF TopActivation, TopValues, TopVariables
    <3>4. QED  BY <3>1, <3>2, <3>3
  <2>5. QED  BY <1>1, <1>3, <2>2, <2>3, <2>4
<1>4. QED  BY <1>2, <1>3

LEMMA WhatIsSeen == IInv /\ pc # "done" => Seen
<1>1. SUFFICES ASSUME IInv, pc # "done"  PROVE Seen  OBVIOUS
<1>2. Top \in Returns /\ \A j \in Returns : j <= Top  BY <1>1, TopIsLast
<1>3. Len(mem) \in Nat /\ Returns \in SUBSET (1 .. Len(mem))  BY <1>1, ReturnsAre DEF IInv
<1>4. Depth \in Nat /\ Depth >= 1 /\ Start(Depth) = Top
  BY <1>2, <1>3, NthLast DEF Depth, Start
<1>5. /\ \A k \in 1 .. Depth - 1 : Acts[k] = Waiting(mem, Start(k), Start(k + 1))
      /\ Acts[Depth] = TopActivation
  <2>1. ASSUME NEW k \in 1 .. Depth - 1  PROVE Acts[k] = Waiting(mem, Start(k), Start(k + 1))
    <3>1. k \in 1 .. Depth /\ k < Depth  BY <1>4
    <3>2. QED  BY <3>1 DEF Acts
  <2>2. Depth \in 1 .. Depth /\ ~(Depth < Depth)  BY <1>4
  <2>3. Acts[Depth] = Active(Top)  BY <1>4, <2>2 DEF Acts
  <2>4. QED  BY <1>1, <2>1, <2>3, ActiveTop
<1>6. Len(Acts) = Depth /\ \E X : Acts \in Seq(X)
  <2> DEFINE X == {Acts[k] : k \in 1 .. Depth}
             F(k) == IF k < Depth THEN Waiting(mem, Start(k), Start(k + 1)) ELSE Active(Start(k))
  <2>1. Acts = [k \in 1 .. Depth |-> F(k)]  BY DEF Acts
  <2> HIDE DEF F
  <2>2. DOMAIN Acts = 1 .. Depth /\ Acts \in [1 .. Depth -> X]  BY <2>1
  <2> HIDE DEF X
  <2>3. Acts \in Seq(X)  BY <1>4, <2>2, SeqDef
  <2>4. Len(Acts) = Depth  BY <1>4, <2>2, <2>3, LenProperties
  <2>5. QED  BY <2>3, <2>4
<1>7. QED  BY <1>4, <1>5, <1>6 DEF Seen

LEMMA WhatIsSeenNext == (IInv /\ pc # "done" => Seen)'
BY WhatIsSeen, PTL

(* Activations below the running one are kept with their cells.             *)
LEMMA SameCaller ==
  ASSUME StackOK, Depth \in Nat, NEW k \in 1 .. Depth - 1, NEW t, NEW n \in Int,
         Start(k + 1) <= n, \A i \in 1 .. n : t[i] = mem[i]
  PROVE  Waiting(t, Start(k), Start(k + 1)) = Waiting(mem, Start(k), Start(k + 1))
<1> DEFINE p == Start(k)
           j == Start(k + 1)
<1>1. p \in Returns /\ j \in Returns /\ Below(mem, p, j)  BY Neighbours
<1>2. Returns \in SUBSET (1 .. Len(mem)) /\ Len(mem) \in Nat  BY ReturnsAre
<1> HIDE DEF p, j
<1>3. j \in Nat /\ p \in Nat /\ p >= 1  BY <1>1, <1>2
<1>4. j <= n  BY DEF j
<1>5. \A i \in p .. j : i \in 1 .. n  BY <1>3, <1>4
<1>6. \A i \in p .. j : t[i] = mem[i]  BY <1>5
<1>7. Waiting(t, p, j) = Waiting(mem, p, j)  BY <1>1, <1>3, <1>6, SameWaiting
<1>8. QED  BY <1>7 DEF p, j

(* A step of the running script leaves the others as they are.              *)
LEMMA TopChanges ==
  ASSUME IInv, IInv', pc # "done", pc' # "done", Returns' = Returns,
         \A i \in 1 .. Top : mem'[i] = mem[i]
  PROVE  /\ Acts # <<>> /\ Abstract!Now(Acts) = TopActivation /\ Top' = Top
         /\ Acts' = Append(Abstract!Callers(Acts), TopActivation')
         /\ TopActivation' = TopActivation => Acts' = Acts
<1>1. Seen /\ Seen'  BY WhatIsSeen, WhatIsSeenNext
<1> DEFINE n == Depth
<1>2. /\ n \in Nat /\ n >= 1 /\ Len(Acts) = n /\ Start(n) = Top
      /\ \A k \in 1 .. n - 1 : Acts[k] = Waiting(mem, Start(k), Start(k + 1))
      /\ Acts[n] = TopActivation
  BY <1>1 DEF Seen
<1>3. /\ Len(Acts') = n /\ Top' = Top /\ Acts'[n] = TopActivation'
      /\ \A k \in 1 .. n - 1 : Acts'[k] = Waiting(mem', Start(k), Start(k + 1))
  <2>1. /\ Len(Acts') = Depth' /\ Start(Depth)' = Top' /\ Acts'[Depth'] = TopActivation'
        /\ \A k \in 1 .. Depth' - 1 : Acts'[k] = Waiting(mem', Start(k)', Start(k + 1)')
    BY <1>1 DEF Seen
  <2>2. Depth' = n /\ Start(Depth)' = Start(n)  BY DEF Depth, Start
  <2>3. \A k : Start(k)' = Start(k)  BY DEF Start
  <2> HIDE DEF n
  <2>4. QED  BY <1>2, <2>1, <2>2, <2>3
<1>4. \A k \in 1 .. n - 1 : Acts'[k] = Acts[k]
  <2>1. ASSUME NEW k \in 1 .. n - 1  PROVE Waiting(mem', Start(k), Start(k + 1)) = Waiting(mem, Start(k), Start(k + 1))
    <3>1. StackOK /\ Top \in Int  BY TopIsLast DEF IInv
    <3>2. Start(k + 1) \in Returns  BY <1>2, <3>1, Neighbours
    <3>3. Start(k + 1) <= Top  BY <3>2, TopIsLast
    <3>4. QED  BY <1>2, <3>1, <3>3, SameCaller
  <2>2. QED  BY <1>2, <1>3, <2>1
<1>5. PICK X : Acts \in Seq(X)  BY <1>1 DEF Seen
<1>6. PICK Y : Acts' \in Seq(Y)  BY <1>1 DEF Seen
<1> DEFINE Z == X \cup Y
<1>7. Acts \in Seq(Z) /\ Acts' \in Seq(Z)  BY <1>5, <1>6, SeqMonotonic
<1> HIDE DEF n, Z
<1>8. Acts' = Append(SubSeq(Acts, 1, Len(Acts) - 1), Acts'[n])
  BY <1>2, <1>3, <1>4, <1>7, LastChanged
<1>9. Acts # <<>> /\ Abstract!Now(Acts) = TopActivation
  <2>1. Acts # <<>>  BY <1>2
  <2>2. QED  BY <1>2, <2>1 DEF Abstract!Now
<1>10. TopActivation' = TopActivation => Acts' = Acts
  <2>1. SUFFICES ASSUME TopActivation' = TopActivation  PROVE Acts' = Acts  OBVIOUS
  <2>2. \A k \in 1 .. n : k = n \/ k \in 1 .. n - 1  BY <1>2
  <2>3. \A k \in 1 .. n : Acts'[k] = Acts[k]  BY <1>2, <1>3, <1>4, <2>1, <2>2
  <2>4. QED  BY <1>2, <1>3, <1>7, <2>3, SameElements
<1>11. QED  BY <1>3, <1>8, <1>9, <1>10 DEF Abstract!Callers

LEMMA TopIsLastNext ==
  (IInv /\ pc # "done" => Top \in Returns /\ (\A j \in Returns : j <= Top) /\ Top \in Nat)'
<1>1. IInv /\ pc # "done" => Top \in Returns /\ (\A j \in Returns : j <= Top) /\ Top \in Nat
  BY TopIsLast
<1>2. QED  BY <1>1, PTL

LEMMA SameReturns ==
  ASSUME IInv, IInv', pc # "done", pc' # "done", Top' = Top, \A i \in 1 .. Top : mem'[i] = mem[i]
  PROVE  Returns' = Returns
<1> DEFINE S == Returns
           T == Returns'
           h == Len(mem)
           l == Len(mem')
<1>1. Top \in S /\ (\A j \in S : j <= Top) /\ Top \in Nat  BY TopIsLast
<1>2. Top \in T /\ (\A j \in T : j <= Top)  BY TopIsLastNext
<1>3. h \in Nat /\ l \in Nat  BY LenProperties DEF IInv, StackOK
<1>4. /\ \A i : i \in S <=> i \in 1 .. h /\ mem[i].is = "ret"
      /\ \A i : i \in T <=> i \in 1 .. l /\ mem'[i].is = "ret"
  BY DEF Returns, Rsp
<1> HIDE DEF S, T, h, l
<1>5. Top <= h /\ Top <= l  BY <1>1, <1>2, <1>4
<1>6. \A i \in S : i \in T
  <2>1. ASSUME NEW i \in S  PROVE i \in T
    <3>1. i \in 1 .. h /\ i <= Top /\ mem[i].is = "ret"  BY <1>1, <1>4
    <3>2. i \in 1 .. Top /\ i \in 1 .. l  BY <1>1, <1>3, <1>5, <3>1
    <3>3. mem'[i].is = "ret"  BY <3>1, <3>2
    <3>4. QED  BY <1>4, <3>2, <3>3
  <2>2. QED  BY <2>1
<1>7. \A i \in T : i \in S
  <2>1. ASSUME NEW i \in T  PROVE i \in S
    <3>1. i \in 1 .. l /\ i <= Top /\ mem'[i].is = "ret"  BY <1>2, <1>4
    <3>2. i \in 1 .. Top /\ i \in 1 .. h  BY <1>1, <1>3, <1>5, <3>1
    <3>3. mem[i].is = "ret"  BY <3>1, <3>2
    <3>4. QED  BY <1>4, <3>2, <3>3
  <2>2. QED  BY <2>1
<1>8. S = T  BY <1>6, <1>7
<1>9. QED  BY <1>8 DEF S, T

(* What a step changes in the running script is all it changes.             *)
Steps(a) == Acts # <<>> /\ Acts' = Append(Abstract!Callers(Acts), a)
              /\ Abstract!Now(Acts) = TopActivation

LEMMA RunsOn ==
  ASSUME IInv, IInv', pc # "done", pc' # "done", Top' = Top, \A i \in 1 .. Top : mem'[i] = mem[i]
  PROVE  /\ Steps(TopActivation')
         /\ TopActivation' = TopActivation => Acts' = Acts
BY SameReturns, TopChanges DEF Steps

LEMMA StepWorks ==
  ASSUME NEW a, Steps(a),
         a \in Abstract!Works(TopActivation) \cup Abstract!CallsOut(TopActivation)
  PROVE  Abstract!Next
<1>1. Acts' \in Abstract!After(Acts)  BY DEF Steps, Abstract!After
<1>2. QED  BY <1>1 DEF Steps, Abstract!Next
-----------------------------------------------------------------------------
LEMMA MoreIs ==
  ASSUME NEW s, NEW k, NEW v, NEW l, NEW e
  PROVE  Abstract!More(Activation(s, k, v, l), e) = Activation(s, k, Append(v, e), l)
<1> DEFINE a == Activation(s, k, v, l)
           w == Append(v, e)
<1>1. a.vals = v  BY DEF Activation
<1>2. Abstract!More(a, e) = [a EXCEPT !.vals = w]  BY <1>1 DEF Abstract!More
<1> HIDE DEF w
<1>3. [a EXCEPT !.vals = w] = Activation(s, k, w, l)  BY DEF Activation
<1>4. QED  BY <1>2, <1>3 DEF w

LEMMA LessIs ==
  ASSUME NEW s, NEW k, NEW v, NEW l, NEW n
  PROVE  Abstract!Less(Activation(s, k, v, l), n) = Activation(s, k, SubSeq(v, 1, Len(v) - n), l)
<1> DEFINE a == Activation(s, k, v, l)
           w == SubSeq(v, 1, Len(v) - n)
<1>1. a.vals = v  BY DEF Activation
<1>2. Abstract!Less(a, n) = [a EXCEPT !.vals = w]  BY <1>1 DEF Abstract!Less
<1> HIDE DEF w
<1>3. [a EXCEPT !.vals = w] = Activation(s, k, w, l)  BY DEF Activation
<1>4. QED  BY <1>2, <1>3 DEF w

(* A script that runs is left with the values up to n and its variables.     *)
LEMMA BodyAgain ==
  ASSUME IInv, IInv', pc \in {"body", "keep", "foreign"}, pc' = "body", UNCHANGED <<rbp, script>>,
         \A i \in 1 .. Top : mem'[i] = mem[i]
  PROVE  /\ Steps(Activation(script, mem[Top].kept, ValuesOn(mem', rbp, Len(mem')),
                             VariablesAt(mem', rbp, script)))
         /\ TopActivation' = Activation(script, mem[Top].kept, ValuesOn(mem', rbp, Len(mem')),
                             VariablesAt(mem', rbp, script))
<1>1. Top' = Top  BY DEF Top
<1>2. Top \in 1 .. Top  BY TopFrame
<1>3. mem'[Top].kept = mem[Top].kept  BY <1>2
<1>4. TopActivation' = Activation(script, mem[Top].kept, ValuesOn(mem', rbp, Len(mem')),
                                  VariablesAt(mem', rbp, script))
  <2>1. TopValues' = ValuesOn(mem', rbp, Len(mem'))  BY DEF TopValues, Rsp
  <2>2. TopVariables' = VariablesAt(mem', rbp, script)  BY DEF TopVariables
  <2>3. TopActivation' = Activation(script', mem'[Top'].kept, TopValues', TopVariables')
    BY DEF TopActivation
  <2>4. QED  BY <1>1, <1>3, <2>1, <2>2, <2>3
<1>5. Steps(TopActivation')  BY <1>1, RunsOn
<1>6. QED  BY <1>4, <1>5

LEMMA BodySeen ==
  ASSUME pc = "body"
  PROVE  TopActivation = Activation(script, mem[Top].kept, ValuesOn(mem, rbp, Len(mem)),
                                    VariablesAt(mem, rbp, script))
BY DEF TopActivation, TopValues, TopVariables, Rsp

(* A value is pushed.                                                       *)
LEMMA SeenToPush ==
  ASSUME IInv, IInv', pc \in {"body", "keep"}, pc' = "body", UNCHANGED <<rbp, script>>,
         NEW v, mem' = Append(mem, Word(v))
  PROVE  LET a == Activation(script, mem[Top].kept, Append(ValuesOn(mem, rbp, Len(mem)), v),
                             VariablesAt(mem, rbp, script))
         IN  Steps(a) /\ TopActivation' = a
<1> DEFINE h == Len(mem)
<1>1. /\ script \in Scripts /\ rbp \in Nat /\ h \in Nat /\ rbp <= h /\ Top \in Nat
      /\ Base(rbp, script) = Top + 1 /\ Top + 1 + Frame(script) = rbp /\ Frame(script) \in Nat
  BY TopFrame
<1>2. PICK W : {v} \subseteq W /\ mem \in Seq(Cell(W))  BY Carrier DEF IInv
<1>3. Len(mem') = h + 1 /\ mem'[h + 1] = Word(v) /\ \A i \in 1 .. h : mem'[i] = mem[i]
  <2>1. Word(v) \in Cell(W)  BY <1>2, NewCells
  <2>2. QED  BY <1>2, <2>1, Pushing
<1> HIDE DEF h
<1>4. Top <= rbp /\ \A i \in 1 .. Top : i \in 1 .. h
  <2> DEFINE n == Frame(script)
  <2>1. n \in Nat /\ Top + 1 + n = rbp  BY <1>1
  <2> HIDE DEF n
  <2>2. QED  BY <1>1, <2>1
<1>5. \A i \in 1 .. Top : mem'[i] = mem[i]  BY <1>3, <1>4
<1>6. ValuesOn(mem', rbp, h + 1) = Append(ValuesOn(mem, rbp, h), v)
  <2>1. \A k \in rbp + 1 .. h : k \in 1 .. h  BY <1>1
  <2>2. \A k \in rbp + 1 .. h : mem'[k] = mem[k]  BY <1>3, <2>1
  <2>3. rbp \in Int /\ h \in Int /\ rbp <= h  BY <1>1
  <2>4. ValuesOn(mem', rbp, h + 1) = Append(ValuesOn(mem, rbp, h), mem'[h + 1].val)
    BY ONLY <2>2, <2>3, OneMoreValue
  <2>5. mem'[h + 1].val = v  BY <1>3 DEF Word
  <2>6. QED  BY <2>4, <2>5
<1>7. VariablesAt(mem', rbp, script) = VariablesAt(mem, rbp, script)
  <2>1. \A k \in Base(rbp, script) + 1 .. rbp : k \in 1 .. h  BY <1>1
  <2>2. \A k \in Base(rbp, script) + 1 .. rbp : mem'[k] = mem[k]  BY <1>3, <2>1
  <2>3. script \in Scripts /\ rbp \in Int  BY <1>1
  <2>4. QED  BY ONLY <2>2, <2>3, SameVariables
<1>8. QED  BY <1>3, <1>5, <1>6, <1>7, BodyAgain DEF h

(* Values are popped.                                                       *)
Shortens(t, top, l, n) ==
  /\ top \in Int /\ l \in Int /\ n \in Int
  /\ rbp <= l /\ l <= top /\ top <= Len(mem) /\ l = top - n
  /\ \A i \in 1 .. l : t[i] = mem[i]

LEMMA SeenToPop ==
  ASSUME IInv, pc \in {"body", "foreign"}, NEW t, NEW top, NEW l, NEW n, Shortens(t, top, l, n)
  PROVE  LET v == ValuesOn(mem, rbp, top)
         IN  /\ ValuesOn(t, rbp, l) = SubSeq(v, 1, Len(v) - n)
             /\ VariablesAt(t, rbp, script) = VariablesAt(mem, rbp, script)
             /\ \A i \in 1 .. Top : t[i] = mem[i]
<1>1. /\ script \in Scripts /\ rbp \in Nat /\ Top \in Nat
      /\ Base(rbp, script) = Top + 1 /\ Top + 1 + Frame(script) = rbp /\ Frame(script) \in Nat
  BY TopFrame
<1>2. /\ top \in Int /\ l \in Int /\ rbp <= l /\ l <= top
      /\ \A i \in 1 .. l : t[i] = mem[i]
  BY DEF Shortens
<1>3. ValuesOn(t, rbp, l) = SubSeq(ValuesOn(mem, rbp, top), 1, Len(ValuesOn(mem, rbp, top)) - n)
  <2>1. \A k \in rbp + 1 .. l : k \in 1 .. l  BY <1>1, <1>2
  <2>2. Trims(t, mem, rbp, top, l, n)  BY <1>1, <1>2, <2>1 DEF Trims, Shortens
  <2>3. QED  BY <2>2, FewerOfTheValues
<1>4. Top <= rbp
  <2> DEFINE f == Frame(script)
  <2>1. f \in Nat /\ Top + 1 + f = rbp  BY <1>1
  <2> HIDE DEF f
  <2>2. QED  BY <1>1, <2>1
<1>5. /\ \A k \in Base(rbp, script) + 1 .. rbp : k \in 1 .. l
      /\ \A i \in 1 .. Top : i \in 1 .. l
  BY <1>1, <1>2, <1>4
<1>6. VariablesAt(t, rbp, script) = VariablesAt(mem, rbp, script)
  <2>1. \A k \in Base(rbp, script) + 1 .. rbp : t[k] = mem[k]  BY <1>2, <1>5
  <2>2. script \in Scripts /\ rbp \in Int  BY <1>1
  <2>3. QED  BY ONLY <2>1, <2>2, SameVariables
<1>7. QED  BY <1>2, <1>3, <1>5, <1>6

(* Pushing a value.                                                         *)
LEMMA PushValueMaps ==
  ASSUME IInv, IInv', pc = "body", NEW v \in Values, PushValue(v)  PROVE Abstract!Next
<1>1. mem' = Append(mem, Word(v)) /\ UNCHANGED <<rbp, script, pc>>  BY DEF PushValue
<1> DEFINE k == mem[Top].kept
           w == ValuesOn(mem, rbp, Len(mem))
           l == VariablesAt(mem, rbp, script)
<1>2. TopActivation = Activation(script, k, w, l)  BY BodySeen
<1>3. Steps(Activation(script, k, Append(w, v), l))  BY <1>1, SeenToPush
<1> HIDE DEF k, w, l
<1>4. Activation(script, k, Append(w, v), l) = Abstract!More(TopActivation, v)
  BY <1>2, MoreIs
<1>5. Activation(script, k, Append(w, v), l) \in Abstract!Works(TopActivation)
  BY <1>4 DEF Abstract!Works
<1>6. QED  BY <1>3, <1>5, StepWorks

LEMMA PushVarMaps ==
  ASSUME IInv, IInv', pc = "body", NEW i \in 0 .. Signature[script].varc - 1, PushVar(i)
  PROVE  Abstract!Next
<1> DEFINE v == Variable(i)
           k == mem[Top].kept
           w == ValuesOn(mem, rbp, Len(mem))
           l == VariablesAt(mem, rbp, script)
<1>1. mem' = Append(mem, Word(v)) /\ UNCHANGED <<rbp, script, pc>>  BY DEF PushVar
<1>2. TopActivation = Activation(script, k, w, l)  BY BodySeen
<1>3. i \in DOMAIN l /\ v = l[i]  BY DEF VariablesAt, Variable, CellOf
<1> HIDE DEF v
<1>4. Steps(Activation(script, k, Append(w, v), l))  BY <1>1, SeenToPush
<1> HIDE DEF k, w, l
<1>5. TopActivation.locals = l  BY <1>2 DEF Activation
<1>6. Activation(script, k, Append(w, v), l) = Abstract!More(TopActivation, v)
  BY <1>2, MoreIs
<1>7. Activation(script, k, Append(w, v), l) = Abstract!More(TopActivation, TopActivation.locals[i])
  BY <1>3, <1>5, <1>6
<1>8. i \in DOMAIN TopActivation.locals  BY <1>3, <1>5
<1>9. Activation(script, k, Append(w, v), l) \in Abstract!Works(TopActivation)
  BY <1>7, <1>8 DEF Abstract!Works
<1>10. QED  BY <1>4, <1>9, StepWorks

(* The value that is kept is the one the abstract return has pushed.        *)
LEMMA KeepValueMaps ==
  ASSUME IInv, IInv', KeepValue  PROVE UNCHANGED Acts
<1>1. pc = "keep" /\ pc' = "body" /\ mem' = Append(mem, Word(rax)) /\ UNCHANGED <<rbp, script>>
  BY DEF KeepValue
<1> DEFINE v == rax
<1>2. mem' = Append(mem, Word(v))  BY <1>1
<1> HIDE DEF v
<1>3. TopActivation' = Activation(script, mem[Top].kept, Append(ValuesOn(mem, rbp, Len(mem)), v),
                                  VariablesAt(mem, rbp, script))
      /\ Steps(TopActivation')
  BY <1>1, <1>2, SeenToPush
<1>4. TopActivation = Activation(script, mem[Top].kept, Append(ValuesOn(mem, rbp, Len(mem)), v),
                                 VariablesAt(mem, rbp, script))
  BY <1>1 DEF TopActivation, TopValues, TopVariables, Rsp, v
<1>5. TopActivation' = TopActivation  BY <1>3, <1>4
<1>6. Top' = Top  BY <1>1 DEF Top
<1>7. \A i \in 1 .. Top : mem'[i] = mem[i]
  <2>1. PICK W : {v} \subseteq W /\ mem \in Seq(Cell(W))  BY Carrier DEF IInv
  <2>2. Word(v) \in Cell(W)  BY <2>1, NewCells
  <2>3. \A i \in 1 .. Len(mem) : mem'[i] = mem[i]  BY <1>2, <2>1, <2>2, Pushing
  <2>4. Top \in 1 .. Len(mem) /\ Len(mem) \in Nat
    BY <1>1, TopIsLast, ReturnsAre DEF IInv
  <2>5. \A i \in 1 .. Top : i \in 1 .. Len(mem)  BY <2>4
  <2>6. QED  BY <2>3, <2>5
<1>8. QED  BY <1>1, <1>5, <1>6, <1>7, RunsOn

LEMMA PopValueMaps ==
  ASSUME IInv, IInv', pc = "body", PopValue  PROVE Abstract!Next
<1>1. Evaluated > 0 /\ mem' = Popped(1) /\ UNCHANGED <<rbp, script, pc>>  BY DEF PopValue
<1> DEFINE h == Len(mem)
           k == mem[Top].kept
           w == ValuesOn(mem, rbp, h)
           l == VariablesAt(mem, rbp, script)
<1>2. rbp \in Nat /\ h \in Nat /\ rbp < h  BY <1>1, TopFrame DEF Evaluated, Rsp
<1>3. PICK W : mem \in Seq(Cell(W))  BY DEF IInv, StackOK
<1>4. Len(mem') = h - 1 /\ \A i \in 1 .. h - 1 : mem'[i] = mem[i]
  <2>1. 1 \in 0 .. Len(mem)  BY <1>2
  <2>2. QED  BY <1>1, <1>3, <2>1, Popping DEF Popped, Rsp
<1>5. /\ ValuesOn(mem', rbp, h - 1) = SubSeq(w, 1, Len(w) - 1)
      /\ VariablesAt(mem', rbp, script) = l
      /\ \A i \in 1 .. Top : mem'[i] = mem[i]
  <2>1. Shortens(mem', h, h - 1, 1)  BY <1>2, <1>4 DEF Shortens
  <2> DEFINE m == h - 1
             n == 1
  <2> HIDE DEF h, m, n
  <2>2. Shortens(mem', h, m, n)  BY <2>1 DEF m, n
  <2>3. /\ ValuesOn(mem', rbp, m) = SubSeq(w, 1, Len(w) - n)
        /\ VariablesAt(mem', rbp, script) = l
        /\ \A i \in 1 .. Top : mem'[i] = mem[i]
    BY <2>2, SeenToPop
  <2>4. QED  BY <2>3 DEF m, n
<1>6. TopActivation = Activation(script, k, w, l)  BY BodySeen
<1>7. Steps(Activation(script, k, SubSeq(w, 1, Len(w) - 1), l))
  BY <1>1, <1>4, <1>5, BodyAgain
<1>8. w # <<>>
  <2>1. h \in Int /\ rbp \in Int /\ rbp <= h  BY <1>2
  <2> HIDE DEF h
  <2>2. IsValuesOn(w, mem, rbp, h)  BY <2>1, ValuesAre
  <2>3. Len(w) = h - rbp  BY <2>2 DEF IsValuesOn
  <2>4. QED  BY <1>2, <2>3
<1> HIDE DEF k, w, l
<1>9. TopActivation.vals = w  BY <1>6 DEF Activation
<1>10. Activation(script, k, SubSeq(w, 1, Len(w) - 1), l) = Abstract!Less(TopActivation, 1)
  BY <1>6, LessIs
<1>11. Activation(script, k, SubSeq(w, 1, Len(w) - 1), l) \in Abstract!Works(TopActivation)
  BY <1>8, <1>9, <1>10 DEF Abstract!Works
<1>12. QED  BY <1>7, <1>11, StepWorks

AreLast(x, v, n) == \A q \in 1 .. n : x[q] = v[Len(v) - n + q]

LEMMA LastAre ==
  ASSUME NEW s, NEW k, NEW X, NEW v \in Seq(X), NEW l, NEW n \in 0 .. Len(v)
  PROVE  AreLast(Abstract!Last(Activation(s, k, v, l), n), v, n)
<1> SUFFICES ASSUME NEW q \in 1 .. n
             PROVE  Abstract!Last(Activation(s, k, v, l), n)[q] = v[Len(v) - n + q]
  BY DEF AreLast
<1> DEFINE h == Len(v)
           i == h - n + 1
<1>1. h \in Nat  BY LenProperties
<1>2. i \in 1 .. h + 1 /\ q \in 1 .. h - i + 1 /\ i + q - 1 = h - n + q  BY <1>1
<1>3. Activation(s, k, v, l).vals = v  BY DEF Activation
<1>4. Abstract!Last(Activation(s, k, v, l), n) = SubSeq(v, i, h)  BY <1>3 DEF Abstract!Last
<1>5. \A j \in i .. h : v[j] \in X
  <2>1. \A j \in i .. h : j \in 1 .. Len(v)  BY <1>1, <1>2
  <2>2. QED  BY <2>1, ElementOfSeq
<1> HIDE DEF i, h
<1>6. SubSeq(v, i, h)[q] = v[i + q - 1]
  <2>1. i \in Int /\ h \in Int  BY <1>1, <1>2
  <2>2. \A j \in 1 .. h - i + 1 : SubSeq(v, i, h)[j] = v[i + j - 1]
    BY ONLY <1>5, <2>1, SubSeqProperties
  <2>3. QED  BY <1>2, <2>2
<1>7. QED  BY <1>2, <1>4, <1>6 DEF h

(* A variable is set where no other variable is.                            *)
SetsCell(m, t, r, s, i, v) ==
  LET c == r - (i \div 2)
  IN  /\ \E W : m[c].val \in [1 .. 2 -> W]
      /\ t[c].val = [m[c].val EXCEPT ![(i % 2) + 1] = v]
      /\ \A k \in Base(r, s) + 1 .. r : k # c => t[k] = m[k]

LEMMA VariableSet ==
  ASSUME NEW m, NEW t, NEW s \in Scripts, NEW r \in Int, NEW v,
         NEW i \in 0 .. Signature[s].varc - 1, SetsCell(m, t, r, s, i, v)
  PROVE  VariablesAt(t, r, s) = [VariablesAt(m, r, s) EXCEPT ![i] = v]
<1> DEFINE c == r - (i \div 2)
<1>1. PICK W : m[c].val \in [1 .. 2 -> W]  BY DEF SetsCell
<1>2. /\ t[c].val = [m[c].val EXCEPT ![(i % 2) + 1] = v]
      /\ \A k \in Base(r, s) + 1 .. r : k # c => t[k] = m[k]
  BY DEF SetsCell
<1>3. c = r - (i \div 2)  OBVIOUS
<1> HIDE DEF c
<1> DEFINE n == Frame(s)
           V == 0 .. Signature[s].varc - 1
           At(u, j) == u[r - (j \div 2)].val[(j % 2) + 1]
<1>4. n \in Nat /\ Base(r, s) = r - n /\ (\A j \in V : j \div 2 \in 0 .. n - 1)
      /\ Signature[s].varc \in Nat
  BY FrameIsNat DEF Base
<1>5. \A j \in V : j \in Nat  BY <1>4
<1> HIDE DEF n, V
<1>6. i \in V  BY DEF V
<1>7. ASSUME NEW j \in V, j # i  PROVE At(t, j) = At(m, j)
  <2> DEFINE d == j \div 2
             e == i \div 2
             x == (j % 2) + 1
             y == (i % 2) + 1
  <2>1. d \in 0 .. n - 1 /\ e \in Int  BY <1>4, <1>5, <1>6
  <2>2. CASE d = e
    <3>1. j \in Nat /\ i \in Nat  BY <1>5, <1>6
    <3>2. j % 2 # i % 2
      <4>1. j = 2 * (j \div 2) + (j % 2) /\ i = 2 * (i \div 2) + (i % 2)  BY <3>1
      <4>2. QED  BY <1>7, <2>2, <4>1
    <3>3. j % 2 \in 0 .. 1 /\ i % 2 \in 0 .. 1  BY <3>1
    <3>4. x \in 1 .. 2 /\ y \in 1 .. 2 /\ x # y  BY <3>2, <3>3
    <3> HIDE DEF x, y, d, e
    <3>5. t[c].val[x] = m[c].val[x]  BY <1>1, <1>2, <3>4 DEF y
    <3>6. r - d = c  BY <1>3, <2>2 DEF e
    <3>7. QED  BY <3>5, <3>6 DEF x, d
  <2>3. CASE d # e
    <3>1. r - d # c /\ r - d \in r - n + 1 .. r
      <4>1. c = r - e /\ e \in Int  BY <1>3, <2>1
      <4> HIDE DEF d, e
      <4>2. QED  BY <1>4, <2>1, <2>3, <4>1
    <3>2. t[r - d] = m[r - d]  BY <1>4, <1>2, <3>1
    <3>3. QED  BY <3>2
  <2>4. QED  BY <2>2, <2>3
<1>8. At(t, i) = v
  <2> DEFINE y == (i % 2) + 1
  <2>1. y \in 1 .. 2  BY <1>5, <1>6
  <2>2. t[c].val = [m[c].val EXCEPT ![y] = v]  BY <1>2
  <2> HIDE DEF y
  <2>3. t[c].val[y] = v  BY <1>1, <2>1, <2>2
  <2>4. QED  BY <1>3, <2>3 DEF y
<1>9. /\ VariablesAt(t, r, s) = [j \in V |-> At(t, j)]
      /\ VariablesAt(m, r, s) = [j \in V |-> At(m, j)]
  BY DEF VariablesAt, V
<1> HIDE DEF At
<1>10. [[j \in V |-> At(m, j)] EXCEPT ![i] = v] = [j \in V |-> IF j = i THEN v ELSE At(m, j)]
  BY <1>6
<1>11. [j \in V |-> At(t, j)] = [j \in V |-> IF j = i THEN v ELSE At(m, j)]
  BY <1>7, <1>8
<1>12. QED  BY <1>9, <1>10, <1>11

LEMMA SetVarMaps ==
  ASSUME IInv, IInv', pc = "body", NEW i \in 0 .. Signature[script].varc - 1, SetVar(i)
  PROVE  Abstract!Next
<1> DEFINE h == Len(mem)
           p == Popped(1)
           c == CellOf(i)
           x == (i % 2) + 1
           v == mem[h].val
           k == mem[Top].kept
           w == ValuesOn(mem, rbp, h)
           l == VariablesAt(mem, rbp, script)
           u == SubSeq(w, 1, Len(w) - 1)
<1>1. Evaluated > 0 /\ mem' = [p EXCEPT ![c].val[x] = v] /\ UNCHANGED <<rbp, script, pc>>
  BY DEF SetVar, SetVariable, Rsp
<1>2. /\ rbp \in Nat /\ h \in Nat /\ rbp < h /\ script \in Scripts /\ Top \in Nat
      /\ Base(rbp, script) = Top + 1
  BY <1>1, TopFrame DEF Evaluated, Rsp
<1>3. PICK W : mem \in Seq(Cell(W))  BY DEF IInv, StackOK
<1>4. p \in Seq(Cell(W)) /\ Len(p) = h - 1 /\ \A j \in 1 .. h - 1 : p[j] = mem[j]
  <2>1. 1 \in 0 .. Len(mem)  BY <1>2
  <2>2. QED  BY <1>3, <2>1, Popping DEF Popped, Rsp
<1>5. c \in 1 .. rbp /\ mem[c].is = "locals"  BY CellOfVariable
<1>6. c = rbp - (i \div 2)  BY DEF CellOf
<1> HIDE DEF p, c, h
<1>7. c \in 1 .. h - 1 /\ c \in 1 .. h  BY <1>2, <1>5
<1>8. mem[c].val \in [1 .. 2 -> W] /\ mem[c] \in [is : {"locals"}, val : [1 .. 2 -> W]]
  <2>1. mem[c] \in Cell(W)  BY <1>3, <1>7, ElementOfSeq DEF h
  <2>2. mem[c] \in [is : {"locals"}, val : [1 .. 2 -> W]]  BY <1>5, <2>1, Cells
  <2>3. QED  BY <2>2
<1>9. DOMAIN p = 1 .. h - 1  BY <1>4, LenProperties
<1> HIDE DEF v, x
<1>10. /\ DOMAIN mem' = DOMAIN p
       /\ \A j \in 1 .. h - 1 : j # c => mem'[j] = mem[j]
       /\ mem'[c].val = [mem[c].val EXCEPT ![x] = v]
  <2> DEFINE e == [p[c] EXCEPT !.val = [p[c].val EXCEPT ![x] = v]]
  <2>1. mem' = [p EXCEPT ![c] = e]  BY <1>1
  <2>2. p[c] = mem[c]  BY <1>4, <1>7
  <2>3. e.val = [mem[c].val EXCEPT ![x] = v]  BY <1>8, <2>2
  <2> HIDE DEF e
  <2>4. DOMAIN mem' = DOMAIN p /\ mem'[c] = e /\ \A j \in 1 .. h - 1 : j # c => mem'[j] = p[j]
    BY <1>7, <1>9, <2>1
  <2>5. QED  BY <1>4, <2>3, <2>4
<1>11. Len(mem') = h - 1
  <2>1. PICK Y : mem' \in Seq(Cell(Y))  BY DEF IInv, StackOK
  <2>2. Len(mem') \in Nat /\ DOMAIN mem' = 1 .. Len(mem')  BY <2>1, LenProperties
  <2>3. Len(p) \in Nat /\ DOMAIN p = 1 .. Len(p)  BY <1>4, LenProperties
  <2>4. Len(mem') = Len(p)
    <3> DEFINE a == Len(mem')
               b == Len(p)
    <3>1. a \in Nat /\ b \in Nat /\ 1 .. a = 1 .. b  BY <1>10, <2>2, <2>3
    <3> HIDE DEF a, b
    <3>2. a = b  BY <3>1
    <3>3. QED  BY <3>2 DEF a, b
  <2>5. QED  BY <1>4, <2>4
<1>12. VariablesAt(mem', rbp, script) = [l EXCEPT ![i] = v]
  <2>1. \A j \in Base(rbp, script) + 1 .. rbp : j \in 1 .. h - 1  BY <1>2
  <2>2. \A j \in Base(rbp, script) + 1 .. rbp : j # c => mem'[j] = mem[j]  BY <1>10, <2>1
  <2>3. mem'[c].val = [mem[c].val EXCEPT ![(i % 2) + 1] = v]  BY <1>10 DEF x
  <2>4. rbp \in Int /\ script \in Scripts  BY <1>2
  <2>5. SetsCell(mem, mem', rbp, script, i, v)  BY <1>6, <1>8, <2>2, <2>3 DEF SetsCell
  <2>6. QED  BY <2>4, <2>5, VariableSet
<1>13. ValuesOn(mem', rbp, h - 1) = u
  <2> DEFINE m == h - 1
  <2>1. rbp \in Int /\ h \in Int /\ m \in Int /\ rbp <= m /\ m <= h /\ rbp <= h  BY <1>2
  <2>2. \A j \in rbp + 1 .. m : j \in 1 .. h - 1 /\ j # c  BY <1>2, <1>5
  <2>3. \A j \in rbp + 1 .. m : mem'[j] = mem[j]  BY <1>10, <2>2
  <2>4. Trims(mem', mem, rbp, h, m, 1)  BY <2>1, <2>3 DEF Trims
  <2> DEFINE n == 1
  <2> HIDE DEF m, n
  <2>5. Trims(mem', mem, rbp, h, m, n)  BY <2>4 DEF n
  <2>6. ValuesOn(mem', rbp, m) = SubSeq(w, 1, Len(w) - n)  BY <2>5, FewerOfTheValues
  <2>7. QED  BY <2>6 DEF m, n
<1>14. \A j \in 1 .. Top : mem'[j] = mem[j]
  <2>1. c \in Top + 2 .. rbp
    <3> DEFINE d == i \div 2
               n == Frame(script)
    <3>1. n \in Nat /\ d \in 0 .. n - 1 /\ Top + 1 + n = rbp /\ c = rbp - d
      BY <1>2, <1>6, FrameIsNat, TopFrame
    <3> HIDE DEF d, n
    <3>2. QED  BY <1>2, <3>1
  <2>2. \A j \in 1 .. Top : j \in 1 .. h - 1 /\ j # c  BY <1>2, <2>1
  <2>3. QED  BY <1>10, <2>2
<1>15. TopActivation = Activation(script, k, w, l)  BY BodySeen DEF h
<1>16. Steps(Activation(script, k, u, [l EXCEPT ![i] = v]))
  BY <1>1, <1>11, <1>12, <1>13, <1>14, BodyAgain
<1>17. IsValuesOn(w, mem, rbp, h)
  <2>1. h \in Int /\ rbp \in Int /\ rbp <= h  BY <1>2
  <2>2. QED  BY <2>1, ValuesAre
<1>18. i \in DOMAIN l  BY DEF VariablesAt
<1> HIDE DEF k, w, l
<1>19. Abstract!Last(TopActivation, 1)[1] = v /\ w # <<>>
  <2>1. Len(w) = h - rbp /\ (\A q \in 1 .. h - rbp : w[q] = mem[rbp + q].val) /\ \E X : w \in Seq(X)
    BY <1>17 DEF IsValuesOn
  <2>2. PICK X : w \in Seq(X)  BY <2>1
  <2>3. 1 \in 0 .. Len(w) /\ 1 \in 1 .. 1 /\ Len(w) \in 1 .. h - rbp /\ rbp + Len(w) = h
        /\ Len(w) - 1 + 1 = Len(w)
    BY <1>2, <2>1
  <2>4. Abstract!Last(Activation(script, k, w, l), 1)[1] = w[Len(w) - 1 + 1]
    <3> DEFINE n == 1
    <3>1. n \in 0 .. Len(w) /\ n \in 1 .. n  BY <2>3
    <3> HIDE DEF n
    <3>2. AreLast(Abstract!Last(Activation(script, k, w, l), n), w, n)
      BY <2>2, <3>1, LastAre
    <3>3. QED  BY <2>3, <3>2 DEF AreLast, n
  <2>5. w[Len(w)] = v  BY <2>1, <2>3 DEF v
  <2>6. w # <<>>  BY <2>3
  <2>7. QED  BY <1>15, <2>3, <2>4, <2>5, <2>6
<1> DEFINE T == TopActivation
<1>20. T.vals = w /\ T.locals = l  BY <1>15 DEF Activation
<1>21. Activation(script, k, u, l) = Abstract!Less(T, 1)
  BY <1>15, LessIs
<1> HIDE DEF u
<1>22. Activation(script, k, u, [l EXCEPT ![i] = v]) = [Abstract!Less(T, 1) EXCEPT !.locals[i] = v]
  <2>1. [Activation(script, k, u, l) EXCEPT !.locals[i] = v]
          = Activation(script, k, u, [l EXCEPT ![i] = v])
    BY DEF Activation
  <2>2. QED  BY <1>21, <2>1
<1>23. Activation(script, k, u, [l EXCEPT ![i] = v]) \in Abstract!Works(T)
  <2>1. i \in DOMAIN T.locals /\ T.vals # <<>>  BY <1>18, <1>19, <1>20
  <2>2. Activation(script, k, u, [l EXCEPT ![i] = v])
          = [Abstract!Less(T, 1) EXCEPT !.locals[i] = Abstract!Last(T, 1)[1]]
    BY <1>19, <1>22
  <2> HIDE DEF T
  <2>3. QED  BY <2>1, <2>2 DEF Abstract!Works
<1>24. QED  BY <1>16, <1>23, StepWorks
-----------------------------------------------------------------------------
(* The prologue stores the arguments where the variables are.                *)
LEMMA EnterMaps == ASSUME IInv, IInv', Enter  PROVE UNCHANGED Acts
<1> DEFINE n == Frame(script)
           Arg(i) == IF i < Signature[script].argc THEN args[i + 1] ELSE Junk
           rest == [k \in 1 .. n |-> Locals(Arg(2 * (n - k)), Arg(2 * (n - k) + 1))]
           h == Len(mem)
           one == <<SavedRbp(rbp)>>
<1>1. /\ pc = "enter" /\ mem' = (mem \o one) \o rest /\ rbp' = h + 1 + n
      /\ pc' = "body" /\ UNCHANGED <<r15, script>>
  BY DEF Enter, Rsp
<1>2. /\ script \in Scripts /\ h \in Nat /\ Top = h /\ h >= 1
  BY <1>1, TopIsLast, ReturnsAre DEF IInv, Top, Rsp
<1>3. n \in Nat /\ \A i \in 0 .. Signature[script].varc - 1 : i \div 2 \in 0 .. n - 1
  BY <1>2, FrameIsNat
<1> DEFINE K(k) == Locals(Arg(2 * (n - k)), Arg(2 * (n - k) + 1))
           X == {K(k) : k \in 1 .. n}
           V == 0 .. Signature[script].varc - 1
<1>4. rest \in [1 .. n -> X] /\ \A k \in 1 .. n : rest[k] = K(k)  OBVIOUS
<1> HIDE DEF rest, X, K, h, n
<1>5. rest \in Seq(X) /\ Len(rest) = n
  <2>1. rest \in Seq(X)  BY <1>3, <1>4, SeqDef
  <2>2. DOMAIN rest = 1 .. n  BY <1>4
  <2>3. QED  BY <1>3, <2>1, <2>2, LenProperties
<1>6. PICK W : mem \in Seq(Cell(W))  BY DEF IInv, StackOK
<1> DEFINE Y == Cell(W) \cup {SavedRbp(rbp)} \cup X
           mid == mem \o one
<1>7. mem \in Seq(Y) /\ one \in Seq(Y) /\ rest \in Seq(Y) /\ Len(one) = 1
  <2>1. mem \in Seq(Y)
    <3>1. Cell(W) \subseteq Y  OBVIOUS
    <3> HIDE DEF Y
    <3>2. QED  BY <1>6, <3>1, SeqMonotonic
  <2>2. rest \in Seq(Y)
    <3>1. X \subseteq Y  OBVIOUS
    <3> HIDE DEF Y
    <3>2. QED  BY <1>5, <3>1, SeqMonotonic
  <2>3. SavedRbp(rbp) \in Y  OBVIOUS
  <2> HIDE DEF Y
  <2>4. QED  BY <2>1, <2>2, <2>3
<1> HIDE DEF Y, one
<1>8. mid \in Seq(Y) /\ Len(mid) = h + 1 /\ \A k \in 1 .. h : mid[k] = mem[k]
  <2>1. /\ mid \in Seq(Y) /\ Len(mid) = Len(mem) + Len(one)
        /\ \A k \in 1 .. Len(mem) : mid[k] = mem[k]
    BY ONLY <1>7, Joining
  <2>2. QED  BY <1>7, <2>1 DEF h
<1> HIDE DEF mid
<1>9. /\ Len(mem') = h + 1 + n /\ \A k \in 1 .. h : mem'[k] = mem[k]
      /\ \A k \in 1 .. n : mem'[h + 1 + k] = K(k)
  <2> DEFINE all == mid \o rest
  <2>4. mid \in Seq(Y) /\ rest \in Seq(Y)  BY <1>7, <1>8
  <2>1. /\ Len(all) = Len(mid) + Len(rest) /\ \A k \in 1 .. Len(mid) : all[k] = mid[k]
        /\ \A k \in Len(mid) + 1 .. Len(mid) + Len(rest) : all[k] = rest[k - Len(mid)]
    BY ONLY <2>4, Joining
  <2>2. mem' = all  BY <1>1 DEF mid
  <2> HIDE DEF all
  <2>3. \A k \in 1 .. h : k \in 1 .. Len(mid)  BY <1>2, <1>8
  <2>5. ASSUME NEW k \in 1 .. n  PROVE mem'[h + 1 + k] = rest[k]
    <3> DEFINE j == h + 1 + k
    <3>1. j \in Len(mid) + 1 .. Len(mid) + Len(rest) /\ j - Len(mid) = k
      BY <1>2, <1>3, <1>5, <1>8
    <3> HIDE DEF j
    <3>2. mem'[j] = rest[k]  BY <2>1, <2>2, <3>1
    <3>3. QED  BY <3>2 DEF j
  <2>6. QED  BY <1>4, <1>5, <1>8, <2>1, <2>2, <2>3, <2>5
<1>10. VariablesAt(mem', rbp', script) = Arguments
  <2>1. ASSUME NEW i \in V  PROVE mem'[rbp' - (i \div 2)].val[(i % 2) + 1] = Arg(i)
    <3> DEFINE d == i \div 2
               k == n - d
    <3>1. d \in 0 .. n - 1 /\ i \in Nat
      <4>1. Signature[script].varc \in Nat  BY <1>2, FrameIsNat
      <4>2. QED  BY <1>3, <4>1
    <3>2. i = 2 * d + (i % 2) /\ i % 2 \in 0 .. 1  BY <3>1
    <3> HIDE DEF d
    <3>3. k \in 1 .. n /\ rbp' - d = h + 1 + k /\ n - k = d  BY <1>1, <1>2, <1>3, <3>1
    <3> HIDE DEF k
    <3>4. mem'[rbp' - d] = Locals(Arg(2 * d), Arg(2 * d + 1))  BY <1>9, <3>3 DEF K
    <3>5. mem'[rbp' - d].val = <<Arg(2 * d), Arg(2 * d + 1)>>  BY <3>4 DEF Locals
    <3> HIDE DEF Arg
    <3>6. CASE i % 2 = 0
      <4>1. i = 2 * d  BY <3>1, <3>2, <3>6
      <4>2. mem'[rbp' - d].val[1] = Arg(i)  BY <3>5, <4>1
      <4>3. (i % 2) + 1 = 1  BY <3>6
      <4>4. QED  BY <4>2, <4>3 DEF d
    <3>7. CASE i % 2 = 1
      <4>1. i = 2 * d + 1  BY <3>1, <3>2, <3>7
      <4>2. mem'[rbp' - d].val[2] = Arg(i)  BY <3>5, <4>1
      <4>3. (i % 2) + 1 = 2  BY <3>7
      <4>4. QED  BY <4>2, <4>3 DEF d
    <3>8. QED  BY <3>2, <3>6, <3>7
  <2>2. Arguments = [i \in V |-> Arg(i)]  BY DEF Arguments
  <2>3. VariablesAt(mem', rbp', script)
          = [i \in V |-> mem'[rbp' - (i \div 2)].val[(i % 2) + 1]]
    BY DEF VariablesAt
  <2> HIDE DEF Arg, V
  <2>4. QED  BY <2>1, <2>2, <2>3
<1>11. Top' = Top
  <2>1. Top' = Base(rbp', script') - 1  BY <1>1 DEF Top
  <2>2. Base(rbp', script') = h + 1  BY <1>1, <1>2, <1>3 DEF Base, n
  <2>3. QED  BY <1>2, <2>1, <2>2
<1>12. \A i \in 1 .. Top : mem'[i] = mem[i]  BY <1>2, <1>9
<1>13. TopActivation' = TopActivation
  <2>1. TopValues = <<>> /\ TopVariables = Arguments
    BY <1>1 DEF TopValues, TopVariables
  <2>2. TopValues' = ValuesOn(mem', rbp', Len(mem'))  BY <1>1 DEF TopValues, Rsp
  <2>3. TopVariables' = VariablesAt(mem', rbp', script')  BY <1>1 DEF TopVariables
  <2>4. Len(mem') = rbp' /\ rbp' \in Int  BY <1>1, <1>2, <1>3, <1>9
  <2>5. ValuesOn(mem', rbp', Len(mem')) = <<>>  BY <2>4, NoValues
  <2>6. mem'[Top'] = mem[Top]
    <3>1. Top \in 1 .. Top  BY <1>2
    <3>2. QED  BY <1>11, <1>12, <3>1
  <2>7. TopActivation' = Activation(script', mem'[Top'].kept, TopValues', TopVariables')
    BY DEF TopActivation
  <2>8. TopActivation = Activation(script, mem[Top].kept, <<>>, Arguments)
    BY <2>1 DEF TopActivation
  <2>9. QED  BY <1>1, <1>10, <2>2, <2>3, <2>5, <2>6, <2>7, <2>8
<1>14. QED  BY <1>1, <1>11, <1>12, <1>13, RunsOn

(* What a foreign function is passed stays on the stack until it returns.    *)
LEMMA CallForeignMaps ==
  ASSUME IInv, IInv', NEW n \in ForeignArgs, NEW keep \in BOOLEAN, CallForeign(n, keep)
  PROVE  UNCHANGED Acts
<1> DEFINE h == Len(mem)
           skew == Skew(h + 1)
           pads == [i \in 1 .. skew |-> Pad]
           one == <<SavedR15(r15)>>
           last == <<ForeignReturn>>
<1>1. /\ pc = "body" /\ mem' = ((mem \o one) \o pads) \o last
      /\ r15' = skew /\ pc' = "foreign" /\ UNCHANGED <<rbp, script>>
  BY DEF CallForeign, Rsp
<1>2. /\ script \in Scripts /\ rbp \in Nat /\ h \in Nat /\ rbp <= h /\ Top \in Nat /\ Top >= 1
      /\ Base(rbp, script) = Top + 1 /\ Top + 1 + Frame(script) = rbp /\ Frame(script) \in Nat
  BY <1>1, TopFrame
<1>3. skew \in Nat
  <2>1. skew = (h + 1) % 2  BY DEF Skew
  <2> HIDE DEF h, skew
  <2>2. QED  BY <1>2, <2>1
<1>4. PICK W : mem \in Seq(Cell(W))  BY DEF IInv, StackOK
<1> DEFINE Y == Cell(W) \cup {SavedR15(r15), Pad, ForeignReturn}
<1>5. /\ mem \in Seq(Y) /\ one \in Seq(Y) /\ Len(one) = 1 /\ last \in Seq(Y) /\ Len(last) = 1
      /\ pads \in Seq(Y) /\ Len(pads) = skew
  <2>1. mem \in Seq(Y)
    <3>1. Cell(W) \subseteq Y  OBVIOUS
    <3> HIDE DEF Y
    <3>2. QED  BY <1>4, <3>1, SeqMonotonic
  <2>2. SavedR15(r15) \in Y /\ Pad \in Y /\ ForeignReturn \in Y  OBVIOUS
  <2> HIDE DEF Y
  <2>3. pads \in [1 .. skew -> Y]  BY <2>2
  <2> HIDE DEF pads, skew
  <2>4. pads \in Seq(Y)  BY <1>3, <2>3, SeqDef
  <2>5. DOMAIN pads = 1 .. skew  BY <2>3
  <2>6. Len(pads) = skew  BY <1>3, <2>4, <2>5, LenProperties
  <2>7. QED  BY <2>1, <2>2, <2>4, <2>6
<1> HIDE DEF Y, one, last, pads, skew
<1> DEFINE s1 == mem \o one
           s2 == s1 \o pads
<1>6. s1 \in Seq(Y) /\ Len(s1) = h + 1 /\ \A k \in 1 .. h : s1[k] = mem[k]
  <2>1. /\ s1 \in Seq(Y) /\ Len(s1) = Len(mem) + Len(one)
        /\ \A k \in 1 .. Len(mem) : s1[k] = mem[k]
    BY ONLY <1>5, Joining
  <2>2. QED  BY <1>5, <2>1
<1> HIDE DEF s1, h
<1>7. s2 \in Seq(Y) /\ Len(s2) = h + 1 + skew /\ \A k \in 1 .. h : s2[k] = mem[k]
  <2>1. /\ s2 \in Seq(Y) /\ Len(s2) = Len(s1) + Len(pads)
        /\ \A k \in 1 .. Len(s1) : s2[k] = s1[k]
    BY ONLY <1>5, <1>6, Joining
  <2>2. \A k \in 1 .. h : k \in 1 .. Len(s1)  BY <1>2, <1>6
  <2>3. QED  BY <1>5, <1>6, <2>1, <2>2
<1>8. Len(mem') = h + 2 + skew /\ \A k \in 1 .. h : mem'[k] = mem[k]
  <2> DEFINE all == s2 \o last
  <2>1. mem' = all  BY <1>1 DEF s1
  <2> HIDE DEF s2
  <2>0. s2 \in Seq(Y) /\ last \in Seq(Y)  BY <1>5, <1>7
  <2>2. /\ Len(all) = Len(s2) + Len(last) /\ \A k \in 1 .. Len(s2) : all[k] = s2[k]
    BY ONLY <2>0, Joining
  <2> HIDE DEF all
  <2>3. \A k \in 1 .. h : k \in 1 .. Len(s2)  BY <1>2, <1>3, <1>7
  <2>4. Len(mem') = h + 2 + skew  BY <1>2, <1>3, <1>5, <1>7, <2>1, <2>2
  <2>5. QED  BY <1>7, <2>1, <2>2, <2>3, <2>4
<1>9. Top' = Top  BY <1>1 DEF Top
<1>10. Top <= h
  <2> DEFINE f == Frame(script)
  <2>1. f \in Nat /\ Top + 1 + f = rbp  BY <1>2
  <2> HIDE DEF f
  <2>2. QED  BY <1>2, <2>1
<1>11. \A i \in 1 .. Top : mem'[i] = mem[i]
  <2>1. \A i \in 1 .. Top : i \in 1 .. h  BY <1>2, <1>10
  <2>2. QED  BY <1>8, <2>1
<1>12. ValuesOn(mem', rbp, h) = ValuesOn(mem, rbp, h)
  <2>1. \A k \in rbp + 1 .. h : k \in 1 .. h  BY <1>2
  <2>2. \A k \in rbp + 1 .. h : mem'[k] = mem[k]  BY <1>8, <2>1
  <2>3. rbp \in Int /\ h \in Int  BY <1>2
  <2>4. QED  BY ONLY <2>2, <2>3, SameValues
<1>13. VariablesAt(mem', rbp, script) = VariablesAt(mem, rbp, script)
  <2>1. \A k \in Base(rbp, script) + 1 .. rbp : k \in 1 .. h  BY <1>2
  <2>2. \A k \in Base(rbp, script) + 1 .. rbp : mem'[k] = mem[k]  BY <1>8, <2>1
  <2>3. script \in Scripts /\ rbp \in Int  BY <1>2
  <2>4. QED  BY ONLY <2>2, <2>3, SameVariables
<1>14. TopActivation' = TopActivation
  <2>1. TopActivation = Activation(script, mem[Top].kept, ValuesOn(mem, rbp, h),
                                   VariablesAt(mem, rbp, script))
    BY <1>1, BodySeen DEF h
  <2>2. Saved' - 1 = h
    <3>1. Saved' = Len(mem') - 1 - skew  BY <1>1 DEF Saved, Rsp
    <3>2. QED  BY <1>2, <1>3, <1>8, <3>1
  <2>3. TopValues' = ValuesOn(mem', rbp, h)
    <3>1. TopValues' = ValuesOn(mem', rbp', Saved' - 1)  BY <1>1 DEF TopValues
    <3>2. QED  BY <1>1, <2>2, <3>1
  <2>4. TopVariables' = VariablesAt(mem', rbp, script)  BY <1>1 DEF TopVariables
  <2>5. TopActivation' = Activation(script', mem'[Top'].kept, TopValues', TopVariables')
    BY DEF TopActivation
  <2>6. mem'[Top'] = mem[Top]
    <3>1. Top \in 1 .. Top  BY <1>2
    <3>2. QED  BY <1>9, <1>11, <3>1
  <2>7. QED  BY <1>1, <1>12, <1>13, <2>1, <2>3, <2>4, <2>5, <2>6
<1>15. QED  BY <1>1, <1>9, <1>11, <1>14, RunsOn

(* A foreign function's arguments are popped, and its value pushed if kept.   *)
LEMMA ForeignReturnsMaps == ASSUME IInv, IInv', ForeignReturns  PROVE Abstract!Next
<1> DEFINE top == Saved - 1
           n == foreign.argc
           t == top - n
           q == SubSeq(mem, 1, t)
           k == mem[Top].kept
           w == ValuesOn(mem, rbp, top)
           l == VariablesAt(mem, rbp, script)
           u == SubSeq(w, 1, Len(w) - n)
           T == TopActivation
<1>1. PICK v \in Values : mem' = q \o (IF foreign.keep THEN <<Word(v)>> ELSE <<>>)
  BY DEF ForeignReturns, Saved
<1>2. pc = "foreign" /\ pc' = "body" /\ UNCHANGED <<rbp, script>>
  BY DEF ForeignReturns
<1>3. Saved \in 1 .. Len(mem) /\ n \in ForeignArgs /\ n \in Nat /\ rbp <= t
  <2>1. Outside  BY <1>2 DEF IInv, Entering, Running, Over
  <2>2. n \in ForeignArgs  BY <2>1 DEF Outside
  <2>3. n \in Nat  BY <2>2, ForeignCount
  <2>4. QED  BY <2>1, <2>2, <2>3 DEF Outside, Rsp
<1>4. rbp \in Nat /\ Len(mem) \in Nat  BY <1>2, TopFrame
<1>5. top \in Int /\ t \in Nat /\ rbp <= top /\ top <= Len(mem) /\ n \in 0 .. top - rbp /\ t <= Len(mem)
  BY <1>3, <1>4
<1>6. PICK W : mem \in Seq(Cell(W)) /\ {v} \subseteq W  BY Carrier DEF IInv
<1>7. q \in Seq(Cell(W)) /\ Len(q) = t /\ \A i \in 1 .. t : q[i] = mem[i]
  <2> DEFINE d == Len(mem) - t
  <2>1. d \in 0 .. Len(mem) /\ Len(mem) - d = t  BY <1>4, <1>5
  <2> HIDE DEF d, t
  <2>2. QED  BY <1>6, <2>1, Popping
<1>8. T = Activation(script, k, w, l)
  BY <1>2 DEF TopActivation, TopValues, TopVariables
<1> HIDE DEF q, top
<1>9. ASSUME NEW m, \A i \in 1 .. t : m[i] = mem[i]
      PROVE  /\ ValuesOn(m, rbp, t) = u /\ VariablesAt(m, rbp, script) = l
             /\ \A i \in 1 .. Top : m[i] = mem[i]
  <2>1. rbp <= t /\ t <= top /\ t \in Int /\ n \in Int /\ rbp <= top /\ top <= Len(mem)
    BY <1>3, <1>5
  <2>2. Shortens(m, top, t, n)  BY <1>5, <1>9, <2>1 DEF Shortens
  <2> HIDE DEF t, n
  <2>3. QED  BY <1>2, <2>2, SeenToPop
<1>10. Len(w) = top - rbp
  <2>1. top \in Int /\ rbp \in Int /\ rbp <= top  BY <1>4, <1>5
  <2>2. IsValuesOn(w, mem, rbp, top)  BY <2>1, ValuesAre
  <2>3. QED  BY <2>2 DEF IsValuesOn
<1>11. n <= Len(T.vals)
  <2>1. T.vals = w  BY <1>8 DEF Activation
  <2>2. QED  BY <1>5, <1>10, <2>1
<1>12. Activation(script, k, u, l) = Abstract!Less(T, n)
  <2> HIDE DEF w, l, k, n, T
  <2>1. QED  BY <1>8, LessIs
<1>13. CASE ~foreign.keep
  <2>1. mem' = q  BY <1>1, <1>7, <1>13, ConcatEmptySeq
  <2>2. Len(mem') = t /\ \A i \in 1 .. t : mem'[i] = mem[i]  BY <1>7, <2>1
  <2>3. Steps(Activation(script, k, u, l))
    <3>1. /\ ValuesOn(mem', rbp, t) = u /\ VariablesAt(mem', rbp, script) = l
          /\ \A i \in 1 .. Top : mem'[i] = mem[i]
      BY <1>9, <2>2
    <3>2. Steps(Activation(script, k, ValuesOn(mem', rbp, Len(mem')),
                           VariablesAt(mem', rbp, script)))
      BY <1>2, <3>1, BodyAgain
    <3>3. QED  BY <2>2, <3>1, <3>2
  <2> HIDE DEF k, w, l, u, T, n
  <2>4. Activation(script, k, u, l) \in Abstract!CallsOut(T)
    BY <1>3, <1>11, <1>12 DEF Abstract!CallsOut
  <2>5. QED  BY <2>3, <2>4, StepWorks DEF T
<1>14. CASE foreign.keep
  <2>1. mem' = Append(q, Word(v)) /\ Word(v) \in Cell(W)
    <3>1. Word(v) \in Cell(W)  BY <1>6, NewCells
    <3>2. QED  BY <1>1, <1>7, <1>14, <3>1, AppendIsConcat
  <2>2. /\ Len(mem') = t + 1 /\ mem'[t + 1] = Word(v) /\ \A i \in 1 .. t : mem'[i] = q[i]
    BY <1>7, <2>1, Pushing
  <2>3. \A i \in 1 .. t : mem'[i] = mem[i]  BY <1>7, <2>2
  <2>4. ValuesOn(mem', rbp, t + 1) = Append(u, v)
    <3>1. rbp \in Int /\ t \in Int /\ rbp <= t  BY <1>3, <1>4, <1>5
    <3>2. \A i \in rbp + 1 .. t : mem'[i] = q[i]
      <4>1. \A i \in rbp + 1 .. t : i \in 1 .. t  BY <1>4, <3>1
      <4>2. QED  BY <2>2, <4>1
    <3> HIDE DEF t
    <3>3. ValuesOn(mem', rbp, t + 1) = Append(ValuesOn(q, rbp, t), mem'[t + 1].val)
      BY ONLY <3>1, <3>2, OneMoreValue
    <3>4. ValuesOn(q, rbp, t) = u  BY <1>7, <1>9
    <3>5. mem'[t + 1].val = v  BY <2>2 DEF Word
    <3>6. QED  BY <3>3, <3>4, <3>5
  <2>5. /\ VariablesAt(mem', rbp, script) = l /\ \A i \in 1 .. Top : mem'[i] = mem[i]
    BY <1>9, <2>3
  <2>6. Steps(Activation(script, k, Append(u, v), l))
    BY <1>2, <2>2, <2>4, <2>5, BodyAgain
  <2> HIDE DEF k, w, l, u, T, n
  <2>7. Activation(script, k, Append(u, v), l) = Abstract!More(Abstract!Less(T, n), v)
    BY <1>12, MoreIs
  <2>8. Activation(script, k, Append(u, v), l) \in Abstract!CallsOut(T)
    BY <1>3, <1>11, <2>7 DEF Abstract!CallsOut
  <2>9. QED  BY <2>6, <2>8, StepWorks DEF T
<1>15. QED  BY <1>13, <1>14
-----------------------------------------------------------------------------
(* A call adds the callee's activation and takes its arguments from the      *)
(* caller's values.                                                         *)
LEMMA CallAdds ==
  ASSUME IInv, NEW f \in Scripts, NEW keep \in BOOLEAN, CallFunc(f, keep)
  PROVE  LET n == Signature[f].argc
             m == Len(mem) - n + 1
         IN  /\ Len(mem') = m /\ mem'[m] = ReturnTo(script, keep) /\ m \in Nat
             /\ n \in 0 .. Len(mem) - rbp /\ Top < m
             /\ \A i \in 1 .. Len(mem) - n : mem'[i] = mem[i]
             /\ Returns' = Returns \cup {m} /\ Returns \in SUBSET (1 .. m - 1)
<1> DEFINE h == Len(mem)
           n == Signature[f].argc
           c == ReturnTo(script, keep)
           m == h - n + 1
<1>1. pc = "body" /\ Evaluated >= n /\ mem' = Append(Popped(n), c)
  BY DEF CallFunc
<1>2. /\ script \in Scripts /\ rbp \in Nat /\ h \in Nat /\ rbp <= h /\ Top \in Nat
      /\ Base(rbp, script) = Top + 1 /\ Top + 1 + Frame(script) = rbp /\ Frame(script) \in Nat
  BY <1>1, TopFrame
<1>3. n \in Nat /\ n \in 0 .. h /\ n \in 0 .. h - rbp
  <2>1. n \in Nat  BY FrameIsNat
  <2> HIDE DEF n
  <2>2. h - rbp >= n  BY <1>1 DEF Evaluated, Rsp
  <2>3. QED  BY <1>2, <2>1, <2>2
<1>4. PICK W : mem \in Seq(Cell(W))  BY DEF IInv, StackOK
<1>5. c \in Cell(W) /\ c.is = "ret"  BY <1>2, NewCells
<1> HIDE DEF n, c, h
<1>6. Popped(n) \in Seq(Cell(W)) /\ Len(Popped(n)) = h - n
      /\ \A i \in 1 .. h - n : Popped(n)[i] = mem[i]
  <2>1. n \in 0 .. Len(mem)  BY <1>3 DEF h
  <2>2. QED  BY <1>4, <2>1, Popping DEF Popped, Rsp, h
<1>7. Len(mem') = m /\ mem'[m] = c /\ \A i \in 1 .. h - n : mem'[i] = mem[i]
  BY <1>1, <1>5, <1>6, Pushing
<1>8. Top < m
  <2> DEFINE g == Frame(script)
  <2>1. g \in Nat /\ Top + 1 + g = rbp  BY <1>2
  <2> HIDE DEF g
  <2>2. QED  BY <1>2, <1>3, <2>1
<1>9. m \in Nat /\ m - 1 = h - n  BY <1>2, <1>3
<1>10. /\ \A i : i \in Returns => i \in 1 .. h - n /\ mem[i].is = "ret"
       /\ \A i \in 1 .. h - n : mem[i].is = "ret" => i \in Returns
  <2>1. \A i : i \in Returns <=> i \in 1 .. h /\ mem[i].is = "ret"
    BY ReturnsAre DEF IInv, h
  <2>2. \A i \in Returns : i <= Top  BY <1>1, TopIsLast
  <2>3. \A i \in 1 .. h - n : i \in 1 .. h  BY <1>2, <1>3
  <2>4. \A i \in 1 .. h : i <= Top => i \in 1 .. h - n  BY <1>2, <1>3, <1>8, <1>9
  <2>5. QED  BY <2>1, <2>2, <2>3, <2>4
<1>11. \A i : i \in Returns' <=> i \in 1 .. m /\ mem'[i].is = "ret"
  BY <1>7 DEF Returns, Rsp
<1> HIDE DEF m
<1>12. \A i \in 1 .. m : i = m \/ i \in 1 .. h - n  BY <1>9
<1>13. m \in 1 .. m /\ \A i \in 1 .. h - n : i \in 1 .. m  BY <1>2, <1>3, <1>9
<1>14. \A i : i \in Returns' <=> i \in Returns \/ i = m
  <2>1. mem'[m].is = "ret"  BY <1>5, <1>7
  <2>2. ASSUME NEW i, i \in Returns'  PROVE i \in Returns \/ i = m
    <3>1. i \in 1 .. m /\ mem'[i].is = "ret"  BY <1>11, <2>2
    <3>2. CASE i \in 1 .. h - n  BY <1>7, <1>10, <3>1, <3>2
    <3>3. QED  BY <1>12, <3>1, <3>2
  <2>3. ASSUME NEW i, i \in Returns  PROVE i \in Returns'
    <3>1. i \in 1 .. h - n /\ mem[i].is = "ret"  BY <1>10, <2>3
    <3>2. mem'[i].is = "ret"  BY <1>7, <3>1
    <3>3. QED  BY <1>11, <1>13, <3>1, <3>2
  <2>4. QED  BY <1>11, <1>13, <2>1, <2>2, <2>3
<1>15. Returns' = Returns \cup {m} /\ Returns \in SUBSET (1 .. m - 1)
  BY <1>9, <1>10, <1>14
<1>16. QED  BY <1>3, <1>7, <1>8, <1>9, <1>15 DEF m, h, n, c

LEMMA CallFuncMaps ==
  ASSUME IInv, IInv', NEW f \in Scripts, NEW keep \in BOOLEAN, CallFunc(f, keep)
  PROVE  Abstract!Next
<1> DEFINE h == Len(mem)
           n == Signature[f].argc
           m == h - n + 1
           d == Depth
           k == mem[Top].kept
           w == ValuesOn(mem, rbp, h)
           l == VariablesAt(mem, rbp, script)
           u == SubSeq(w, 1, Len(w) - n)
           T == TopActivation
           callee == Activation(f, keep, <<>>, Arguments')
<1>1. /\ pc = "body" /\ pc' = "enter" /\ script' = f /\ UNCHANGED rbp
      /\ args' = [i \in 1 .. n |-> mem[h - n + i].val] /\ (keep => Signature[f].value)
  BY DEF CallFunc, Rsp
<1>2. /\ Len(mem') = m /\ mem'[m] = ReturnTo(script, keep) /\ m \in Nat
      /\ n \in 0 .. h - rbp /\ Top < m /\ \A i \in 1 .. h - n : mem'[i] = mem[i]
      /\ Returns' = Returns \cup {m} /\ Returns \in SUBSET (1 .. m - 1)
  BY CallAdds
<1>3. /\ script \in Scripts /\ rbp \in Nat /\ h \in Nat /\ rbp <= h /\ Top \in Nat
      /\ Base(rbp, script) = Top + 1 /\ Top + 1 + Frame(script) = rbp /\ Top >= 1
  BY <1>1, TopFrame
<1>4. n \in Nat /\ m - 1 = h - n /\ h \in Int /\ h - n \in Int
  <2>1. n \in Nat  BY FrameIsNat
  <2> HIDE DEF n, h
  <2>2. QED  BY <1>3, <2>1
<1> HIDE DEF n, h, m
<1>5. Seen /\ Seen'  BY <1>1, WhatIsSeen, WhatIsSeenNext
<1>6. /\ d \in Nat /\ d >= 1 /\ Len(Acts) = d /\ Start(d) = Top
      /\ \A j \in 1 .. d - 1 : Acts[j] = Waiting(mem, Start(j), Start(j + 1))
      /\ Acts[d] = TopActivation
  BY <1>5 DEF Seen
<1>7. Depth' = d + 1 /\ (\A j \in 1 .. d : Start(j)' = Start(j)) /\ Nth(Returns', d + 1) = m
  <2> DEFINE S == Returns
             R == Returns'
             e == m - 1
  <2>1. R = S \cup {m} /\ S \in SUBSET (1 .. e) /\ e \in Nat /\ e < m /\ m \in Nat
    BY <1>2, <1>3
  <2>2. d = Cardinality(S) /\ Depth' = Cardinality(R)  BY DEF Depth
  <2>3. \A j : Start(j) = Nth(S, j) /\ Start(j)' = Nth(R, j)  BY DEF Start
  <2> HIDE DEF S, R, e, d
  <2>4. /\ Cardinality(S \cup {m}) = Cardinality(S) + 1
        /\ \A j \in 1 .. Cardinality(S) : Nth(S \cup {m}, j) = Nth(S, j)
        /\ Nth(S \cup {m}, Cardinality(S) + 1) = m
    BY <2>1, NthOfMore
  <2>5. QED  BY <2>1, <2>2, <2>3, <2>4 DEF R
<1>8. /\ Len(Acts') = d + 1 /\ Acts'[d + 1] = TopActivation'
      /\ \A j \in 1 .. d : Acts'[j] = Waiting(mem', Start(j)', Nth(Returns', j + 1))
  <2>1. /\ Len(Acts') = Depth' /\ Acts'[Depth'] = TopActivation'
        /\ \A j \in 1 .. Depth' - 1 : Acts'[j] = Waiting(mem', Start(j)', Start(j + 1)')
    BY <1>5 DEF Seen
  <2>2. \A j : Start(j + 1)' = Nth(Returns', j + 1)  BY DEF Start
  <2>3. \A j \in 1 .. d : j \in 1 .. Depth' - 1  BY <1>6, <1>7
  <2>4. QED  BY <1>7, <2>1, <2>2, <2>3
<1>9. \A j \in 1 .. d - 1 : Acts'[j] = Acts[j]
  <2>1. ASSUME NEW j \in 1 .. d - 1  PROVE Acts'[j] = Acts[j]
    <3>1. j \in 1 .. d /\ j + 1 \in 1 .. d  BY <1>6
    <3>2. Start(j)' = Start(j) /\ Nth(Returns', j + 1) = Start(j + 1)
      <4>1. Start(j + 1)' = Start(j + 1)
        <5> DEFINE i == j + 1
        <5>1. i \in 1 .. d  BY <3>1
        <5> HIDE DEF i
        <5>2. Start(i)' = Start(i)  BY <1>7, <5>1
        <5>3. QED  BY <5>2 DEF i
      <4>2. QED  BY <1>7, <3>1, <4>1 DEF Start
    <3>3. Start(j + 1) \in Returns
      BY <1>6, Neighbours DEF IInv
    <3>4. Start(j + 1) <= h - n
      <4>1. Start(j + 1) \in 1 .. m - 1  BY <1>2, <3>3
      <4>2. QED  BY <1>4, <4>1
    <3>5. Waiting(mem', Start(j), Start(j + 1)) = Waiting(mem, Start(j), Start(j + 1))
      <4>1. StackOK /\ Depth \in Nat  BY <1>6 DEF IInv
      <4>2. QED  BY <1>2, <1>4, <3>4, <4>1, SameCaller
    <3>6. QED  BY <1>6, <1>8, <3>1, <3>2, <3>5
  <2>2. QED  BY <2>1
<1>10. Acts'[d] = Waiting(mem', Top, m)
  <2>1. d \in 1 .. d  BY <1>6
  <2>2. QED  BY <1>6, <1>7, <1>8, <2>1
<1>11. /\ ValuesOn(mem', rbp, h - n) = u /\ VariablesAt(mem', rbp, script) = l
       /\ \A i \in 1 .. Top : mem'[i] = mem[i]
  <2> DEFINE e == h - n
  <2>1. rbp <= h /\ h <= Len(mem) /\ rbp <= e /\ e <= h /\ e \in Int /\ h \in Int /\ n \in Int
    BY <1>2, <1>3, <1>4 DEF h
  <2>2. Shortens(mem', h, e, n)  BY <1>2, <2>1 DEF Shortens
  <2> HIDE DEF e
  <2>3. /\ ValuesOn(mem', rbp, e) = u /\ VariablesAt(mem', rbp, script) = l
        /\ \A i \in 1 .. Top : mem'[i] = mem[i]
    BY <1>1, <2>2, SeenToPop
  <2>4. QED  BY <2>3 DEF e
<1>12. Acts'[d] = Activation(script, k, u, l)
  <2>1. mem'[m].to = script  BY <1>2 DEF ReturnTo
  <2>2. mem'[Top].kept = k
    <3>1. Top \in 1 .. Top  BY <1>3
    <3>2. QED  BY <1>11, <3>1
  <2>3. Waiting(mem', Top, m) = Activation(script, k, ValuesOn(mem', rbp, m - 1),
                                           VariablesAt(mem', rbp, script))
    <3>1. Top + 1 + Frame(script) = rbp  BY <1>3
    <3>2. QED  BY <2>1, <2>2, <3>1 DEF Waiting, Activation
  <2>4. QED  BY <1>4, <1>10, <1>11, <2>3
<1>13. TopActivation' = callee
  <2>1. TopValues' = <<>> /\ TopVariables' = Arguments'
    BY <1>1 DEF TopValues, TopVariables
  <2>2. Top' = m  BY <1>1, <1>2 DEF Top, Rsp
  <2>3. mem'[Top'].kept = keep  BY <1>2, <2>2 DEF ReturnTo
  <2>4. TopActivation' = Activation(script', mem'[Top'].kept, TopValues', TopVariables')
    BY DEF TopActivation
  <2>5. QED  BY <1>1, <2>1, <2>3, <2>4
<1>14. T = Activation(script, k, w, l)  BY <1>1, BodySeen DEF h
<1>15. Len(w) = h - rbp /\ (\A q \in 1 .. h - rbp : w[q] = mem[rbp + q].val) /\ \E X : w \in Seq(X)
  <2>1. h \in Int /\ rbp \in Int /\ rbp <= h  BY <1>3, <1>4
  <2>2. IsValuesOn(w, mem, rbp, h)  BY <2>1, ValuesAre
  <2>3. QED  BY <2>2 DEF IsValuesOn
<1> HIDE DEF k, w, l
<1>16. Activation(script, k, u, l) = Abstract!Less(T, n)  BY <1>14, LessIs
<1>17. T.vals = w  BY <1>14 DEF Activation
<1>18. Arguments' = Abstract!Fresh(f, Abstract!Last(T, n))
  <2> DEFINE V == 0 .. Signature[f].varc - 1
             x == Abstract!Last(T, n)
  <2>1. AreLast(x, w, n)
    <3>1. PICK X : w \in Seq(X)  BY <1>15
    <3>2. n \in 0 .. Len(w)  BY <1>2, <1>15
    <3>3. AreLast(Abstract!Last(Activation(script, k, w, l), n), w, n)  BY <3>1, <3>2, LastAre
    <3>4. QED  BY <1>14, <3>3
  <2> HIDE DEF x, T
  <2>2. ASSUME NEW i \in V, i < n  PROVE args'[i + 1] = x[i + 1]
    <3> DEFINE j == i + 1
    <3>1. j \in 1 .. n
      <4>1. Signature[f].varc \in Nat  BY FrameIsNat
      <4>2. QED  BY <1>4, <2>2, <4>1
    <3> HIDE DEF j
    <3>2. args'[j] = mem[h - n + j].val  BY <1>1, <3>1
    <3>3. x[j] = w[Len(w) - n + j]  BY <2>1, <3>1 DEF AreLast
    <3>4. Len(w) - n + j \in 1 .. h - rbp /\ rbp + (Len(w) - n + j) = h - n + j
      BY <1>2, <1>3, <1>4, <1>15, <3>1
    <3>5. w[Len(w) - n + j] = mem[h - n + j].val
      <4> DEFINE g == Len(w) - n + j
      <4>1. g \in 1 .. h - rbp /\ rbp + g = h - n + j  BY <3>4
      <4> HIDE DEF g
      <4>2. w[g] = mem[rbp + g].val  BY <1>15, <4>1
      <4>3. QED  BY <4>1, <4>2 DEF g
    <3>6. QED  BY <3>2, <3>3, <3>5 DEF j
  <2>3. Arguments' = [i \in V |-> IF i < n THEN args'[i + 1] ELSE Junk]
    BY <1>1 DEF Arguments, n
  <2>4. Abstract!Fresh(f, x) = [i \in V |-> IF i < n THEN x[i + 1] ELSE Junk]
    BY DEF Abstract!Fresh, n
  <2> HIDE DEF V
  <2>5. [i \in V |-> IF i < n THEN args'[i + 1] ELSE Junk]
          = [i \in V |-> IF i < n THEN x[i + 1] ELSE Junk]
    BY <2>2
  <2>6. QED  BY <2>3, <2>4, <2>5 DEF x, T
<1>19. Acts' = Abstract!Callers(Acts) \o <<Abstract!Less(T, n), callee>>
  <2>1. PICK X : Acts \in Seq(X)  BY <1>5 DEF Seen
  <2>2. PICK Y : Acts' \in Seq(Y)  BY <1>5 DEF Seen
  <2> DEFINE Z == X \cup Y
  <2>3. Acts \in Seq(Z) /\ Acts' \in Seq(Z)  BY <2>1, <2>2, SeqMonotonic
  <2> HIDE DEF d, Z
  <2>4. Acts' = SubSeq(Acts, 1, Len(Acts) - 1) \o <<Acts'[d], Acts'[d + 1]>>
    BY <1>6, <1>8, <1>9, <2>3, LastTwoChanged
  <2>5. QED  BY <1>8, <1>12, <1>13, <1>16, <2>4 DEF Abstract!Callers
<1>20. Abstract!Now(Acts) = T /\ Acts # <<>>
  <2>1. Acts # <<>>  BY <1>6
  <2>2. QED  BY <1>6, <2>1 DEF Abstract!Now
<1>21. keep \in {FALSE, Signature[f].value}
  <2>1. Signature[f].value \in BOOLEAN  BY ScriptsAssumption
  <2>2. QED  BY <1>1, <2>1
<1>22. Acts' \in Abstract!Calls(Acts)
  <2> DEFINE N == Abstract!Now(Acts)
             Callable == {g \in Scripts : Signature[g].argc <= Len(N.vals)}
             C(g, kp) == Abstract!Callers(Acts) \o
                           <<Abstract!Less(N, Signature[g].argc),
                             [script |-> g, kept |-> kp, vals |-> <<>>,
                              locals |-> Abstract!Fresh(g, Abstract!Last(N, Signature[g].argc))]>>
  <2>1. Abstract!Calls(Acts)
          = UNION {{C(g, kp) : kp \in {FALSE, Signature[g].value}} : g \in Callable}
    BY DEF Abstract!Calls
  <2>2. f \in Callable  BY <1>2, <1>3, <1>15, <1>17, <1>20 DEF n
  <2>3. callee = [script |-> f, kept |-> keep, vals |-> <<>>,
                  locals |-> Abstract!Fresh(f, Abstract!Last(T, n))]
    BY <1>18 DEF Activation
  <2> HIDE DEF callee, T
  <2>4. C(f, keep) = Acts'  BY <1>19, <1>20, <2>3 DEF n
  <2> DEFINE K(g) == {FALSE, Signature[g].value}
             D(g) == {C(g, kp) : kp \in K(g)}
  <2>5. Abstract!Calls(Acts) = UNION {D(g) : g \in Callable}  BY <2>1
  <2>6. keep \in K(f)  BY <1>21
  <2> HIDE DEF C, Callable, K
  <2>7. Acts' \in D(f)  BY <2>4, <2>6
  <2> HIDE DEF D
  <2>8. QED  BY <2>2, <2>5, <2>7
<1>23. QED  BY <1>20, <1>22 DEF Abstract!Next, Abstract!After
-----------------------------------------------------------------------------
(* A return leaves what lies below the frame of the script that returns.     *)
LEMMA ReturnLeaves ==
  ASSUME IInv, pc = "body", NEW value, WriteRet(value)
  PROVE  LET ret == mem[Top]
         IN  /\ Len(mem') = Top - 1 /\ \A i \in 1 .. Top - 1 : mem'[i] = mem[i]
             /\ script' = ret.to /\ Top \in Nat /\ Top >= 1
             /\ pc' = IF ret.to = Host THEN "done" ELSE IF ret.kept THEN "keep" ELSE "body"
             /\ rax' = IF ret.kept \/ ret.to = Host THEN value ELSE Junk
             /\ CalledFrom(mem, rbp', ret.to, Top - 1)
             /\ Returns = Returns' \cup {Top} /\ Returns' \in SUBSET (1 .. Top - 1)
<1> DEFINE b == rbp - Frame(script)
           h == Len(mem)
           t == Top - 1
           ret == mem[Top]
<1>1. h \in Nat /\ Top \in Nat /\ Top >= 1 /\ Top = b - 1 /\ b = Top + 1
  <2>1. h \in Nat /\ Top \in Nat /\ Top >= 1 /\ Top = Base(rbp, script) - 1
        /\ Base(rbp, script) = Top + 1
    BY TopFrame
  <2>2. QED  BY <2>1 DEF Base
<1>2. /\ mem' = SubSeq(mem, 1, b - 2) /\ rbp' = mem[b].base /\ script' = mem[b - 1].to
      /\ pc' = IF mem[b - 1].to = Host THEN "done" ELSE IF mem[b - 1].kept THEN "keep" ELSE "body"
      /\ rax' = IF mem[b - 1].kept \/ mem[b - 1].to = Host THEN value ELSE Junk
  BY DEF WriteRet, SavedBase
<1>3. FrameAt(mem, rbp, script) /\ StackOK  BY AtRest DEF Resting
<1>4. b \in 2 .. h /\ mem[b].is = "rbp"  BY <1>3 DEF FrameAt, Base
<1>5. b - 2 = t /\ t \in Nat
  <2> HIDE DEF b
  <2>1. QED  BY <1>1
<1> HIDE DEF b, h
<1>6. CalledFrom(mem, mem[b].base, mem[b - 1].to, b - 2)
  <2>1. Linked(mem, b)  BY <1>3, <1>4 DEF StackOK, h
  <2>2. QED  BY <1>4, <2>1 DEF Linked
<1>7. /\ mem' = SubSeq(mem, 1, t) /\ script' = ret.to /\ CalledFrom(mem, rbp', ret.to, t)
      /\ pc' = IF ret.to = Host THEN "done" ELSE IF ret.kept THEN "keep" ELSE "body"
      /\ rax' = IF ret.kept \/ ret.to = Host THEN value ELSE Junk
  BY <1>1, <1>2, <1>5, <1>6
<1>8. t <= h  BY <1>1, <1>4
<1> HIDE DEF t
<1>9. Len(mem') = t /\ \A i \in 1 .. t : mem'[i] = mem[i]
  <2> DEFINE d == h - t
  <2>1. PICK W : mem \in Seq(Cell(W))  BY <1>3 DEF StackOK
  <2>2. d \in 0 .. h /\ h - d = t  BY <1>1, <1>5, <1>8
  <2> HIDE DEF d
  <2>3. QED  BY <1>7, <2>1, <2>2, Popping DEF h
<1>10. \A i : i \in Returns <=> i \in Returns' \/ i = Top
  <2>1. Top \in Returns /\ \A j \in Returns : j <= Top  BY TopIsLast
  <2>2. \A i : i \in Returns <=> i \in 1 .. h /\ mem[i].is = "ret"
    BY <1>3, ReturnsAre DEF h
  <2>3. \A i : i \in Returns' <=> i \in 1 .. t /\ mem'[i].is = "ret"
    BY <1>9 DEF Returns, Rsp
  <2>4. \A i \in 1 .. h : i <= Top => i = Top \/ i \in 1 .. t  BY <1>1 DEF t
  <2>5. \A i \in 1 .. t : i \in 1 .. h  BY <1>1, <1>5, <1>8
  <2>6. QED  BY <1>9, <2>1, <2>2, <2>3, <2>4, <2>5
<1>11. Returns = Returns' \cup {Top} /\ Returns' \in SUBSET (1 .. t)
  <2>1. \A i \in Returns' : i \in 1 .. t  BY <1>9 DEF Returns, Rsp
  <2>2. QED  BY <1>10, <2>1
<1>12. QED  BY <1>1, <1>7, <1>9, <1>11 DEF t

(* The entry script returns: the host has its result.                       *)
LEMMA HostReturnMaps ==
  ASSUME IInv, IInv', pc = "body", NEW value, WriteRet(value), mem[Top].to = Host
  PROVE  Acts' = <<>> /\ Abstract!Callers(Acts) = <<>>
<1>1. /\ Len(mem') = Top - 1 /\ Top \in Nat /\ CalledFrom(mem, rbp', mem[Top].to, Top - 1)
      /\ Returns = Returns' \cup {Top} /\ Returns' \in SUBSET (1 .. Top - 1)
  BY ReturnLeaves
<1>2. Top = 1  BY <1>1 DEF CalledFrom
<1>3. Returns' = {} /\ Returns = {1}
  <2>1. 1 .. Top - 1 = {}  BY <1>2
  <2>2. QED  BY <1>1, <1>2, <2>1
<1>4. Depth' = 0 /\ Depth = 1  BY <1>3, FS_EmptySet, FS_Singleton DEF Depth
<1>5. Acts' = <<>>
  <2>1. DOMAIN Acts' = {}  BY <1>4 DEF Acts
  <2>2. Acts' = [k \in {} |-> Acts'[k]]  BY <1>4 DEF Acts
  <2>3. QED  BY <2>2
<1>6. Abstract!Callers(Acts) = <<>>
  <2>1. Seen  BY WhatIsSeen
  <2>2. PICK X : Acts \in Seq(X)  BY <2>1 DEF Seen
  <2>3. Len(Acts) = 1  BY <1>4, <2>1 DEF Seen
  <2>4. SubSeq(Acts, 1, 0) = <<>>  BY <2>2, EmptySeq, SubSeqProperties
  <2>5. QED  BY <2>3, <2>4 DEF Abstract!Callers
<1>7. QED  BY <1>5, <1>6

LEMMA TopFrameNext ==
  (IInv /\ pc \in {"body", "keep"} =>
     Top = Base(rbp, script) - 1 /\ Top + 1 + Frame(script) = rbp /\ rbp \in Nat)'
<1>1. IInv /\ pc \in {"body", "keep"} =>
        Top = Base(rbp, script) - 1 /\ Top + 1 + Frame(script) = rbp /\ rbp \in Nat
  BY TopFrame
<1>2. QED  BY <1>1, PTL

(* Another script is resumed as its call left it.                           *)
LEMMA CallerReturnMaps ==
  ASSUME IInv, IInv', pc = "body", NEW value, WriteRet(value), mem[Top].to # Host
  PROVE  LET rest == Abstract!Callers(Acts)
             caller == Abstract!Now(rest)
         IN  /\ rest # <<>>
             /\ Acts' = Append(Abstract!Callers(rest),
                               IF mem[Top].kept THEN Abstract!More(caller, value) ELSE caller)
<1> DEFINE n == Depth'
           d == n + 1
           ret == mem[Top]
           s == script'
           r == rbp'
           p == Top'
           t == Top - 1
           v == ValuesOn(mem, r, t)
           l == VariablesAt(mem, r, s)
           k == mem[p].kept
           A == Activation(s, k, v, l)
<1>1. /\ Len(mem') = t /\ (\A i \in 1 .. t : mem'[i] = mem[i]) /\ s = ret.to
      /\ Top \in Nat /\ Top >= 1 /\ pc' = (IF ret.kept THEN "keep" ELSE "body")
      /\ (ret.kept => rax' = value)
      /\ Returns = Returns' \cup {Top} /\ Returns' \in SUBSET (1 .. t)
  BY ReturnLeaves
<1>2. pc' \in {"body", "keep"} /\ t \in Nat  BY <1>1
<1>3. Seen /\ Seen'  BY <1>2, WhatIsSeen, WhatIsSeenNext
<1>4. p = Base(r, s) - 1 /\ p + 1 + Frame(s) = r /\ r \in Nat  BY <1>2, TopFrameNext
<1>5. /\ n \in Nat /\ n >= 1 /\ Len(Acts') = n /\ Nth(Returns', n) = p
      /\ \A j \in 1 .. n - 1 : Acts'[j] = Waiting(mem', Start(j)', Start(j + 1)')
      /\ Acts'[n] = TopActivation'
  BY <1>3 DEF Seen, Start
<1>6. /\ Depth = d /\ Nth(Returns, d) = Top
      /\ \A j \in 1 .. n : Nth(Returns, j) = Nth(Returns', j)
  <2> DEFINE S == Returns'
             R == Returns
  <2>1. R = S \cup {Top} /\ S \in SUBSET (1 .. t) /\ t \in Nat /\ t < Top /\ Top \in Nat
    BY <1>1, <1>2
  <2>2. n = Cardinality(S) /\ Depth = Cardinality(R)  BY DEF Depth
  <2> HIDE DEF S, R, t, n
  <2>3. /\ Cardinality(S \cup {Top}) = Cardinality(S) + 1
        /\ \A j \in 1 .. Cardinality(S) : Nth(S \cup {Top}, j) = Nth(S, j)
        /\ Nth(S \cup {Top}, Cardinality(S) + 1) = Top
    BY <2>1, NthOfMore
  <2>4. QED  BY <2>1, <2>2, <2>3 DEF R, S
<1>7. /\ Len(Acts) = d /\ \A j \in 1 .. n : Acts[j] = Waiting(mem, Start(j), Start(j + 1))
  <2>1. Len(Acts) = Depth /\ \A j \in 1 .. Depth - 1 : Acts[j] = Waiting(mem, Start(j), Start(j + 1))
    BY <1>3 DEF Seen
  <2>2. Depth - 1 = n
    <3> HIDE DEF n
    <3>1. QED  BY <1>5, <1>6
  <2>3. QED  BY <1>6, <2>1, <2>2
<1> HIDE DEF n, t
<1>8. \A j \in 1 .. n - 1 : Acts'[j] = Acts[j]
  <2>1. ASSUME NEW j \in 1 .. n - 1  PROVE Acts'[j] = Acts[j]
    <3> DEFINE i == j + 1
    <3>1. j \in 1 .. n /\ i \in 1 .. n /\ j \in 1 .. Depth - 1 /\ Depth \in Nat
      BY <1>5, <1>6
    <3>2. Start(i) \in 1 .. t
      <4>1. Cardinality(Returns') = n  BY DEF n, Depth
      <4> HIDE DEF i
      <4>2. Nth(Returns', i) \in Returns'  BY <1>1, <1>2, <3>1, <4>1, NthOne
      <4>3. QED  BY <1>1, <1>6, <3>1, <4>2 DEF Start
    <3>3. Start(j)' = Start(j) /\ Start(i)' = Start(i)
      <4> HIDE DEF i
      <4>1. QED  BY <1>6, <3>1 DEF Start
    <3>4. Waiting(mem', Start(j), Start(j + 1)) = Waiting(mem, Start(j), Start(j + 1))
      <4>1. StackOK  BY DEF IInv
      <4>2. t \in Int /\ Start(j + 1) <= t  BY <1>2, <3>2
      <4>3. QED  BY <1>1, <3>1, <4>1, <4>2, SameCaller
    <3>5. QED  BY <1>5, <1>7, <3>1, <3>3, <3>4
  <2>2. QED  BY <2>1
<1>9. Acts[n] = A
  <2>1. n \in 1 .. n  BY <1>5
  <2>2. Start(n) = p /\ Start(n + 1) = Top  BY <1>5, <1>6, <2>1 DEF Start
  <2>3. Acts[n] = Waiting(mem, p, Top)  BY <1>7, <2>1, <2>2
  <2>4. QED  BY <1>1, <1>4, <2>3 DEF Waiting, Activation, t
<1>10. ValuesOn(mem', r, t) = v /\ VariablesAt(mem', r, s) = l /\ mem'[p].kept = k
  <2>1. p \in Returns' /\ p \in 1 .. t  BY <1>1, <1>2, TopIsLastNext
  <2>2. Resting(mem, r, s, t)
    <3>1. CalledFrom(mem, r, ret.to, t)  BY ReturnLeaves DEF t
    <3>2. QED  BY <1>1, <3>1 DEF CalledFrom
  <2>3. s \in Scripts /\ r <= t  BY <2>2 DEF Resting, FrameAt
  <2>4. Base(r, s) = p + 1
    <3>1. Base(r, s) = r - Frame(s) /\ Frame(s) \in Nat  BY <2>3, FrameIsNat DEF Base
    <3> DEFINE g == Frame(s)
    <3>2. g \in Nat /\ p + 1 + g = r /\ Base(r, s) = r - g /\ p \in Int  BY <1>4, <2>1, <3>1
    <3> HIDE DEF g
    <3>3. QED  BY <1>2, <3>2
  <2> HIDE DEF p, r, s
  <2>5. /\ \A i \in r + 1 .. t : i \in 1 .. t
        /\ \A i \in Base(r, s) + 1 .. r : i \in 1 .. t
    BY <1>2, <1>4, <2>1, <2>3, <2>4
  <2>6. ValuesOn(mem', r, t) = v
    <3>1. r \in Int /\ t \in Int  BY <1>2, <1>4
    <3>2. QED  BY <1>1, <2>5, <3>1, SameValues
  <2>7. VariablesAt(mem', r, s) = l
    <3>1. r \in Int  BY <1>4
    <3>2. QED  BY <1>1, <2>3, <2>5, <3>1, SameVariables
  <2>8. QED  BY <1>1, <2>1, <2>6, <2>7
<1>11. TopActivation' = IF ret.kept THEN Abstract!More(A, value) ELSE A
  <2>1. TopActivation' = Activation(s, mem'[p].kept, TopValues', VariablesAt(mem', r, s))
    BY <1>2 DEF TopActivation, TopVariables
  <2>2. CASE ~ret.kept
    <3>1. TopValues' = ValuesOn(mem', r, t)  BY <1>1, <2>2 DEF TopValues, Rsp
    <3>2. QED  BY <1>10, <2>1, <2>2, <3>1
  <2>3. CASE ret.kept
    <3>1. TopValues' = Append(ValuesOn(mem', r, t), value)  BY <1>1, <2>3 DEF TopValues, Rsp
    <3>2. TopActivation' = Activation(s, k, Append(v, value), l)  BY <1>10, <2>1, <3>1
    <3>3. QED  BY <2>3, <3>2, MoreIs
  <2>4. QED  BY <2>2, <2>3
<1>12. PICK X : Acts \in Seq(X)  BY <1>3 DEF Seen
<1>13. PICK Y : Acts' \in Seq(Y)  BY <1>3 DEF Seen
<1> DEFINE Z == X \cup Y
           q == SubSeq(Acts, 1, Len(Acts) - 1)
<1>14. Acts \in Seq(Z) /\ Acts' \in Seq(Z)  BY <1>12, <1>13, SeqMonotonic
<1> HIDE DEF d, Z, A
<1>15. q # <<>> /\ Len(q) = n /\ q[n] = Acts[n] /\ Acts' = Append(SubSeq(q, 1, Len(q) - 1), Acts'[n])
  <2> DEFINE a == Acts
             b == Acts'
  <2>1. /\ n \in Nat /\ n >= 1 /\ a \in Seq(Z) /\ b \in Seq(Z) /\ Len(a) = n + 1
        /\ Len(b) = n /\ \A j \in 1 .. n - 1 : b[j] = a[j]
    BY <1>5, <1>7, <1>8, <1>14 DEF d
  <2> HIDE DEF a, b
  <2>2. OneShorter(a, b, n)  BY <2>1 DEF OneShorter
  <2>3. LET x == SubSeq(a, 1, Len(a) - 1)
        IN  x # <<>> /\ Len(x) = n /\ x[n] = a[n] /\ b = Append(SubSeq(x, 1, Len(x) - 1), b[n])
    BY <2>1, <2>2, LastLeftOut
  <2>4. QED  BY <2>3 DEF a, b
<1>16. Abstract!Callers(Acts) = q /\ Abstract!Now(q) = A
  <2>1. Abstract!Callers(Acts) = q  BY DEF Abstract!Callers
  <2> HIDE DEF q
  <2>2. Abstract!Now(q) = q[n]  BY <1>15 DEF Abstract!Now
  <2>3. QED  BY <1>9, <1>15, <2>1, <2>2
<1> HIDE DEF q
<1>17. Abstract!Callers(q) = SubSeq(q, 1, Len(q) - 1)  BY DEF Abstract!Callers
<1>18. Acts' = Append(Abstract!Callers(q), IF ret.kept THEN Abstract!More(A, value) ELSE A)
  BY <1>5, <1>11, <1>15, <1>17
<1>19. QED  BY <1>15, <1>16, <1>18

LEMMA ReturnMaps ==
  ASSUME IInv, IInv', pc = "body", NEW value, WriteRet(value),
         Signature[script].value => Evaluated > 0 /\ value = mem[Rsp].val
  PROVE  Abstract!Next
<1> DEFINE T == TopActivation
           w == ValuesOn(mem, rbp, Len(mem))
           k == mem[Top].kept
           l == VariablesAt(mem, rbp, script)
           rest == Abstract!Callers(Acts)
           Resumed(caller) == IF k THEN Abstract!More(caller, Abstract!Last(T, 1)[1]) ELSE caller
<1>1. Acts # <<>> /\ Abstract!Now(Acts) = T
  <2>1. Seen  BY WhatIsSeen
  <2>2. Len(Acts) >= 1 /\ Acts[Len(Acts)] = T  BY <2>1 DEF Seen
  <2>3. Acts # <<>>  BY <2>2
  <2>4. QED  BY <2>2, <2>3 DEF Abstract!Now
<1>2. T = Activation(script, k, w, l)  BY BodySeen
<1>3. T.script = script /\ T.vals = w /\ T.kept = k  BY <1>2 DEF Activation
<1>4. /\ rbp \in Nat /\ Len(mem) \in Nat /\ rbp <= Len(mem)
      /\ Len(w) = Len(mem) - rbp /\ \A q \in 1 .. Len(mem) - rbp : w[q] = mem[rbp + q].val
      /\ \E X : w \in Seq(X)
  <2>1. rbp \in Nat /\ Len(mem) \in Nat /\ rbp <= Len(mem)  BY TopFrame
  <2>2. IsValuesOn(w, mem, rbp, Len(mem))  BY <2>1, ValuesAre
  <2>3. QED  BY <2>1, <2>2 DEF IsValuesOn
<1> HIDE DEF T, w, l
<1>5. Signature[script].value => w # <<>> /\ Abstract!Last(T, 1)[1] = value
  <2>1. SUFFICES ASSUME Signature[script].value
                 PROVE  w # <<>> /\ Abstract!Last(T, 1)[1] = value
    OBVIOUS
  <2> DEFINE n == 1
             h == Len(mem) - rbp
  <2>2. h > 0 /\ h \in Nat /\ value = mem[Len(mem)].val /\ Len(w) = h
    BY <1>4, <2>1 DEF Evaluated, Rsp
  <2>3. PICK X : w \in Seq(X)  BY <1>4
  <2>4. n \in 0 .. Len(w)  BY <2>2
  <2> HIDE DEF n, h
  <2>5. AreLast(Abstract!Last(Activation(script, k, w, l), n), w, n)  BY <2>3, <2>4, LastAre
  <2>6. Abstract!Last(T, n)[1] = w[h]
    <3>1. AreLast(Abstract!Last(T, n), w, n)  BY <1>2, <2>5
    <3>2. n = 1 /\ 1 \in 1 .. n /\ h - n + 1 = h  BY <2>2 DEF n
    <3>3. QED  BY <2>2, <3>1, <3>2 DEF AreLast
  <2>7. w[h] = value
    <3>1. h \in 1 .. Len(mem) - rbp /\ rbp + h = Len(mem)  BY <1>4, <2>2 DEF h
    <3>2. QED  BY <1>4, <2>2, <3>1
  <2>8. w # <<>>  BY <2>2
  <2>9. QED  BY <2>6, <2>7, <2>8 DEF n
<1>6. k => Signature[script].value  BY TopIsLast
<1>7. Abstract!Returns(Acts)
        = {IF rest = <<>> THEN <<>> ELSE Append(Abstract!Callers(rest), Resumed(Abstract!Now(rest)))}
  BY <1>1, <1>3, <1>5 DEF Abstract!Returns
<1>8. Acts' = IF rest = <<>> THEN <<>> ELSE Append(Abstract!Callers(rest), Resumed(Abstract!Now(rest)))
  <2>1. CASE mem[Top].to = Host
    <3>1. Acts' = <<>> /\ rest = <<>>  BY <2>1, HostReturnMaps
    <3>2. QED  BY <3>1
  <2>2. CASE mem[Top].to # Host
    <3>1. /\ rest # <<>>
          /\ Acts' = Append(Abstract!Callers(rest),
                            IF k THEN Abstract!More(Abstract!Now(rest), value)
                            ELSE Abstract!Now(rest))
      BY <2>2, CallerReturnMaps
    <3>2. Resumed(Abstract!Now(rest)) = IF k THEN Abstract!More(Abstract!Now(rest), value)
                                        ELSE Abstract!Now(rest)
      BY <1>5, <1>6
    <3>3. QED  BY <3>1, <3>2
  <2>3. QED  BY <2>1, <2>2
<1> HIDE DEF rest, Resumed
<1>9. Acts' \in Abstract!After(Acts)  BY <1>7, <1>8 DEF Abstract!After
<1>10. QED  BY <1>1, <1>9 DEF Abstract!Next
-----------------------------------------------------------------------------
LEMMA InitMaps == Init => Abstract!Init
<1>1. SUFFICES ASSUME Init  PROVE Abstract!Init  OBVIOUS
<1> DEFINE c == ReturnTo(Host, FALSE)
           A == Activation(Entry, FALSE, <<>>, Abstract!Fresh(Entry, <<>>))
<1>2. mem = <<c>> /\ script = Entry /\ pc = "enter" /\ args = <<>>  BY <1>1 DEF Init
<1>3. Len(mem) = 1 /\ mem[1] = c /\ c.kept = FALSE /\ c.is = "ret"
  BY <1>2 DEF ReturnTo
<1>4. Seen
  <2>1. IInv  BY <1>1, Initially
  <2>2. QED  BY <1>2, <2>1, WhatIsSeen
<1>5. Depth = 1
  <2> HIDE DEF c
  <2>1. \A i : i \in Returns <=> i \in 1 .. 1 /\ mem[i].is = "ret"  BY <1>3 DEF Returns, Rsp
  <2>2. \A i : i \in 1 .. 1 <=> i = 1  OBVIOUS
  <2>3. \A i : i \in Returns <=> i = 1  BY <1>3, <2>1, <2>2
  <2>4. Returns = {1}  BY <2>3
  <2>5. QED  BY <2>4, FS_Singleton DEF Depth
<1>6. TopActivation = A
  <2>1. TopValues = <<>> /\ TopVariables = Arguments  BY <1>2 DEF TopValues, TopVariables
  <2>2. mem[Top].kept = FALSE  BY <1>2, <1>3 DEF Top, Rsp
  <2>3. Arguments = Abstract!Fresh(Entry, <<>>)  BY <1>2 DEF Arguments, Abstract!Fresh
  <2>4. QED  BY <1>2, <2>1, <2>2, <2>3 DEF TopActivation
<1>7. Acts = <<A>>
  <2>1. PICK X : Acts \in Seq(X)  BY <1>4 DEF Seen
  <2>2. Len(Acts) = 1 /\ Acts[1] = A  BY <1>4, <1>5, <1>6 DEF Seen
  <2> HIDE DEF A
  <2>3. \A k \in 1 .. 1 : k = 1  OBVIOUS
  <2>4. <<A>> \in Seq(X \cup {A}) /\ Len(<<A>>) = 1 /\ <<A>>[1] = A  OBVIOUS
  <2>5. Acts \in Seq(X \cup {A})  BY <2>1, SeqMonotonic
  <2>6. QED  BY <2>2, <2>3, <2>4, <2>5, SameElements
<1>8. QED  BY <1>7 DEF Abstract!Init, Activation

LEMMA Simulates == IInv /\ IInv' /\ [Next]_vars => [Abstract!Next]_Acts
<1>1. SUFFICES ASSUME IInv, IInv', [Next]_vars  PROVE Abstract!Next \/ UNCHANGED Acts  OBVIOUS
<1>2. CASE Enter  BY <1>1, <1>2, EnterMaps
<1>3. CASE KeepValue  BY <1>1, <1>3, KeepValueMaps
<1>4. CASE ForeignReturns  BY <1>1, <1>4, ForeignReturnsMaps
<1>5. CASE ReturnValue
  <2> DEFINE v == mem[Rsp].val
  <2>1. pc = "body" /\ Evaluated > 0 /\ WriteRet(v)  BY <1>5 DEF ReturnValue
  <2> HIDE DEF v
  <2>2. Signature[script].value => Evaluated > 0 /\ v = mem[Rsp].val  BY <2>1 DEF v
  <2>3. QED  BY <1>1, <2>1, <2>2, ReturnMaps
<1>6. CASE ReturnVoid
  <2>1. pc = "body" /\ WriteRet(Junk) /\ ~Signature[script].value  BY <1>6 DEF ReturnVoid
  <2>2. QED  BY <1>1, <2>1, ReturnMaps
<1>7. CASE Works
  <2>1. ASSUME NEW v \in Values, PushValue(v)  PROVE Abstract!Next
    BY <1>1, <1>7, <2>1, PushValueMaps DEF Works
  <2>2. CASE PopValue  BY <1>1, <1>7, <2>2, PopValueMaps DEF Works
  <2>3. ASSUME NEW i \in 0 .. Signature[script].varc - 1, SetVar(i)  PROVE Abstract!Next
    BY <1>1, <1>7, <2>3, SetVarMaps DEF Works
  <2>4. ASSUME NEW i \in 0 .. Signature[script].varc - 1, PushVar(i)  PROVE Abstract!Next
    BY <1>1, <1>7, <2>4, PushVarMaps DEF Works
  <2>5. QED  BY <1>7, <2>1, <2>2, <2>3, <2>4 DEF Works
<1>8. ASSUME NEW f \in Scripts, NEW keep \in BOOLEAN, CallFunc(f, keep)  PROVE Abstract!Next
  BY <1>1, <1>8, CallFuncMaps
<1>9. ASSUME NEW n \in ForeignArgs, NEW keep \in BOOLEAN, CallForeign(n, keep)
      PROVE  UNCHANGED Acts
  BY <1>1, <1>9, CallForeignMaps
<1>10. CASE UNCHANGED vars
  <2>1. UNCHANGED <<mem, rbp, r15, rax, args, script, pc>>  BY <1>10 DEF vars
  <2>2. Returns' = Returns  BY <2>1 DEF Returns, Rsp
  <2>3. UNCHANGED Arguments  BY <2>1 DEF Arguments
  <2>4. \A i : Active(i)' = Active(i)  BY <2>1, <2>3 DEF Active, Rsp
  <2>5. Depth' = Depth /\ \A i : Start(i)' = Start(i)  BY <2>2 DEF Depth, Start
  <2>6. QED  BY <2>1, <2>4, <2>5 DEF Acts
<1>11. QED
  BY <1>1, <1>2, <1>3, <1>4, <1>5, <1>6, <1>7, <1>8, <1>9, <1>10 DEF Next, Finished

(* Scripts on one machine stack behave as activations that share nothing but *)
(* arguments and results, however many there are and whatever they hold: no  *)
(* frame is where another script's variables or values are, in every body,   *)
(* call, foreign call and return.  A variable counts as Junk before its first *)
(* assignment: what a script that reads it earlier sees is left open.        *)
THEOREM CallsImplementActivations == Spec => Implements
<1>1. Init => Abstract!Init  BY InitMaps
<1>2. IInv /\ IInv' /\ [Next]_vars => [Abstract!Next]_Acts  BY Simulates
<1>3. QED  BY <1>1, <1>2, Invariant, PTL DEF Spec, Implements, Abstract!Spec
=============================================================================
