---------------------------- MODULE OutputProofs ----------------------------
(***************************************************************************)
(* Proofs about Output, for every file, number of values and capacity of the *)
(* buffer.  First the buffers: on a terminal the newline that run() prints    *)
(* leaves libc's empty, after whatever script, so the returned value comes    *)
(* last.  Then msc_printf(): it reads its string and nothing behind it, and   *)
(* prints a supported format whole, each conversion with the value of its     *)
(* number.                                                                  *)
(***************************************************************************)
EXTENDS Output, Lemmas

Prints == [by : {"libc", "rust"}, newline : BOOLEAN, what : {"script", "flush", "value"}]

Typed ==
  /\ terminal \in BOOLEAN /\ printed \in Seq(Prints)
  /\ buffer \in Seq(Prints) /\ descriptor \in Seq(Prints)

(* Only libc prints through the buffer, and never the returned value.        *)
OfLibc(s) == \A k \in 1 .. Len(s) : s[k].by = "libc" /\ s[k].what # "value"

(* What libc printed comes to the descriptor in its order.                   *)
InOrder == By("libc", descriptor) \o buffer = By("libc", printed)

(* The newline run() prints leaves the buffer of a terminal empty.           *)
Emptied == terminal /\ stage \in {"value", "returned", "ended"} => buffer = <<>>

(* The returned value comes last, to a terminal.                             *)
ValueLast ==
  \A k \in 1 .. Len(descriptor) :
    descriptor[k].what = "value" =>
      stage \in {"returned", "ended"} /\ (terminal => k = Len(descriptor))

Inv == Typed /\ InOrder /\ OfLibc(buffer) /\ Emptied /\ ValueLast
-----------------------------------------------------------------------------
LEMMA OnePrint ==
  ASSUME NEW p \in Prints
  PROVE  <<p>> \in Seq(Prints) /\ Len(<<p>>) = 1 /\ <<p>>[1] = p
OBVIOUS

LEMMA Nothing == <<>> \in Seq(Prints) /\ Len(<<>>) = 0
OBVIOUS

(* Who has printed what, when more is printed: all of it by who, or none.    *)
LEMMA ByMore ==
  ASSUME NEW who, NEW s \in Seq(Prints), NEW t \in Seq(Prints)
  PROVE  /\ By(who, s) \in Seq(Prints)
         /\ (\A k \in 1 .. Len(t) : t[k].by = who) => By(who, s \o t) = By(who, s) \o t
         /\ (\A k \in 1 .. Len(t) : t[k].by # who) => By(who, s \o t) = By(who, s)
<1> DEFINE A == {p \in Prints : p.by = who}
<1>1. ASSUME NEW u \in Seq(Prints)  PROVE By(who, u) = Those(u, A)
  <2>1. \A k \in DOMAIN u : u[k] \in Prints
    <3>1. DOMAIN u = 1 .. Len(u)  BY LenProperties
    <3>2. QED  BY <3>1, ElementOfSeq
  <2>2. {k \in DOMAIN u : u[k].by = who} = {k \in DOMAIN u : u[k] \in A}  BY <2>1
  <2> HIDE DEF A
  <2>3. QED  BY <2>2 DEF By, Those
<1>2. \A k \in 1 .. Len(t) : t[k] \in A <=> t[k].by = who  BY ElementOfSeq
<1>3. s \o t \in Seq(Prints)  BY Joining
<1> HIDE DEF A
<1>4. By(who, s) = Those(s, A) /\ By(who, s \o t) = Those(s \o t, A)  BY <1>1, <1>3
<1>5. /\ Those(s, A) \in Seq(Prints)
      /\ (\A k \in 1 .. Len(t) : t[k] \in A) => Those(s \o t, A) = Those(s, A) \o t
      /\ (\A k \in 1 .. Len(t) : t[k] \notin A) => Those(s \o t, A) = Those(s, A)
  BY ThoseMore
<1>6. QED  BY <1>2, <1>4, <1>5

LEMMA MoreByLibc ==
  ASSUME NEW s \in Seq(Prints), NEW t \in Seq(Prints), \A k \in 1 .. Len(t) : t[k].by = "libc"
  PROVE  /\ s \o t \in Seq(Prints) /\ By("libc", s) \in Seq(Prints)
         /\ By("libc", s \o t) = By("libc", s) \o t
BY ByMore, Joining

LEMMA MoreByRust ==
  ASSUME NEW s \in Seq(Prints), NEW t \in Seq(Prints), \A k \in 1 .. Len(t) : t[k].by = "rust"
  PROVE  s \o t \in Seq(Prints) /\ By("libc", s \o t) = By("libc", s)
<1>1. \A k \in 1 .. Len(t) : t[k].by # "libc"  OBVIOUS
<1>2. QED  BY <1>1, ByMore, Joining

(* The buffer, when libc prints one more.                                   *)
LEMMA MoreOfLibc ==
  ASSUME NEW s \in Seq(Prints), OfLibc(s), NEW p \in Prints, p.by = "libc", p.what # "value"
  PROVE  Append(s, p) \in Seq(Prints) /\ OfLibc(Append(s, p))
<1> DEFINE u == Append(s, p)
           n == Len(s)
<1>1. /\ u \in Seq(Prints) /\ Len(u) = n + 1 /\ \A k \in 1 .. n : u[k] = s[k]
      /\ u[n + 1] = p /\ n \in Nat
  BY Pushing
<1>2. \A k \in 1 .. n : s[k].by = "libc" /\ s[k].what # "value"  BY DEF OfLibc
<1> HIDE DEF u, n
<1>3. \A k \in 1 .. n + 1 : k \in 1 .. n \/ k = n + 1  BY <1>1
<1>4. \A k \in 1 .. n + 1 : u[k].by = "libc" /\ u[k].what # "value"  BY <1>1, <1>2, <1>3
<1>5. OfLibc(u)  BY <1>1, <1>4 DEF OfLibc
<1>6. QED  BY <1>1, <1>5 DEF u
-----------------------------------------------------------------------------
(* The order of each, when the descriptor and libc's buffer together get more *)
(* prints t of libc, which are the last of what is printed.                  *)
LEMMA LibcInOrder ==
  ASSUME Typed, InOrder, OfLibc(buffer), NEW p \in Prints, p.by = "libc", p.what # "value",
         LibcPrint(p)
  PROVE  Typed' /\ InOrder' /\ OfLibc(buffer)'
<1> DEFINE b == Append(buffer, p)
           d == By("libc", descriptor)
<1> USE DEF Typed
<1>1. b \in Seq(Prints) /\ OfLibc(b)  BY MoreOfLibc
<1> DEFINE q == <<p>>
<1>2. q \in Seq(Prints) /\ \A k \in 1 .. Len(q) : q[k].by = "libc"  BY OnePrint
<1>3. printed' = printed \o q /\ b = buffer \o q  BY AppendIsConcat DEF LibcPrint
<1> HIDE DEF q
<1>4. printed \o q \in Seq(Prints) /\ By("libc", printed \o q) = By("libc", printed) \o q
  BY <1>2, MoreByLibc
<1>5. /\ printed' \in Seq(Prints) /\ By("libc", printed') = By("libc", printed) \o q
      /\ d \in Seq(Prints)
  BY <1>3, <1>4, ByMore
<1>6. d \o b = By("libc", printed')
  <2> HIDE DEF d
  <2>1. (d \o buffer) \o q = d \o (buffer \o q)
    <3>1. q \in Seq(Prints) /\ d \in Seq(Prints) /\ buffer \in Seq(Prints)  BY <1>2, <1>5
    <3>2. QED  BY ONLY <3>1, ConcatAssociative
  <2>2. d \o buffer = By("libc", printed)  BY DEF InOrder, d
  <2>3. QED  BY <1>3, <1>5, <2>1, <2>2
<1>7. CASE Flushes(p)
  <2>1. descriptor' = descriptor \o b /\ buffer' = <<>> /\ terminal' = terminal
    BY <1>7 DEF LibcPrint
  <2>2. \A k \in 1 .. Len(b) : b[k].by = "libc"  BY <1>1 DEF OfLibc
  <2> HIDE DEF b
  <2>3. By("libc", descriptor') = d \o b /\ descriptor' \in Seq(Prints)
    <3>1. b \in Seq(Prints) /\ descriptor \in Seq(Prints)  BY <1>1
    <3>2. descriptor \o b \in Seq(Prints) /\ By("libc", descriptor \o b) = d \o b
      BY <2>2, <3>1, MoreByLibc
    <3>3. QED  BY <2>1, <3>2
  <2> HIDE DEF d
  <2>4. buffer' \in Seq(Prints) /\ OfLibc(buffer')  BY <2>1, Nothing DEF OfLibc
  <2>5. (d \o b) \in Seq(Prints)  BY <1>1, <1>5, Joining
  <2>6. (d \o b) \o <<>> = d \o b  BY <2>5, ConcatEmptySeq
  <2>7. InOrder'  BY <1>6, <2>1, <2>3, <2>6 DEF InOrder
  <2>8. QED  BY <1>5, <2>1, <2>3, <2>4, <2>7
<1>8. CASE ~Flushes(p)
  <2>1. descriptor' = descriptor /\ buffer' = b /\ terminal' = terminal
    BY <1>8 DEF LibcPrint
  <2> HIDE DEF b
  <2>2. InOrder'  BY <1>6, <2>1 DEF InOrder
  <2>3. QED  BY <1>1, <1>5, <2>1, <2>2
<1>9. QED  BY <1>7, <1>8

LEMMA RustInOrder ==
  ASSUME Typed, InOrder, OfLibc(buffer), NEW p \in Prints, p.by = "rust", RustPrint(p)
  PROVE  Typed' /\ InOrder' /\ OfLibc(buffer)'
<1> USE DEF Typed
<1> DEFINE q == <<p>>
<1>1. q \in Seq(Prints) /\ \A k \in 1 .. Len(q) : q[k].by = "rust"  BY OnePrint
<1>2. /\ printed' = printed \o q /\ descriptor' = descriptor \o q
      /\ buffer' = buffer /\ terminal' = terminal
  BY AppendIsConcat DEF RustPrint
<1> HIDE DEF q
<1>3. printed' \in Seq(Prints) /\ By("libc", printed') = By("libc", printed)
  <2>1. printed \o q \in Seq(Prints) /\ By("libc", printed \o q) = By("libc", printed)
    BY <1>1, MoreByRust
  <2>2. QED  BY <1>2, <2>1
<1>4. descriptor' \in Seq(Prints) /\ By("libc", descriptor') = By("libc", descriptor)
  <2>1. descriptor \o q \in Seq(Prints) /\ By("libc", descriptor \o q) = By("libc", descriptor)
    BY <1>1, MoreByRust
  <2>2. QED  BY <1>2, <2>1
<1>5. InOrder'  BY <1>2, <1>3, <1>4 DEF InOrder
<1>6. QED  BY <1>2, <1>3, <1>4, <1>5

LEMMA ExitInOrder ==
  ASSUME Typed, InOrder, OfLibc(buffer), LibcExit
  PROVE  Typed' /\ InOrder' /\ OfLibc(buffer)'
<1> DEFINE d == By("libc", descriptor)
<1> USE DEF Typed
<1>1. /\ descriptor' = descriptor \o buffer /\ buffer' = <<>>
      /\ terminal' = terminal /\ printed' = printed
  BY DEF LibcExit, ExitFlush
<1>2. /\ By("libc", descriptor \o buffer) = d \o buffer /\ d \in Seq(Prints)
      /\ descriptor \o buffer \in Seq(Prints)
  <2>1. \A k \in 1 .. Len(buffer) : buffer[k].by = "libc"  BY DEF OfLibc
  <2>2. QED  BY <2>1, MoreByLibc
<1>3. /\ By("libc", descriptor') = d \o buffer /\ d \in Seq(Prints)
      /\ descriptor' \in Seq(Prints)
  BY <1>1, <1>2
<1> HIDE DEF d
<1>4. buffer' \in Seq(Prints) /\ OfLibc(buffer')  BY <1>1, Nothing DEF OfLibc
<1>5. (d \o buffer) \o <<>> = d \o buffer  BY <1>3, Joining, ConcatEmptySeq
<1>6. d \o buffer = By("libc", printed)  BY DEF InOrder, d
<1>7. InOrder'  BY <1>1, <1>3, <1>5, <1>6 DEF InOrder
<1>8. QED  BY <1>1, <1>3, <1>4, <1>7
-----------------------------------------------------------------------------
(* Before run() enters the script nothing is printed.                        *)
THEOREM InitInv == Init => Inv
<1> SUFFICES ASSUME Init PROVE Inv
  OBVIOUS
<1>1. /\ terminal \in BOOLEAN /\ printed = <<>> /\ buffer = <<>> /\ descriptor = <<>>
      /\ <<>> \in Seq(Prints) /\ Len(<<>>) = 0
  BY Nothing DEF Init
<1> DEFINE none == <<>>
<1>2. By("libc", none) \in Seq(Prints)  BY ByMore, Nothing
<1>3. none \o By("libc", none) = By("libc", none)  BY <1>2, ConcatEmptySeq
<1>4. By("libc", none) \o none = By("libc", none)  BY <1>2, ConcatEmptySeq
<1>5. InOrder  BY <1>1, <1>4 DEF InOrder
<1>6. QED  BY <1>1, <1>5 DEF Inv, Typed, OfLibc, Emptied, ValueLast

(* A step of msc_printf() prints for the script, through libc or through Rust *)
(* and nothing else happens to the buffers.                                  *)
LEMMA ThroughEither ==
  ASSUME ScriptPrints
  PROVE  \/ UNCHANGED prints
         \/ \E p \in Prints : /\ p.what = "script" /\ p.by = "libc" /\ LibcPrint(p)
         \/ \E p \in Prints : /\ p.what = "script" /\ p.by = "rust" /\ RustPrint(p)
<1> DEFINE o == Last(out')
<1>1. UNCHANGED prints \/ Through(o)  BY DEF ScriptPrints
<1>2. CASE Through(o)
  <2> HIDE DEF o
  <2>1. CASE o.kind = "oof"
    <3>1. P("rust", TRUE, "script") \in Prints  BY DEF P, Prints
    <3>2. QED  BY <1>2, <2>1, <3>1 DEF Through, P
  <2>2. CASE o.kind # "oof"
    <3>1. Ends(o) \subseteq BOOLEAN  BY DEF Ends
    <3>2. PICK l \in Ends(o) : LibcPrint(P("libc", l, "script"))  BY <1>2, <2>2 DEF Through
    <3>3. l \in BOOLEAN  BY <3>1
    <3>4. P("libc", l, "script") \in Prints  BY <3>3 DEF P, Prints
    <3>5. P("libc", l, "script").what = "script" /\ P("libc", l, "script").by = "libc"  BY DEF P
    <3>6. QED  BY <3>2, <3>4, <3>5
  <2>3. QED  BY <2>1, <2>2
<1>3. QED  BY <1>1, <1>2

(* A newline empties the buffer of a terminal.                               *)
LEMMA NewlineEmpties ==
  ASSUME NEW p \in Prints, LibcPrint(p)
  PROVE  terminal' /\ p.newline => buffer' = <<>>
BY DEF LibcPrint, Flushes

(* Prints that are not the returned value leave no value on the descriptor,  *)
(* when there was none.                                                     *)
LEMMA NoValueYet ==
  ASSUME NEW s \in Seq(Prints), NEW t \in Seq(Prints),
         \A k \in 1 .. Len(s) : s[k].what # "value",
         \A k \in 1 .. Len(t) : t[k].what # "value"
  PROVE  \A k \in 1 .. Len(s \o t) : (s \o t)[k].what # "value"
<1> DEFINE u == s \o t
           n == Len(s)
           m == Len(t)
<1>1. /\ Len(u) = n + m /\ \A k \in 1 .. n : u[k] = s[k]
      /\ \A k \in n + 1 .. n + m : u[k] = t[k - n]
      /\ n \in Nat /\ m \in Nat
  BY Joining
<1> HIDE DEF u, n, m
<1>2. ASSUME NEW k \in 1 .. n + m  PROVE u[k].what # "value"
  <2>1. CASE k \in 1 .. n
    <3>1. QED  BY <1>1, <2>1 DEF n
  <2>2. CASE k \in n + 1 .. n + m
    <3> DEFINE q == k - n
    <3>1. q \in 1 .. m /\ u[k] = t[q]  BY <1>1, <2>2
    <3> HIDE DEF q
    <3>2. QED  BY <3>1 DEF m
  <2>3. QED  BY <1>1, <2>1, <2>2
<1>3. QED  BY <1>1, <1>2 DEF u, n, m

NoValue(s) == \A k \in 1 .. Len(s) : s[k].what # "value"

LEMMA LibcNoValue ==
  ASSUME Typed, OfLibc(buffer), NoValue(descriptor),
         NEW p \in Prints, p.by = "libc", p.what # "value", LibcPrint(p)
  PROVE  NoValue(descriptor')
<1> DEFINE b == Append(buffer, p)
<1>1. b \in Seq(Prints) /\ OfLibc(b)  BY MoreOfLibc DEF Typed
<1>2. descriptor' = descriptor \o b \/ descriptor' = descriptor  BY DEF LibcPrint
<1> HIDE DEF b
<1>3. \A k \in 1 .. Len(b) : b[k].what # "value"  BY <1>1 DEF OfLibc
<1>4. NoValue(descriptor \o b)  BY <1>1, <1>3, NoValueYet DEF NoValue, Typed
<1>5. QED  BY <1>2, <1>4

LEMMA RustNoValue ==
  ASSUME Typed, NoValue(descriptor), NEW p \in Prints, p.what # "value", RustPrint(p)
  PROVE  NoValue(descriptor')
<1> DEFINE q == <<p>>
<1>1. descriptor' = descriptor \o q  BY AppendIsConcat DEF RustPrint, Typed
<1>2. q \in Seq(Prints) /\ \A k \in 1 .. Len(q) : q[k].what # "value"  BY OnePrint
<1> HIDE DEF q
<1>3. NoValue(descriptor \o q)  BY <1>2, NoValueYet DEF NoValue, Typed
<1>4. QED  BY <1>1, <1>3

LEMMA ScriptStep ==
  ASSUME Inv, ScriptPrints  PROVE Inv'
<1>1. stage = "script" /\ stage' \in {"script", "dead"}  BY DEF ScriptPrints
<1>2. Typed /\ InOrder /\ OfLibc(buffer) /\ NoValue(descriptor)
  BY <1>1 DEF Inv, ValueLast, NoValue
<1>3. Typed' /\ InOrder' /\ OfLibc(buffer)' /\ NoValue(descriptor')
  <2>1. CASE UNCHANGED prints
    <3>1. /\ terminal' = terminal /\ printed' = printed /\ buffer' = buffer
          /\ descriptor' = descriptor
      BY <2>1 DEF prints
    <3>2. Typed' /\ InOrder'  BY <1>2, <3>1 DEF Typed, InOrder
    <3>3. OfLibc(buffer)'  BY <1>2, <3>1 DEF OfLibc
    <3>4. QED  BY <1>2, <3>1, <3>2, <3>3
  <2>2. ASSUME NEW p \in Prints, p.what = "script", p.by = "libc", LibcPrint(p)
        PROVE  Typed' /\ InOrder' /\ OfLibc(buffer)' /\ NoValue(descriptor')
    <3>1. p.what # "value"  BY <2>2
    <3>2. Typed' /\ InOrder' /\ OfLibc(buffer)'  BY <1>2, <2>2, <3>1, LibcInOrder
    <3>3. NoValue(descriptor')  BY <1>2, <2>2, <3>1, LibcNoValue
    <3>4. QED  BY <3>2, <3>3
  <2>3. ASSUME NEW p \in Prints, p.what = "script", p.by = "rust", RustPrint(p)
        PROVE  Typed' /\ InOrder' /\ OfLibc(buffer)' /\ NoValue(descriptor')
    <3>1. p.what # "value"  BY <2>3
    <3>2. Typed' /\ InOrder' /\ OfLibc(buffer)'  BY <1>2, <2>3, RustInOrder
    <3>3. NoValue(descriptor')  BY <1>2, <2>3, <3>1, RustNoValue
    <3>4. QED  BY <3>2, <3>3
  <2>4. QED  BY <2>1, <2>2, <2>3, ThroughEither
<1>4. Emptied'  BY <1>1 DEF Emptied
<1>5. ValueLast'  BY <1>3 DEF ValueLast, NoValue
<1>6. QED  BY <1>3, <1>4, <1>5 DEF Inv

(* The script returns, exits or traps, and nothing is printed.               *)
LEMMA GoesStep ==
  ASSUME Inv, NEW to \in {"flush", "exited", "dead"}, Goes(to)  PROVE Inv'
<1>1. /\ stage = "script" /\ stage' = to /\ terminal' = terminal /\ printed' = printed
      /\ buffer' = buffer /\ descriptor' = descriptor
  BY DEF Goes, prints
<1>2. Typed' /\ InOrder'  BY <1>1 DEF Inv, Typed, InOrder
<1>3. OfLibc(buffer)'  BY <1>1 DEF Inv, OfLibc
<1>4. Emptied' /\ ValueLast'  BY <1>1 DEF Inv, Emptied, ValueLast
<1>5. QED  BY <1>2, <1>3, <1>4 DEF Inv

LEMMA FlushStep ==
  ASSUME Inv, FlushPrintf  PROVE Inv'
<1> DEFINE p == P("libc", FlushNewline, "flush")
<1>1. /\ p \in Prints /\ p.by = "libc" /\ p.newline /\ p.what = "flush" /\ p.what # "value"
  BY DEF P, Prints, FlushNewline
<1>2. stage = "flush" /\ stage' = "value" /\ LibcPrint(p)  BY DEF FlushPrintf
<1> HIDE DEF p
<1>3. Typed /\ InOrder /\ OfLibc(buffer) /\ NoValue(descriptor)
  BY <1>2 DEF Inv, ValueLast, NoValue
<1>4. Typed' /\ InOrder' /\ OfLibc(buffer)'  BY <1>1, <1>2, <1>3, LibcInOrder
<1>5. terminal' => buffer' = <<>>  BY <1>1, <1>2, NewlineEmpties
<1>6. NoValue(descriptor')  BY <1>1, <1>2, <1>3, LibcNoValue
<1>7. Emptied'  BY <1>5 DEF Emptied
<1>8. ValueLast'  BY <1>6 DEF ValueLast, NoValue
<1>9. QED  BY <1>4, <1>5, <1>7, <1>8 DEF Inv

LEMMA ValueStep ==
  ASSUME Inv, PrintValue  PROVE Inv'
<1> DEFINE p == P("rust", TRUE, "value")
           n == Len(descriptor)
<1>1. p \in Prints /\ p.by = "rust"  BY DEF P, Prints
<1>2. /\ stage = "value" /\ stage' = "returned" /\ RustPrint(p)  BY DEF PrintValue
<1> HIDE DEF p
<1>3. Typed /\ InOrder /\ OfLibc(buffer) /\ NoValue(descriptor)
  BY <1>2 DEF Inv, ValueLast, NoValue
<1>4. Typed' /\ InOrder' /\ OfLibc(buffer)'  BY <1>1, <1>2, <1>3, RustInOrder
<1>5. terminal' = terminal /\ buffer' = buffer /\ descriptor' = Append(descriptor, p)
  BY <1>2 DEF RustPrint
<1>6. Emptied'  BY <1>2, <1>5 DEF Inv, Emptied
<1>7. ValueLast'
  <2>1. /\ n \in Nat /\ Len(descriptor') = n + 1
        /\ \A k \in 1 .. n : descriptor'[k] = descriptor[k]
    BY <1>1, <1>3, <1>5, Pushing DEF Typed
  <2>2. \A k \in 1 .. n : descriptor[k].what # "value"  BY <1>3 DEF NoValue
  <2> HIDE DEF n
  <2>3. \A k \in 1 .. n + 1 : descriptor'[k].what = "value" => k = n + 1
    <3>1. \A k \in 1 .. n + 1 : k \in 1 .. n \/ k = n + 1  BY <2>1
    <3>2. QED  BY <2>1, <2>2, <3>1
  <2>4. QED  BY <1>2, <2>1, <2>3 DEF ValueLast
<1>8. QED  BY <1>4, <1>6, <1>7 DEF Inv

LEMMA EndStep ==
  ASSUME Inv, MainReturns  PROVE Inv'
<1>1. /\ stage = "returned" /\ stage' = "ended" /\ LibcExit  BY DEF MainReturns
<1>2. Typed' /\ InOrder' /\ OfLibc(buffer)'  BY <1>1, ExitInOrder DEF Inv
<1>3. buffer' = <<>> /\ terminal' = terminal /\ descriptor' = descriptor \o buffer
  BY <1>1 DEF LibcExit, ExitFlush
<1>4. Emptied'  BY <1>3 DEF Emptied
<1>5. terminal => descriptor' = descriptor
  <2>1. terminal => buffer = <<>>  BY <1>1 DEF Inv, Emptied
  <2>2. descriptor \o <<>> = descriptor  BY ConcatEmptySeq DEF Inv, Typed
  <2>3. QED  BY <1>3, <2>1, <2>2
<1>6. ValueLast'
  <2>1. CASE terminal
    <3>1. QED  BY <1>1, <1>3, <1>5, <2>1 DEF Inv, ValueLast
  <2>2. CASE ~terminal
    <3>1. QED  BY <1>1, <1>3, <2>2 DEF ValueLast
  <2>3. QED  BY <2>1, <2>2
<1>7. QED  BY <1>2, <1>4, <1>6 DEF Inv

(* Every step of msc_printf(), run() and the exit keeps the buffers in order. *)
THEOREM NextInv == Inv /\ [Next]_vars => Inv'
<1> SUFFICES ASSUME Inv, [Next]_vars  PROVE Inv'
  OBVIOUS
<1>1. CASE ScriptPrints  BY <1>1, ScriptStep
<1>2. CASE Returns \/ Exit \/ Traps
  <2>1. CASE Returns  BY <2>1, GoesStep DEF Returns
  <2>2. CASE Exit     BY <2>2, GoesStep DEF Exit
  <2>3. CASE Traps    BY <2>3, GoesStep DEF Traps
  <2>4. QED  BY <1>2, <2>1, <2>2, <2>3
<1>3. CASE Runs
  <2>1. CASE FlushPrintf  BY <2>1, FlushStep
  <2>2. CASE PrintValue   BY <2>2, ValueStep
  <2>3. CASE MainReturns  BY <2>3, EndStep
  <2>4. QED  BY <1>3, <2>1, <2>2, <2>3 DEF Runs
<1>4. CASE UNCHANGED vars
  <2>1. /\ stage' = stage /\ terminal' = terminal /\ printed' = printed
        /\ buffer' = buffer /\ descriptor' = descriptor
    BY <1>4 DEF vars, prints
  <2>2. Typed' /\ InOrder'  BY <2>1 DEF Inv, Typed, InOrder
  <2>3. OfLibc(buffer)'  BY <2>1 DEF Inv, OfLibc
  <2>4. Emptied' /\ ValueLast'  BY <2>1 DEF Inv, Emptied, ValueLast
  <2>5. QED  BY <2>2, <2>3, <2>4 DEF Inv
<1>5. CASE Ended  BY <1>4, <1>5 DEF Ended
<1>6. QED  BY <1>1, <1>2, <1>3, <1>4, <1>5 DEF Next

(* The buffers are in order always.                                         *)
THEOREM SpecInv == Spec => []Inv
BY InitInv, NextInv, PTL DEF Spec
-----------------------------------------------------------------------------
(* On a terminal the newline run() prints does flush libc: the value it       *)
(* prints through Rust comes after everything the script printed.            *)
THEOREM AlwaysFlushedOnTerminal == Spec => []FlushedOnTerminal
<1>1. Inv => FlushedOnTerminal
  <2> SUFFICES ASSUME Inv, terminal, NEW k \in DOMAIN descriptor, descriptor[k].what = "value"
               PROVE  OfScript(By("libc", SubSeq(descriptor, 1, k))) = OfScript(By("libc", printed))
    BY DEF FlushedOnTerminal, FlushedBeforeValue
  <2>1. Typed /\ Len(descriptor) \in Nat /\ DOMAIN descriptor = 1 .. Len(descriptor)
    BY LenProperties DEF Inv, Typed
  <2>2. stage \in {"returned", "ended"} /\ k = Len(descriptor)  BY <2>1 DEF Inv, ValueLast
  <2>3. buffer = <<>>  BY <2>2 DEF Inv, Emptied
  <2>4. SubSeq(descriptor, 1, k) = descriptor
    <3> DEFINE n == Len(descriptor)
               s == SubSeq(descriptor, 1, n - 0)
    <3>1. 0 \in 0 .. n /\ n - 0 = n  BY <2>1
    <3>2. s \in Seq(Prints) /\ Len(s) = n /\ \A j \in 1 .. n : s[j] = descriptor[j]
      BY <2>1, <3>1, Popping DEF Typed
    <3> HIDE DEF s
    <3>3. s = descriptor  BY <2>1, <3>2, SameElements DEF Typed
    <3>4. QED  BY <2>2, <3>1, <3>3 DEF s
  <2>5. By("libc", descriptor) \o <<>> = By("libc", descriptor)
    BY <2>1, ByMore, ConcatEmptySeq DEF Typed
  <2>6. By("libc", SubSeq(descriptor, 1, k)) = By("libc", printed)
    BY <2>3, <2>4, <2>5 DEF Inv, InOrder
  <2>7. QED  BY <2>6
<1>2. QED  BY SpecInv, <1>1, PTL
-----------------------------------------------------------------------------
(* FlattenSeq.                                                              *)

Joins(f, s, n) == f = [i \in 1 .. n |-> IF i = 1 THEN s[i] ELSE f[i - 1] \o s[i]]

LEMMA JoinsAt ==
  ASSUME NEW f, NEW s, NEW n \in Nat, Joins(f, s, n)
  PROVE  /\ n # 0 => f[1] = s[1]
         /\ \A i \in 1 .. n : i + 1 \in 1 .. n => f[i + 1] = f[i] \o s[i + 1]
<1>1. \A i \in 1 .. n : f[i] = IF i = 1 THEN s[i] ELSE f[i - 1] \o s[i]  BY DEF Joins
<1>2. n # 0 => 1 \in 1 .. n  OBVIOUS
<1>3. \A i \in 1 .. n : i + 1 # 1 /\ i + 1 - 1 = i  OBVIOUS
<1>4. ASSUME NEW i \in 1 .. n, i + 1 \in 1 .. n  PROVE f[i + 1] = f[i] \o s[i + 1]
  <2> DEFINE j == i + 1
  <2>1. j \in 1 .. n /\ j # 1 /\ j - 1 = i  BY <1>3, <1>4
  <2> HIDE DEF j
  <2>2. f[j] = f[j - 1] \o s[j]  BY <1>1, <2>1
  <2>3. QED  BY <2>1, <2>2 DEF j
<1>5. QED  BY <1>1, <1>2, <1>4

LEMMA JoinsMore ==
  ASSUME NEW f, NEW s, NEW n \in Nat, Joins(f, s, n)
  PROVE  \E g : Joins(g, s, n + 1)
<1> DEFINE last == IF n = 0 THEN s[1] ELSE f[n] \o s[n + 1]
           g == [i \in 1 .. n + 1 |-> IF i <= n THEN f[i] ELSE last]
           h == [i \in 1 .. n + 1 |-> IF i = 1 THEN s[i] ELSE g[i - 1] \o s[i]]
<1>1. \A i \in 1 .. n : f[i] = IF i = 1 THEN s[i] ELSE f[i - 1] \o s[i]  BY DEF Joins
<1>2. ASSUME NEW i \in 1 .. n + 1  PROVE g[i] = h[i]
  <2>1. h[i] = IF i = 1 THEN s[i] ELSE g[i - 1] \o s[i]  OBVIOUS
  <2>2. CASE i \in 1 .. n
    <3>1. g[i] = f[i] /\ (i # 1 => g[i - 1] = f[i - 1])  BY <2>2
    <3> HIDE DEF g, h
    <3>2. QED  BY <1>1, <2>1, <2>2, <3>1
  <2>3. CASE i = n + 1
    <3>1. g[n + 1] = last /\ (n # 0 => g[n] = f[n])  BY <2>3
    <3>2. i - 1 = n /\ (i = 1 <=> n = 0)  BY <2>3
    <3> HIDE DEF g, h
    <3>3. QED  BY <2>1, <2>3, <3>1, <3>2
  <2>4. QED  BY <2>2, <2>3
<1>3. g = h
  <2>1. DOMAIN g = 1 .. n + 1 /\ DOMAIN h = 1 .. n + 1  OBVIOUS
  <2>2. g = [i \in DOMAIN g |-> g[i]] /\ h = [i \in DOMAIN h |-> h[i]]  OBVIOUS
  <2> HIDE DEF g, h
  <2>3. QED  BY <1>2, <2>1, <2>2
<1>4. Joins(g, s, n + 1)
  <2> HIDE DEF g
  <2>1. QED  BY <1>3 DEF Joins
<1>5. QED  BY <1>4

LEMMA JoinsExist ==
  ASSUME NEW s, NEW n \in Nat
  PROVE  \E f : Joins(f, s, n)
<1> DEFINE T == {m \in Nat : \E f : Joins(f, s, m)}
<1>1. 0 \in T
  <2> DEFINE g == [i \in 1 .. 0 |-> s[i]]
  <2>1. Joins(g, s, 0)  BY DEF Joins
  <2>2. QED  BY <2>1
<1>2. \A m \in T : m + 1 \in T
  <2> SUFFICES ASSUME NEW m \in T PROVE m + 1 \in T  OBVIOUS
  <2>1. PICK f : Joins(f, s, m)  OBVIOUS
  <2>2. \E g : Joins(g, s, m + 1)  BY <2>1, JoinsMore
  <2>3. QED  BY <2>2
<1>3. T \in SUBSET Nat  OBVIOUS
<1>4. T = Nat
  <2> HIDE DEF T
  <2>1. QED  BY <1>1, <1>2, <1>3, NatSetInduction
<1>5. QED  BY <1>4

LEMMA FlattenIs ==
  ASSUME NEW s, Len(s) \in Nat, Len(s) # 0
  PROVE  \E f : Joins(f, s, Len(s)) /\ FlattenSeq(s) = f[Len(s)]
<1> DEFINE n == Len(s)
           g == CHOOSE f : Joins(f, s, n)
<1>1. \E f : Joins(f, s, n)  BY JoinsExist
<1>2. Joins(g, s, n)
  <2> HIDE DEF n
  <2>1. QED  BY <1>1
<1>3. FlattenSeq(s) = g[n]  BY DEF FlattenSeq, Joins
<1>4. QED  BY <1>2, <1>3

(* Two sequences of sequences that agree so far are flattened alike so far.   *)
LEMMA JoinsAlike ==
  ASSUME NEW X, NEW s, NEW t, NEW f, NEW g, NEW n \in Nat, NEW m \in Nat, n <= m,
         Joins(f, s, n), Joins(g, t, m), \A i \in 1 .. n : s[i] = t[i] /\ s[i] \in Seq(X)
  PROVE  \A i \in 1 .. n : f[i] = g[i] /\ f[i] \in Seq(X)
<1> DEFINE Same(i) == i \in 1 .. n => f[i] = g[i] /\ f[i] \in Seq(X)
           T == {i \in Nat : Same(i)}
<1>1. /\ n # 0 => f[1] = s[1] /\ g[1] = t[1]
      /\ \A i \in 1 .. n : i + 1 \in 1 .. n => f[i + 1] = f[i] \o s[i + 1]
      /\ \A i \in 1 .. m : i + 1 \in 1 .. m => g[i + 1] = g[i] \o t[i + 1]
  <2>1. n # 0 => m # 0  OBVIOUS
  <2>2. (n # 0 => f[1] = s[1]) /\ \A i \in 1 .. n : i + 1 \in 1 .. n => f[i + 1] = f[i] \o s[i + 1]
    BY ONLY n \in Nat, Joins(f, s, n), JoinsAt
  <2>3. (m # 0 => g[1] = t[1]) /\ \A i \in 1 .. m : i + 1 \in 1 .. m => g[i + 1] = g[i] \o t[i + 1]
    BY ONLY m \in Nat, Joins(g, t, m), JoinsAt
  <2>4. QED  BY <2>1, <2>2, <2>3
<1>2. 0 \in T  OBVIOUS
<1>3. ASSUME NEW i \in T  PROVE i + 1 \in T
  <2>1. i \in Nat /\ Same(i)  OBVIOUS
  <2>2. CASE i + 1 \notin 1 .. n
    <3>1. QED  BY <2>1, <2>2
  <2>3. CASE i = 0 /\ i + 1 \in 1 .. n
    <3>1. f[1] = s[1] /\ g[1] = t[1] /\ 1 \in 1 .. n  BY <1>1, <2>3
    <3>2. Same(1)  BY <3>1
    <3> HIDE DEF Same
    <3>3. QED  BY <2>3, <3>2
  <2>4. CASE i # 0 /\ i + 1 \in 1 .. n
    <3> DEFINE j == i + 1
    <3>1. i \in 1 .. n /\ i \in 1 .. m /\ j \in 1 .. m /\ j \in 1 .. n /\ j \in Nat  BY <2>1, <2>4
    <3>2. f[j] = f[i] \o s[j] /\ g[j] = g[i] \o t[j]  BY <1>1, <3>1
    <3>3. f[i] = g[i] /\ f[i] \in Seq(X)  BY <2>1, <3>1
    <3> HIDE DEF j
    <3>4. s[j] = t[j] /\ s[j] \in Seq(X)  BY <3>1
    <3>5. f[i] \o s[j] \in Seq(X)  BY <3>3, <3>4, Joining
    <3>6. f[j] = g[j] /\ f[j] \in Seq(X)  BY <3>2, <3>3, <3>4, <3>5
    <3>7. j \in T  BY <3>1, <3>6
    <3>8. QED  BY <3>7 DEF j
  <2>5. QED  BY <2>2, <2>3, <2>4
<1>4. T = Nat
  <2>1. T \in SUBSET Nat  OBVIOUS
  <2> HIDE DEF T
  <2>2. QED  BY <1>2, <1>3, <2>1, NatSetInduction
<1>5. QED
  <2>1. ASSUME NEW i \in 1 .. n  PROVE f[i] = g[i] /\ f[i] \in Seq(X)
    <3>1. i \in T  BY <1>4
    <3>2. QED  BY <3>1
  <2>2. QED  BY <2>1

LEMMA Flattening ==
  ASSUME NEW X, NEW s \in Seq(Seq(X)), NEW e \in Seq(X)
  PROVE  /\ FlattenSeq(s) \in Seq(X)
         /\ FlattenSeq(Append(s, e)) = FlattenSeq(s) \o e
<1> DEFINE n == Len(s)
           t == Append(s, e)
<1>1. /\ n \in Nat /\ Len(t) = n + 1 /\ t[n + 1] = e
      /\ \A i \in 1 .. n : t[i] = s[i] /\ s[i] \in Seq(X)
  <2>1. \A i \in 1 .. n : s[i] \in Seq(X)  BY ElementOfSeq
  <2>2. QED  BY <2>1, Pushing
<1> HIDE DEF n, t
<1>2. PICK g : Joins(g, t, n + 1) /\ FlattenSeq(t) = g[n + 1]
  <2>1. Len(t) \in Nat /\ Len(t) # 0  BY <1>1
  <2>2. \E g : Joins(g, t, Len(t)) /\ FlattenSeq(t) = g[Len(t)]  BY <2>1, FlattenIs
  <2>3. QED  BY <1>1, <2>2
<1>3. CASE n = 0
  <2>1. s = <<>>  BY <1>3, EmptySeq DEF n
  <2>2. FlattenSeq(s) = <<>>  BY <1>3, <2>1 DEF FlattenSeq, n
  <2>3. g[1] = t[1]
    <3>1. Joins(g, t, 1)  BY <1>2, <1>3
    <3>2. 1 \in Nat /\ 1 # 0  OBVIOUS
    <3>3. QED  BY ONLY <3>1, <3>2, JoinsAt
  <2>4. FlattenSeq(t) = e  BY <1>1, <1>2, <1>3, <2>3
  <2>5. <<>> \o e = e  BY ConcatEmptySeq
  <2>6. QED  BY <2>2, <2>4, <2>5 DEF t
<1>4. CASE n # 0
  <2>1. PICK f : Joins(f, s, n) /\ FlattenSeq(s) = f[n]  BY <1>1, <1>4, FlattenIs DEF n
  <2>2. \A i \in 1 .. n : f[i] = g[i] /\ f[i] \in Seq(X)
    <3>1. n + 1 \in Nat /\ n <= n + 1  BY <1>1
    <3> DEFINE m == n + 1
    <3> HIDE DEF m
    <3>2. m \in Nat /\ n <= m /\ Joins(g, t, m)  BY <1>2, <3>1 DEF m
    <3>3. \A i \in 1 .. n : s[i] = t[i] /\ s[i] \in Seq(X)  BY <1>1
    <3>4. QED  BY ONLY <1>1, <2>1, <3>2, <3>3, JoinsAlike
  <2>3. n \in 1 .. n /\ n \in 1 .. n + 1 /\ n + 1 \in 1 .. n + 1 /\ n + 1 \in Nat  BY <1>1, <1>4
  <2>4. g[n + 1] = g[n] \o t[n + 1]  BY <1>2, <2>3, JoinsAt
  <2>5. QED  BY <1>1, <1>2, <2>1, <2>2, <2>3, <2>4 DEF t
<1>5. QED  BY <1>3, <1>4
-----------------------------------------------------------------------------
(* The string section.                                                      *)

Symbols == Chars \cup {Nul}
Terminated(table) == [k \in DOMAIN table |-> Append(table[k], Nul)]

LEMMA StringEnds ==
  ASSUME NEW e \in Seq(Chars)
  PROVE  /\ Append(e, Nul) \in Seq(Symbols) /\ Len(Append(e, Nul)) = Len(e) + 1
         /\ \A j \in 1 .. Len(e) : Append(e, Nul)[j] = e[j] /\ e[j] \in Chars
         /\ Append(e, Nul)[Len(e) + 1] = Nul /\ Len(e) \in Nat
<1>1. Nul \in Symbols  BY DEF Symbols
<1>2. \A j \in 1 .. Len(e) : e[j] \in Chars  BY ElementOfSeq
<1>3. e \in Seq(Symbols)
  <2>1. Len(e) \in Nat /\ e \in [1 .. Len(e) -> Chars]  BY LenProperties
  <2>2. e \in [1 .. Len(e) -> Symbols]  BY <2>1 DEF Symbols
  <2>3. QED  BY <2>1, <2>2, SeqDef
<1> HIDE DEF Symbols
<1>4. QED  BY <1>1, <1>2, <1>3, Pushing

LEMMA EndsSeq ==
  ASSUME NEW t \in Seq(Seq(Chars))
  PROVE  /\ Terminated(t) \in Seq(Seq(Symbols)) /\ Len(Terminated(t)) = Len(t) /\ Len(t) \in Nat
         /\ \A k \in 1 .. Len(t) : Terminated(t)[k] = Append(t[k], Nul) /\ t[k] \in Seq(Chars)
<1> DEFINE n == Len(t)
           u == Terminated(t)
<1>1. n \in Nat /\ DOMAIN t = 1 .. n /\ \A k \in 1 .. n : t[k] \in Seq(Chars)
  BY LenProperties, ElementOfSeq
<1>2. \A k \in 1 .. n : Append(t[k], Nul) \in Seq(Symbols)  BY <1>1, StringEnds
<1> HIDE DEF n
<1>3. u = [k \in 1 .. n |-> Append(t[k], Nul)]  BY <1>1 DEF Terminated
<1> HIDE DEF u
<1>4. u \in [1 .. n -> Seq(Symbols)] /\ \A k \in 1 .. n : u[k] = Append(t[k], Nul)
  BY <1>2, <1>3
<1>5. u \in Seq(Seq(Symbols)) /\ Len(u) = n  BY <1>1, <1>4, SeqDef, LenProperties
<1>6. QED  BY <1>1, <1>4, <1>5 DEF n, u

LEMMA SectionMore ==
  ASSUME NEW t \in Seq(Seq(Chars)), NEW e \in Seq(Chars)
  PROVE  /\ Section(t) \in Seq(Symbols)
         /\ Section(Append(t, e)) = Section(t) \o Append(e, Nul)
<1> DEFINE n == Len(t)
           te == Append(t, e)
           x == Append(e, Nul)
           u == Terminated(t)
           v == Terminated(te)
           w == Append(u, x)
<1>1. /\ te \in Seq(Seq(Chars)) /\ Len(te) = n + 1 /\ \A k \in 1 .. n : te[k] = t[k]
      /\ te[n + 1] = e /\ n \in Nat
  BY Pushing
<1>2. x \in Seq(Symbols)  BY StringEnds
<1>3. u \in Seq(Seq(Symbols)) /\ Len(u) = n /\ \A k \in 1 .. n : u[k] = Append(t[k], Nul)
  BY EndsSeq
<1>4. v \in Seq(Seq(Symbols)) /\ Len(v) = n + 1 /\ \A k \in 1 .. n + 1 : v[k] = Append(te[k], Nul)
  <2> HIDE DEF te
  <2>1. /\ v \in Seq(Seq(Symbols)) /\ Len(v) = Len(te)
        /\ \A k \in 1 .. Len(te) : v[k] = Append(te[k], Nul)
    BY <1>1, EndsSeq
  <2>2. QED  BY <1>1, <2>1
<1>5. /\ w \in Seq(Seq(Symbols)) /\ Len(w) = n + 1 /\ \A k \in 1 .. n : w[k] = u[k]
      /\ w[n + 1] = x
  <2> HIDE DEF u, x, n
  <2>1. /\ w \in Seq(Seq(Symbols)) /\ Len(w) = Len(u) + 1 /\ \A k \in 1 .. Len(u) : w[k] = u[k]
        /\ w[Len(u) + 1] = x
    BY <1>2, <1>3, Pushing
  <2>2. QED  BY <1>3, <2>1
<1>6. v = w
  <2> DEFINE m == n + 1
  <2> HIDE DEF u, v, w, te, n, m
  <2>1. v[n + 1] = x
    <3>1. m \in 1 .. m  BY <1>1 DEF m
    <3>2. v[m] = Append(te[m], Nul) /\ te[m] = e  BY <1>1, <1>4, <3>1 DEF m
    <3>3. QED  BY <3>2 DEF m
  <2> HIDE DEF x
  <2>2. ASSUME NEW k \in 1 .. n  PROVE v[k] = w[k]
    <3>1. k \in 1 .. m  BY <1>1 DEF m
    <3>2. v[k] = Append(te[k], Nul)  BY <1>4, <3>1 DEF m
    <3>3. te[k] = t[k] /\ w[k] = u[k]  BY <1>1, <1>5
    <3>4. u[k] = Append(t[k], Nul)  BY <1>3
    <3>5. QED  BY <3>2, <3>3, <3>4
  <2>3. \A k \in 1 .. n + 1 : v[k] = w[k]  BY <1>1, <1>5, <2>1, <2>2
  <2>4. QED  BY <1>4, <1>5, <2>3, SameElements
<1>7. Section(t) = FlattenSeq(u) /\ Section(te) = FlattenSeq(v)  BY DEF Section, Terminated
<1> HIDE DEF u, v, x, te
<1>8. FlattenSeq(u) \in Seq(Symbols) /\ FlattenSeq(w) = FlattenSeq(u) \o x
  BY <1>2, <1>3, Flattening
<1>9. Section(te) = Section(t) \o x  BY <1>6, <1>7, <1>8
<1>10. QED  BY <1>7, <1>8, <1>9 DEF te, x

(* The section of the first n strings.                                      *)
Part(table, n) == Section(SubSeq(table, 1, n))

LEMMA PartIs ==
  ASSUME NEW t \in Seq(Seq(Chars)), NEW n \in 1 .. Len(t)
  PROVE  /\ Part(t, n - 1) \in Seq(Symbols) /\ t[n] \in Seq(Chars)
         /\ Part(t, n) = Part(t, n - 1) \o Append(t[n], Nul)
<1> DEFINE N == Len(t)
           d == N - n
           f == d + 1
           a == SubSeq(t, 1, n - 1)
           b == SubSeq(t, 1, n)
           e == t[n]
<1>1. /\ N \in Nat /\ n \in Nat /\ d \in 0 .. N /\ f \in 0 .. N /\ N - d = n /\ N - f = n - 1
      /\ n - 1 \in Nat /\ n - 1 + 1 = n
  BY LenProperties
<1>2. e \in Seq(Chars)  BY ElementOfSeq
<1>3. a \in Seq(Seq(Chars)) /\ Len(a) = n - 1 /\ \A k \in 1 .. n - 1 : a[k] = t[k]
  <2> DEFINE g == N - f
  <2>1. f \in 0 .. Len(t)  BY <1>1
  <2> HIDE DEF f
  <2>2. /\ SubSeq(t, 1, Len(t) - f) \in Seq(Seq(Chars)) /\ Len(SubSeq(t, 1, Len(t) - f)) = Len(t) - f
        /\ \A k \in 1 .. Len(t) - f : SubSeq(t, 1, Len(t) - f)[k] = t[k]
    BY <2>1, Popping
  <2>3. Len(t) - f = n - 1  BY <1>1
  <2>4. QED  BY <2>2, <2>3
<1>4. b \in Seq(Seq(Chars)) /\ Len(b) = n /\ \A k \in 1 .. n : b[k] = t[k]
  <2>1. d \in 0 .. Len(t)  BY <1>1
  <2> HIDE DEF d
  <2>2. /\ SubSeq(t, 1, Len(t) - d) \in Seq(Seq(Chars)) /\ Len(SubSeq(t, 1, Len(t) - d)) = Len(t) - d
        /\ \A k \in 1 .. Len(t) - d : SubSeq(t, 1, Len(t) - d)[k] = t[k]
    BY <2>1, Popping
  <2>3. Len(t) - d = n  BY <1>1
  <2>4. QED  BY <2>2, <2>3
<1> HIDE DEF a, b, d, f, N
<1>5. b = Append(a, e)
  <2> DEFINE c == Append(a, e)
             m == n - 1
  <2>1. /\ c \in Seq(Seq(Chars)) /\ Len(c) = m + 1 /\ \A k \in 1 .. m : c[k] = a[k] /\ c[m + 1] = e
    <3>1. /\ c \in Seq(Seq(Chars)) /\ Len(c) = Len(a) + 1 /\ \A k \in 1 .. Len(a) : c[k] = a[k]
          /\ c[Len(a) + 1] = e
      BY <1>2, <1>3, Pushing
    <3>2. QED  BY <1>3, <3>1
  <2>2. c[n] = e
    <3> DEFINE q == Len(a) + 1
    <3>1. c[q] = e  BY <1>2, <1>3, Pushing
    <3>2. q = n  BY <1>1, <1>3
    <3> HIDE DEF q, c
    <3>3. QED  BY <3>1, <3>2
  <2> HIDE DEF c, e
  <2>3. ASSUME NEW k \in 1 .. n  PROVE b[k] = c[k]
    <3>1. k \in 1 .. m \/ k = n  BY <1>1
    <3>2. b[n] = e /\ n \in 1 .. n  BY <1>1, <1>4 DEF e
    <3>3. CASE k = n  BY <2>2, <3>2, <3>3
    <3>4. CASE k \in 1 .. m
      <4>1. c[k] = a[k] /\ a[k] = t[k] /\ b[k] = t[k]  BY <1>3, <1>4, <2>1, <3>4
      <4>2. QED  BY <4>1
    <3>5. QED  BY <3>1, <3>3, <3>4
  <2>4. Len(c) = n  BY <1>1, <2>1
  <2>5. b = c  BY ONLY <1>4, <2>1, <2>3, <2>4, SameElements
  <2>6. QED  BY <2>5 DEF c
<1> HIDE DEF e
<1>6. Section(a) \in Seq(Symbols) /\ Section(b) = Section(a) \o Append(e, Nul)
  BY <1>2, <1>3, <1>5, SectionMore
<1>7. QED  BY <1>2, <1>6 DEF Part, a, b, e

LEMMA PartsGrow ==
  ASSUME NEW t \in Seq(Seq(Chars)), NEW n \in 0 .. Len(t), NEW m \in n .. Len(t)
  PROVE  /\ Part(t, n) \in Seq(Symbols) /\ Part(t, m) \in Seq(Symbols)
         /\ Len(Part(t, n)) <= Len(Part(t, m))
         /\ \A j \in 1 .. Len(Part(t, n)) : Part(t, m)[j] = Part(t, n)[j]
<1> DEFINE N == Len(t)
           Grown(k) == k \in n .. N =>
             /\ Len(Part(t, n)) <= Len(Part(t, k))
             /\ \A j \in 1 .. Len(Part(t, n)) : Part(t, k)[j] = Part(t, n)[j]
           T == {k \in Nat : Grown(k)}
<1>1. N \in Nat /\ n \in Nat  BY LenProperties
<1>2. \A k \in 0 .. N : Part(t, k) \in Seq(Symbols) /\ Len(Part(t, k)) \in Nat
  <2> SUFFICES ASSUME NEW k \in 0 .. N  PROVE Part(t, k) \in Seq(Symbols)
    BY LenProperties
  <2>1. CASE k = 0
    <3> DEFINE a == SubSeq(t, 1, N - N)
    <3>1. N \in 0 .. N /\ N - N = 0  BY <1>1
    <3>2. a \in Seq(Seq(Chars))  BY <3>1, Popping
    <3>3. a = SubSeq(t, 1, 0)  BY <3>1
    <3> HIDE DEF a
    <3>4. <<>> \in Seq(Chars)  OBVIOUS
    <3>5. Section(a) \in Seq(Symbols)  BY <3>2, <3>4, SectionMore
    <3>6. QED  BY <2>1, <3>3, <3>5 DEF Part
  <2>2. CASE k # 0
    <3>1. k \in 1 .. Len(t)  BY <1>1, <2>2
    <3> DEFINE p == Part(t, k - 1)
               x == Append(t[k], Nul)
    <3>2. p \in Seq(Symbols) /\ t[k] \in Seq(Chars) /\ Part(t, k) = p \o x  BY <3>1, PartIs
    <3>3. x \in Seq(Symbols)  BY <3>2, StringEnds
    <3> HIDE DEF p, x
    <3>4. QED  BY <3>2, <3>3, Joining
  <2>3. QED  BY <2>1, <2>2
<1>3. 0 \in T
  <2>1. Grown(0)
    <3>1. 0 \in n .. N => n = 0  BY <1>1
    <3>2. Len(Part(t, n)) \in Nat  BY <1>2
    <3>3. QED  BY <3>1, <3>2
  <2>2. QED  BY <2>1
<1>4. ASSUME NEW k \in T  PROVE k + 1 \in T
  <2> DEFINE k1 == k + 1
  <2>1. k \in Nat /\ Grown(k) /\ k1 \in Nat  OBVIOUS
  <2>2. CASE k1 \notin n .. N
    <3>1. Grown(k1)  BY <2>2
    <3> HIDE DEF Grown
    <3>2. QED  BY <2>1, <3>1
  <2>3. CASE k1 = n
    <3>1. Len(Part(t, n)) \in Nat  BY <1>2
    <3> HIDE DEF k1
    <3>2. Grown(k1)  BY <2>3, <3>1
    <3> HIDE DEF Grown
    <3>3. QED  BY <2>1, <3>2 DEF k1
  <2>4. CASE k1 # n /\ k1 \in n .. N
    <3>1. k \in n .. N /\ k1 \in 1 .. Len(t) /\ k1 - 1 = k /\ k \in 0 .. N /\ k1 \in 0 .. N
      BY <1>1, <2>1, <2>4
    <3> DEFINE p == Part(t, k)
               q == Part(t, k1)
               x == Append(t[k1], Nul)
               o == Part(t, n)
    <3>2. Len(o) <= Len(p) /\ \A j \in 1 .. Len(o) : p[j] = o[j]  BY <2>1, <3>1
    <3> HIDE DEF k1
    <3>3. p \in Seq(Symbols) /\ t[k1] \in Seq(Chars) /\ q = p \o x
      BY <3>1, PartIs
    <3>4. x \in Seq(Symbols)  BY <3>3, StringEnds
    <3>5. Len(o) \in Nat  BY <1>2
    <3> HIDE DEF p, q, x, o
    <3>6. /\ Len(q) = Len(p) + Len(x) /\ Len(p) \in Nat /\ Len(x) \in Nat
          /\ \A j \in 1 .. Len(p) : q[j] = p[j]
      BY <3>3, <3>4, Joining
    <3>7. Len(o) <= Len(q)  BY <3>2, <3>5, <3>6
    <3>8. \A j \in 1 .. Len(o) : q[j] = o[j]
      <4>1. \A j \in 1 .. Len(o) : j \in 1 .. Len(p)  BY <3>2, <3>5, <3>6
      <4>2. QED  BY <3>2, <3>6, <4>1
    <3>9. Grown(k1)  BY <3>7, <3>8 DEF o, q
    <3> HIDE DEF Grown
    <3>10. QED  BY <2>1, <3>9 DEF k1
  <2>5. QED  BY <2>2, <2>3, <2>4
<1>5. T = Nat
  <2>1. T \in SUBSET Nat  OBVIOUS
  <2> HIDE DEF T
  <2>2. QED  BY <1>3, <1>4, <2>1, NatSetInduction
<1>6. m \in T /\ m \in n .. N /\ m \in 0 .. N
  <2>1. m \in Nat /\ m \in n .. N /\ m \in 0 .. N  BY <1>1
  <2> HIDE DEF T
  <2>2. QED  BY <1>5, <2>1
<1>7. Grown(m)  BY <1>6
<1>8. QED  BY <1>2, <1>6, <1>7

(* Where string e stands in a section: from o to its NUL at z.               *)
Stands(sec, o, e, z) ==
  /\ sec \in Seq(Symbols) /\ o \in Nat \ {0} /\ z = o + Len(e) /\ z <= Len(sec)
  /\ Len(sec) \in Nat /\ e \in Seq(Chars) /\ Len(e) \in Nat
  /\ sec[z] = Nul
  /\ \A j \in 1 .. Len(e) : sec[o + j - 1] = e[j]

LEMMA EachStands ==
  ASSUME NEW t \in Seq(Seq(Chars)), NEW n \in 1 .. Len(t)
  PROVE  Stands(Section(t), Offsets(t)[n], t[n], Offsets(t)[n] + Len(t[n]))
<1> DEFINE N == Len(t)
           e == t[n]
           p == Part(t, n - 1)
           q == Part(t, n)
           x == Append(e, Nul)
           c == Len(p)
           m == Len(e)
           sec == Section(t)
           o == Offsets(t)[n]
<1>1. N \in Nat /\ DOMAIN t = 1 .. N  BY LenProperties
<1>2. p \in Seq(Symbols) /\ e \in Seq(Chars) /\ q = p \o x  BY PartIs
<1>3. /\ x \in Seq(Symbols) /\ Len(x) = m + 1 /\ \A j \in 1 .. m : x[j] = e[j]
      /\ x[m + 1] = Nul /\ m \in Nat
  BY <1>2, StringEnds
<1>4. sec = Part(t, N)
  <2> DEFINE a == SubSeq(t, 1, N - 0)
  <2>1. 0 \in 0 .. N /\ N - 0 = N  BY <1>1
  <2>2. a \in Seq(Seq(Chars)) /\ Len(a) = N /\ \A k \in 1 .. N : a[k] = t[k]
    BY <2>1, Popping
  <2> HIDE DEF a
  <2>3. a = t
    <3>1. t \in Seq(Seq(Chars)) /\ Len(t) = N  OBVIOUS
    <3> HIDE DEF N
    <3>2. QED  BY ONLY <2>2, <3>1, SameElements
  <2>4. SubSeq(t, 1, N) = t  BY <2>1, <2>3 DEF a
  <2>5. QED  BY <2>4 DEF Part
<1>5. sec \in Seq(Symbols) /\ Len(q) <= Len(sec) /\ \A j \in 1 .. Len(q) : sec[j] = q[j]
  <2>1. n \in 0 .. Len(t) /\ N \in n .. Len(t)  BY <1>1
  <2> HIDE DEF N, sec
  <2>2. QED  BY <1>4, <2>1, PartsGrow
<1>6. o = 1 + c  BY <1>1 DEF Offsets, Part
<1> HIDE DEF p, q, x, c, m, sec, o, e
<1>7. /\ Len(q) = c + (m + 1) /\ c \in Nat /\ \A j \in c + 1 .. c + (m + 1) : q[j] = x[j - c]
  <2>1. /\ Len(q) = Len(p) + Len(x) /\ Len(p) \in Nat
        /\ \A j \in Len(p) + 1 .. Len(p) + Len(x) : q[j] = x[j - Len(p)]
    BY <1>2, <1>3, Joining
  <2>2. QED  BY <1>3, <2>1 DEF c
<1>8. ASSUME NEW j \in 1 .. m + 1  PROVE sec[c + j] = x[j]
  <2> DEFINE k == c + j
  <2>1. k \in c + 1 .. c + (m + 1) /\ k \in 1 .. c + (m + 1) /\ k - c = j  BY <1>3, <1>7
  <2> HIDE DEF k
  <2>2. sec[k] = q[k] /\ q[k] = x[k - c]  BY <1>5, <1>7, <2>1
  <2>3. QED  BY <2>1, <2>2 DEF k
<1>9. sec[o + m] = Nul
  <2>1. m + 1 \in 1 .. m + 1 /\ o + m = c + (m + 1)  BY <1>3, <1>6, <1>7
  <2>2. QED  BY <1>3, <1>8, <2>1
<1>10. ASSUME NEW j \in 1 .. m  PROVE sec[o + j - 1] = e[j]
  <2>1. j \in 1 .. m + 1 /\ o + j - 1 = c + j  BY <1>3, <1>6, <1>7
  <2>2. QED  BY <1>3, <1>8, <2>1
<1>11. Len(sec) \in Nat /\ o + m <= Len(sec) /\ o \in Nat \ {0}
  <2>1. Len(sec) \in Nat  BY <1>5, LenProperties
  <2>2. QED  BY <1>3, <1>5, <1>6, <1>7, <2>1
<1>12. Stands(sec, o, e, o + m)
  BY <1>2, <1>3, <1>5, <1>9, <1>10, <1>11 DEF Stands, m
<1>13. QED  BY <1>12 DEF sec, o, e, m

(* What a string's characters are.                                          *)
LEMMA InString ==
  ASSUME NEW sec, NEW o, NEW e, NEW z, Stands(sec, o, e, z), NEW k \in o .. z - 1
  PROVE  /\ k - o + 1 \in 1 .. Len(e) /\ sec[k] = e[k - o + 1]
         /\ sec[k] \in Chars /\ sec[k] # Nul /\ sec[k] # "beyond"
         /\ k \in 1 .. Len(sec)
<1> DEFINE j == k - o + 1
<1>1. /\ o \in Nat \ {0} /\ Len(e) \in Nat /\ z = o + Len(e) /\ Len(sec) \in Nat /\ z <= Len(sec)
      /\ e \in Seq(Chars)
  BY DEF Stands
<1>2. j \in 1 .. Len(e) /\ o + j - 1 = k /\ k \in 1 .. Len(sec)  BY <1>1
<1> HIDE DEF j
<1>3. sec[o + j - 1] = e[j]  BY <1>2 DEF Stands
<1>4. e[j] \in Chars  BY <1>1, <1>2, ElementOfSeq
<1>5. sec[k] = e[j] /\ sec[k] \in Chars  BY <1>2, <1>3, <1>4
<1>6. sec[k] # Nul /\ sec[k] # "beyond"  BY <1>5, PrintfAssumption
<1>7. QED  BY <1>2, <1>5, <1>6 DEF j

LEMMA EndFound ==
  ASSUME NEW sec, NEW o, NEW e, NEW z, Stands(sec, o, e, z)
  PROVE  StrEnd(sec, o) = z
<1> DEFINE Found(k) == sec[k] = Nul /\ \A j \in o .. k - 1 : sec[j] # Nul
<1>1. /\ o \in Nat \ {0} /\ z \in Nat /\ o <= z /\ Len(sec) \in Nat /\ z <= Len(sec) /\ sec[z] = Nul
  BY DEF Stands
<1>2. z \in o .. Len(sec) /\ Found(z)
  <2>1. \A j \in o .. z - 1 : sec[j] # Nul  BY InString
  <2>2. QED  BY <1>1, <2>1
<1>3. ASSUME NEW k \in o .. Len(sec), Found(k)  PROVE k = z
  <2>1. k \in Int /\ o <= k  BY <1>1
  <2>2. ~(k < z)
    <3>1. SUFFICES ASSUME k < z  PROVE FALSE  OBVIOUS
    <3>2. k \in o .. z - 1  BY <1>1, <2>1, <3>1
    <3>3. sec[k] # Nul  BY <3>2, InString
    <3>4. QED  BY <1>3, <3>3
  <2>3. ~(z < k)
    <3>1. SUFFICES ASSUME z < k  PROVE FALSE  OBVIOUS
    <3>2. z \in o .. k - 1  BY <1>1, <2>1, <3>1
    <3>3. sec[z] # Nul  BY <1>3, <3>2
    <3>4. QED  BY <1>1, <3>3
  <2>4. QED  BY <1>1, <2>1, <2>2, <2>3
<1>4. StrEnd(sec, o) = CHOOSE k \in o .. Len(sec) : Found(k)  BY DEF StrEnd
<1> HIDE DEF Found
<1>5. QED  BY <1>2, <1>3, <1>4
-----------------------------------------------------------------------------
(* What is printed.                                                         *)

Items ==
  [kind : {"char", "int", "float", "oof"}, text : Seq(Chars), value : Nat]
Texts(items) == [k \in DOMAIN items |-> items[k].text]

LEMMA TextsMore ==
  ASSUME NEW s \in Seq(Items), NEW o \in Items
  PROVE  /\ FlattenSeq(Texts(s)) \in Seq(Chars)
         /\ FlattenSeq(Texts(Append(s, o))) = FlattenSeq(Texts(s)) \o o.text
<1> DEFINE n == Len(s)
           m == n + 1
           so == Append(s, o)
           e == o.text
           u == Texts(s)
           v == Texts(so)
           w == Append(u, e)
<1>1. n \in Nat /\ DOMAIN s = 1 .. n /\ \A k \in 1 .. n : s[k] \in Items
  BY LenProperties, ElementOfSeq
<1>2. so \in Seq(Items) /\ Len(so) = m /\ (\A k \in 1 .. n : so[k] = s[k]) /\ so[m] = o
  BY Pushing
<1>3. m \in Nat /\ n \in Nat /\ m \in 1 .. m /\ \A k \in 1 .. m : k \in 1 .. n \/ k = m  BY <1>1
<1> HIDE DEF so, n, m
<1>4. DOMAIN so = 1 .. m /\ \A k \in 1 .. m : so[k] \in Items
  BY <1>2, LenProperties, ElementOfSeq
<1>5. e \in Seq(Chars)  BY DEF Items
<1>6. u \in Seq(Seq(Chars)) /\ Len(u) = n /\ \A k \in 1 .. n : u[k] = s[k].text
  <2>1. u = [k \in 1 .. n |-> s[k].text]  BY <1>1 DEF Texts
  <2>2. \A k \in 1 .. n : s[k].text \in Seq(Chars)  BY <1>1 DEF Items
  <2> HIDE DEF u
  <2>3. u \in [1 .. n -> Seq(Chars)] /\ \A k \in 1 .. n : u[k] = s[k].text  BY <2>1, <2>2
  <2>4. QED  BY <1>3, <2>3, SeqDef, LenProperties
<1>7. v \in Seq(Seq(Chars)) /\ Len(v) = m /\ \A k \in 1 .. m : v[k] = so[k].text
  <2>1. v = [k \in 1 .. m |-> so[k].text]  BY <1>4 DEF Texts
  <2>2. \A k \in 1 .. m : so[k].text \in Seq(Chars)  BY <1>4 DEF Items
  <2> HIDE DEF v
  <2>3. v \in [1 .. m -> Seq(Chars)] /\ \A k \in 1 .. m : v[k] = so[k].text  BY <2>1, <2>2
  <2>4. QED  BY <1>3, <2>3, SeqDef, LenProperties
<1> HIDE DEF u, v, e
<1>8. w \in Seq(Seq(Chars)) /\ Len(w) = m /\ (\A k \in 1 .. n : w[k] = u[k]) /\ w[m] = e
  BY <1>5, <1>6, Pushing DEF m
<1> HIDE DEF w
<1>9. ASSUME NEW k \in 1 .. m  PROVE v[k] = w[k]
  <2>1. CASE k = m  BY <1>2, <1>3, <1>7, <1>8, <2>1 DEF e
  <2>2. CASE k \in 1 .. n
    <3>1. v[k] = so[k].text /\ so[k] = s[k]  BY <1>2, <1>7, <2>2
    <3>2. w[k] = u[k] /\ u[k] = s[k].text  BY <1>6, <1>8, <2>2
    <3>3. QED  BY <3>1, <3>2
  <2>3. QED  BY <1>3, <2>1, <2>2
<1>10. v = w  BY <1>7, <1>8, <1>9, SameElements
<1>11. FlattenSeq(u) \in Seq(Chars) /\ FlattenSeq(w) = FlattenSeq(u) \o e
  BY <1>5, <1>6, Flattening DEF w
<1>12. QED  BY <1>10, <1>11 DEF u, v, e, so
-----------------------------------------------------------------------------
(* Conversions.                                                             *)

Letters == (IntConversions \ {"l"}) \cup FloatConversions
Within(f, a, b) == \A k \in a + 1 .. b - 1 : f[k] \in Digits \cup {"."}

LEMMA Signs ==
  /\ Letters \cap (Digits \cup {"."}) = {} /\ "%" \notin Letters /\ "%" \notin Digits
  /\ "." \notin Digits /\ Nul \notin Digits \cup {".", "%"}
  /\ Nul \notin IntConversions \cup FloatConversions
BY DEF Letters, Digits, IntConversions, FloatConversions, Nul

LEMMA ConversionIs ==
  ASSUME NEW f \in Seq(Chars), NEW c \in Conversions(f)
  PROVE  /\ c = <<c[1], c[2]>> /\ c[1] \in 1 .. Len(f) /\ c[2] \in c[1] + 1 .. Len(f)
         /\ f[c[1]] = "%" /\ f[c[2]] \in Letters /\ Within(f, c[1], c[2])
         /\ Cardinality({k \in c[1] + 1 .. c[2] - 1 : f[k] = "."}) <= 1
         /\ Len(f) \in Nat
<1>1. Len(f) \in Nat /\ DOMAIN f = 1 .. Len(f)  BY LenProperties
<1>2. c \in (1 .. Len(f)) \X (1 .. Len(f)) /\ c[1] < c[2] /\ IsConversion(f, c[1], c[2])
  BY <1>1 DEF Conversions
<1>3. c[2] \in c[1] + 1 .. Len(f)  BY <1>1, <1>2
<1>4. QED  BY <1>1, <1>2, <1>3 DEF IsConversion, Letters, Within

LEMMA FiniteConversions ==
  ASSUME NEW f \in Seq(Chars)
  PROVE  IsFiniteSet(Conversions(f)) /\ Cardinality(Conversions(f)) \in Nat
<1> DEFINE I == 1 .. Len(f)
<1>1. Len(f) \in Nat /\ DOMAIN f = I  BY LenProperties
<1>2. IsFiniteSet(I)  BY <1>1, FS_Interval
<1> HIDE DEF I
<1>3. IsFiniteSet(I \X I)  BY <1>2, FS_Product
<1>4. Conversions(f) \subseteq I \X I  BY <1>1 DEF Conversions
<1>5. QED  BY <1>3, <1>4, FS_Subset, FS_CardinalityType

(* A conversion whose digits have been read up to b, where no digit stands    *)
(* nor a second point, ends at b.                                           *)
LEMMA EndsHere ==
  ASSUME NEW f \in Seq(Chars), NEW c \in Conversions(f), NEW b \in c[1] + 1 .. Len(f) + 1,
         Within(f, c[1], b), b <= Len(f) => f[b] \notin Digits,
         b <= Len(f) /\ f[b] = "." => \E d \in c[1] + 1 .. b - 1 : f[d] = "."
  PROVE  c[2] = b
<1> DEFINE a == c[1]
           z == c[2]
           D == {k \in a + 1 .. z - 1 : f[k] = "."}
<1>1. /\ a \in 1 .. Len(f) /\ z \in a + 1 .. Len(f) /\ f[z] \in Letters /\ Within(f, a, z)
      /\ Cardinality(D) <= 1 /\ Len(f) \in Nat
  BY ConversionIs
<1>2. Within(f, a, b) /\ b \in a + 1 .. Len(f) + 1  OBVIOUS
<1>3. b <= Len(f) => f[b] \notin Digits  OBVIOUS
<1>4. b <= Len(f) /\ f[b] = "." => \E d \in a + 1 .. b - 1 : f[d] = "."  OBVIOUS
<1>5. IsFiniteSet(D)
  <2> DEFINE I == a + 1 .. z - 1
  <2>1. a + 1 \in Int /\ z - 1 \in Int  BY <1>1
  <2>2. IsFiniteSet(I)  BY <2>1, FS_Interval
  <2>3. D \subseteq I  OBVIOUS
  <2> HIDE DEF I, D
  <2>4. QED  BY <2>2, <2>3, FS_Subset
<1> HIDE DEF a, z
<1>6. ~(z < b)
  <2>1. SUFFICES ASSUME z < b  PROVE FALSE  OBVIOUS
  <2>2. z \in a + 1 .. b - 1  BY <1>1, <1>2, <2>1
  <2>3. f[z] \in Digits \cup {"."}  BY <1>2, <2>2 DEF Within
  <2>4. QED  BY <1>1, <2>3, Signs
<1>7. ~(b < z)
  <2>1. SUFFICES ASSUME b < z  PROVE FALSE  OBVIOUS
  <2>2. b \in a + 1 .. z - 1 /\ b <= Len(f)  BY <1>1, <1>2, <2>1
  <2>3. f[b] = "."  BY <1>1, <1>3, <2>2 DEF Within
  <2>4. PICK d \in a + 1 .. b - 1 : f[d] = "."  BY <1>4, <2>2, <2>3
  <2>5. d \in D /\ b \in D /\ d # b  BY <1>1, <2>2, <2>3, <2>4
  <2> HIDE DEF D
  <2>6. {d, b} \subseteq D  BY <2>5
  <2>7. Cardinality({d, b}) = 2
    <3> DEFINE s == {d}
               u == s \cup {b}
    <3>1. Cardinality(s) = 1 /\ IsFiniteSet(s)  BY FS_Singleton
    <3>2. b \notin s  BY <2>5
    <3>3. u = {d, b}  OBVIOUS
    <3> HIDE DEF s
    <3>4. Cardinality(u) = Cardinality(s) + 1  BY <3>1, <3>2, FS_AddElement
    <3> HIDE DEF u
    <3>5. Cardinality(u) = 2  BY <3>1, <3>4
    <3>6. QED  BY <3>3, <3>5
  <2>8. Cardinality({d, b}) <= Cardinality(D)  BY <1>5, <2>6, FS_Subset
  <2>9. Cardinality(D) \in Nat  BY <1>5, FS_CardinalityType
  <2>10. QED  BY <1>1, <2>7, <2>8, <2>9
<1>8. z = b  BY <1>1, <1>2, <1>6, <1>7
<1>9. QED  BY <1>8 DEF z
-----------------------------------------------------------------------------
(* The conversions that begin within the first n characters.                *)
Begun(f, n) == {c \in Conversions(f) : c[1] <= n}

LEMMA BegunIs ==
  ASSUME NEW f \in Seq(Chars), NEW n
  PROVE  /\ IsFiniteSet(Begun(f, n)) /\ Cardinality(Begun(f, n)) \in Nat
         /\ Cardinality(Begun(f, n)) <= Cardinality(Conversions(f))
<1>1. Begun(f, n) \subseteq Conversions(f)  BY DEF Begun
<1>2. QED  BY <1>1, FiniteConversions, FS_Subset, FS_CardinalityType

LEMMA NoMoreBegun ==
  ASSUME NEW f \in Seq(Chars), NEW n \in 0 .. Len(f), f[n + 1] # "%"
  PROVE  Begun(f, n + 1) = Begun(f, n)
<1>1. ASSUME NEW c \in Conversions(f)  PROVE c[1] <= n + 1 <=> c[1] <= n
  <2>1. c[1] \in Int /\ f[c[1]] = "%" /\ n \in Int
    <3>1. c[1] \in 1 .. Len(f) /\ f[c[1]] = "%"  BY ConversionIs
    <3>2. QED  BY <3>1
  <2>2. c[1] # n + 1  BY <2>1
  <2>3. QED  BY <2>1, <2>2
<1>2. QED  BY <1>1 DEF Begun

LEMMA OneMoreBegun ==
  ASSUME NEW f \in Seq(Chars), NEW a \in 1 .. Len(f), NEW b \in a + 1 .. Len(f),
         <<a, b>> \in Conversions(f), \A c \in Conversions(f) : c[1] = a => c[2] = b
  PROVE  Cardinality(Begun(f, b)) = Cardinality(Begun(f, a - 1)) + 1
<1> DEFINE e == <<a, b>>
           C == Conversions(f)
           B == Begun(f, a - 1)
<1>1. a \in Nat /\ b \in Nat /\ a < b  BY ConversionIs
<1>2. f[b] \in Letters /\ Within(f, a, b)
  <2>1. e[1] = a /\ e[2] = b  OBVIOUS
  <2> HIDE DEF e
  <2>2. f[e[2]] \in Letters /\ Within(f, e[1], e[2])  BY ConversionIs DEF e
  <2>3. QED  BY <2>1, <2>2
<1>3. ASSUME NEW c \in C  PROVE c[1] <= b <=> (c[1] <= a - 1 \/ c = e)
  <2>1. c = <<c[1], c[2]>> /\ c[1] \in Int /\ f[c[1]] = "%"
    <3>1. c = <<c[1], c[2]>> /\ c[1] \in 1 .. Len(f) /\ f[c[1]] = "%"  BY ConversionIs
    <3>2. QED  BY <3>1
  <2>2. c[1] = a => c = e  BY <2>1
  <2>3. c[1] \notin a + 1 .. b - 1  BY <1>2, <2>1, Signs DEF Within
  <2>4. c[1] # b  BY <1>2, <2>1, Signs
  <2>5. c = e => c[1] = a  OBVIOUS
  <2> HIDE DEF e
  <2>6. QED  BY <1>1, <2>1, <2>2, <2>3, <2>4, <2>5
<1>4. e \in C /\ e \notin B
  <2>1. e[1] = a /\ ~(a <= a - 1)  BY <1>1
  <2> HIDE DEF e
  <2>2. e \notin B  BY <2>1 DEF Begun
  <2>3. QED  BY <2>2 DEF e
<1> HIDE DEF e
<1>5. Begun(f, b) = B \cup {e}
  <2>1. \A c : c \in Begun(f, b) <=> c \in B \cup {e}  BY <1>3, <1>4 DEF Begun
  <2>2. QED  BY <2>1
<1>6. IsFiniteSet(B)  BY BegunIs
<1> HIDE DEF B
<1>7. Cardinality(B \cup {e}) = Cardinality(B) + 1  BY <1>4, <1>6, FS_AddElement
<1>8. QED  BY <1>5, <1>7 DEF B
-----------------------------------------------------------------------------
(* The walk over the format.                                                *)

begin == offsets[stack[1]]
Amid  == pc \in {"width", "precision", "panic"}

Settled ==
  /\ strings \in Seq(Seq(Chars)) /\ stack \in Seq(Nat) /\ Len(stack) \in Nat \ {0}
  /\ Stands(section, begin, Format, end)

Walking ==
  /\ pc \in {"next", "width", "precision", "done", "panic"}
  /\ arg_i \in 0 .. argsc
  /\ fmt \in begin .. end + 1
  /\ Amid => /\ fmt <= end /\ start \in begin .. fmt - 1
             /\ section[start] = "%" /\ Within(section, start, fmt)
  /\ pc = "precision" => \E d \in start + 1 .. fmt - 1 : section[d] = "."
  /\ pc = "panic" => arg_i = argsc

(* Each value has been printed by the conversion of its number.              *)
Numbers == {o \in Items : o.kind \in {"int", "float"}}
ValuesPrinted ==
  LET numbers == Those(out, Numbers)
  IN  /\ out \in Seq(Items) /\ numbers \in Seq(Items) /\ Len(numbers) = arg_i
      /\ \A k \in 1 .. arg_i : numbers[k].value = stack[k + 1]

WalkInv == Settled /\ Walking /\ ValuesPrinted
-----------------------------------------------------------------------------
Fixed == UNCHANGED <<strings, section, offsets, stack, end>>

LEMMA StepFixes ==
  ASSUME Step PROVE Fixed
<1>1. CASE Stop      BY <1>1 DEF Stop, Constants, Fixed
<1>2. CASE Literal   BY <1>2 DEF Literal, Constants, Fixed
<1>3. CASE Percent   BY <1>3 DEF Percent, Constants, Fixed
<1>4. CASE SkipDigit BY <1>4 DEF SkipDigit, Constants, Fixed
<1>5. CASE Dot       BY <1>5 DEF Dot, Constants, Fixed
<1>6. CASE Convert   BY <1>6 DEF Convert, Constants, Fixed
<1>7. CASE Oof       BY <1>7 DEF Oof, Constants, Fixed
<1>8. QED  BY <1>1, <1>2, <1>3, <1>4, <1>5, <1>6, <1>7 DEF Step

LEMMA FixedIs ==
  ASSUME Fixed
  PROVE  /\ section' = section /\ stack' = stack /\ end' = end /\ begin' = begin
         /\ Format' = Format /\ argsc' = argsc /\ (Settled => Settled')
<1>1. /\ strings' = strings /\ section' = section /\ offsets' = offsets
      /\ stack' = stack /\ end' = end
  BY DEF Fixed
<1>2. begin' = begin /\ Format' = Format /\ argsc' = argsc  BY <1>1 DEF begin, Format, argsc
<1>3. QED  BY <1>1, <1>2 DEF Settled

LEMMA SettledIs ==
  ASSUME Settled
  PROVE  /\ begin \in Nat \ {0} /\ end \in Nat /\ begin <= end /\ Format \in Seq(Chars)
         /\ Len(Format) \in Nat /\ end = begin + Len(Format) /\ argsc \in Nat
         /\ section[end] = Nul /\ DOMAIN section = 1 .. Len(section) /\ Len(section) \in Nat
         /\ end <= Len(section) /\ argsc = Len(stack) - 1
BY LenProperties DEF Settled, Stands, argsc

LEMMA Reads ==
  ASSUME Settled, NEW k \in begin .. end - 1
  PROVE  /\ k - begin + 1 \in 1 .. Len(Format) /\ section[k] = Format[k - begin + 1]
         /\ section[k] \in Chars /\ section[k] # Nul
<1>1. Stands(section, begin, Format, end)  BY DEF Settled
<1>2. QED  BY ONLY <1>1, k \in begin .. end - 1, InString

LEMMA CharIs ==
  ASSUME Settled, fmt \in begin .. end
  PROVE  /\ Char = section[fmt] /\ (Char # Nul => fmt \in begin .. end - 1)
         /\ fmt \in Nat /\ fmt + 1 \in begin .. end + 1 /\ (fmt < end => fmt \in begin .. end - 1)
<1>1. /\ begin \in Nat \ {0} /\ end \in Nat /\ section[end] = Nul /\ Len(section) \in Nat
      /\ DOMAIN section = 1 .. Len(section) /\ end <= Len(section)
  BY SettledIs
<1>2. fmt \in DOMAIN section  BY <1>1
<1>3. Char = section[fmt]  BY <1>2 DEF Char
<1>4. QED  BY <1>1, <1>3

(* A piece of the section is the same piece of the format.                   *)
LEMMA PieceOfFormat ==
  ASSUME Settled, NEW x \in begin .. end - 1, NEW y \in x .. end - 1
  PROVE  LET a == x - begin + 1
             b == y - begin + 1
         IN  /\ a \in 1 .. Len(Format) /\ b \in a .. Len(Format)
             /\ SubSeq(section, x, y) \in Seq(Chars)
             /\ SubSeq(section, x, y) = SubSeq(Format, a, b)
<1> DEFINE a == x - begin + 1
           b == y - begin + 1
           n == y - x + 1
           u == SubSeq(section, x, y)
           v == SubSeq(Format, a, b)
<1>1. /\ begin \in Nat \ {0} /\ end \in Nat /\ Format \in Seq(Chars)
      /\ Len(Format) \in Nat /\ end = begin + Len(Format)
  BY SettledIs
<1>2. /\ a \in 1 .. Len(Format) /\ b \in a .. Len(Format) /\ b - a + 1 = n /\ n \in Nat
      /\ x <= y /\ a <= b /\ x \in Int /\ y \in Int /\ a \in Int /\ b \in Int
  BY <1>1
<1>3. \A j \in x .. y : section[j] \in Chars
  <2>1. \A j \in x .. y : j \in begin .. end - 1  BY <1>1
  <2>2. QED  BY <2>1, Reads
<1>4. \A j \in a .. b : Format[j] \in Chars
  <2>1. \A j \in a .. b : j \in 1 .. Len(Format)  BY <1>2
  <2>2. QED  BY <1>1, <2>1, ElementOfSeq
<1> HIDE DEF a, b
<1>5. u \in Seq(Chars) /\ Len(u) = n /\ \A k \in 1 .. n : u[k] = section[x + k - 1]
  BY <1>2, <1>3, SubSeqProperties
<1>6. v \in Seq(Chars) /\ Len(v) = n /\ \A k \in 1 .. n : v[k] = Format[a + k - 1]
  <2>1. /\ v \in Seq(Chars) /\ Len(v) = b - a + 1
        /\ \A k \in 1 .. b - a + 1 : v[k] = Format[a + k - 1]
    BY <1>2, <1>4, SubSeqProperties
  <2>2. QED  BY <1>2, <2>1
<1> HIDE DEF u, v
<1>7. ASSUME NEW k \in 1 .. n  PROVE u[k] = v[k]
  <2> DEFINE j == x + k - 1
  <2>1. j \in begin .. end - 1 /\ j - begin + 1 = a + k - 1  BY <1>1, <1>2 DEF a
  <2>2. u[k] = section[j]  BY <1>5
  <2> HIDE DEF j
  <2>3. section[j] = Format[j - begin + 1]  BY <2>1, Reads
  <2>4. QED  BY <1>6, <2>1, <2>2, <2>3
<1>8. u = v  BY <1>5, <1>6, <1>7, SameElements
<1>9. QED  BY <1>2, <1>5, <1>8 DEF a, b, u, v
-----------------------------------------------------------------------------
LEMMA BeginsSettled ==
  ASSUME Begin PROVE Settled /\ fmt = begin
<1>1. PICK n \in 0 .. MaxArgs, number \in DOMAIN strings :
        /\ section = Section(strings) /\ offsets = Offsets(strings)
        /\ stack = <<number>> \o [k \in 1 .. n |-> k]
        /\ fmt = offsets[number]
  BY DEF Begin
<1>2. strings \in Seq(Seq(Chars)) /\ end = StrEnd(section, fmt)
  BY PrintfAssumption DEF Begin
<1>3. DOMAIN strings = 1 .. Len(strings) /\ Len(strings) \in Nat  BY <1>2, LenProperties
<1>4. n \in Nat /\ number \in Nat /\ number \in 1 .. Len(strings)  BY <1>3, PrintfAssumption
<1>5. stack \in Seq(Nat) /\ Len(stack) = n + 1 /\ stack[1] = number
  <2> DEFINE r == [k \in 1 .. n |-> k]
             q == <<number>>
  <2>1. r \in [1 .. n -> Nat]  OBVIOUS
  <2>2. r \in Seq(Nat) /\ Len(r) = n
    <3> HIDE DEF r
    <3>1. QED  BY <1>4, <2>1, SeqDef, LenProperties
  <2>3. q \in Seq(Nat) /\ Len(q) = 1 /\ q[1] = number  BY <1>4
  <2> HIDE DEF r, q
  <2>4. /\ q \o r \in Seq(Nat) /\ Len(q \o r) = Len(q) + Len(r)
        /\ \A k \in 1 .. Len(q) : (q \o r)[k] = q[k]
    BY <2>2, <2>3, Joining
  <2>5. stack = q \o r  BY <1>1 DEF q, r
  <2>6. 1 \in 1 .. Len(q) /\ 1 + n = n + 1  BY <1>4, <2>3
  <2>7. QED  BY <2>2, <2>3, <2>4, <2>5, <2>6
<1>6. Stands(section, begin, Format, begin + Len(Format)) /\ fmt = begin
  BY <1>1, <1>2, <1>4, <1>5, EachStands DEF begin, Format
<1>7. end = begin + Len(Format)
  BY <1>2, <1>6, EndFound
<1>8. Settled  BY <1>2, <1>4, <1>5, <1>6, <1>7 DEF Settled
<1>9. QED  BY <1>6, <1>8

LEMMA BeginsWalking ==
  ASSUME Begin PROVE WalkInv
<1>1. fmt = begin  BY BeginsSettled
<1>2. Settled  BY BeginsSettled
<1>3. start = 0 /\ arg_i = 0 /\ out = <<>> /\ pc = "next"  BY DEF Begin
<1>4. Walking
  <2>1. begin \in Nat \ {0} /\ end \in Nat /\ begin <= end /\ argsc \in Nat  BY <1>2, SettledIs
  <2>2. arg_i \in 0 .. argsc /\ fmt \in begin .. end + 1  BY <1>1, <1>3, <2>1
  <2>3. QED  BY <1>3, <2>2 DEF Walking, Amid
<1>5. ValuesPrinted
  <2> DEFINE none == {k \in DOMAIN out : out[k] \in Numbers}
  <2>1. out \in Seq(Items) /\ Len(out) = 0 /\ DOMAIN out = {}  BY <1>3
  <2>2. none = {} /\ Those(out, Numbers) = Picked(out, none)  BY <2>1 DEF Those
  <2> HIDE DEF none
  <2>3. Cardinality(none) = 0  BY <2>2, FS_EmptySet
  <2>4. none \in SUBSET (1 .. Len(out))  BY <2>2
  <2>5. Picked(out, none) \in Seq(Items) /\ Len(Picked(out, none)) = 0
    <3>1. out \in Seq(Items)  BY <2>1
    <3>2. Picked(out, none) \in Seq(Items) /\ Len(Picked(out, none)) = Cardinality(none)
      BY ONLY <2>4, <3>1, PickedIs
    <3>3. QED  BY <2>3, <3>2
  <2>6. QED  BY <1>3, <2>1, <2>2, <2>5 DEF ValuesPrinted
<1>6. QED  BY <1>2, <1>4, <1>5 DEF WalkInv

(* An item more, which is no value or the value next in turn.                *)
LEMMA OneMoreOut ==
  ASSUME ValuesPrinted, arg_i \in Nat, NEW o \in Items,
         out' = Append(out, o), stack' = stack,
         \/ o.kind \notin {"int", "float"} /\ arg_i' = arg_i
         \/ o.kind \in {"int", "float"} /\ arg_i' = arg_i + 1 /\ o.value = stack[arg_i + 2]
  PROVE  ValuesPrinted'
<1> DEFINE N == Those(out, Numbers)
           q == <<o>>
           M == Those(out', Numbers)
<1>1. /\ out \in Seq(Items) /\ N \in Seq(Items) /\ Len(N) = arg_i
      /\ \A k \in 1 .. arg_i : N[k].value = stack[k + 1]
  BY DEF ValuesPrinted
<1>2. out' = out \o q  BY <1>1, AppendIsConcat
<1>3. q \in Seq(Items) /\ Len(q) = 1 /\ \A k \in 1 .. Len(q) : q[k] = o  OBVIOUS
<1>4. out' \in Seq(Items)  BY <1>1, Pushing
<1> HIDE DEF q
<1>5. CASE o.kind \notin {"int", "float"} /\ arg_i' = arg_i
  <2>1. o \notin Numbers  BY <1>5 DEF Numbers
  <2>2. \A k \in 1 .. Len(q) : q[k] \notin Numbers  BY <1>3, <2>1
  <2>3. Those(out \o q, Numbers) = N
    <3>1. out \in Seq(Items) /\ q \in Seq(Items)  BY <1>1, <1>3
    <3>2. QED  BY ONLY <2>2, <3>1, ThoseMore
  <2>4. M = N  BY <1>2, <2>3
  <2> HIDE DEF N, M
  <2>5. QED  BY <1>1, <1>4, <1>5, <2>4 DEF ValuesPrinted, M
<1>6. CASE o.kind \in {"int", "float"} /\ arg_i' = arg_i + 1 /\ o.value = stack[arg_i + 2]
  <2>1. o \in Numbers  BY <1>6 DEF Numbers
  <2>2. \A k \in 1 .. Len(q) : q[k] \in Numbers  BY <1>3, <2>1
  <2>3. Those(out \o q, Numbers) = N \o q
    <3>1. out \in Seq(Items) /\ q \in Seq(Items)  BY <1>1, <1>3
    <3>2. QED  BY ONLY <2>2, <3>1, ThoseMore
  <2>4. M = N \o q  BY <1>2, <2>3
  <2>5. M = Append(N, o)
    <3> HIDE DEF M, N
    <3>1. Append(N, o) = N \o <<o>>  BY <1>1, AppendIsConcat
    <3>2. QED  BY <2>4, <3>1 DEF q
  <2> DEFINE i == arg_i
             j == i + 1
  <2> HIDE DEF N, M
  <2>6. M \in Seq(Items) /\ Len(M) = j /\ (\A k \in 1 .. i : M[k] = N[k]) /\ M[j] = o
    BY <1>1, <2>5, Pushing
  <2>7. i \in Nat /\ arg_i' = j /\ arg_i + 2 = j + 1  BY <1>6
  <2> HIDE DEF j
  <2>8. \A k \in 1 .. j : M[k].value = stack[k + 1]
    <3>1. \A k \in 1 .. j : k \in 1 .. i \/ k = j  BY <2>7 DEF j
    <3>2. M[j].value = stack[j + 1]  BY <1>6, <2>6, <2>7
    <3>3. QED  BY <1>1, <2>6, <3>1, <3>2
  <2>9. M \in Seq(Items) /\ Len(M) = arg_i' /\ \A k \in 1 .. arg_i' : M[k].value = stack'[k + 1]
    BY <2>6, <2>7, <2>8
  <2>10. QED  BY <1>4, <2>9 DEF ValuesPrinted, M
<1>7. QED  BY <1>5, <1>6

LEMMA StopWalks ==
  ASSUME WalkInv, Stop, Fixed  PROVE Walking' /\ ValuesPrinted'
<1>1. pc = "next" /\ pc' = "done" /\ fmt' = fmt /\ start' = start /\ arg_i' = arg_i /\ out' = out
  BY DEF Stop
<1>2. begin' = begin /\ end' = end /\ argsc' = argsc /\ stack' = stack  BY FixedIs
<1>3. Walking'  BY <1>1, <1>2 DEF WalkInv, Walking, Amid
<1>4. ValuesPrinted'  BY <1>1, <1>2 DEF WalkInv, ValuesPrinted
<1>5. QED  BY <1>3, <1>4

(* A character and nothing else is an item.                                 *)
Shown(ch) == [kind |-> "char", text |-> <<ch>>, value |-> 0]

LEMMA ShownIs ==
  ASSUME NEW ch \in Chars
  PROVE  /\ Shown(ch) \in Items /\ Shown(ch).kind = "char" /\ Shown(ch).text = <<ch>>
         /\ Shown(ch).kind \notin {"int", "float"}
<1>1. <<ch>> \in Seq(Chars)  OBVIOUS
<1>2. QED  BY <1>1 DEF Shown, Items

LEMMA LiteralIs ==
  ASSUME WalkInv, Literal, Fixed
  PROVE  /\ pc = "next" /\ pc' = "next" /\ fmt \in begin .. end - 1 /\ Char = section[fmt]
         /\ Char \in Chars /\ Char # "%" /\ fmt' = fmt + 1 /\ out' = Append(out, Shown(Char))
         /\ start' = start /\ arg_i' = arg_i
<1>1. /\ pc = "next" /\ pc' = pc /\ fmt < end /\ Char # "%" /\ fmt' = fmt + 1
      /\ out' = Append(out, Shown(Char)) /\ start' = start /\ arg_i' = arg_i
  BY DEF Literal, More, Shown
<1>2. begin \in Nat \ {0} /\ end \in Nat /\ Settled  BY SettledIs DEF WalkInv
<1>3. fmt \in begin .. end - 1  BY <1>1, <1>2 DEF WalkInv, Walking
<1>4. fmt \in begin .. end  BY <1>2, <1>3
<1>5. Char = section[fmt]  BY <1>2, <1>4, CharIs
<1>6. Char \in Chars  BY <1>2, <1>3, <1>5, Reads
<1>7. QED  BY <1>1, <1>3, <1>5, <1>6

LEMMA LiteralWalks ==
  ASSUME WalkInv, Literal, Fixed  PROVE Walking' /\ ValuesPrinted'
<1>1. /\ pc' = "next" /\ fmt \in begin .. end - 1 /\ fmt' = fmt + 1
      /\ Char \in Chars /\ out' = Append(out, Shown(Char)) /\ arg_i' = arg_i
  BY LiteralIs
<1>2. begin' = begin /\ end' = end /\ argsc' = argsc /\ stack' = stack  BY FixedIs
<1>3. begin \in Nat \ {0} /\ end \in Nat /\ argsc \in Nat /\ arg_i \in 0 .. argsc
  BY SettledIs DEF WalkInv, Walking
<1>4. fmt' \in begin' .. end' + 1  BY <1>1, <1>2, <1>3
<1>5. Walking'  BY <1>1, <1>2, <1>3, <1>4 DEF Walking, Amid
<1>6. Shown(Char) \in Items /\ Shown(Char).kind \notin {"int", "float"}  BY <1>1, ShownIs
<1>7. arg_i \in Nat  BY <1>3
<1> DEFINE o == Shown(Char)
<1> HIDE DEF o
<1>8. o \in Items /\ o.kind \notin {"int", "float"} /\ out' = Append(out, o)  BY <1>1, <1>6 DEF o
<1>9. ValuesPrinted'  BY <1>1, <1>2, <1>7, <1>8, OneMoreOut DEF WalkInv
<1>10. QED  BY <1>5, <1>9

LEMMA PercentIs ==
  ASSUME WalkInv, Percent, Fixed
  PROVE  /\ pc = "next" /\ pc' = "width" /\ fmt \in begin .. end - 1 /\ section[fmt] = "%"
         /\ start' = fmt /\ fmt' = fmt + 1 /\ arg_i' = arg_i
         /\ \/ section[fmt + 1] = "%" /\ "%" \in Chars /\ out' = Append(out, Shown("%"))
            \/ section[fmt + 1] # "%" /\ out' = out
<1>1. /\ pc = "next" /\ pc' = "width" /\ fmt < end /\ Char = "%" /\ start' = fmt /\ fmt' = fmt + 1
      /\ arg_i' = arg_i
      /\ out' = IF section[fmt + 1] = "%" THEN Append(out, Shown("%")) ELSE out
  BY DEF Percent, Escape, More, Shown
<1>2. begin \in Nat \ {0} /\ end \in Nat /\ Settled  BY SettledIs DEF WalkInv
<1>3. fmt \in begin .. end - 1  BY <1>1, <1>2 DEF WalkInv, Walking
<1>4. fmt \in begin .. end  BY <1>2, <1>3
<1>5. section[fmt] = "%"  BY <1>1, <1>2, <1>4, CharIs
<1>6. "%" \in Chars  BY <1>2, <1>3, <1>5, Reads
<1>7. QED  BY <1>1, <1>3, <1>5, <1>6

LEMMA PercentWalks ==
  ASSUME WalkInv, Percent, Fixed  PROVE Walking' /\ ValuesPrinted'
<1>1. /\ pc' = "width" /\ fmt \in begin .. end - 1 /\ section[fmt] = "%"
      /\ start' = fmt /\ fmt' = fmt + 1 /\ arg_i' = arg_i
  BY PercentIs
<1>2. begin' = begin /\ end' = end /\ argsc' = argsc /\ stack' = stack /\ section' = section
  BY FixedIs
<1>3. begin \in Nat \ {0} /\ end \in Nat /\ argsc \in Nat /\ arg_i \in 0 .. argsc
  BY SettledIs DEF WalkInv, Walking
<1>4. fmt' \in begin' .. end' + 1 /\ fmt' <= end' /\ start' \in begin' .. fmt' - 1
  BY <1>1, <1>2, <1>3
<1>5. Within(section, start, fmt)'
  <2>1. start' + 1 .. fmt' - 1 = {}  BY <1>1, <1>3
  <2>2. QED  BY <2>1 DEF Within
<1>6. Walking'  BY <1>1, <1>2, <1>3, <1>4, <1>5 DEF Walking, Amid
<1>7. ValuesPrinted'
  <2>1. CASE "%" \in Chars /\ out' = Append(out, Shown("%"))
    <3> DEFINE o == Shown("%")
    <3>1. o \in Items /\ o.kind \notin {"int", "float"}  BY <2>1, ShownIs
    <3> HIDE DEF o
    <3>2. out' = Append(out, o) /\ arg_i \in Nat  BY <1>3, <2>1 DEF o
    <3>3. QED  BY <1>1, <1>2, <3>1, <3>2, OneMoreOut DEF WalkInv
  <2>2. CASE out' = out
    <3>1. QED  BY <1>1, <1>2, <2>2 DEF WalkInv, ValuesPrinted
  <2>3. QED  BY <2>1, <2>2, PercentIs
<1>8. QED  BY <1>6, <1>7

(* Between a percent and its letter.                                        *)
LEMMA AmidIs ==
  ASSUME WalkInv, pc \in {"width", "precision"}
  PROVE  /\ begin \in Nat \ {0} /\ end \in Nat /\ argsc \in Nat /\ arg_i \in 0 .. argsc
         /\ fmt \in begin .. end /\ start \in begin .. fmt - 1
         /\ start \in Nat /\ fmt \in Nat /\ start < fmt
         /\ section[start] = "%" /\ Within(section, start, fmt)
         /\ Char = section[fmt] /\ (Char # Nul => fmt \in begin .. end - 1)
         /\ pc = "precision" => \E d \in start + 1 .. fmt - 1 : section[d] = "."
<1>1. begin \in Nat \ {0} /\ end \in Nat /\ argsc \in Nat /\ arg_i \in 0 .. argsc /\ Settled
  BY SettledIs DEF WalkInv, Walking
<1>2. /\ fmt \in begin .. end + 1 /\ fmt <= end /\ start \in begin .. fmt - 1
      /\ section[start] = "%" /\ Within(section, start, fmt)
      /\ pc = "precision" => \E d \in start + 1 .. fmt - 1 : section[d] = "."
  BY DEF WalkInv, Walking, Amid
<1>3. fmt \in begin .. end /\ start \in Nat /\ fmt \in Nat /\ start < fmt  BY <1>1, <1>2
<1>4. Char = section[fmt] /\ (Char # Nul => fmt \in begin .. end - 1)  BY <1>1, <1>3, CharIs
<1>5. QED  BY <1>1, <1>2, <1>3, <1>4

LEMMA FurtherWalks ==
  ASSUME WalkInv, Fixed, pc \in {"width", "precision"}, Char \in Digits \cup {"."},
         pc' \in {"width", "precision"}, pc' = "precision" => pc = "precision" \/ Char = ".",
         fmt' = fmt + 1, start' = start, arg_i' = arg_i, out' = out
  PROVE  Walking' /\ ValuesPrinted'
<1>1. /\ begin \in Nat \ {0} /\ end \in Nat /\ argsc \in Nat /\ arg_i \in 0 .. argsc
      /\ start \in begin .. fmt - 1 /\ start \in Nat /\ fmt \in Nat /\ start < fmt
      /\ section[start] = "%" /\ Within(section, start, fmt) /\ Char = section[fmt]
  BY AmidIs
<1>2. begin' = begin /\ end' = end /\ argsc' = argsc /\ stack' = stack /\ section' = section
  BY FixedIs
<1>3. fmt \in begin .. end - 1
  <2>1. Char # Nul  BY Signs
  <2>2. QED  BY <2>1, AmidIs
<1>4. fmt' \in begin' .. end' + 1 /\ fmt' <= end' /\ start' \in begin' .. fmt' - 1
  BY <1>1, <1>2, <1>3
<1>5. Within(section, start, fmt)'
  <2>1. \A k \in start + 1 .. fmt + 1 - 1 : k \in start + 1 .. fmt - 1 \/ k = fmt  BY <1>1
  <2>2. \A k \in start + 1 .. fmt + 1 - 1 : section[k] \in Digits \cup {"."}
    BY <1>1, <2>1 DEF Within
  <2>3. start' + 1 .. fmt' - 1 = start + 1 .. fmt + 1 - 1 /\ section' = section
    <3>1. start' = start /\ fmt' = fmt + 1 /\ fmt \in Nat /\ start \in Nat  BY <1>1
    <3>2. start' + 1 .. fmt' - 1 = start + 1 .. fmt + 1 - 1  BY ONLY <3>1
    <3>3. QED  BY <1>2, <3>2
  <2> DEFINE I == start + 1 .. fmt + 1 - 1
  <2>4. \A k \in start' + 1 .. fmt' - 1 : section'[k] \in Digits \cup {"."}
    <3> HIDE DEF I
    <3>1. start' + 1 .. fmt' - 1 = I  BY <2>3 DEF I
    <3>2. \A k \in I : section[k] \in Digits \cup {"."}  BY <2>2 DEF I
    <3>3. QED  BY ONLY <2>3, <3>1, <3>2
  <2>5. QED  BY <2>4 DEF Within
<1>6. pc' = "precision" => \E d \in start' + 1 .. fmt' - 1 : section'[d] = "."
  <2>1. SUFFICES ASSUME pc' = "precision"
                 PROVE  \E d \in start + 1 .. fmt + 1 - 1 : section[d] = "."
    <3> DEFINE I == start + 1 .. fmt + 1 - 1
    <3>1. start' + 1 .. fmt' - 1 = I /\ section' = section
      <4>1. start' = start /\ fmt' = fmt + 1 /\ fmt \in Nat /\ start \in Nat  BY <1>1
      <4>2. start' + 1 .. fmt' - 1 = start + 1 .. fmt + 1 - 1  BY ONLY <4>1
      <4>3. QED  BY <1>2, <4>2
    <3> HIDE DEF I
    <3>2. (\E d \in I : section[d] = ".") => \E d \in start' + 1 .. fmt' - 1 : section'[d] = "."
      BY ONLY <3>1
    <3>3. QED  BY <3>2 DEF I
  <2>2. CASE pc = "precision"
    <3>1. PICK d \in start + 1 .. fmt - 1 : section[d] = "."  BY <2>2, AmidIs
    <3>2. d \in start + 1 .. fmt + 1 - 1  BY <1>1
    <3>3. QED  BY <3>1, <3>2
  <2>3. CASE Char = "."
    <3>1. fmt \in start + 1 .. fmt + 1 - 1  BY <1>1
    <3>2. QED  BY <1>1, <2>3, <3>1
  <2>4. QED  BY <2>1, <2>2, <2>3
<1>7. Walking'  BY <1>1, <1>2, <1>4, <1>5, <1>6 DEF Walking, Amid
<1>8. ValuesPrinted'  BY <1>2 DEF WalkInv, ValuesPrinted
<1>9. QED  BY <1>7, <1>8

LEMMA SkipDigitIs ==
  ASSUME SkipDigit
  PROVE  /\ pc \in {"width", "precision"} /\ Char \in Digits \cup {"."} /\ pc' = pc
         /\ fmt' = fmt + 1 /\ start' = start /\ arg_i' = arg_i /\ out' = out
BY DEF SkipDigit, PastDigit

LEMMA DotIs ==
  ASSUME Dot
  PROVE  /\ pc = "width" /\ Char = "." /\ pc' = "precision"
         /\ fmt' = fmt + 1 /\ start' = start /\ arg_i' = arg_i /\ out' = out
BY DEF Dot

(* The value args() gives to the conversion.                                *)
LEMMA ArgumentIs ==
  ASSUME WalkInv, arg_i < argsc
  PROVE  Argument = stack[arg_i + 2] /\ Argument \in Nat
<1> DEFINE n == Len(stack)
           i == arg_i
<1>1. n \in Nat \ {0} /\ stack \in Seq(Nat) /\ argsc = n - 1 /\ i \in 0 .. argsc
  BY SettledIs DEF WalkInv, Settled, Walking
<1>2. Argument = stack[n - (argsc - (i + 1))]  BY DEF Argument, args
<1> DEFINE k == n - (argsc - (i + 1))
<1>3. k = i + 2 /\ k \in 1 .. n  BY <1>1
<1> HIDE DEF k
<1>4. stack[k] \in Nat  BY <1>1, <1>3, ElementOfSeq
<1>5. QED  BY <1>2, <1>3, <1>4 DEF k

Converted ==
  [kind  |-> IF Char \in IntConversions THEN "int" ELSE "float",
   text  |-> SubSeq(section, start, fmt), value |-> Argument]

LEMMA ConvertIs ==
  ASSUME WalkInv, Convert
  PROVE  /\ pc \in {"width", "precision"} /\ AtConversion
         /\ Char \in IntConversions \cup FloatConversions
         /\ fmt \in begin .. end - 1 /\ start \in begin .. fmt - 1 /\ start' = start
         /\ \/ /\ arg_i < argsc /\ fmt' = fmt + 1 /\ arg_i' = arg_i + 1 /\ pc' = "next"
               /\ out' = Append(out, Converted) /\ Converted \in Items
               /\ Converted.kind \in {"int", "float"} /\ Converted.value = stack[arg_i + 2]
               /\ Converted.text = SubSeq(section, start, fmt)
            \/ /\ arg_i = argsc /\ fmt' = fmt /\ arg_i' = arg_i /\ pc' = "panic" /\ out' = out
<1>1. /\ AtConversion /\ Char \in IntConversions \cup FloatConversions /\ start' = start
      /\ \/ /\ arg_i < argsc /\ fmt' = fmt + 1 /\ arg_i' = arg_i + 1 /\ pc' = "next"
            /\ out' = Append(out, Converted)
         \/ /\ ~(arg_i < argsc) /\ fmt' = fmt /\ arg_i' = arg_i /\ pc' = "panic" /\ out' = out
  BY DEF Convert, Converted
<1>2. pc \in {"width", "precision"}  BY <1>1 DEF AtConversion
<1>3. fmt \in begin .. end - 1 /\ start \in begin .. fmt - 1 /\ arg_i \in 0 .. argsc
      /\ argsc \in Nat /\ begin \in Nat \ {0} /\ end \in Nat
  <2>1. Char # Nul  BY <1>1, Signs
  <2>2. QED  BY <1>2, <2>1, AmidIs
<1>4. CASE arg_i < argsc
  <2>1. Argument = stack[arg_i + 2] /\ Argument \in Nat  BY <1>4, ArgumentIs
  <2>2. start \in begin .. end - 1 /\ fmt \in start .. end - 1  BY <1>3
  <2>3. SubSeq(section, start, fmt) \in Seq(Chars)  BY <2>2, PieceOfFormat DEF WalkInv
  <2>4. /\ Converted.kind \in {"int", "float"} /\ Converted.value = Argument
        /\ Converted.text = SubSeq(section, start, fmt) /\ Converted \in Items
    BY <2>1, <2>3 DEF Converted, Items
  <2>5. QED  BY <1>1, <1>2, <1>3, <1>4, <2>1, <2>4
<1>5. CASE ~(arg_i < argsc)
  <2>1. arg_i = argsc  BY <1>3, <1>5
  <2>2. QED  BY <1>1, <1>2, <1>3, <1>5, <2>1
<1>6. QED  BY <1>4, <1>5

LEMMA ConvertWalks ==
  ASSUME WalkInv, Convert, Fixed  PROVE Walking' /\ ValuesPrinted'
<1>1. /\ begin \in Nat \ {0} /\ end \in Nat /\ argsc \in Nat /\ arg_i \in 0 .. argsc
      /\ fmt \in begin .. end - 1 /\ start \in begin .. fmt - 1 /\ start' = start
      /\ section[start] = "%" /\ Within(section, start, fmt)
  BY ConvertIs, AmidIs
<1>2. begin' = begin /\ end' = end /\ argsc' = argsc /\ stack' = stack /\ section' = section
  BY FixedIs
<1>3. CASE /\ arg_i < argsc /\ fmt' = fmt + 1 /\ arg_i' = arg_i + 1 /\ pc' = "next"
           /\ out' = Append(out, Converted) /\ Converted \in Items
           /\ Converted.kind \in {"int", "float"} /\ Converted.value = stack[arg_i + 2]
  <2>1. fmt' \in begin' .. end' + 1 /\ arg_i' \in 0 .. argsc' /\ arg_i \in Nat
    BY <1>1, <1>2, <1>3
  <2>2. Walking'  BY <1>3, <2>1 DEF Walking, Amid
  <2>3. ValuesPrinted'  BY <1>2, <1>3, <2>1, OneMoreOut DEF WalkInv
  <2>4. QED  BY <2>2, <2>3
<1>4. CASE arg_i = argsc /\ fmt' = fmt /\ arg_i' = arg_i /\ pc' = "panic" /\ out' = out
  <2>1. fmt' \in begin' .. end' + 1 /\ fmt' <= end' /\ start' \in begin' .. fmt' - 1
    BY <1>1, <1>2, <1>4
  <2>2. Within(section, start, fmt)'  BY <1>1, <1>2, <1>4 DEF Within
  <2>3. Walking'  BY <1>1, <1>2, <1>4, <2>1, <2>2 DEF Walking, Amid
  <2>4. ValuesPrinted'  BY <1>2, <1>4 DEF WalkInv, ValuesPrinted
  <2>5. QED  BY <2>3, <2>4
<1>5. QED  BY <1>3, <1>4, ConvertIs

LEMMA OofIs ==
  ASSUME Oof
  PROVE  LET o == [kind |-> "oof", text |-> <<>>, value |-> 0]
         IN  /\ AtConversion /\ pc \in {"width", "precision"}
             /\ Char \notin IntConversions \cup FloatConversions
             /\ fmt' = fmt + 1 /\ pc' = "next" /\ start' = start /\ arg_i' = arg_i
             /\ out' = Append(out, o) /\ o \in Items /\ o.kind \notin {"int", "float"}
<1>1. <<>> \in Seq(Chars)  OBVIOUS
<1>2. QED  BY <1>1 DEF Oof, AtConversion, Items

LEMMA OofWalks ==
  ASSUME WalkInv, Oof, Fixed  PROVE Walking' /\ ValuesPrinted'
<1> DEFINE o == [kind |-> "oof", text |-> <<>>, value |-> 0]
<1>1. /\ pc \in {"width", "precision"} /\ fmt' = fmt + 1 /\ pc' = "next" /\ arg_i' = arg_i
      /\ out' = Append(out, o) /\ o \in Items /\ o.kind \notin {"int", "float"}
  BY OofIs
<1> HIDE DEF o
<1>2. /\ begin \in Nat \ {0} /\ end \in Nat /\ argsc \in Nat /\ arg_i \in 0 .. argsc
      /\ fmt \in begin .. end
  BY <1>1, AmidIs
<1>3. begin' = begin /\ end' = end /\ argsc' = argsc /\ stack' = stack  BY FixedIs
<1>4. fmt' \in begin' .. end' + 1 /\ arg_i \in Nat  BY <1>1, <1>2, <1>3
<1>5. Walking'  BY <1>1, <1>2, <1>3, <1>4 DEF Walking, Amid
<1>6. ValuesPrinted'  BY <1>1, <1>3, <1>4, OneMoreOut DEF WalkInv
<1>7. QED  BY <1>5, <1>6

LEMMA StepWalks ==
  ASSUME WalkInv, Step  PROVE WalkInv'
<1>1. Fixed  BY StepFixes
<1>2. Settled'  BY <1>1, FixedIs DEF WalkInv
<1>3. Walking' /\ ValuesPrinted'
  <2>1. CASE Stop       BY <1>1, <2>1, StopWalks
  <2>2. CASE Literal    BY <1>1, <2>2, LiteralWalks
  <2>3. CASE Percent    BY <1>1, <2>3, PercentWalks
  <2>4. CASE SkipDigit
    <3>1. /\ pc \in {"width", "precision"} /\ Char \in Digits \cup {"."} /\ pc' = pc
          /\ fmt' = fmt + 1 /\ start' = start /\ arg_i' = arg_i /\ out' = out
      BY <2>4, SkipDigitIs
    <3>2. QED  BY <1>1, <3>1, FurtherWalks
  <2>5. CASE Dot
    <3>1. /\ pc = "width" /\ Char = "." /\ pc' = "precision"
          /\ fmt' = fmt + 1 /\ start' = start /\ arg_i' = arg_i /\ out' = out
      BY <2>5, DotIs
    <3>2. QED  BY <1>1, <3>1, FurtherWalks
  <2>6. CASE Convert    BY <1>1, <2>6, ConvertWalks
  <2>7. CASE Oof        BY <1>1, <2>7, OofWalks
  <2>8. QED  BY <2>1, <2>2, <2>3, <2>4, <2>5, <2>6, <2>7 DEF Step
<1>4. QED  BY <1>2, <1>3 DEF WalkInv
-----------------------------------------------------------------------------
(* The walk over a format that is supported.                                *)

(* The first character that is not printed yet.                             *)
Here == IF Amid THEN start ELSE fmt

NoError(items) == \A k \in 1 .. Len(items) : items[k].kind # "oof"

(* What is printed is the format so far, with its conversions so far.        *)
SoFar(items, n, i) ==
  /\ NoError(items) /\ FlattenSeq(Texts(items)) = SubSeq(Format, 1, n)
  /\ Cardinality(Begun(Format, n)) = i

FormatInv ==
  Supported(Format) =>
    /\ Here <= end /\ (pc = "done" => fmt = end)
    /\ SoFar(out, Here - begin, arg_i)

(* The walk stands at the same character of the section and of the format.   *)
LEMMA WithinFormat ==
  ASSUME Settled, NEW x \in begin .. end - 1, NEW y \in x + 1 .. end, Within(section, x, y)
  PROVE  /\ x - begin + 1 \in 1 .. Len(Format)
         /\ y - begin + 1 \in x - begin + 1 + 1 .. Len(Format) + 1
         /\ Within(Format, x - begin + 1, y - begin + 1)
<1> DEFINE a == x - begin + 1
           b == y - begin + 1
<1>1. begin \in Nat \ {0} /\ end \in Nat /\ Len(Format) \in Nat /\ end = begin + Len(Format)
  BY SettledIs
<1>2. a \in 1 .. Len(Format) /\ b \in a + 1 .. Len(Format) + 1  BY <1>1
<1>3. ASSUME NEW k \in a + 1 .. b - 1  PROVE Format[k] \in Digits \cup {"."}
  <2> DEFINE j == k + begin - 1
  <2>1. j \in x + 1 .. y - 1 /\ j \in begin .. end - 1 /\ j - begin + 1 = k  BY <1>1
  <2> HIDE DEF j, a, b
  <2>2. section[j] = Format[j - begin + 1]  BY <2>1, Reads
  <2>3. section[j] \in Digits \cup {"."}  BY <2>1 DEF Within
  <2>4. QED  BY <2>1, <2>2, <2>3
<1>4. Within(Format, a, b)
  <2> HIDE DEF a, b
  <2>1. QED  BY <1>3 DEF Within
<1>5. QED  BY <1>2, <1>4

(* In a supported format the walk finds the letter of the conversion.        *)
LEMMA AtLetter ==
  ASSUME WalkInv, Supported(Format), AtConversion
  PROVE  LET a == start - begin + 1
             b == fmt - begin + 1
         IN  /\ fmt \in begin .. end - 1 /\ start \in begin .. fmt - 1
             /\ a \in 1 .. Len(Format) /\ b \in a + 1 .. Len(Format)
             /\ <<a, b>> \in Conversions(Format)
             /\ \A c \in Conversions(Format) : c[1] = a => c[2] = b
             /\ Char \in Letters
<1> DEFINE f == Format
           a == start - begin + 1
           b == fmt - begin + 1
<1>1. pc \in {"width", "precision"} /\ Char \notin Digits /\ (pc = "width" => Char # ".")
  BY DEF AtConversion
<1>2. /\ begin \in Nat \ {0} /\ end \in Nat /\ fmt \in begin .. end /\ start \in begin .. fmt - 1
      /\ section[start] = "%" /\ Within(section, start, fmt) /\ Char = section[fmt]
      /\ pc = "precision" => \E d \in start + 1 .. fmt - 1 : section[d] = "."
  BY <1>1, AmidIs
<1>3. Settled /\ f \in Seq(Chars) /\ Len(f) \in Nat /\ end = begin + Len(f)  BY SettledIs DEF WalkInv
<1>4. start \in begin .. end - 1 /\ fmt \in start + 1 .. end  BY <1>2
<1>5. a \in 1 .. Len(f) /\ b \in a + 1 .. Len(f) + 1 /\ Within(f, a, b)
  BY <1>2, <1>3, <1>4, WithinFormat
<1>6. f[a] = "%"  BY <1>2, <1>3, <1>4, Reads
<1>7. b <= Len(f) => fmt \in begin .. end - 1 /\ f[b] = Char
  <2>1. SUFFICES ASSUME b <= Len(f)  PROVE fmt \in begin .. end - 1 /\ f[b] = Char
    OBVIOUS
  <2>2. fmt \in begin .. end - 1  BY <1>2, <1>3, <2>1
  <2>3. QED  BY <1>2, <1>3, <2>2, Reads
<1>8. ASSUME b <= Len(f), f[b] = "."  PROVE \E d \in a + 1 .. b - 1 : f[d] = "."
  <2>1. pc = "precision"  BY <1>1, <1>7, <1>8
  <2>2. PICK e \in start + 1 .. fmt - 1 : section[e] = "."  BY <1>2, <2>1
  <2> DEFINE d == e - begin + 1
  <2>3. e \in begin .. end - 1 /\ d \in a + 1 .. b - 1  BY <1>2
  <2>4. f[d] = section[e]  BY <1>3, <2>3, Reads
  <2> HIDE DEF d, a, b
  <2>5. QED  BY <2>2, <2>3, <2>4
<1> HIDE DEF a, b, f
<1>9. ASSUME NEW c \in Conversions(f), c[1] = a  PROVE c[2] = b
  <2>1. b \in c[1] + 1 .. Len(f) + 1 /\ Within(f, c[1], b)  BY <1>5, <1>9
  <2>2. b <= Len(f) => f[b] \notin Digits  BY <1>1, <1>7
  <2>3. b <= Len(f) /\ f[b] = "." => \E d \in c[1] + 1 .. b - 1 : f[d] = "."  BY <1>8, <1>9
  <2>4. QED  BY <1>3, <2>1, <2>2, <2>3, EndsHere
<1>10. PICK c \in Conversions(f) : c[1] = a
  <2>1. a \in DOMAIN f  BY <1>3, <1>5, LenProperties
  <2>2. QED  BY <1>6, <2>1 DEF Supported, f
<1>11. c = <<a, b>> /\ b \in a + 1 .. Len(f) /\ f[b] \in Letters
  <2>1. c = <<c[1], c[2]>> /\ c[2] \in c[1] + 1 .. Len(f) /\ f[c[2]] \in Letters
    BY <1>3, ConversionIs
  <2>2. c[2] = b  BY <1>9, <1>10
  <2>3. QED  BY <1>10, <2>1, <2>2
<1>12. <<a, b>> \in Conversions(f)  BY <1>11
<1>13. b <= Len(f)  BY <1>3, <1>5, <1>11
<1>14. QED  BY <1>2, <1>5, <1>7, <1>9, <1>11, <1>12, <1>13 DEF a, b, f

(* In a supported format no percent follows a percent.                       *)
LEMMA AfterPercent ==
  ASSUME Settled, Supported(Format), NEW k \in begin .. end - 1, section[k] = "%"
  PROVE  section[k + 1] # "%"
<1> DEFINE f == Format
           a == k - begin + 1
           j == k + 1
<1>1. /\ begin \in Nat \ {0} /\ end \in Nat /\ f \in Seq(Chars) /\ Len(f) \in Nat
      /\ end = begin + Len(f)
  BY SettledIs
<1>2. a \in 1 .. Len(f) /\ f[a] = "%"  BY Reads
<1>3. PICK c \in Conversions(f) : c[1] = a
  <2>1. a \in DOMAIN f  BY <1>1, <1>2, LenProperties
  <2> HIDE DEF a
  <2>2. QED  BY <1>2, <2>1 DEF Supported
<1>4. c[2] \in a + 1 .. Len(f) /\ f[c[2]] \in Letters /\ Within(f, a, c[2])
  <2>1. c[2] \in c[1] + 1 .. Len(f) /\ f[c[2]] \in Letters /\ Within(f, c[1], c[2])
    BY <1>1, ConversionIs
  <2>2. QED  BY <1>3, <2>1
<1>5. f[a + 1] # "%"
  <2> HIDE DEF a, f
  <2>1. a + 1 = c[2] \/ a + 1 \in a + 1 .. c[2] - 1  BY <1>1, <1>2, <1>4
  <2>2. QED  BY <1>4, <2>1, Signs DEF Within
<1>6. j \in begin .. end - 1 /\ j - begin + 1 = a + 1  BY <1>1, <1>4
<1> HIDE DEF j
<1>7. section[j] = f[j - begin + 1]  BY <1>6, Reads
<1>8. QED  BY <1>5, <1>6, <1>7 DEF j

LEMMA JoinPieces ==
  ASSUME NEW f \in Seq(Chars), NEW a \in 1 .. Len(f), NEW b \in a .. Len(f)
  PROVE  SubSeq(f, 1, a - 1) \o SubSeq(f, a, b) = SubSeq(f, 1, b)
<1>1. /\ 1 \in 1 .. Len(f) + 1 /\ a - 1 \in 1 - 1 .. Len(f) /\ b \in a - 1 .. Len(f)
      /\ a - 1 + 1 = a
  BY LenProperties
<1> DEFINE k == a - 1
<1>2. k + 1 = a /\ k \in 1 - 1 .. Len(f) /\ b \in k .. Len(f)  BY <1>1
<1> HIDE DEF k
<1>3. SubSeq(f, 1, k) \o SubSeq(f, k + 1, b) = SubSeq(f, 1, b)
  BY <1>1, <1>2, ConcatAdjacentSubSeq
<1>4. QED  BY <1>2, <1>3 DEF k

(* An item that is no error line and prints the characters from a to b.      *)
LEMMA FurtherSoFar ==
  ASSUME WalkInv, NEW o \in Items, o.kind # "oof",
         NEW a \in 1 .. Len(Format), NEW b \in a .. Len(Format), NEW i,
         o.text = SubSeq(Format, a, b), SoFar(out, a - 1, arg_i),
         Cardinality(Begun(Format, b)) = i
  PROVE  SoFar(Append(out, o), b, i)
<1> DEFINE u == Append(out, o)
           n == Len(out)
<1>1. out \in Seq(Items) /\ Format \in Seq(Chars)  BY SettledIs DEF WalkInv, ValuesPrinted
<1>2. FlattenSeq(Texts(u)) = FlattenSeq(Texts(out)) \o o.text  BY <1>1, TextsMore
<1>3. FlattenSeq(Texts(u)) = SubSeq(Format, 1, b)
  <2>1. FlattenSeq(Texts(out)) = SubSeq(Format, 1, a - 1)  BY DEF SoFar
  <2>2. SubSeq(Format, 1, a - 1) \o SubSeq(Format, a, b) = SubSeq(Format, 1, b)
    BY <1>1, JoinPieces
  <2> HIDE DEF u
  <2>3. QED  BY <1>2, <2>1, <2>2
<1>4. NoError(u)
  <2>1. Len(u) = n + 1 /\ (\A k \in 1 .. n : u[k] = out[k]) /\ u[n + 1] = o /\ n \in Nat
    BY <1>1, Pushing
  <2>2. \A k \in 1 .. n : out[k].kind # "oof"  BY DEF SoFar, NoError
  <2> HIDE DEF u, n
  <2>3. \A k \in 1 .. n + 1 : k \in 1 .. n \/ k = n + 1  BY <2>1
  <2>4. QED  BY <2>1, <2>2, <2>3 DEF NoError
<1> HIDE DEF u
<1>5. SoFar(u, b, i)  BY <1>3, <1>4 DEF SoFar
<1>6. QED  BY <1>5 DEF u

(* SoFar speaks of nothing but the format.                                  *)
LEMMA SoFarLater ==
  ASSUME Fixed, NEW s, NEW n, NEW i, SoFar(s, n, i)
  PROVE  s = out' /\ n = Here' - begin' /\ i = arg_i' => SoFar(out, Here - begin, arg_i)'
<1>1. Format' = Format  BY FixedIs
<1>2. SUFFICES ASSUME s = out', n = Here' - begin', i = arg_i'
               PROVE  SoFar(out, Here - begin, arg_i)'
  OBVIOUS
<1>3. NoError(s) /\ FlattenSeq(Texts(s)) = SubSeq(Format, 1, n) /\ Cardinality(Begun(Format, n)) = i
  BY DEF SoFar
<1>4. NoError(out') /\ FlattenSeq(Texts(out')) = SubSeq(Format', 1, Here' - begin')
      /\ Cardinality(Begun(Format', Here' - begin')) = arg_i'
  BY <1>1, <1>2, <1>3
<1>5. QED  BY <1>4 DEF SoFar

(* A step that prints nothing and stays within a conversion, or ends.        *)
LEMMA SameSoFar ==
  ASSUME WalkInv, FormatInv, Fixed, Supported(Format), Here' = Here, out' = out, arg_i' = arg_i
  PROVE  Here' <= end' /\ SoFar(out, Here - begin, arg_i)'
<1>1. begin' = begin /\ end' = end  BY FixedIs
<1>2. Here <= end /\ SoFar(out, Here - begin, arg_i)  BY DEF FormatInv
<1>3. SoFar(out, Here - begin, arg_i)'
  <2> DEFINE n == Here - begin
             i == arg_i
             s == out
  <2>1. s = out' /\ n = Here' - begin' /\ i = arg_i' /\ SoFar(s, n, i)  BY <1>1, <1>2
  <2> HIDE DEF n, i, s
  <2>2. QED  BY <2>1, SoFarLater
<1>4. QED  BY <1>1, <1>2, <1>3

LEMMA StopInFormat ==
  ASSUME WalkInv, FormatInv, Stop, Fixed, Supported(Format)
  PROVE  Here' <= end' /\ (pc' = "done" => fmt' = end') /\ SoFar(out, Here - begin, arg_i)'
<1>1. /\ pc = "next" /\ ~(fmt < end) /\ pc' = "done" /\ fmt' = fmt /\ arg_i' = arg_i /\ out' = out
  BY DEF Stop, More
<1>2. Here = fmt /\ Here' = fmt'  BY <1>1 DEF Here, Amid
<1>3. fmt \in Int /\ end \in Nat /\ end' = end
  <2>1. begin \in Nat \ {0} /\ end \in Nat /\ fmt \in begin .. end + 1 /\ end' = end
    BY SettledIs, FixedIs DEF WalkInv, Walking
  <2>2. QED  BY <2>1
<1>4. Here <= end  BY DEF FormatInv
<1>5. fmt' = end'  BY <1>1, <1>2, <1>3, <1>4
<1>6. QED  BY <1>1, <1>2, <1>5, SameSoFar

LEMMA LiteralInFormat ==
  ASSUME WalkInv, FormatInv, Literal, Fixed, Supported(Format)
  PROVE  Here' <= end' /\ pc' # "done" /\ SoFar(out, Here - begin, arg_i)'
<1> DEFINE a == fmt - begin + 1
           o == Shown(Char)
<1>1. /\ pc = "next" /\ pc' = "next" /\ fmt \in begin .. end - 1 /\ Char = section[fmt]
      /\ Char \in Chars /\ Char # "%" /\ fmt' = fmt + 1 /\ out' = Append(out, o)
      /\ arg_i' = arg_i
  BY LiteralIs
<1>2. Here = fmt /\ Here' = fmt'  BY <1>1 DEF Here, Amid
<1>3. begin' = begin /\ end' = end /\ Format' = Format  BY FixedIs
<1>4. /\ begin \in Nat \ {0} /\ end \in Nat /\ Format \in Seq(Chars) /\ Len(Format) \in Nat /\ Settled
  BY SettledIs DEF WalkInv
<1>5. /\ a \in 1 .. Len(Format) /\ section[fmt] = Format[a]
      /\ SubSeq(section, fmt, fmt) = SubSeq(Format, a, a)
  <2>1. fmt \in fmt .. end - 1  BY <1>1, <1>4
  <2>2. QED  BY <1>1, <1>4, <2>1, Reads, PieceOfFormat
<1>6. Here' <= end' /\ a = Here' - begin' /\ a - 1 = Here - begin
  BY <1>1, <1>2, <1>3, <1>4
<1>7. SoFar(out, a - 1, arg_i)  BY <1>6 DEF FormatInv
<1>8. o \in Items /\ o.kind # "oof" /\ o.text = SubSeq(Format, a, a)
  <2>1. o \in Items /\ o.kind = "char" /\ o.text = <<Char>>  BY <1>1, ShownIs
  <2>2. Format[a] = Char  BY <1>1, <1>5
  <2> DEFINE v == SubSeq(Format, a, a)
             q == <<Char>>
  <2>3. v \in Seq(Chars) /\ Len(v) = 1 /\ v[1] = Char
    <3> HIDE DEF a
    <3>1. a \in Int /\ a <= a /\ \A j \in a .. a : Format[j] \in Chars
      <4>1. \A j \in a .. a : j = a  BY <1>5
      <4>2. QED  BY <1>1, <1>5, <2>2, <4>1
    <3>2. /\ v \in Seq(Chars) /\ Len(v) = a - a + 1
          /\ \A k \in 1 .. a - a + 1 : v[k] = Format[a + k - 1]
      BY <3>1, SubSeqProperties
    <3>3. a - a + 1 = 1 /\ a + 1 - 1 = a /\ 1 \in 1 .. 1  BY <3>1
    <3> HIDE DEF v
    <3>4. Len(v) = 1 /\ v[1] = Format[a]  BY <3>2, <3>3
    <3>5. QED  BY <2>2, <3>2, <3>4
  <2>4. q \in Seq(Chars) /\ Len(q) = 1 /\ q[1] = Char  BY <1>1
  <2> HIDE DEF v, q
  <2>5. \A k \in 1 .. 1 : v[k] = q[k]
    <3>1. \A k \in 1 .. 1 : k = 1  OBVIOUS
    <3>2. QED  BY <2>3, <2>4, <3>1
  <2>6. v = q  BY <2>3, <2>4, <2>5, SameElements
  <2>7. QED  BY <2>1, <2>6 DEF v, q
<1>9. Cardinality(Begun(Format, a)) = arg_i
  <2> DEFINE n == a - 1
  <2> HIDE DEF a
  <2>1. n \in 0 .. Len(Format) /\ n + 1 = a
    <3>1. a \in Int /\ 1 <= a /\ a <= Len(Format)  BY <1>4, <1>5
    <3>2. QED  BY ONLY <3>1, <1>4
  <2> HIDE DEF n
  <2>2. Format[a] # "%"  BY <1>1, <1>5
  <2>3. Begun(Format, n + 1) = Begun(Format, n)  BY <1>4, <2>1, <2>2, NoMoreBegun
  <2>4. QED  BY <1>7, <2>1, <2>3 DEF SoFar, n
<1>10. SoFar(Append(out, o), a, arg_i)
  <2> HIDE DEF a, o
  <2>1. a \in a .. Len(Format)  BY <1>5
  <2>2. QED  BY <1>5, <1>7, <1>8, <1>9, <2>1, FurtherSoFar
<1> HIDE DEF a, o
<1>11. SoFar(out, Here - begin, arg_i)'
  <2> DEFINE s == Append(out, o)
             i == arg_i
  <2>1. s = out' /\ a = Here' - begin' /\ i = arg_i' /\ SoFar(s, a, i)
    BY <1>1, <1>6, <1>10
  <2> HIDE DEF s, i
  <2>2. QED  BY <2>1, SoFarLater
<1>12. QED  BY <1>1, <1>6, <1>11

LEMMA PercentInFormat ==
  ASSUME WalkInv, FormatInv, Percent, Fixed, Supported(Format)
  PROVE  Here' <= end' /\ pc' # "done" /\ SoFar(out, Here - begin, arg_i)'
<1>1. /\ pc = "next" /\ pc' = "width" /\ fmt \in begin .. end - 1 /\ section[fmt] = "%"
      /\ start' = fmt /\ arg_i' = arg_i
      /\ section[fmt + 1] = "%" \/ out' = out
  BY PercentIs
<1>2. Here' = Here  BY <1>1 DEF Here, Amid
<1>3. section[fmt + 1] # "%"  BY <1>1, AfterPercent DEF WalkInv
<1>4. QED  BY <1>1, <1>2, <1>3, SameSoFar

LEMMA ConvertInFormat ==
  ASSUME WalkInv, FormatInv, Convert, Fixed, Supported(Format)
  PROVE  Here' <= end' /\ pc' # "done" /\ SoFar(out, Here - begin, arg_i)'
<1> DEFINE a == start - begin + 1
           b == fmt - begin + 1
           o == Converted
<1>1. /\ pc \in {"width", "precision"} /\ AtConversion
      /\ fmt \in begin .. end - 1 /\ start \in begin .. fmt - 1 /\ start' = start
      /\ \/ /\ fmt' = fmt + 1 /\ arg_i' = arg_i + 1 /\ pc' = "next" /\ out' = Append(out, o)
            /\ o \in Items /\ o.kind \in {"int", "float"} /\ o.text = SubSeq(section, start, fmt)
         \/ fmt' = fmt /\ arg_i' = arg_i /\ pc' = "panic" /\ out' = out
  BY ConvertIs
<1>2. begin' = begin /\ end' = end /\ Format' = Format  BY FixedIs
<1>3. Here = start  BY <1>1 DEF Here, Amid
<1>4. CASE fmt' = fmt /\ arg_i' = arg_i /\ pc' = "panic" /\ out' = out
  <2>1. Here' = Here  BY <1>1, <1>3, <1>4 DEF Here, Amid
  <2>2. QED  BY <1>4, <2>1, SameSoFar
<1>5. CASE /\ fmt' = fmt + 1 /\ arg_i' = arg_i + 1 /\ pc' = "next" /\ out' = Append(out, o)
           /\ o \in Items /\ o.kind \in {"int", "float"} /\ o.text = SubSeq(section, start, fmt)
  <2>1. /\ a \in 1 .. Len(Format) /\ b \in a + 1 .. Len(Format) /\ <<a, b>> \in Conversions(Format)
        /\ \A c \in Conversions(Format) : c[1] = a => c[2] = b
    BY <1>1, AtLetter
  <2>2. /\ begin \in Nat \ {0} /\ end \in Nat /\ Format \in Seq(Chars) /\ Settled /\ Len(Format) \in Nat
    BY SettledIs DEF WalkInv
  <2>3. Here' = fmt + 1  BY <1>5 DEF Here, Amid
  <2>4. Here' <= end' /\ b = Here' - begin' /\ a - 1 = Here - begin /\ b \in a .. Len(Format)
    BY <1>1, <1>2, <1>3, <2>1, <2>2, <2>3
  <2>5. SoFar(out, a - 1, arg_i)  BY <2>4 DEF FormatInv
  <2>6. o.text = SubSeq(Format, a, b)
    <3>1. start \in begin .. end - 1 /\ fmt \in start .. end - 1  BY <1>1, <2>2
    <3>2. QED  BY <1>5, <2>2, <3>1, PieceOfFormat
  <2> DEFINE i == arg_i + 1
  <2>7. Cardinality(Begun(Format, b)) = i
    <3> HIDE DEF a, b
    <3>1. Cardinality(Begun(Format, b)) = Cardinality(Begun(Format, a - 1)) + 1
      BY <2>1, <2>2, OneMoreBegun
    <3>2. QED  BY <2>5, <3>1 DEF SoFar
  <2>8. o.kind # "oof"  BY <1>5
  <2> HIDE DEF a, b, o, i
  <2>9. SoFar(Append(out, o), b, i)
    BY <1>5, <2>1, <2>4, <2>5, <2>6, <2>7, <2>8, FurtherSoFar
  <2>10. SoFar(out, Here - begin, arg_i)'
    <3> DEFINE s == Append(out, o)
    <3>1. s = out' /\ b = Here' - begin' /\ i = arg_i' /\ SoFar(s, b, i)
      BY <1>5, <2>4, <2>9 DEF i
    <3> HIDE DEF s
    <3>2. QED  BY <3>1, SoFarLater
  <2>11. QED  BY <1>5, <2>4, <2>10
<1>6. QED  BY <1>1, <1>4, <1>5

LEMMA StepInFormat ==
  ASSUME WalkInv, FormatInv, Step  PROVE FormatInv'
<1>1. Fixed /\ Format' = Format  BY StepFixes, FixedIs
<1>2. SUFFICES ASSUME Supported(Format)
               PROVE  /\ Here' <= end' /\ (pc' = "done" => fmt' = end')
                      /\ SoFar(out, Here - begin, arg_i)'
  BY <1>1 DEF FormatInv
<1>3. CASE Stop     BY <1>1, <1>2, <1>3, StopInFormat
<1>4. CASE Literal  BY <1>1, <1>2, <1>4, LiteralInFormat
<1>5. CASE Percent  BY <1>1, <1>2, <1>5, PercentInFormat
<1>6. CASE SkipDigit \/ Dot
  <2>1. /\ pc \in {"width", "precision"} /\ pc' \in {"width", "precision"}
        /\ start' = start /\ arg_i' = arg_i /\ out' = out
    BY <1>6, SkipDigitIs, DotIs
  <2>2. Here' = Here /\ pc' # "done"  BY <2>1 DEF Here, Amid
  <2>3. QED  BY <1>1, <1>2, <2>1, <2>2, SameSoFar
<1>7. CASE Convert  BY <1>1, <1>2, <1>7, ConvertInFormat
<1>8. CASE Oof
  <2>1. AtConversion /\ Char \notin IntConversions \cup FloatConversions  BY <1>8, OofIs
  <2>2. Char \in Letters  BY <1>2, <2>1, AtLetter
  <2>3. QED  BY <2>1, <2>2 DEF Letters
<1>9. QED  BY <1>3, <1>4, <1>5, <1>6, <1>7, <1>8 DEF Step

LEMMA BeginsInFormat ==
  ASSUME Begin, WalkInv  PROVE FormatInv
<1>1. pc = "next" /\ arg_i = 0 /\ out = <<>>  BY DEF Begin
<1>2. begin \in Nat \ {0} /\ end \in Nat /\ begin <= end /\ Format \in Seq(Chars)
  BY SettledIs DEF WalkInv
<1>3. fmt = begin  BY BeginsSettled
<1>4. Here = begin /\ Here - begin = 0  BY <1>1, <1>2, <1>3 DEF Here, Amid
<1>5. NoError(out)  BY <1>1 DEF NoError
<1>6. FlattenSeq(Texts(out)) = SubSeq(Format, 1, 0)
  <2>1. Len(Texts(out)) = 0 /\ Texts(out) = <<>>  BY <1>1 DEF Texts
  <2>2. FlattenSeq(Texts(out)) = <<>>  BY <2>1 DEF FlattenSeq
  <2>3. SubSeq(Format, 1, 0) = <<>>
    <3> DEFINE n == Len(Format)
               v == SubSeq(Format, 1, n - n)
    <3>1. n \in Nat  BY <1>2, LenProperties
    <3>2. n \in 0 .. n /\ n - n = 0  BY <3>1
    <3>3. v \in Seq(Chars) /\ Len(v) = n - n  BY <1>2, <3>2, Popping
    <3> HIDE DEF v
    <3>4. v = <<>>  BY <3>2, <3>3, EmptySeq
    <3>5. QED  BY <3>2, <3>4 DEF v
  <2>4. QED  BY <2>2, <2>3
<1>7. Cardinality(Begun(Format, 0)) = arg_i
  <2>1. ASSUME NEW c \in Conversions(Format)  PROVE ~(c[1] <= 0)
    <3>1. c[1] \in 1 .. Len(Format)  BY <1>2, ConversionIs
    <3>2. QED  BY <3>1
  <2>2. Begun(Format, 0) = {}  BY <2>1 DEF Begun
  <2>3. QED  BY <1>1, <2>2, FS_EmptySet
<1>8. SoFar(out, 0, arg_i)  BY <1>5, <1>6, <1>7 DEF SoFar
<1>9. QED  BY <1>1, <1>2, <1>4, <1>8 DEF FormatInv

(* A whole format.                                                          *)
LEMMA AllBegun ==
  ASSUME NEW f \in Seq(Chars)
  PROVE  Begun(f, Len(f)) = Conversions(f) /\ SubSeq(f, 1, Len(f)) = f
<1> DEFINE n == Len(f)
           v == SubSeq(f, 1, n - 0)
<1>1. n \in Nat /\ 0 \in 0 .. n /\ n - 0 = n  BY LenProperties
<1>2. ASSUME NEW c \in Conversions(f)  PROVE c[1] <= n
  <2>1. c[1] \in 1 .. Len(f)  BY ConversionIs
  <2>2. QED  BY <2>1
<1>3. v \in Seq(Chars) /\ Len(v) = n /\ \A k \in 1 .. n : v[k] = f[k]  BY <1>1, Popping
<1>4. v = SubSeq(f, 1, n)  BY <1>1
<1> HIDE DEF v
<1>5. v = f  BY <1>3, SameElements
<1>6. Begun(f, n) = Conversions(f)  BY <1>2 DEF Begun
<1>7. QED  BY <1>4, <1>5, <1>6

LEMMA DoneIs ==
  ASSUME WalkInv, FormatInv, Supported(Format), pc = "done"
  PROVE  /\ NoError(out) /\ FlattenSeq(Texts(out)) = Format
         /\ Cardinality(Conversions(Format)) = arg_i
<1>1. /\ begin \in Nat \ {0} /\ end \in Nat /\ Format \in Seq(Chars) /\ Len(Format) \in Nat
      /\ end = begin + Len(Format)
  BY SettledIs DEF WalkInv
<1>2. Here = fmt /\ fmt = end  BY DEF FormatInv, Here, Amid
<1>3. Here - begin = Len(Format)  BY <1>1, <1>2
<1>4. SoFar(out, Len(Format), arg_i)  BY <1>3 DEF FormatInv
<1>5. QED  BY <1>1, <1>4, AllBegun DEF SoFar

LEMMA PrintedIs ==
  ASSUME WalkInv
  PROVE  /\ Len(Printed) = arg_i /\ DOMAIN Printed = 1 .. arg_i
         /\ \A k \in 1 .. arg_i : Printed[k].value = stack[k + 1]
<1>1. /\ out \in Seq(Items) /\ Those(out, Numbers) \in Seq(Items) /\ Len(Those(out, Numbers)) = arg_i
      /\ \A k \in 1 .. arg_i : Those(out, Numbers)[k].value = stack[k + 1]
  BY DEF WalkInv, ValuesPrinted
<1>2. \A k \in DOMAIN out : out[k] \in Items
  <2>1. DOMAIN out = 1 .. Len(out)  BY <1>1, LenProperties
  <2>2. QED  BY <1>1, <2>1, ElementOfSeq
<1>3. {k \in DOMAIN out : out[k].kind \in {"int", "float"}} = {k \in DOMAIN out : out[k] \in Numbers}
  BY <1>2 DEF Numbers
<1>4. Printed = Those(out, Numbers)  BY <1>3 DEF Printed, Those
<1>5. DOMAIN Printed = 1 .. Len(Printed)  BY <1>1, <1>4, LenProperties
<1>6. QED  BY <1>1, <1>4, <1>5

LEMMA WalkPrints ==
  ASSUME WalkInv, FormatInv PROVE PrintsItsFormat
<1>1. \A k \in DOMAIN Printed : Printed[k].value = stack[k + 1]  BY PrintedIs
<1>2. ASSUME pc = "done", Supported(Format)
      PROVE  /\ FlattenSeq([k \in DOMAIN out |-> out[k].text]) = Format
             /\ \A k \in DOMAIN out : out[k].kind # "oof"
             /\ Len(Printed) = Cardinality(Conversions(Format))
  <2>1. /\ NoError(out) /\ FlattenSeq(Texts(out)) = Format
        /\ Cardinality(Conversions(Format)) = arg_i
    BY <1>2, DoneIs
  <2>2. DOMAIN out = 1 .. Len(out)  BY LenProperties DEF WalkInv, ValuesPrinted
  <2>3. \A k \in DOMAIN out : out[k].kind # "oof"  BY <2>1, <2>2 DEF NoError
  <2>4. FlattenSeq([k \in DOMAIN out |-> out[k].text]) = Format  BY <2>1 DEF Texts
  <2>5. Len(Printed) = arg_i  BY PrintedIs
  <2>6. QED  BY <2>1, <2>3, <2>4, <2>5
<1>3. QED  BY <1>1, <1>2 DEF PrintsItsFormat

LEMMA WalkPanics ==
  ASSUME WalkInv, FormatInv PROVE PanicsWhenShort
<1> DEFINE f == Format
           C == Conversions(f)
<1>1. /\ begin \in Nat \ {0} /\ end \in Nat /\ f \in Seq(Chars) /\ Len(f) \in Nat
      /\ end = begin + Len(f) /\ argsc \in Nat /\ argsc = Len(stack) - 1 /\ Settled
      /\ arg_i \in 0 .. argsc
  BY SettledIs DEF WalkInv, Walking
<1>2. IsFiniteSet(C) /\ Cardinality(C) \in Nat  BY <1>1, FiniteConversions
<1>3. ASSUME Supported(Format), pc = "panic"
      PROVE  Cardinality(C) > Len(stack) - 1
  <2> DEFINE n == start - begin
             a == start - begin + 1
             B == Begun(f, n)
  <2>1. /\ fmt <= end /\ start \in begin .. fmt - 1 /\ section[start] = "%" /\ arg_i = argsc
        /\ fmt \in begin .. end + 1
    BY <1>3 DEF WalkInv, Walking, Amid
  <2>2. start \in begin .. end - 1 /\ a = n + 1 /\ n \in Nat  BY <1>1, <2>1
  <2>3. a \in 1 .. Len(f) /\ f[a] = "%"  BY <1>1, <2>1, <2>2, Reads
  <2>4. Here = start  BY <1>3 DEF Here, Amid
  <2>5. Cardinality(B) = argsc  BY <1>3, <2>1, <2>4 DEF FormatInv, SoFar
  <2> HIDE DEF a, n
  <2>6. PICK c \in C : c[1] = a
    <3>1. a \in DOMAIN f  BY <1>1, <2>3, LenProperties
    <3>2. QED  BY <1>3, <2>3, <3>1 DEF Supported
  <2>7. c \notin B
    <3>1. ~(c[1] <= n)  BY <2>2, <2>6
    <3>2. QED  BY <3>1 DEF Begun
  <2>8. B \subseteq C /\ IsFiniteSet(B)  BY <1>1, BegunIs DEF Begun
  <2> HIDE DEF B, C
  <2>9. Cardinality(B \cup {c}) = Cardinality(B) + 1  BY <2>7, <2>8, FS_AddElement
  <2>10. B \cup {c} \subseteq C  BY <2>6, <2>8
  <2>11. Cardinality(B \cup {c}) <= Cardinality(C)  BY <1>2, <2>10, FS_Subset
  <2>12. QED  BY <1>1, <1>2, <2>5, <2>9, <2>11
<1>4. ASSUME Supported(Format), pc = "done"
      PROVE  Cardinality(C) <= Len(stack) - 1
  <2>1. Cardinality(C) = arg_i  BY <1>4, DoneIs
  <2> HIDE DEF C
  <2>2. QED  BY <1>1, <2>1
<1>5. QED  BY <1>3, <1>4 DEF PanicsWhenShort

LEMMA WalkReads ==
  ASSUME WalkInv PROVE ReadsItsString
<1>1. /\ begin \in Nat \ {0} /\ end \in Nat /\ fmt \in begin .. end + 1
      /\ (pc \in {"width", "precision"} => fmt <= end)
  BY SettledIs DEF WalkInv, Walking, Amid
<1>2. pc \in {"width", "precision"} \/ (pc = "next" /\ More) => fmt <= end  BY <1>1 DEF More
<1>3. ASSUME NEW k \in DOMAIN out, NEW j \in DOMAIN out[k].text
      PROVE  out[k].text[j] \notin {Nul, "beyond"}
  <2>1. out \in Seq(Items) /\ DOMAIN out = 1 .. Len(out)
    BY LenProperties DEF WalkInv, ValuesPrinted
  <2>2. out[k] \in Items  BY <2>1, ElementOfSeq
  <2> DEFINE u == out[k].text
  <2>3. u \in Seq(Chars)  BY <2>2 DEF Items
  <2>4. j \in DOMAIN u  BY <1>3
  <2> HIDE DEF u
  <2>5. DOMAIN u = 1 .. Len(u)  BY <2>3, LenProperties
  <2>6. u[j] \in Chars  BY <2>3, <2>4, <2>5, ElementOfSeq
  <2>7. QED  BY <2>6, PrintfAssumption DEF u
<1>4. QED  BY <1>2, <1>3 DEF ReadsItsString
-----------------------------------------------------------------------------
(* msc_printf() stands within its format always, and has printed just what    *)
(* lies before its cursor.                                                 *)
THEOREM SpecWalks == Spec => [](WalkInv /\ FormatInv)
<1>1. Init => WalkInv /\ FormatInv  BY BeginsWalking, BeginsInFormat DEF Init
<1>2. WalkInv /\ FormatInv /\ [Next]_vars => (WalkInv /\ FormatInv)'
  <2> SUFFICES ASSUME WalkInv, FormatInv, [Next]_vars  PROVE WalkInv' /\ FormatInv'
    OBVIOUS
  <2>1. CASE Step  BY <2>1, StepWalks, StepInFormat
  <2>2. CASE UNCHANGED printfVars
    <3>1. /\ strings' = strings /\ section' = section /\ offsets' = offsets /\ stack' = stack
          /\ fmt' = fmt /\ end' = end /\ start' = start /\ arg_i' = arg_i
          /\ out' = out /\ pc' = pc
      BY <2>2 DEF printfVars
    <3>2. Fixed  BY <3>1 DEF Fixed
    <3>3. /\ begin' = begin /\ argsc' = argsc /\ Format' = Format /\ (Settled => Settled')
      BY <3>2, FixedIs
    <3>4. Walking'
      BY <3>1, <3>3 DEF WalkInv, Walking, Amid, Within
    <3>5. ValuesPrinted'  BY <3>1 DEF WalkInv, ValuesPrinted
    <3>6. Here' = Here  BY <3>1 DEF Here, Amid
    <3>7. FormatInv'
      <4>1. SUFFICES ASSUME Supported(Format)
                     PROVE  /\ Here' <= end' /\ (pc' = "done" => fmt' = end')
                            /\ SoFar(out, Here - begin, arg_i)'
        BY <3>3 DEF FormatInv
      <4>2. pc = "done" => fmt = end  BY <4>1 DEF FormatInv
      <4>3. QED  BY <3>1, <3>2, <3>6, <4>1, <4>2, SameSoFar
    <3>8. QED  BY <3>3, <3>4, <3>5, <3>7 DEF WalkInv
  <2>3. Step \/ UNCHANGED printfVars
    BY DEF Next, ScriptPrints, Returns, Exit, Traps, Goes, Runs, FlushPrintf, PrintValue,
           MainReturns, Ended, vars
  <2>4. QED  BY <2>1, <2>2, <2>3
<1>3. QED  BY <1>1, <1>2, PTL DEF Spec

(* Whatever the format, even one that ends within a conversion, no character  *)
(* behind its NUL is read.                                                  *)
THEOREM AlwaysReadsItsString == Spec => []ReadsItsString
<1>1. WalkInv /\ FormatInv => ReadsItsString  BY WalkReads
<1>2. QED  BY SpecWalks, <1>1, PTL

(* The conversions print the values in their order, and a supported format    *)
(* is printed whole.                                                        *)
THEOREM AlwaysPrintsItsFormat == Spec => []PrintsItsFormat
<1>1. WalkInv /\ FormatInv => PrintsItsFormat  BY WalkPrints
<1>2. QED  BY SpecWalks, <1>1, PTL

(* A supported format panics exactly when it lacks values.                   *)
THEOREM OnlyPanicsWhenShort == Spec => []PanicsWhenShort
<1>1. WalkInv /\ FormatInv => PanicsWhenShort  BY WalkPanics
<1>2. QED  BY SpecWalks, <1>1, PTL
=============================================================================
