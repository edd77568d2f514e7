------------------------------- MODULE Printf -------------------------------
(***************************************************************************)
(* src/jit/x86/printf.rs and its caller: a PrintF command finds its format   *)
(* in the string section and its values on the evaluation stack, and         *)
(* msc_printf() walks the format with a pointer, giving each conversion it   *)
(* finds to libc's printf.  Addresses are indices of the string section.     *)
(***************************************************************************)
EXTENDS Integers, FiniteSets, SequencesExt, Ranks

CONSTANTS
  Chars,     \* the characters of strings
  Strings,   \* sequences of strings, the strings of a file
  MaxArgs    \* bound on the values for the conversions

VARIABLES
  strings,            \* of the file
  section, offsets,   \* string_section, string_offsets
  stack,              \* the evaluation stack: number of the string, values
  fmt, end, start,    \* the cursor, the NUL of the format, specifier_start
  arg_i,
  out,                \* what is printed, in order
  pc

printfVars == <<strings, section, offsets, stack, fmt, end, start, arg_i, out, pc>>

Nul == "nul"
Digits == {"5"}
IntConversions   == {"c", "d", "i", "l", "o", "x", "p", "u", "X"}
FloatConversions == {"f", "e", "g"}

(* A string ends at its NUL; "beyond" stands for what no page of memory has.   *)
ASSUME PrintfAssumption ==
  /\ MaxArgs \in Nat /\ Strings \subseteq Seq(Seq(Chars))
  /\ Chars \cap {Nul, "beyond"} = {}
-----------------------------------------------------------------------------
(* compile(): each string and a NUL, and where each string begins.           *)
Section(table) == FlattenSeq([k \in DOMAIN table |-> Append(table[k], Nul)])
MutOffsets(table) ==   \* MUTANT: without the NULs
  [k \in DOMAIN table |-> 1 + Len(FlattenSeq(SubSeq(table, 1, k - 1)))]
Offsets(table) ==
  [k \in DOMAIN table |-> 1 + Len(Section(SubSeq(table, 1, k - 1)))]

(* external: libc's strlen.                                                 *)
StrEnd(text, from) == CHOOSE k \in from .. Len(text) :
                        /\ text[k] = Nul
                        /\ \A j \in from .. k - 1 : text[j] # Nul

(* The value pushed first is the number of the string; RSI is RSP, so the    *)
(* value pushed last is args[0].                                            *)
MutArgsc == Len(stack)   \* MUTANT: the number of the string is counted
argsc == Len(stack) - 1
args(j) == stack[Len(stack) - j]

Begin ==
  /\ strings \in Strings
  /\ \E n \in 0 .. MaxArgs, number \in DOMAIN strings :
       /\ section = Section(strings) /\ offsets = Offsets(strings)
       /\ stack = <<number>> \o [k \in 1 .. n |-> k]
       /\ fmt = offsets[number]
  /\ end = StrEnd(section, fmt)
  /\ start = 0 /\ arg_i = 0 /\ out = <<>> /\ pc = "next"
-----------------------------------------------------------------------------
Constants == <<strings, section, offsets, stack, end>>

Char == IF fmt \in DOMAIN section THEN section[fmt] ELSE "beyond"

MutMore == fmt # end   \* MUTANT
More == fmt < end

Stop == pc = "next" /\ ~More /\ pc' = "done" /\ UNCHANGED <<Constants, fmt, start, arg_i, out>>

(* putchar.                                                                 *)
Literal ==
  /\ pc = "next" /\ More /\ Char # "%"
  /\ out' = Append(out, [kind |-> "char", text |-> <<Char>>, value |-> 0])
  /\ fmt' = fmt + 1
  /\ UNCHANGED <<Constants, start, arg_i, pc>>

(* A second percent is printed, and is still the next character to read.     *)
MutEscape == FALSE   \* MUTANT: the second percent is printed when it is read
Escape == section[fmt + 1] = "%"
Percent ==
  /\ pc = "next" /\ More /\ Char = "%"
  /\ start' = fmt /\ fmt' = fmt + 1
  /\ out' = IF Escape
            THEN Append(out, [kind |-> "char", text |-> <<"%">>, value |-> 0]) ELSE out
  /\ pc' = "width"
  /\ UNCHANGED <<Constants, arg_i>>

MutPastDigit == fmt   \* MUTANT: the cursor stays
PastDigit == fmt + 1
SkipDigit ==
  /\ pc \in {"width", "precision"} /\ Char \in Digits
  /\ fmt' = PastDigit
  /\ UNCHANGED <<Constants, start, arg_i, out, pc>>

Dot ==
  /\ pc = "width" /\ Char = "."
  /\ fmt' = fmt + 1 /\ pc' = "precision"
  /\ UNCHANGED <<Constants, start, arg_i, out>>

AtConversion ==
  pc \in {"width", "precision"} /\ Char \notin Digits /\ (pc = "width" => Char # ".")

(* args[argsc as usize - (arg_i as usize + 1)]: below 0 is a panic.          *)
Argument == args(argsc - (arg_i + 1))

Convert ==
  /\ AtConversion /\ Char \in IntConversions \cup FloatConversions
  /\ IF arg_i < argsc
     THEN /\ out' = Append(out, [kind |-> IF Char \in IntConversions THEN "int" ELSE "float",
                                 text |-> SubSeq(section, start, fmt), value |-> Argument])
          /\ fmt' = fmt + 1 /\ arg_i' = arg_i + 1 /\ pc' = "next"
     ELSE pc' = "panic" /\ UNCHANGED <<fmt, arg_i, out>>
  /\ UNCHANGED <<Constants, start>>

(* println!("oof").                                                         *)
Oof ==
  /\ AtConversion /\ Char \notin IntConversions \cup FloatConversions
  /\ out' = Append(out, [kind |-> "oof", text |-> <<>>, value |-> 0])
  /\ fmt' = fmt + 1 /\ pc' = "next"
  /\ UNCHANGED <<Constants, start, arg_i>>

Step == Stop \/ Literal \/ Percent \/ SkipDigit \/ Dot \/ Convert \/ Oof
-----------------------------------------------------------------------------
(* The format, and its conversions as C reads them: <<from, to>> where a     *)
(* percent, a width, perhaps a point and a precision lead to a letter.       *)
Format == strings[stack[1]]
IsConversion(f, from, to) ==
  /\ f[from] = "%"
  /\ f[to] \in (IntConversions \ {"l"}) \cup FloatConversions
  /\ \A k \in from + 1 .. to - 1 : f[k] \in Digits \cup {"."}
  /\ Cardinality({k \in from + 1 .. to - 1 : f[k] = "."}) <= 1
Conversions(f) ==
  {c \in (DOMAIN f) \X (DOMAIN f) : c[1] < c[2] /\ IsConversion(f, c[1], c[2])}

(* Formats in which each percent begins a conversion: without escapes, flags *)
(* and length modifiers, which msc_printf() does not understand.             *)
Supported(f) == \A k \in DOMAIN f : f[k] = "%" => \E c \in Conversions(f) : c[1] = k

Printed == Picked(out, {k \in DOMAIN out : out[k].kind \in {"int", "float"}})

(* Whatever the format, conversion i prints the value pushed as the i-th     *)
(* after the number of the string.  A format that is supported is printed    *)
(* whole, in order, without an error line and with all its conversions.      *)
PrintsItsFormat ==
  /\ \A k \in DOMAIN Printed : Printed[k].value = stack[k + 1]
  /\ pc = "done" /\ Supported(Format) =>
       /\ FlattenSeq([k \in DOMAIN out |-> out[k].text]) = Format
       /\ \A k \in DOMAIN out : out[k].kind # "oof"
       /\ Len(Printed) = Cardinality(Conversions(Format))

(* How msc_printf() reads a format: of several percents in a row it takes    *)
(* two by two as escapes, and "l" ends a conversion.                         *)
Begins(f, k) == Cardinality({j \in 1 .. k : \A i \in j .. k : f[i] = "%"}) % 2 = 1
Escapes(f) == {k \in 1 .. Len(f) - 1 : Begins(f, k) /\ f[k + 1] = "%"}
Reading(f) ==
  {k \in DOMAIN f \ Escapes(f) :
     Begins(f, k) /\ \E to \in k + 1 .. Len(f) :
       IsConversion(IF f[to] = "l" THEN [f EXCEPT ![to] = "i"] ELSE f, k, to)}
Understood(f) == \A k \in DOMAIN f : Begins(f, k) => k \in Escapes(f) \cup Reading(f)

(* A format with escapes and with the length modifier l: each escape prints   *)
(* one percent, and one error line that nobody asked for; each "%l" takes a   *)
(* value, and the letter behind it is printed as it stands.                  *)
EscapesPrinted ==
  pc = "done" /\ Understood(Format) =>
    /\ FlattenSeq([k \in DOMAIN out |-> out[k].text])
         = Picked(Format, {k \in DOMAIN Format : k - 1 \notin Escapes(Format)})
    /\ Cardinality({k \in DOMAIN out : out[k].kind = "oof"}) = Cardinality(Escapes(Format))
    /\ Len(Printed) = Cardinality(Reading(Format))

(* A supported format panics exactly when it has more conversions than       *)
(* values.                                                                  *)
PanicsWhenShort ==
  Supported(Format) =>
    /\ pc = "panic" => Cardinality(Conversions(Format)) > Len(stack) - 1
    /\ pc = "done" => Cardinality(Conversions(Format)) <= Len(stack) - 1

(* Whatever the format, no character after its NUL is read: not even when it *)
(* ends within a conversion, which leaves the cursor behind the NUL.         *)
ReadsItsString ==
  /\ pc \in {"width", "precision"} \/ (pc = "next" /\ More) => fmt <= end
  /\ \A k \in DOMAIN out : \A j \in DOMAIN out[k].text :
       out[k].text[j] \notin {Nul, "beyond"}

(* Every format comes to its end.                                           *)
Terminates == <>(pc \in {"done", "panic"})
=============================================================================
