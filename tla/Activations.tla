----------------------------- MODULE Activations -----------------------------
(***************************************************************************)
(* What calls promise: every activation of a script has its own variables   *)
(* and its own values, a call moves its arguments from the caller's values  *)
(* into the callee's first variables, and a return leaves the caller as the *)
(* call left it, with the returned value on top if the caller keeps it.     *)
(***************************************************************************)
EXTENDS Integers, Sequences

CONSTANTS
  Scripts,      \* names
  Entry,        \* the script the host calls
  Signature,    \* script -> [argc, varc, value]: value, whether it returns one
  Values,
  Junk,         \* what a variable holds before its first assignment
  ForeignArgs   \* argument counts of system calls and printf

(* [script, kept, vals, locals], the running one last; kept: whether the     *)
(* caller wants the returned value.  <<>> once the host has its result.     *)
VARIABLE acts

(* The variables of a script that has just received its arguments.          *)
Fresh(s, args) ==
  [i \in 0 .. Signature[s].varc - 1 |->
     IF i < Signature[s].argc THEN args[i + 1] ELSE Junk]

Now(as)     == as[Len(as)]
Callers(as) == SubSeq(as, 1, Len(as) - 1)
Less(a, n)  == [a EXCEPT !.vals = SubSeq(@, 1, Len(@) - n)]
More(a, v)  == [a EXCEPT !.vals = Append(@, v)]
Last(a, n)  == SubSeq(a.vals, Len(a.vals) - n + 1, Len(a.vals))

(* What becomes of an activation that pushes, pops, assigns or calls out.   *)
Works(a) ==
  {More(a, v) : v \in Values} \cup {More(a, a.locals[i]) : i \in DOMAIN a.locals}
    \cup (IF a.vals = <<>> THEN {}
          ELSE {Less(a, 1)} \cup
               {[Less(a, 1) EXCEPT !.locals[i] = Last(a, 1)[1]] : i \in DOMAIN a.locals})

CallsOut(a) ==
  UNION {{Less(a, n)} \cup {More(Less(a, n), v) : v \in Values} :
           n \in {k \in ForeignArgs : k <= Len(a.vals)}}

(* What becomes of all of them at a call or a return of the last.           *)
Calls(as) ==
  LET a == Now(as)
      Callable == {f \in Scripts : Signature[f].argc <= Len(a.vals)}
      Called(f, keep) ==
        [script |-> f, kept |-> keep, vals |-> <<>>,
         locals |-> Fresh(f, Last(a, Signature[f].argc))]
  IN UNION {{Callers(as) \o <<Less(a, Signature[f].argc), Called(f, keep)>> :
               keep \in {FALSE, Signature[f].value}} : f \in Callable}

Returns(as) ==
  LET a == Now(as)
      rest == Callers(as)
      Resumed(caller) == IF a.kept THEN More(caller, Last(a, 1)[1]) ELSE caller
  IN IF Signature[a.script].value /\ a.vals = <<>> THEN {}
     ELSE {IF rest = <<>> THEN <<>> ELSE Append(Callers(rest), Resumed(Now(rest)))}

Init == acts = << [script |-> Entry, kept |-> FALSE, vals |-> <<>>,
                   locals |-> Fresh(Entry, <<>>)] >>

After(as) ==
  {Append(Callers(as), a) : a \in Works(Now(as)) \cup CallsOut(Now(as))}
    \cup Calls(as) \cup Returns(as)

Next == acts # <<>> /\ acts' \in After(acts)

Spec == Init /\ [][Next]_acts
=============================================================================
