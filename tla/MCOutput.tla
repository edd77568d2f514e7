------------------------------ MODULE MCOutput ------------------------------
(***************************************************************************)
(* Instances of Output for TLC: a format that is the first or the second     *)
(* string of its file, so that a NUL, and another string or nothing, follows *)
(* it.                                                                      *)
(***************************************************************************)
EXTENDS Output

CONSTANTS MaxLength, Alphabet, Core

Other == <<"%", "f">>
Formats ==
  UNION {[1 .. n -> Alphabet] : n \in 0 .. MaxLength} \cup [1 .. MaxLength + 1 -> Core]
Files == {<<f, Other>> : f \in Formats} \cup {<<Other, f>> : f \in Formats}
=============================================================================
