------------------------------ MODULE MCSyscalls ------------------------------
(***************************************************************************)
(* Instances of Syscalls for TLC: every byte, every power of two and some    *)
(* full words, clean or with the upper half that a sign-extended push        *)
(* leaves, alone or on top of another value, and a stack for every number of *)
(* arguments.                                                               *)
(***************************************************************************)
EXTENDS Syscalls

Bytes == SUBSET (0 .. 7)
Dirty == 32 .. 63
Wide  == {{b} : b \in Bits32} \cup {AllOnes, TopByte, Reversed, 1 .. 30}

Many == [k \in 1 .. 33 |-> {k}]   \* more than any Sys command takes

Stacks ==
  {<<>>} \cup {<<w>> : w \in Bytes} \cup {<<w \cup h>> : w \in Wide \cup {{}}, h \in {{}, Dirty}}
         \cup {<<{3}, w>> : w \in {{}, {1}, TopByte, Dirty \cup TopByte}} \cup {Many}

Answers == {AllOnes} \cup {{}, {0}, {1, 5}}   \* EOF and some characters
=============================================================================
