---------------------------- MODULE MCCallStack ----------------------------
(***************************************************************************)
(* Instances of CallStack for TLC.  main is called by the host, f takes two  *)
(* arguments, has a third variable and returns a value; each calls each.    *)
(***************************************************************************)
EXTENDS CallStack

CONSTANTS main, f

TwoArguments == [s \in {main, f} |->
  IF s = main THEN [argc |-> 0, varc |-> 0, value |-> FALSE]
              ELSE [argc |-> 2, varc |-> 3, value |-> TRUE]]
=============================================================================
