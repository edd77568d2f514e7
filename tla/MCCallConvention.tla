-------------------------- MODULE MCCallConvention --------------------------
(***************************************************************************)
(* Instances of CallConvention for TLC: the argument counts whose arguments *)
(* all arrive, and those beyond up to the limit of the 8-bit immediate.     *)
(***************************************************************************)
EXTENDS CallConvention

(* Without a spare variable, and with one.                                  *)
AllSignatures == {<<n, n + v>> : n \in 0 .. 21, v \in {0, 1}}

(* The first and last of each group a prologue stores.                      *)
EdgeVariables == {0, 5, 6, 13, 20}
=============================================================================
