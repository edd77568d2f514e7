-------------------------------- MODULE MCJit --------------------------------
(* Instances of Jit for TLC: four scripts that call each other.             *)
EXTENDS Jit

Chain == {<<1, 2>>, <<2, 3>>, <<3, 1>>, <<2, 2>>, <<3, 4>>}
=============================================================================
