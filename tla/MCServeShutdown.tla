--------------------------- MODULE MCServeShutdown ---------------------------
(* Instances of ServeShutdown for TLC.                                     *)
EXTENDS ServeShutdown, TLC

Symmetry == Permutations(Calls)
===============================================================================
