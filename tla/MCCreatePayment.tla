--------------------------- MODULE MCCreatePayment ---------------------------
(* Instances of CreatePayment for TLC.                                    *)
EXTENDS CreatePayment, TLC

\* Calls are interchangeable, and so are keys.
Symmetry == Permutations(Calls) \cup Permutations(Keys)
===============================================================================
