---------------------------- MODULE MCJobSchedule ----------------------------
(* Instances of JobSchedule for TLC.                                       *)
EXTENDS JobSchedule, TLC

\* The model does not tell payments apart.
Symmetry == Permutations(Payments)
===============================================================================
