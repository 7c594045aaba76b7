----------------------------- MODULE MCWorkerLoop -----------------------------
(* The instance of WorkerLoop for TLC: only bounds, no symmetry.           *)
EXTENDS WorkerLoop
===============================================================================
