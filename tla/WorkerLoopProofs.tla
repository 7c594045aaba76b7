--------------------------- MODULE WorkerLoopProofs ---------------------------
(***************************************************************************)
(* A worker's batches, for batches of any size.                            *)
(***************************************************************************)
EXTENDS WorkerLoop, TLAPS

\* Where the goroutine is says whether a batch is unfinished and whether the
\* process listens to signals.
InOrder ==
    /\ pc \in {"listen", "select", "stopped"} => todo = 0
    /\ pc = "select" => listening
    /\ pc \in {"start", "listen", "killed", "fatal"} => ~listening
    /\ pc = "start" => begun = 0 /\ waiting = 0
    /\ listening \/ pc = "listen" => mode = "worker"

\* The end of an interval allows one batch: it has begun, or its tick waits.
Paced == begun + waiting <= 1

IInv == TypeOK /\ InOrder /\ Paced

\* The initial state has every part.
LEMMA InitIInv == Init => IInv
<1> SUFFICES ASSUME Init PROVE IInv OBVIOUS
<1>1. TypeOK
  <2>1. todo \in 0..MaxBatch /\ waiting \in 0..1 /\ begun \in Nat
    BY MaxBatchAssumption DEF Init
  <2>2. quit \in BOOLEAN /\ listening \in BOOLEAN /\ ~quit
    BY Zenon DEF Init
  <2> QED BY <2>1, <2>2 DEF Init, TypeOK
<1>2. InOrder BY DEF Init, InOrder
<1>3. Paced BY DEF Init, Paced
<1> QED BY <1>1, <1>2, <1>3 DEF IInv

\* Every step keeps the invariant.
LEMMA NextKeeps == ASSUME IInv, [Next]_vars PROVE IInv'
<1> USE MaxBatchAssumption DEF IInv, TypeOK, InOrder, Paced, Ended
<1>1. CASE Start BY <1>1 DEF Start, RunJob
<1>2. CASE InvalidInterval BY <1>2 DEF InvalidInterval
<1>3. CASE Item BY <1>3 DEF Item
<1>4. CASE JobEnds BY <1>4 DEF JobEnds, After
<1>5. CASE JobFails BY <1>5 DEF JobFails, After
<1>6. CASE Notify BY <1>6 DEF Notify
<1>7. CASE SelectTick BY <1>7 DEF SelectTick, RunJob
<1>8. CASE SelectQuit BY <1>8 DEF SelectQuit
<1>9. CASE Tick BY <1>9 DEF Tick
<1>10. CASE Signal BY <1>10 DEF Signal
<1>11. CASE UNCHANGED vars BY <1>11 DEF vars
<1> QED BY <1>1, <1>2, <1>3, <1>4, <1>5, <1>6, <1>7, <1>8, <1>9, <1>10, <1>11 DEF Next

\* The invariant of every behaviour.
THEOREM LoopInvariant == Spec => []IInv
  BY InitIInv, NextKeeps, PTL DEF Spec

\* The variables keep their types (runWorker).
THEOREM WorkerTypesCorrect == Spec => []TypeOK
  BY LoopInvariant, PTL DEF IInv

\* A signal never cuts a later batch short (signal.Notify and the select), for
\* batches of any size.
THEOREM LaterBatchesStayWhole == Spec => []LaterBatchesAreWhole
<1>1. IInv => LaterBatchesAreWhole
  BY DEF IInv, InOrder, LaterBatchesAreWhole, Ended
<1> QED BY <1>1, LoopInvariant, PTL

\* However many intervals a batch ran over, one batch makes up for them: between
\* the ends of two intervals no more than one begins (ticker.C).
THEOREM NeverABurst == Spec => []NoBurst
<1>1. IInv => NoBurst
  BY DEF IInv, TypeOK, Paced, NoBurst
<1> QED BY <1>1, LoopInvariant, PTL
===============================================================================
