------------------------------ MODULE WorkerLoop ------------------------------
(***************************************************************************)
(* runCommand and runWorker: one job command, run once or (--worker) as a  *)
(* loop over a ticker and a signal channel, both of capacity one.          *)
(*                                                                         *)
(* The first batch runs before the process listens to signals, so a signal *)
(* that comes too early kills it where it stands; later ones wait in the   *)
(* channel until the batch is done.                                        *)
(***************************************************************************)
EXTENDS Integers

CONSTANTS
    MaxBatch    \* bound: payments in a batch

ASSUME MaxBatchAssumption == MaxBatch \in Nat

VARIABLES
    mode,       \* "once" or "worker"
    pc,         \* "start", "batch", "listen", "select", or how it ended
    todo,       \* payments left of the batch
    waiting,    \* ticks in ticker.C
    quit,       \* is a signal in the channel
    listening,  \* after signal.Notify
    begun       \* batches begun since the ticker was made, or an interval last ended

vars == <<mode, pc, todo, waiting, quit, listening, begun>>

Ended == {"stopped", "killed", "fatal"}

Init ==
    /\ mode \in {"once", "worker"}
    /\ pc = "start" /\ todo = 0
    /\ waiting = 0 /\ quit = FALSE /\ listening = FALSE
    /\ begun = 0

-------------------------------------------------------------------------------
\* A batch of any size begins.
RunJob ==
    /\ pc' = "batch"
    /\ todo' \in 0..MaxBatch
    /\ begun' = begun + 1

\* The ticker is made, if there is to be one, and the first batch begins.
Start ==
    /\ pc = "start"
    /\ RunJob
    /\ UNCHANGED <<mode, waiting, quit, listening>>

\* The configured interval is not positive: logrus.Fatal.
InvalidInterval ==
    /\ pc = "start" /\ mode = "worker"
    /\ pc' = "fatal"
    /\ UNCHANGED <<mode, todo, waiting, quit, listening, begun>>

\* Mutant: one payment past the end.
ItemPastTheEnd ==
    /\ pc = "batch"
    /\ todo' = todo - 1
    /\ UNCHANGED <<mode, pc, waiting, quit, listening, begun>>

\* The next payment of the batch is done with, well or not.
Item ==
    /\ pc = "batch" /\ todo > 0
    /\ todo' = todo - 1
    /\ UNCHANGED <<mode, pc, waiting, quit, listening, begun>>

After == IF mode = "once" THEN "stopped" ELSE IF listening THEN "select" ELSE "listen"

\* Mutant: an error of the job ends the worker.
JobErrorReturns ==
    /\ pc = "batch" /\ todo = 0
    /\ pc' \in {After, "stopped"}
    /\ UNCHANGED <<mode, todo, waiting, quit, listening, begun>>

\* runJob: an error is logged and forgotten.
JobEnds ==
    /\ pc = "batch" /\ todo = 0
    /\ pc' = After
    /\ UNCHANGED <<mode, todo, waiting, quit, listening, begun>>

\* The job's SELECT failed, and the batch is over before its first payment.
JobFails ==
    /\ pc = "batch" /\ todo > 0
    /\ todo' = 0
    /\ pc' = After
    /\ UNCHANGED <<mode, waiting, quit, listening, begun>>

\* signal.Notify.
Notify ==
    /\ pc = "listen"
    /\ listening' = TRUE
    /\ pc' = "select"
    /\ UNCHANGED <<mode, todo, waiting, quit, begun>>

\* select: <-ticker.C.
SelectTick ==
    /\ pc = "select" /\ waiting > 0
    /\ waiting' = waiting - 1
    /\ RunJob
    /\ UNCHANGED <<mode, quit, listening>>

\* Mutant: ticks come first.
SelectQuitLast ==
    /\ pc = "select" /\ quit /\ waiting = 0
    /\ quit' = FALSE
    /\ pc' = "stopped"
    /\ UNCHANGED <<mode, todo, waiting, listening, begun>>

\* select: <-quit, and the deferred cleanup.
SelectQuit ==
    /\ pc = "select" /\ quit
    /\ quit' = FALSE
    /\ pc' = "stopped"
    /\ UNCHANGED <<mode, todo, waiting, listening, begun>>

-------------------------------------------------------------------------------
\* Mutant: intervals that end during a batch are kept to be made up for.
TickIsKept ==
    /\ mode = "worker" /\ pc \notin Ended \cup {"start"}
    /\ waiting' = IF waiting < 3 THEN waiting + 1 ELSE waiting
    /\ begun' = 0
    /\ UNCHANGED <<mode, pc, todo, quit, listening>>

\* An interval ends.  ticker.C has room for one tick: while one waits there,
\* the next is dropped.
Tick ==
    /\ mode = "worker" /\ pc \notin Ended \cup {"start"}
    /\ waiting' = IF waiting < 1 THEN waiting + 1 ELSE waiting
    /\ begun' = 0
    /\ UNCHANGED <<mode, pc, todo, quit, listening>>

\* Mutant: the default action stays in force.
SignalKills ==
    /\ pc \notin Ended
    /\ quit' = (quit \/ listening)
    /\ pc' \in IF listening THEN {pc, "killed"} ELSE {"killed"}
    /\ UNCHANGED <<mode, todo, waiting, listening, begun>>

\* SIGINT or SIGTERM: into the channel, unless one waits there already; the
\* default action, if nobody listens.
Signal ==
    /\ pc \notin Ended
    /\ IF listening THEN quit' = TRUE /\ UNCHANGED pc ELSE pc' = "killed" /\ UNCHANGED quit
    /\ UNCHANGED <<mode, todo, waiting, listening, begun>>

Next ==
    \/ Start \/ InvalidInterval
    \/ Item \/ JobEnds \/ JobFails
    \/ Notify \/ SelectTick \/ SelectQuit
    \/ Tick \/ Signal

Spec == Init /\ [][Next]_vars

\* The goroutine runs on, and a select that finds both channels ready again and
\* again takes each of them sometimes (the runtime draws one at random).  The
\* clock goes on.  Signals need not come.
Fairness ==
    /\ WF_vars(Start \/ InvalidInterval)
    /\ WF_vars(Item) /\ WF_vars(JobEnds) /\ WF_vars(Notify)
    /\ SF_vars(SelectTick) /\ SF_vars(SelectQuit)
    /\ WF_vars(Tick)

FairSpec == Spec /\ Fairness

-------------------------------------------------------------------------------
\* Types; a value waits in the signal channel only of a worker that listens.
TypeOK ==
    /\ mode \in {"once", "worker"}
    /\ pc \in {"start", "batch", "listen", "select"} \cup Ended
    /\ todo \in 0..MaxBatch
    /\ waiting \in 0..1 /\ quit \in BOOLEAN /\ listening \in BOOLEAN
    /\ begun \in Nat
    /\ quit => listening /\ mode = "worker"

\* A worker that has finished its first batch never leaves a later one half
\* done: a signal is heard only between batches (runWorker: signal.Notify, the
\* select).  The first batch, and a one-off command, can be cut short.
LaterBatchesAreWhole == pc \in Ended /\ listening => todo = 0 /\ pc = "stopped"

\* Between the ends of two intervals no more than one batch begins: however many
\* intervals a batch ran over, they are made up by one batch, not by a burst of
\* them one upon the other (runWorker: ticker.C, read once per batch).
NoBurst == begun <= 1

\* A worker that heard a signal stops, though ticks may be waiting whenever it
\* looks (the select's choice).
SignalStops == quit ~> pc = "stopped"

\* It goes on working until a signal comes, whatever its batches end with: an
\* interval's end is followed by a batch (runJob logs the error).
TickRuns == (waiting > 0 /\ pc \notin Ended) ~> (waiting = 0 \/ pc = "killed" \/ quit)
===============================================================================
