---------------------------- MODULE PaymentService ----------------------------
(***************************************************************************)
(* The API handlers and the background jobs of the payments service over   *)
(* their shared MySQL tables.                                              *)
(*                                                                         *)
(* Nothing in the code serialises two writers of a row: a handler or a job *)
(* SELECTs the row, computes on the entity in memory (for a job, after a   *)
(* call to Stripe or to the caller service), and writes every column back  *)
(* with UPDATE ... WHERE id = ?, with no transaction, version or lock.  So *)
(* each actor owns a snapshot (snap) that any number of other writes may   *)
(* have overtaken when it is written back.                                 *)
(*                                                                         *)
(* A step is one interaction with the outside: a SELECT, a call to Stripe  *)
(* or to the caller, an UPDATE.  The INSERTs into payment_events and       *)
(* payment_callbacks that follow an UPDATE are in the step of the UPDATE:  *)
(* the program never reads those tables.                                   *)
(***************************************************************************)
EXTENDS PaymentRow, FiniteSets

CONSTANTS
    Payments,       \* the payments callers create
    Requests,       \* API requests, each one goroutine: a cancel or a webhook
    Reconcilers,    \* processes running `reconcile`
    Expirers,       \* processes running `expire pending`
    Dispatchers,    \* processes running `callbacks dispatch`
    BatchSize,      \* JobBatchSize: LIMIT of every job query
    ProviderFacts,  \* what may happen at Stripe in this instance
    MaxInFlight,    \* bound: operations that overlap (1: they never do)
    MaxFaults,      \* bound: failed statements, lost replies and crashes
    NoRow,          \* no row read
    NoPayment       \* no payment in hand

ASSUME BatchSizeAssumption == BatchSize \in Nat \ {0}
ASSUME MaxInFlightAssumption == MaxInFlight \in Nat \ {0}
ASSUME MaxFaultsAssumption == MaxFaults \in Nat
ASSUME FactsAssumption ==
    ProviderFacts \subseteq {"completed", "paid", "failed", "expired", "canceled"}
ASSUME NoRowAssumption == NoRow \notin Row
ASSUME NoPaymentAssumption == NoPayment \notin Payments
ASSUME ActorsAssumption ==
    /\ Requests \cap (Reconcilers \cup Expirers \cup Dispatchers) = {}
    /\ Reconcilers \cap Expirers = {}
    /\ Reconcilers \cap Dispatchers = {}
    /\ Expirers \cap Dispatchers = {}

Workers == Reconcilers \cup Expirers \cup Dispatchers
Actors == Requests \cup Workers

ASSUME ActorsFinite == IsFiniteSet(Actors)

VARIABLES
    row,        \* payments: [Payments -> Row, or NoRow before the INSERT]
    events,     \* payment_events: set of <<event_type, new_status>> per payment
    callbacks,  \* payment_callbacks: the record each request left, if any
    pc,         \* where each actor is
    act,        \* the event the actor's UPDATE in hand will record
    cur,        \* the payment in the actor's hand
    snap,       \* what the actor read, or will write back, per payment
    facts,      \* Stripe's side: what has happened to the payment's session
    told,       \* the caller's side: statuses it received in a POST
    failures,   \* failed POSTs per payment and status, up to Budget
    overdue,    \* created_at is PendingTimeout or more ago
    faults      \* faults so far

rowVars == <<row, events, callbacks>>
actorVars == <<pc, act, cur, snap>>
worldVars == <<facts, told, failures, overdue>>
vars == <<rowVars, actorVars, worldVars, faults>>

Idle == "idle"          \* worker between two batches; request not yet received
InBatch == "batch"      \* worker with items of its batch left
Updating == "update"    \* about to execute UPDATE payments
Outcomes == {"ok", "notfound", "invalid", "rejected", "error"}
EventTypes == {"payment_created", "payment_canceled", "provider_callback",
               "payment_reconciled", "payment_expired",
               "callback_dispatched", "callback_dispatch_failed"}

Nothing == [p \in Payments |-> NoRow]

Init ==
    /\ row = Nothing
    /\ events = [p \in Payments |-> {}]
    /\ callbacks = [r \in Requests |-> "none"]
    /\ pc = [a \in Actors |-> Idle]
    /\ act = [a \in Actors |-> "none"]
    /\ cur = [a \in Actors |-> NoPayment]
    /\ snap = [a \in Actors |-> Nothing]
    /\ facts = [p \in Payments |-> {}]
    /\ told = [p \in Payments |-> {}]
    /\ failures = [p \in Payments |-> [s \in Status |-> 0]]
    /\ overdue = [p \in Payments |-> FALSE]
    /\ faults = 0

Fault == faults < MaxFaults /\ faults' = faults + 1

MayStart == Cardinality({a \in Actors : pc[a] \in {InBatch, Updating}}) < MaxInFlight

Exists(p) == row[p] # NoRow

-------------------------------------------------------------------------------
(* The world outside: Stripe and the clock.                                *)

\* A checkout session completes or expires; the money of a completed one
\* arrives or fails, perhaps later; a subscription may be deleted.
CanHappen(p, f) ==
    CASE f \in {"completed", "expired"}           -> facts[p] = {}
      [] f \in {"paid", "failed", "canceled"}     -> "completed" \in facts[p]

\* The session exists before the row: CreatePayment inserts after Stripe replied.
ProviderStep(p, f) ==
    /\ f \notin facts[p]
    /\ CanHappen(p, f)
    /\ facts' = [facts EXCEPT ![p] = @ \cup {f}]
    /\ UNCHANGED <<rowVars, actorVars, told, failures, overdue, faults>>

\* callback_delivery_next_at, a retry interval ahead when written, is reached.
RetryIntervalPasses(p) ==
    /\ Exists(p)
    /\ row[p].nextAt = "later"
    /\ row' = [row EXCEPT ![p].nextAt = "due"]
    /\ UNCHANGED <<events, callbacks, actorVars, worldVars, faults>>

\* created_at becomes PendingTimeout old.
PendingTimeoutPasses(p) ==
    /\ Exists(p)
    /\ ~overdue[p]
    /\ overdue' = [overdue EXCEPT ![p] = TRUE]
    /\ UNCHANGED <<rowVars, actorVars, facts, told, failures, faults>>

-------------------------------------------------------------------------------
(* Reading, writing back, and finishing.                                   *)

\* The INSERT of CreatePayment, and its event, whose error is ignored.
CreatePayment(p) ==
    /\ ~Exists(p)
    /\ row' = [row EXCEPT ![p] = InitialRow]
    /\ \/ /\ events' = [events EXCEPT ![p] = @ \cup {<<"payment_created", "pending">>}]
          /\ UNCHANGED faults
       \/ Fault /\ UNCHANGED events
    /\ UNCHANGED <<callbacks, actorVars, worldVars>>

\* Actor a holds entity r of payment p, to be written with event type e.
Hold(a, p, r, e) ==
    /\ snap' = [snap EXCEPT ![a][p] = r]
    /\ cur' = [cur EXCEPT ![a] = p]
    /\ act' = [act EXCEPT ![a] = e]
    /\ pc' = [pc EXCEPT ![a] = Updating]

\* Mutant: the entity outlives its tick and is found again on the next one.
KeepsItem(w, p) ==
    /\ cur' = [cur EXCEPT ![w] = NoPayment]
    /\ act' = [act EXCEPT ![w] = "none"]
    /\ pc' = [pc EXCEPT ![w] = Idle]
    /\ UNCHANGED snap

\* A worker is done with item p of its batch.
NextItem(w, p) ==
    /\ snap' = [snap EXCEPT ![w][p] = NoRow]
    /\ cur' = [cur EXCEPT ![w] = NoPayment]
    /\ act' = [act EXCEPT ![w] = "none"]
    /\ pc' = [pc EXCEPT ![w] =
                IF \E q \in Payments \ {p} : snap[w][q] # NoRow THEN InBatch ELSE Idle]

\* A request answers; it keeps the payment it was about.
Answer(r, p, outcome) ==
    /\ snap' = [snap EXCEPT ![r] = Nothing]
    /\ cur' = [cur EXCEPT ![r] = p]
    /\ act' = [act EXCEPT ![r] = "none"]
    /\ pc' = [pc EXCEPT ![r] = outcome]

\* After the UPDATE.  A webhook is acknowledged only when its record is stored.
Replied(a, outcome) ==
    IF a \in Requests
    THEN /\ Answer(a, cur[a], outcome)
         /\ callbacks' = IF act[a] = "provider_callback" /\ outcome = "ok"
                         THEN [callbacks EXCEPT ![a] = "processed"] ELSE callbacks
    ELSE NextItem(a, cur[a]) /\ UNCHANGED callbacks

\* Mutant: UPDATE only what a dispatcher changes, the delivery columns.
DeliveryColumnsOnly(a) ==
    LET r == snap[a][cur[a]]
    IN  IF a \in Dispatchers THEN [r EXCEPT !.status = row[cur[a]].status] ELSE r

\* What UPDATE stores: every column, as the actor last saw or computed it.
Written(a) == snap[a][cur[a]]

\* UPDATE payments SET <every column> WHERE id = ?, then the event, whose
\* error is ignored, then a webhook's record, whose error is the answer.  The
\* process may also die, or the reply be lost, after the UPDATE took effect.
Write(a) ==
    LET logged == [events EXCEPT ![cur[a]] = @ \cup {<<act[a], Written(a).status>>}]
    IN  /\ pc[a] = Updating
        /\ row' = [row EXCEPT ![cur[a]] = Written(a)]
        /\ \/ events' = logged /\ Replied(a, "ok") /\ UNCHANGED faults
           \/ Fault /\ UNCHANGED events /\ Replied(a, "ok")
           \/ Fault /\ events' \in {events, logged} /\ Replied(a, "error")
        /\ UNCHANGED worldVars

\* The row already holds the very values: MySQL counts no changed row, and
\* Update reports ErrPaymentNotFound.  (updated_at has seconds: the model lets
\* this happen whenever the other columns agree.)
WriteChangesNothing(a) ==
    /\ pc[a] = Updating
    /\ row[cur[a]] = Written(a)
    /\ IF a \in Requests THEN Answer(a, cur[a], "notfound") ELSE NextItem(a, cur[a])
    /\ UNCHANGED <<rowVars, worldVars, faults>>

\* The UPDATE fails: the handler answers with the error, the job keeps it as
\* its first error and goes on with the next item.
WriteFails(a) ==
    /\ pc[a] = Updating
    /\ Fault
    /\ IF a \in Requests THEN Answer(a, cur[a], "error") ELSE NextItem(a, cur[a])
    /\ UNCHANGED <<rowVars, worldVars>>

\* A worker process dies; what it was going to write is lost.
WorkerDies(w) ==
    /\ pc[w] # Idle
    /\ Fault
    /\ snap' = [snap EXCEPT ![w] = Nothing]
    /\ cur' = [cur EXCEPT ![w] = NoPayment]
    /\ act' = [act EXCEPT ![w] = "none"]
    /\ pc' = [pc EXCEPT ![w] = Idle]
    /\ UNCHANGED <<rowVars, worldVars>>

-------------------------------------------------------------------------------
(* CancelPayment.                                                          *)

\* FindByID, then the check on the status that was read.
CancelPayment(r, p) ==
    /\ pc[r] = Idle
    /\ MayStart
    /\ \/ ~Exists(p) /\ Answer(r, p, "notfound")
       \/ Exists(p) /\ row[p].status = "paid" /\ Answer(r, p, "invalid")
       \/ /\ Exists(p)
          /\ row[p].status # "paid"
          /\ Hold(r, p, Canceled(row[p]), "payment_canceled")
    /\ UNCHANGED <<rowVars, worldVars, faults>>

-------------------------------------------------------------------------------
(* HandleProviderCallback.                                                 *)

\* Mutant: an unknown event type falls through to the last case.
UnknownMeansPaid(e) ==
    IF e \in {"completed", "paid", "other"} THEN "paid" ELSE e

\* The status a webhook event asks for: a completed session counts as paid,
\* whether or not its money has arrived; an unknown event asks for none.
CallbackStatus(e) ==
    CASE e \in {"completed", "paid"}           -> "paid"
      [] e \in {"failed", "expired", "canceled"} -> e
      [] e = "other"                           -> "none"

\* persistRejectedCallback, whose own error is ignored.
Reject(r, p, outcome) ==
    /\ \/ callbacks' = [callbacks EXCEPT ![r] = "rejected"] /\ UNCHANGED faults
       \/ Fault /\ UNCHANGED callbacks
    /\ Answer(r, p, outcome)

\* Bad signature or unreadable payload.
CallbackReject(r) ==
    /\ pc[r] = Idle
    /\ MayStart
    /\ Reject(r, NoPayment, "rejected")
    /\ UNCHANGED <<row, events, worldVars>>

\* A genuine event about p, at any time after it happened, any number of
\* times, in any order, or "other"; then FindByCallbackHash.
CallbackReceive(r, p, e) ==
    /\ pc[r] = Idle
    /\ MayStart
    /\ \/ ~Exists(p) /\ Reject(r, p, "notfound")
       \/ /\ Exists(p)
          /\ Hold(r, p, CallbackApplied(row[p], CallbackStatus(e)), "provider_callback")
          /\ UNCHANGED <<callbacks, faults>>
    /\ UNCHANGED <<row, events, worldVars>>

\* The SELECT of either handler fails.
ReadFails(r) ==
    /\ pc[r] = Idle
    /\ Fault
    /\ Answer(r, NoPayment, "error")
    /\ UNCHANGED <<rowVars, worldVars>>

-------------------------------------------------------------------------------
(* The jobs: one SELECT for a whole batch, then item by item.              *)

\* LIMIT BatchSize over the rows a query finds (which of them are first is
\* left open).
Batches(found) ==
    {B \in SUBSET found : /\ B # {}
                          /\ \/ Cardinality(B) = BatchSize
                             \/ B = found /\ Cardinality(B) < BatchSize}

Select(w, B) ==
    /\ pc[w] = Idle
    /\ MayStart
    /\ snap' = [snap EXCEPT ![w] = [p \in Payments |-> IF p \in B THEN row[p] ELSE NoRow]]
    /\ pc' = [pc EXCEPT ![w] = InBatch]
    /\ UNCHANGED <<rowVars, act, cur, worldVars, faults>>

HasItem(w, p) == pc[w] = InBatch /\ snap[w][p] # NoRow

\* Mutant: ListExpiredPending forgets its status filter.
OverdueAnyStatus == {p \in Payments : Exists(p) /\ overdue[p]}

\* ListExpiredPending.
ExpiredPending == {p \in Payments : /\ Exists(p)
                                    /\ row[p].status \in OpenStatus
                                    /\ overdue[p]}

ListExpiredPending(w) == \E B \in Batches(ExpiredPending) : Select(w, B)

\* RunExpirePendingBatch, one item: Stripe is not asked.
ExpireItem(w, p) ==
    /\ HasItem(w, p)
    /\ Hold(w, p, Expired(snap[w][p]), "payment_expired")
    /\ UNCHANGED <<rowVars, worldVars, faults>>

\* ListForReconcile; which rows are stale (updated_at) is left open.
ListForReconcile(w) ==
    \E found \in SUBSET {p \in Payments : Exists(p) /\ row[p].status \in OpenStatus} :
        \E B \in Batches(found) : Select(w, B)

\* GetPaymentStatus: the session as it is now.
ProviderStatus(p) ==
    IF "expired" \in facts[p] THEN "expired"
    ELSE IF "paid" \in facts[p] THEN "paid" ELSE "pending"

\* RunReconcileBatch, one item whose answer differs from what was read.
ReconcileItem(w, p) ==
    /\ HasItem(w, p)
    /\ ProviderStatus(p) # snap[w][p].status
    /\ Hold(w, p, Reconciled(snap[w][p], ProviderStatus(p)), "payment_reconciled")
    /\ UNCHANGED <<rowVars, worldVars, faults>>

\* Stripe failed, said nothing of use, or said what the row says.
ReconcileSkip(w, p) ==
    /\ HasItem(w, p)
    /\ NextItem(w, p)
    /\ UNCHANGED <<rowVars, worldVars, faults>>

\* ListDueCallbackDispatch.
DueCallbackDispatch == {p \in Payments : /\ Exists(p)
                                         /\ row[p].delivery = "pending"
                                         /\ row[p].nextAt = "due"}

ListDueCallbackDispatch(w) == \E B \in Batches(DueCallbackDispatch) : Select(w, B)

\* The POST reached the caller service.
Tell(p, s) == told' = [told EXCEPT ![p] = @ \cup {s}]

Failed(p, s) ==
    failures' = [failures EXCEPT ![p][s] = IF @ < Budget THEN @ + 1 ELSE @]

\* dispatchCallback: POST the entity of the batch, status and all.
PostAccepted(w, p) ==
    /\ HasItem(w, p)
    /\ Tell(p, snap[w][p].status)
    /\ Hold(w, p, Dispatched(snap[w][p]), "callback_dispatched")
    /\ UNCHANGED <<rowVars, facts, failures, overdue, faults>>

\* Refused, timed out, or accepted with the answer lost on the way back.
PostFailed(w, p) ==
    /\ HasItem(w, p)
    /\ Tell(p, snap[w][p].status) \/ UNCHANGED told
    /\ Failed(p, snap[w][p].status)
    /\ Hold(w, p, DispatchFailed(snap[w][p]), "callback_dispatch_failed")
    /\ UNCHANGED <<rowVars, facts, overdue, faults>>

-------------------------------------------------------------------------------
EnvironmentStep ==
    \/ \E p \in Payments, f \in ProviderFacts : ProviderStep(p, f)
    \/ \E p \in Payments : RetryIntervalPasses(p)
    \/ \E p \in Payments : PendingTimeoutPasses(p)

HandlerStep(r) ==
    \/ \E p \in Payments : CancelPayment(r, p)
    \/ CallbackReject(r)
    \/ \E p \in Payments : \E e \in facts[p] \cup {"other"} : CallbackReceive(r, p, e)
    \/ ReadFails(r)

ReconcilerStep(w) ==
    \/ ListForReconcile(w)
    \/ \E p \in Payments : ReconcileItem(w, p)
    \/ \E p \in Payments : ReconcileSkip(w, p)

ExpirerStep(w) ==
    \/ ListExpiredPending(w)
    \/ \E p \in Payments : ExpireItem(w, p)

DispatcherStep(w) ==
    \/ ListDueCallbackDispatch(w)
    \/ \E p \in Payments : PostAccepted(w, p)
    \/ \E p \in Payments : PostFailed(w, p)

WriteBack(a) == Write(a) \/ WriteChangesNothing(a)

Next ==
    \/ EnvironmentStep
    \/ \E p \in Payments : CreatePayment(p)
    \/ \E r \in Requests : HandlerStep(r)
    \/ \E w \in Reconcilers : ReconcilerStep(w)
    \/ \E w \in Expirers : ExpirerStep(w)
    \/ \E w \in Dispatchers : DispatcherStep(w)
    \/ \E a \in Actors : WriteBack(a)
    \/ \E a \in Actors : WriteFails(a)
    \/ \E w \in Workers : WorkerDies(w)

Spec == Init /\ [][Next]_vars

\* Time passes, and a worker process in --worker mode runs its job again on
\* every tick; its calls end (client timeouts).  Nothing is asked of
\* handlers, of Stripe or of the reconciler.
Fairness ==
    /\ \A p \in Payments : /\ WF_vars(RetryIntervalPasses(p))
                            /\ WF_vars(PendingTimeoutPasses(p))
    /\ \A w \in Expirers : WF_vars(ExpirerStep(w) \/ WriteBack(w))
    /\ \A w \in Dispatchers : WF_vars(DispatcherStep(w) \/ WriteBack(w))

FairSpec == Spec /\ Fairness

\* Operations on payment p do not overlap: no two actors hold entities of it.
Apart(p) ==
    \A a, b \in Actors : snap[a][p] # NoRow /\ snap[b][p] # NoRow => a = b

\* The behaviours in which they overlap on none: as many may be under way as
\* there are payments, and a job's batch is one operation on each of its rows.
ApartSpec == Init /\ [][Next /\ \A p \in Payments : Apart(p)']_vars

-------------------------------------------------------------------------------
(* Types.                                                                  *)

TablesOK ==
    /\ row \in [Payments -> Row \cup {NoRow}]
    /\ events \in [Payments -> SUBSET (EventTypes \X Status)]
    /\ callbacks \in [Requests -> {"none", "processed", "rejected"}]

WorldOK ==
    /\ facts \in [Payments -> SUBSET ProviderFacts]
    /\ told \in [Payments -> SUBSET Status]
    /\ failures \in [Payments -> [Status -> 0..Budget]]
    /\ overdue \in [Payments -> BOOLEAN]
    /\ faults \in 0..MaxFaults

\* An actor about to execute an UPDATE has a stored payment, an entity for it
\* and an event to record; it keeps entities only while it is at work; and a
\* worker has a payment in hand only for an UPDATE.
ActorOK(a) ==
    /\ pc[a] = Updating => /\ cur[a] \in Payments
                           /\ row[cur[a]] # NoRow
                           /\ snap[a][cur[a]] # NoRow
                           /\ act[a] \in EventTypes
    /\ pc[a] \notin {InBatch, Updating} => snap[a] = Nothing
    /\ a \in Workers /\ pc[a] # Updating => cur[a] = NoPayment
    /\ \A p \in Payments : snap[a][p] # NoRow => row[p] # NoRow

ActorsOK ==
    /\ pc \in [Actors -> {Idle, InBatch, Updating} \cup Outcomes]
    /\ act \in [Actors -> EventTypes \cup {"none"}]
    /\ cur \in [Actors -> Payments \cup {NoPayment}]
    /\ snap \in [Actors -> [Payments -> Row \cup {NoRow}]]
    /\ \A a \in Actors : ActorOK(a)

\* Types of all variables, and the shape of an actor.
TypeOK == TablesOK /\ WorldOK /\ ActorsOK

-------------------------------------------------------------------------------
(* Safety, whatever overlaps whatever.                                     *)

\* Paid or failed is said of a payment only if Stripe said it.
Founded(happened, s) ==
    /\ s = "paid" => happened \cap {"completed", "paid"} # {}
    /\ s = "failed" => "failed" \in happened

\* An entity that may be in the table: consistent, about an outcome that
\* happened, a success the caller knows of, attempts that were really made.
Sound(happened, toldTo, failed, r) ==
    /\ RowConsistent(r)
    /\ Founded(happened, r.status)
    /\ r.delivery = "success" => r.status \in toldTo
    /\ r.attempts <= failed[r.status]

SoundFor(p, r) == Sound(facts[p], told[p], failures[p], r)

\* Every stored row is sound, although writers overwrite each other with
\* entities computed from overtaken reads: Update writes whole rows, so the
\* delivery columns always belong to the status next to them.  In particular
\* a terminal row is never left without a delivery, a queued one never
\* without a next attempt, and a count of attempts is never inherited by a
\* status it was not made for.
RowsSound == \A p \in Payments : Exists(p) => SoundFor(p, row[p])

\* So is every entity an actor may still write, however old its read: a
\* dispatcher's items are queued rows and a reconciler's are open rows, as
\* they were when the batch was read.
InFlightSound ==
    \A a \in Actors, p \in Payments :
        snap[a][p] # NoRow =>
            /\ SoundFor(p, snap[a][p])
            /\ a \in Dispatchers /\ cur[a] # p => snap[a][p].delivery = "pending"
            /\ a \in Reconcilers /\ cur[a] # p => snap[a][p].status \in OpenStatus
            /\ cur[a] = p /\ act[a] = "callback_dispatched" => snap[a][p].delivery = "success"

\* A row that says its status was delivered (dispatchCallback's success) is
\* about a status the caller service did receive: a delivery of one outcome
\* is never credited to another that a handler wrote in the meantime.
DeliveredMeansTold ==
    \A p \in Payments :
        /\ Exists(p) /\ row[p].delivery = "success" => row[p].status \in told[p]
        /\ \A e \in events[p] : e[1] = "callback_dispatched" => e[2] \in told[p]

\* The dispatcher gives a status up only after as many failed POSTs of that
\* very status as the retry budget allows (recordDispatchFailure), with any
\* number of dispatchers counting on copies of the row.
GivenUpMeansBudgetSpent ==
    \A p \in Payments :
        Exists(p) /\ row[p].delivery = "failed" => failures[p][row[p].status] = Budget

\* Callers are only ever told outcomes: no POST carries a status the payment
\* may still leave by itself (README: "dispatching terminal payment status
\* callbacks"), although the entity posted may be overtaken.
OnlyOutcomesTold == \A p \in Payments : told[p] \subseteq TerminalStatus

\* A payment is paid or failed in the row, in the audit trail or in the eyes
\* of the caller only after a Stripe event said so: no reordering, staleness
\* or crash makes these outcomes up.
OutcomesFounded ==
    \A p \in Payments :
        /\ Exists(p) => Founded(facts[p], row[p].status)
        /\ \A s \in told[p] : Founded(facts[p], s)
        /\ \A e \in events[p] : Founded(facts[p], e[2])

-------------------------------------------------------------------------------
(* Action properties.  The first four hold when operations overlap on no   *)
(* payment (ApartSpec); an overtaken snapshot breaks each of them.         *)

\* No cancel is written over a paid row (README: "Cancel non-paid payments";
\* CancelPayment: "paid payments cannot be canceled").
CancelSparesPaid ==
    [][\A r \in Requests :
         act[r] = "payment_canceled" /\ pc'[r] = "ok" => row[cur[r]].status # "paid"]_vars

\* The expire and reconcile jobs change open rows only (README: "Marks
\* long-running `pending/processing` payments as `expired`", "Reconciles
\* stale `pending/processing` provider-backed payments"): an outcome that
\* arrived first, by webhook or by cancel, is kept.
SweepsSpareOutcomes ==
    [][\A w \in Expirers \cup Reconcilers :
         pc[w] = Updating /\ row'[cur[w]] # row[cur[w]] => row[cur[w]].status \in OpenStatus]_vars

\* A payment that has an outcome never becomes pending again.
OutcomesStay ==
    [][\A p \in Payments :
         Exists(p) /\ row[p].status \in TerminalStatus => row'[p].status \in TerminalStatus]_vars

\* Whenever the status of a row changes, the new one is queued for the
\* caller at once, with the whole retry budget.
NewOutcomeIsQueued ==
    [][\A p \in Payments :
         Exists(p) /\ row'[p].status # row[p].status =>
            row'[p].delivery = "pending" /\ row'[p].attempts = 0 /\ row'[p].nextAt = "due"]_vars

\* "Payment not found" means there is no such payment (ErrPaymentNotFound; the
\* repository of the service tests returns it only for an unknown id).
NotFoundMeansAbsent ==
    [][\A r \in Requests :
         pc[r] # "notfound" /\ pc'[r] = "notfound" => ~Exists(cur'[r])]_vars

-------------------------------------------------------------------------------
(* What the service promises, when operations overlap on no payment.       *)

\* What the ledger knows of a row: not which open status, nor the attempts.
Outcome(r) ==
    IF r = NoRow THEN "absent" ELSE IF r.status \in OpenStatus THEN "open" ELSE r.status
Notice(r) == IF r = NoRow THEN "none" ELSE r.delivery

Ledger(p) == INSTANCE PaymentLedger
             WITH outcome <- Outcome(row[p]), notice <- Notice(row[p]), told <- told[p]

\* The handlers and jobs implement the ledger of every payment, with statements
\* that fail, replies that are lost and processes that die: an outcome never
\* gives way to an open status, changes only together with its notice, and only
\* to an outcome that may follow it; a notice is closed only by a dispatcher.
ImplementsLedger ==
    /\ \A p \in Payments : Ledger(p)!Init
    /\ [][\A p \in Payments : [Ledger(p)!Next]_(Ledger(p)!vars)]_vars

-------------------------------------------------------------------------------
(* Liveness, under FairSpec.                                               *)

HasOutcome(p) == Exists(p) /\ row[p].status \in TerminalStatus
Settled(p) == HasOutcome(p) /\ row[p].delivery \in {"success", "failed"}

\* No payment stays open for ever: with an expire job running, every stored
\* row reaches an outcome, even when an overtaken webhook reopens it, an item
\* of the batch fails, or the job dies half way through it.
PendingResolves == \A p \in Payments : Exists(p) ~> HasOutcome(p)

\* No outcome waits for ever: with a dispatch job running it is delivered or
\* given up, whatever dispatchers overwrite each other's attempt counts and
\* whichever other rows fill the batch.
OutcomeSettles == \A p \in Payments : HasOutcome(p) ~> Settled(p)

\* Once nobody calls any more the row comes to rest: an outcome, delivered or
\* given up, that no job touches again.
ComesToRest == \A p \in Payments : Exists(p) ~> []Settled(p)
===============================================================================
