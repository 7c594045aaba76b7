----------------------------- MODULE JobSchedule -----------------------------
(***************************************************************************)
(* The three jobs against the clock: which rows a query returns under its  *)
(* ORDER BY and LIMIT, and when.                                           *)
(*                                                                         *)
(* PaymentService leaves the order of a batch open and lets every step of  *)
(* a job race with every other.  Here a batch is one step, and what counts *)
(* is time: updated_at and created_at put rows in the queries' order, a    *)
(* worker runs its job every interval, and rows become stale, overdue and  *)
(* due by the clock.  Instants are ticks; all settings are in ticks.       *)
(***************************************************************************)
EXTENDS PaymentRow, FiniteSets

CONSTANTS
    Payments,           \* the payments callers create
    BatchSizes,         \* the values of JobBatchSize in this instance
    StaleAfter,         \* PAYMENTS_RECONCILE_STALE_AFTER_MINUTES
    PendingTimeout,     \* PAYMENTS_PENDING_TIMEOUT_MINUTES
    RetryInterval,      \* PAYMENTS_CALLBACK_RETRY_INTERVAL_MINUTES
    ReconcileInterval,  \* PAYMENTS_RECONCILE_INTERVAL_MINUTES
    ExpireInterval,     \* PAYMENTS_EXPIRE_PENDING_INTERVAL_MINUTES
    DispatchInterval,   \* PAYMENTS_CALLBACK_DISPATCH_INTERVAL_MINUTES
    Horizon,            \* bound: the last instant
    LastCreation,       \* bound: the last instant at which payments are created
    SessionEndings,     \* how sessions end in this instance
    MaxFaults,          \* bound: calls and statements of jobs that fail
    NoRow               \* no row yet

ASSUME BatchSizesAssumption == BatchSizes \subseteq Nat \ {0}
ASSUME IntervalsAssumption ==
    {StaleAfter, PendingTimeout, RetryInterval,
     ReconcileInterval, ExpireInterval, DispatchInterval} \subseteq Nat \ {0}
ASSUME BoundsAssumption ==
    /\ {Horizon, LastCreation, MaxFaults} \subseteq Nat
    /\ IsFiniteSet(Payments)
    /\ SessionEndings \subseteq {"paid", "expired"}
ASSUME NoRowAssumption == NoRow \notin Row

VARIABLES
    BatchSize,  \* JobBatchSize, the LIMIT of every job query; it does not change
    now,        \* the clock
    row,        \* payments: status and delivery, as in PaymentRow
    created,    \* created_at, kept while the row is open: nothing reads it later
    updated,    \* updated_at, likewise
    nextAt,     \* callback_delivery_next_at, where row says there is one
    ran,        \* when each job last ran
    session,    \* Stripe's side: the checkout session of each payment
    asked,      \* open payments about which Stripe was asked, and answered
    unnoticed,  \* reconcile runs that left a stale open row, paid at Stripe, as it was
    passed,     \* dispatch runs that left a due row out, since it became due or had its turn
    faults      \* faults so far

vars == <<BatchSize, now, row, created, updated, nextAt, ran, session,
          asked, unnoticed, passed, faults>>

Jobs == {"reconcile", "expire", "dispatch"}
Interval(j) == CASE j = "reconcile" -> ReconcileInterval
                 [] j = "expire"    -> ExpireInterval
                 [] j = "dispatch"  -> DispatchInterval

Exists(p) == row[p] # NoRow
IsOpen(p) == Exists(p) /\ row[p].status \in OpenStatus

\* The workers are started apart: each is somewhere between two ticks.
Init ==
    /\ BatchSize \in BatchSizes
    /\ now = 0
    /\ row = [p \in Payments |-> NoRow]
    /\ created = [p \in Payments |-> 0]
    /\ updated = [p \in Payments |-> 0]
    /\ nextAt = [p \in Payments |-> 0]
    /\ \E r \in 1 - ReconcileInterval .. 0, e \in 1 - ExpireInterval .. 0,
          d \in 1 - DispatchInterval .. 0 :
            ran = [reconcile |-> r, expire |-> e, dispatch |-> d]
    /\ session = [p \in Payments |-> "open"]
    /\ asked = {}
    /\ unnoticed = [p \in Payments |-> 0]
    /\ passed = [p \in Payments |-> 0]
    /\ faults = 0

-------------------------------------------------------------------------------
(* The clock, Stripe and the handlers.                                     *)

\* Time does not pass a tick of a worker's ticker: the job runs first.
Tick ==
    /\ now < Horizon
    /\ \A j \in Jobs : now + 1 <= ran[j] + Interval(j)
    /\ now' = now + 1
    /\ UNCHANGED <<BatchSize, row, created, updated, nextAt, ran, session,
                   asked, unnoticed, passed, faults>>

CreatePayment(p) ==
    /\ ~Exists(p)
    /\ now <= LastCreation
    /\ row' = [row EXCEPT ![p] = InitialRow]
    /\ created' = [created EXCEPT ![p] = now]
    /\ updated' = [updated EXCEPT ![p] = now]
    /\ UNCHANGED <<BatchSize, now, nextAt, ran, session, asked, unnoticed, passed, faults>>

\* The customer pays, or Stripe expires the session.  Its webhook may be lost.
SessionEnds(p, s) ==
    /\ Exists(p)
    /\ session[p] = "open"
    /\ session' = [session EXCEPT ![p] = s]
    /\ UNCHANGED <<BatchSize, now, row, created, updated, nextAt, ran,
                   asked, unnoticed, passed, faults>>

\* UPDATE of every payment in C with the entity new gives for it: updated_at
\* is now, and so is callback_delivery_next_at unless it is a retry.
StoreAll(C, new) ==
    LET closed == {p \in C : new[p].status \notin OpenStatus}
        queued == {p \in C : new[p].delivery = "pending" /\ new[p] # row[p]}
    IN  /\ row' = [p \in Payments |-> IF p \in C THEN new[p] ELSE row[p]]
        /\ created' = [p \in Payments |-> IF p \in closed THEN 0 ELSE created[p]]
        /\ updated' = [p \in Payments |-> IF p \in closed THEN 0
                                          ELSE IF p \in C THEN now ELSE updated[p]]
        /\ nextAt' = [p \in Payments |->
                        IF p \notin queued THEN nextAt[p]
                        ELSE IF new[p].nextAt = "later" THEN now + RetryInterval ELSE now]

Forget(f, C) == [p \in Payments |-> IF p \in C THEN 0 ELSE f[p]]

\* A webhook: about the end of the session, or of a type the code does not
\* know, which touches the row and no more.
HandleProviderCallback(p, s) ==
    LET new == [q \in {p} |-> CallbackApplied(row[q], s)]
    IN  /\ Exists(p)
        /\ s = "none" \/ s = session[p]
        /\ StoreAll({p}, new)
        /\ IF new[p] = row[p] THEN UNCHANGED <<asked, unnoticed, passed>>
           ELSE /\ asked' = asked \ {p}
                /\ unnoticed' = Forget(unnoticed, {p})
                /\ passed' = Forget(passed, {p})
        /\ UNCHANGED <<BatchSize, now, ran, session, faults>>

-------------------------------------------------------------------------------
(* The queries.                                                            *)

\* ORDER BY at ASC LIMIT BatchSize; equal instants come in any order.
First(found, at) ==
    {B \in SUBSET found :
        /\ Cardinality(B) = IF Cardinality(found) < BatchSize
                            THEN Cardinality(found) ELSE BatchSize
        /\ \A p \in B, q \in found \ B : at[p] <= at[q]}

Stale == {p \in Payments : IsOpen(p) /\ updated[p] + StaleAfter <= now}

\* Mutant: ListExpiredPending with updated_at: a touched row starts over.
OverdueSinceUpdate == {p \in Payments : IsOpen(p) /\ updated[p] + PendingTimeout <= now}

\* Mutant: ListExpiredPending with the cutoff of the reconcile job.
OverdueWhenStale == {p \in Payments : IsOpen(p) /\ created[p] + StaleAfter <= now}

Overdue == {p \in Payments : IsOpen(p) /\ created[p] + PendingTimeout <= now}

Due == {p \in Payments : Exists(p) /\ row[p].delivery = "pending" /\ nextAt[p] <= now}

\* Mutant: rows in processing only.
ListProcessing == First({p \in Stale : row[p].status = "processing"}, updated)

\* Mutant: ORDER BY callback_delivery_next_at DESC.
ListDueLatestFirst == First(Due, [p \in Payments |-> now - nextAt[p]])

ListForReconcile == First(Stale, updated)
ListExpiredPending == First(Overdue, created)
ListDueCallbackDispatch == First(Due, nextAt)

-------------------------------------------------------------------------------
(* The batches, run by a worker when its ticker fires.                     *)

Starts(j) ==
    /\ now = ran[j] + Interval(j)
    /\ ran' = [ran EXCEPT ![j] = now]

\* The items in F fail: nothing is stored for them.
Failing(F) ==
    /\ faults + Cardinality(F) <= MaxFaults
    /\ faults' = faults + Cardinality(F)

\* GetPaymentStatus.
ProviderStatus(p) == IF session[p] = "open" THEN "pending" ELSE session[p]

\* The counts of a reconcile run that closes the rows in C, and of a dispatch
\* run that gets to the rows in B.
Unnoticed(C) ==
    [p \in Payments |-> IF p \in C THEN 0
                        ELSE IF p \in Stale /\ session[p] = "paid" THEN unnoticed[p] + 1
                        ELSE unnoticed[p]]

PassedOver(B) ==
    [p \in Payments |-> IF p \in B THEN 0
                        ELSE IF p \in Due THEN passed[p] + 1 ELSE passed[p]]

\* The SELECT of job j fails, and the run is over before its first payment.
ListFails(j) ==
    /\ Starts(j)
    /\ faults < MaxFaults
    /\ faults' = faults + 1
    /\ unnoticed' = IF j = "reconcile" THEN Unnoticed({}) ELSE unnoticed
    /\ passed' = IF j = "dispatch" THEN PassedOver({}) ELSE passed
    /\ UNCHANGED <<BatchSize, now, row, created, updated, nextAt, session, asked>>

\* An item whose status is what the row says is passed over without an
\* UPDATE, so it keeps its updated_at and its place in the next batch.  One
\* that fails, in the call to Stripe or in the UPDATE, counts as not asked.
RunReconcileBatch(B, F) ==
    LET changed == {p \in B \ F : ProviderStatus(p) # row[p].status}
        new == [p \in changed |-> Reconciled(row[p], ProviderStatus(p))]
    IN  /\ Starts("reconcile")
        /\ Failing(F)
        /\ StoreAll(changed, new)
        /\ asked' = (asked \cup (B \ F)) \ changed
        /\ unnoticed' = Unnoticed(changed)
        /\ passed' = Forget(passed, changed)
        /\ UNCHANGED <<BatchSize, now, session>>

RunExpirePendingBatch(B, F) ==
    LET new == [p \in B \ F |-> Expired(row[p])]
    IN  /\ Starts("expire")
        /\ Failing(F)
        /\ StoreAll(B \ F, new)
        /\ asked' = asked \ (B \ F)
        /\ unnoticed' = Forget(unnoticed, B \ F)
        /\ passed' = Forget(passed, B \ F)
        /\ UNCHANGED <<BatchSize, now, session>>

\* The callers of the items in A accept the POST, the others do not.  The
\* UPDATE after it fails for those in F, whatever the caller said: they keep
\* their next_at and so their place in the next batch.
RunDispatchCallbacksBatch(B, A, F) ==
    LET new == [p \in B \ F |-> IF p \in A THEN Dispatched(row[p]) ELSE DispatchFailed(row[p])]
    IN  /\ Starts("dispatch")
        /\ Failing(F)
        /\ StoreAll(B \ F, new)
        /\ passed' = PassedOver(B)
        /\ UNCHANGED <<BatchSize, now, session, asked, unnoticed>>

Next ==
    \/ Tick
    \/ \E p \in Payments : CreatePayment(p)
    \/ \E p \in Payments, s \in SessionEndings : SessionEnds(p, s)
    \/ \E p \in Payments, s \in SessionEndings \cup {"none"} : HandleProviderCallback(p, s)
    \/ \E B \in ListForReconcile : \E F \in SUBSET B : RunReconcileBatch(B, F)
    \/ \E B \in ListExpiredPending : \E F \in SUBSET B : RunExpirePendingBatch(B, F)
    \/ \E B \in ListDueCallbackDispatch : \E F \in SUBSET B : \E A \in SUBSET (B \ F) :
            RunDispatchCallbacksBatch(B, A, F)
    \/ \E j \in Jobs : ListFails(j)

Spec == Init /\ [][Next]_vars

-------------------------------------------------------------------------------
\* Types, and instants that are not ahead of what the code writes.
TypeOK ==
    /\ BatchSize \in BatchSizes
    /\ now \in 0..Horizon
    /\ row \in [Payments -> Row \cup {NoRow}]
    /\ created \in [Payments -> 0..now]
    /\ updated \in [Payments -> 0..now]
    /\ nextAt \in [Payments -> 0..now + RetryInterval]
    /\ \A j \in Jobs : ran[j] \in now - Interval(j) .. now
    /\ session \in [Payments -> {"open", "paid", "expired"}]
    /\ asked \subseteq {p \in Payments : IsOpen(p)}
    /\ unnoticed \in [Payments -> Nat]
    /\ passed \in [Payments -> Nat]
    /\ faults \in 0..MaxFaults
    /\ \A p \in Payments : Exists(p) => created[p] <= updated[p] /\ RowConsistent(row[p])

\* LIMIT leaves no payment out.
BatchHoldsAll == Cardinality(Payments) <= BatchSize

\* The first reconcile run that finds a row stale and its session paid closes
\* the row, unless the run fails or its batch leaves rows out: a lost webhook
\* costs one interval and no more (ListForReconcile, RunReconcileBatch; README:
\* "stale payment reconcile against provider").
PaidIsNoticed == BatchHoldsAll => \A p \in Payments : unnoticed[p] <= faults

\* No payment is expired by the clock alone that Stripe was not asked about, if
\* the settings leave room for one reconcile run between stale and overdue and
\* for one more per failure (README: "Reconciles stale `pending/processing`
\* provider-backed payments against provider status").  Not so in batches that
\* leave rows out: a row nobody pays keeps its updated_at and its place at the
\* head.  And a webhook of an unknown type makes a row young again for the
\* reconcile job but not for the expire job, so rows it touched are left out.
AskedBeforeExpired ==
    [][\A p \in Payments :
         /\ BatchHoldsAll
         /\ StaleAfter + ReconcileInterval * (1 + faults) <= PendingTimeout
         /\ IsOpen(p) /\ updated[p] = created[p]
         /\ row'[p].status = "expired" /\ session[p] # "expired"
         => p \in asked]_vars

\* No payment is open longer than the pending timeout and as many runs of the
\* expire job as it takes to get through all of them, one more per failure.
OpenIsBounded ==
    \A p \in Payments :
        IsOpen(p) => now <= created[p] + PendingTimeout
                            + ExpireInterval * (1 + faults + (Cardinality(Payments) - 1) \div BatchSize)

\* A due delivery is left out by no more runs than full batches of all the others
\* make, and by one more per failure.  A delivery the caller refused goes to the end of the
\* order by a retry interval, and only those of the run in the very tick in which this
\* one became due may get a new outcome in that tick and come first again.
\* One whose UPDATE fails stays where it is, before others, and a failed SELECT
\* leaves all of them out; either is a fault (dispatchCallback, its two UPDATEs).
DueInTurn ==
    \A p \in Due :
        passed[p] * BatchSize <= Cardinality(Payments) - 1 + BatchSize * (1 + faults)
===============================================================================
