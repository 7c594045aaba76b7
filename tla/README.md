# Verification of ms-go-payments

TLA+ models of the payments service, checked with TLC on small instances and
proved about with TLAPS for instances of any size. Everything is translated
from the Go source and the SQL schema of this repository; line numbers are in
`PROJECT.json` (`map`).

## The system

A Go service creates payments at Stripe for other services of the same company
("callers"), follows what becomes of them, and tells the caller. All state is
in MySQL; several API processes and job processes may share it.

| Component | State | Operations |
|---|---|---|
| Creation (`service/payment.go` `CreatePayment`) | row by unique key (caller_service, request_id); objects at Stripe | SELECT by key, 1 or 3 POSTs to Stripe, INSERT, event |
| Handlers (`CancelPayment`, `service/callback.go`) | an entity in memory between SELECT and UPDATE | cancel, webhook |
| Jobs (`service/jobs.go`) | a batch of entities in memory | reconcile, expire pending, callbacks dispatch |
| Repository (`repository/payment.go`, `schema.sql`) | tables payments, payment_events, payment_callbacks | Create, Update of every column by id, finders, three job queries, List |
| Stripe provider (`provider/stripe.go`) | none here; sessions at Stripe | create, get status, verify and parse a webhook |
| Worker commands (`cmd/jobs.go`) | ticker, signal channel | run a job once, or on every tick |
| Reading (`ListPayments`, `GetPayment`) | the caller's page | one SELECT per page |
| Transport (`controller`, `grpc`, `types/payments.go`) | one request | request id, bind, validate, call the service, map its error |
| Server process (`cmd/serve.go`) | two listeners, auth client, database, signal channel | start, serve, stop |
| Configuration, mapper, generated code, command line, logging | none | see "Not modelled" |

The components meet in the payments table and nowhere else. **No transaction,
lock, version or conditional UPDATE guards a row**: everybody reads a row,
computes (a job calls Stripe or the caller in between), and writes all columns
back by id. The hard behaviours follow from that:

- *interleaving and staleness*: any number of other writes may come between a
  read and its write-back (cancel against webhook, expire against webhook,
  dispatcher against everybody, two dispatchers);
- *external effects before the write*: a POST to the caller or to Stripe is not
  undone when the UPDATE or INSERT after it fails or the process dies;
- *unreliable order*: webhooks come late, again, and in any order;
- *retry bookkeeping*: attempts, next attempt, giving up, a budget that is at
  least one;
- *idempotent creation* under a unique index, with Stripe calls before the
  INSERT and no idempotency key sent to Stripe;
- *batches with a LIMIT*, items of which fail, taken in an order by instants that
  some items never change;
- *one payment, several sessions*: a payment link is opened by several visitors, a
  subscription is renewed, and all of it writes to one row;
- *one meaning, two transports*, bound and answered by different code;
- *a stop in the middle*: of a batch, or of a call between Stripe and INSERT.

What makes each component correct: a row is always consistent (status and
delivery columns belong together); outcomes are never made up; the caller hears
every outcome of the row or the budget is really spent; nothing stays open or
queued for ever, or waits behind others longer than they take; one key is one
payment, over whichever transport; a stop costs as little as it can. `hazards` in `PROJECT.json` lists the
places where this could go wrong, and the property that watches each.

## Modules

| Module | Models |
|---|---|
| `PaymentRow` | the payments row and the rewritings of it: `markForCallbackDelivery`, `Canceled`, `CallbackApplied`, `Reconciled`, `Expired`, `Dispatched`, `DispatchFailed` |
| `PaymentService` | handlers and jobs over the shared table, Stripe, the callers and the clock |
| `CreatePayment` | creation step by step, several calls per key |
| `CreateOnce` | abstract: one payment per key, and every answer is that one |
| `PaymentLedger` | abstract: the ledger of one payment; an outcome and its notice change together, and outcomes follow each other in an order |
| `JobSchedule` | the jobs' queries with ORDER BY and LIMIT, run by the clock |
| `StripeCheckout` | sessions, links, subscriptions and invoices behind one payment; events and `GetPaymentStatus` as two readings of them; provider ids |
| `WebhookIntake` | an event on its way: sent again, forwarded raw, wrapped or over gRPC, bound, verified, answered |
| `RequestIntake` | an API request over HTTP or gRPC, to the service and back |
| `ListPaging` | pages by LIMIT and OFFSET over a table that moves |
| `WorkerLoop` | a job command: batches, ticker, signals |
| `ServeShutdown` | `serve`: two servers, calls in flight, start and stop |
| `MC...` | sets of the TLC instances |
| `PaymentServiceProofs` (with `PaymentRow` and `PaymentLedger`), `CreatePaymentProofs`, `JobScheduleProofs`, `StripeCheckoutProofs`, `IntakeProofs` (`RequestIntake` and `WebhookIntake`), `ListPagingProofs`, `WorkerLoopProofs`, `ServeShutdownProofs` | theorems |

`PaymentService`, `JobSchedule` and `StripeCheckout` extend `PaymentRow`: the
rewritings of a row are written once. `JobSchedule` gives up the steps within a
batch for the clock and the order, `StripeCheckout` the delivery columns for
Stripe's objects and ids; everything about overlapping writers is
`PaymentService`'s. A payment whose operations do not overlap implements
`PaymentLedger`, whatever overlaps on the others: `Apart(p)` says that no two actors
hold entities of `p`, and `ApartSpec` keeps it so for every payment. Its `CreatePayment` action is the INSERT
of the module `CreatePayment`, which refines `CreateOnce`: that a payment is
inserted at most once is what the refinement establishes.

### How the model corresponds to the code

- `row[p]` has the columns that code branches on: status,
  callback_delivery_status, _attempts and _next_at. The last is `"null"`,
  `"due"` (not after now) or `"later"`: what `ListDueCallbackDispatch` can tell.
- `snap[a]` is what actor `a` (an API request, or a worker process) has in
  memory: a worker's whole batch, a request's one entity. `cur` and `act` say
  which UPDATE it is about to execute and which event it will record.
- One step is one interaction with the outside: SELECT, call to Stripe, POST to
  the caller, UPDATE. A handler is `CancelPayment` or `CallbackReceive` (SELECT
  and computation) then `Write`, `WriteChangesNothing` or `WriteFails`. A job is
  a `List...` step, then one step per item (`ReconcileItem`, `ReconcileSkip`,
  `ExpireItem`, `PostAccepted`, `PostFailed`) each followed by a write.
- The INSERTs of events and webhook records are in the step of the UPDATE they
  follow; nothing reads these tables. Either may fail (`Fault`).
- `WriteChangesNothing` is `RowsAffected() == 0`: with the driver's default, MySQL
  counts changed rows. `updated_at` has a resolution of seconds, so this
  needs two writes of the same values within a second; the model allows it
  whenever the other columns agree.
- The environment: `facts[p]` is what happened at Stripe to the session of `p`
  (completed, paid, failed, expired, canceled, in a sensible order); a webhook
  may be about any fact that happened, at any time, any number of times, or of a
  type the code does not know (`"other"`). `told` and `failures` record what the
  caller received and how often it failed to. A POST that failed may
  have been received.
- A crash is `WorkerDies`, or for a request the fault branches of `Write` and
  `WriteFails`: nobody hears the answer, and the UPDATE did or did not happen.

- `JobSchedule`: instants are ticks of a clock that ends at `Horizon`. A batch is one
  step, run exactly when the worker's interval is over; `First` is ORDER BY and
  LIMIT, with ties in any order; `BatchSize` is chosen at the start of a behaviour
  from `BatchSizes`. `created` and `updated` are kept for open rows
  only, since nothing reads them later. Every error path of a run is there: a SELECT
  that fails ends the run (`ListFails`), and of a batch any set `F` of items may fail,
  in the call to Stripe or in the UPDATE. Nothing is stored for them (`Failing`), so
  they keep their instants and their place; a dispatcher's item fails in the UPDATE
  after the POST whatever the caller answered.
- `StripeCheckout`: a card payment has the session made at creation, a link one per
  `Visit`. `log` is what happened at Stripe, in order; a webhook is about any
  entry, at any time and again. In an `orderly` behaviour, which is settled at its
  start, it is about the next one, and writers neither overlap nor fail. `Hold` is a
  writer's read and computation, `Update` its write. `stale` says whether
  `ListForReconcile` would list the row: `GrowsStale` is the time since updated_at,
  which every `Update` sets back, those of webhooks of unknown types too. A delayed session is
  completed before its money is there (`unpaid`). An id that is no session's
  makes `GetPaymentStatus` an error.
- `WebhookIntake`: a copy carries its route, whether somebody has altered it, and the
  age of its signature, which starts at the difference of the two clocks.
  `Bound` is `NewHandleProviderCallbackRequestFromContext`, or for gRPC the
  message itself. The HMAC is that the payload is the signed one.
- `RequestIntake`: a text is a word with or without spaces around it. Stages follow
  the middleware: request id, bind (HTTP), `Validate`, service. The fields both
  sides read alike are one Boolean. The auth library always admits the caller.
- `ListPaging`: an id is allotted before its INSERT commits, so rows do not arrive in
  the order of their ids. A page is one SELECT: the rows whose place in the list, newest
  first, is behind OFFSET and within LIMIT.
- `WorkerLoop`: both channels hold one value; a `Tick` that finds one waiting is
  dropped. `Signal` kills a process that is not listening yet, which is so until the
  first batch is over. `begun` counts batches since an interval last ended.
- `ServeShutdown`: `main` is where `runServe` is; the two goroutines, the signal and
  the calls go on beside it. A call is `CreatePayment`'s sequence of waits; what
  is closed makes it fail.

Every mutant of a definition stands next to it, marked `Mutant`; it is a
plausible slip, and shows that the property listed with it can fail.

## Runs

| Run | Question | Instance |
|---|---|---|
| `overlap` | What the row says and the caller is told when writers overlap, and whether the payment comes to rest | 1 payment, 1 request, 1 expirer, 2 dispatchers, 2 attempts, 1 fault |
| `apart` | Whether each operation is right as long as it has its payments to itself, in every sequence, and implements the ledger of each | 2 payments, 2 requests, 3 jobs, batches of 2, 2 operations at a time, no fault |
| `create` | Idempotency: the refinement of `CreateOnce` | 3 overlapping calls, 2 keys, 2 faults |
| `schedule` | Whether the reconcile job is ahead of the expire job, how long a payment may stay open, who is served before whom | 2 payments, batches of 1 or 2, 8 ticks, stale after 1, reconcile every 2, timeout 5, 3 attempts, 1 fault in any job |
| `checkout` | Provider ids, the two readings of a session, what delayed payments, renewals and lost webhooks do | card and link, 2 sessions, 1 invoice, 2 handlers, 1 reconciler, 3 events |
| `list_paging` | What a reader misses and sees twice | 5 payments, limits -1, 0, 1, 3, 4 with a maximum of 3 |
| `worker` | What signals and ticks do to batches | batches of up to 9, any number of ticks |
| `serve` | What a stop may cut short, and whether a signal ends the process | 3 calls |
| `intake` | Whether HTTP and gRPC mean and answer the same | every request of small fields, up to 2 attempts |
| `webhook` | What is refused, and whether an event gets through | up to 2 copies at a time, tolerance 1, clocks up to 2 apart |
| `cancel_race`, `create_retry` | findings 1 and 2 below | the smallest that shows each |

`PROJECT.json` lists these runs. Beside them there are configurations that look closer
at one thing and that nothing above depends on: `MCJobs` (two requests and all three
jobs overlap on one payment, safety only), `MCBatches` (liveness of three payments in
batches of two), `MCSerial` (as `apart`, with one payment, one operation at a time and
a fault), `MCCreateApart` (calls that overlap for no key: a repeated request gets the
payment and, as nothing fails, one key is one checkout); and `MCExpireRace`, `MCNotFound`, `MCCreateRace` and `MCHeaderKey`, each
of which ends with the counterexample described under "Seen beside the runs".

**Bounds.** Rows interact only through the batch they share and its LIMIT: one payment
is enough for the races in `overlap`; two are in `apart`, where a job has both in hand,
or one while a handler has the other, and in `schedule`, where each is alone in its
batch or both share it. One request, an expirer and two dispatchers give every kind of race
between a handler, a job that changes the status and jobs that count attempts;
the reconciler, whose writes are those of the expirer with Stripe's answer, is in
`apart`, in `MCJobs`, and, overlapping with anything, in the theorems of part 2 below.
Symmetry is used for requests, payments and keys, which the models do not tell
apart, in runs without liveness only.
`MaxAttempts` 2 separates a first failure from the last. `MaxFaults` counts
failed statements, lost answers and crashes; the theorems cover any number.
`MaxInFlight` is the number of operations that overlap: at or above the number of
actors it restricts nothing. `ImplementsLedger` and `NewOutcomeIsQueued` are checked of
`ApartSpec`, which leaves out nothing but steps after which two actors hold entities of
one payment. `apart` has no faults, for its size; `MCSerial` and the theorems have them.
`JobSchedule` runs until `Horizon` and creates payments only up to `LastCreation`; the
phases of the tickers are arbitrary. That is past the bound of `OpenIsBounded` for the
first payment if nothing fails, and up to it with the one fault; the theorem has the
rest. Its `MaxFaults` counts calls to Stripe and
statements, SELECTs too, of all three jobs. The timeout of 5 is the least that leaves
room for a failed run: stale after 1, and two reconcile intervals of 2. Three attempts a tick apart let one payment fail often enough to show
that another is overtaken. `MaxEvents` bounds Stripe's log: three are a delayed payment
that completes, fails or succeeds, and a renewal or an end. In `WebhookIntake` ages
beyond the tolerance are one age. `WorkerLoop` has no bound but the size of a batch.

**Deadlock** is not checked where the system may come to rest: requests are finite,
clocks end at their bound, processes stop, and once every payment is delivered or
given up nothing is left to do. `WebhookIntake`, whose clock always goes on, is
checked for it.

**Fairness** (`FairSpec`): time passes (a retry interval, the pending timeout),
and a worker of the expire or dispatch job goes on with its batch and runs again
(`runWorker`'s ticker; every HTTP client has a timeout; a process that dies is
restarted by its supervisor). Nothing is assumed of handlers, Stripe, callers
or the reconciler. An item's failure counts as progress, so the liveness
properties hold although every POST may fail.

In the other modules: in `StripeCheckout` time passes, and the reconciler, which runs
on every tick, comes to a row that stays stale and open (weak fairness: a row that
webhooks refresh again and again it may miss each time); a write that is tried again
and again succeeds some day (strong fairness). Webhooks may all be lost.
`PaidIsReconciled` supposes that writers other than the reconciler come to an end
(`OthersComeToAnEnd`), as Stripe's resends do: without that TLC finds a row kept young
for ever by webhooks. `WorkerLoop`'s goroutine goes on, and a `select` that finds both channels ready
again and again takes each of them sometimes, since the runtime draws one at random
(strong fairness of either case); signals need not come, and a SELECT need not fail.
In `ServeShutdown` `runServe` goes on and a gRPC call ends, as it talks to Stripe under
a timeout; HTTP calls may hang for ever. In `WebhookIntake` Stripe sends until it is
acknowledged, the gateway does not alter every copy nor hold one for ever, and of
the copies that arrive in time again and again one finds the database working.

## Findings

1. `cancel_race`: a cancel is written over a PAID row (`payment.go:267`); the
   check at 257 is made on an earlier read.
2. `create_retry`: a creation that fails after Stripe made the checkout is
   repeated with a new checkout (`payment.go:147`). The URL of the first was never
   handed out: it is an orphan at Stripe, not a second way to pay.

Seen beside the runs, by a configuration where one is named, else by the guard a
property needs in order to hold:

3. `MCExpireRace`: the expire job writes EXPIRED over an outcome that arrived
   after its SELECT (`jobs.go:112`).
4. `MCNotFound`: a second identical webhook in the same second is answered 404,
   because `Update` takes "no row changed" for "no row" (`repository/payment.go:173`).
5. `MCCreateRace`: overlapping creations with one key: the loser gets 409 and not
   the payment (`payment.go:199`), after making a second checkout.
6. `MCHeaderKey`: over HTTP the X-Request-ID header takes the place of a missing
   `request_id` (`types/payments.go:20`, a test wants it so), though the README says
   the field is required and the header changes with every attempt; over gRPC the
   request is refused.
7. `AskedBeforeExpired` and `PaidIsNoticed` need batches that leave nothing out: rows
   Stripe has no news of are not touched and stay at the head of `ORDER BY updated_at
   LIMIT`; a batch full of them keeps the rest from being asked about until they
   expire (`repository/payment.go:414`, `jobs.go:42`).
8. `PaidDoesNotExpire` leaves links out: the session of a second visitor of a payment
   link expires, and its webhook makes the PAID payment EXPIRED (`stripe.go:158`).
9. `PaidIsReconciled` leaves links out: the provider id of a link is the link's own, and
   `GetPaymentStatus` asks for a session of that id (`stripe.go:81`, `:309`), which
   never answers: a link whose webhook is lost expires though it was paid.

Short of a finding, because no doc says otherwise: `WorkerLoop` listens to signals
only after its first batch; a gRPC server that is stopped before it serves ends the
process with `Fatal` (`serve.go:74`); a pending timeout of zero or less is taken as
it is; settings are cut to int32 without a check (`config.go:113`); a dropped
HTTP call may leave a checkout without a row (`OrphansAreLateHttp` says which).

One `UPDATE ... WHERE id = ? AND status = ?` (or a version column) would remove
1 and 3; an Idempotency-Key made from the request key, 2; a re-read after error
1062, 5; touching `updated_at` of every row asked about, 7; ignoring an expired
session of a paid payment, 8; keeping the link's id apart from the session's, 9.

## Proofs

For every set of payments, requests, workers, calls and keys, every batch size,
retry limit (any integer) and number of faults and overlaps, from the named
ASSUMEs of the modules only (actors of different kinds are different; NoRow and
its like are fresh):

- `PaymentServiceProofs`, part 1: every rewriting turns a consistent row into a
  consistent row.
- Part 2, however operations overlap: `TypeOK`, `RowsSound`, `InFlightSound`,
  `DeliveredMeansTold`, `GivenUpMeansBudgetSpent`, `OnlyOutcomesTold`,
  `OutcomesFounded`.
- Part 3, for each payment `p`: if operations on `p` do not overlap, whatever overlaps
  on others and whatever fails, `PaymentService` implements `PaymentLedger` for `p`. So
  under `ApartSpec` it implements all ledgers, from which follow `OutcomesStay`,
  `CancelSparesPaid` and `SweepsSpareOutcomes`; and it has `NewOutcomeIsQueued`.
  With `MaxInFlight = 1` (and finitely many actors) every behaviour is one of
  `ApartSpec`, so a serial service has all of it.
- `CreatePaymentProofs`: `TypeOK`, `SameAnswer`, `AnsweredPaymentIsPayable`,
  `ConflictMeansStored`, and that `CreatePayment` implements `CreateOnce`. A key whose
  calls do not overlap never answers 409, whatever calls for other keys do
  (`DuplicatesGetThePayment` for all keys); if nothing fails either, one key is one
  checkout (`OneCheckoutPerKey`). Findings 5 and 2 show that both conditions are
  needed. `MaxInFlight = 1` is a special case again.
- `JobScheduleProofs`: `TypeOK`, `PaidIsNoticed`, `OpenIsBounded` and `DueInTurn`, for
  any number of payments, batch size, intervals and faults; and `AskedBeforeExpired`,
  which speaks as long as `StaleAfter + ReconcileInterval * (1 + faults) <= PendingTimeout`:
  the reconcile job then has a run between stale and overdue that does not fail. The
  defaults (15, 2 and 60 minutes) leave room for 21 failures; where there is none,
  or after more, an unasked payment may be expired.
- `StripeCheckoutProofs`: `TypeOK`, `OpenRowKeepsItsId`, `ReadingsAgree`, however writers
  overlap and whatever events are lost, repeated or reordered; `PaidIsBacked` and
  `PaidDoesNotExpire`, which are about orderly delivery.
- `IntakeProofs`: of `RequestIntake` `TypeOK`, `SameAnswer`, `ResendGetsThePayment`, for
  all requests and headers and any number of attempts; of `WebhookIntake`
  `WebhookTypeOK`, `RouteDoesNotMatter` and `AckMeansRecorded` (an event answered
  with 2xx is in the row and on record), for any tolerance, differences of clocks and
  number of copies.
- `ListPagingProofs`: `TypeOK`, `MissesAreCovered`, `RepeatsAreCovered`, for any number of
  payments and any limits.
- `WorkerLoopProofs`: `TypeOK`, `LaterBatchesAreWhole`, `NoBurst`.
- `ServeShutdownProofs`: `TypeOK`, `CleanStopAnswers`, `OrphansAreLateHttp`, for any
  number of calls.

*The argument for `PaymentService`.* No safety property about the table is
inductive by itself, as a write-back stores an entity read long ago. The
invariant therefore says of entities in memory what it says of stored rows:
both are `Sound` (consistent, about something that happened at Stripe, credited
with deliveries the caller did receive, counting attempts that were made).
`Sound` only mentions histories that grow (`facts`, `told`, `failures`), so it
survives any delay between read and write (`SoundGrows`). On top of it the
invariant keeps what a batch was selected for (a dispatcher's items are queued,
a reconciler's open), and that the history of `told` and `events` is founded.
Each action is then one lemma, split into types, rows, entities, events and
told.

*The argument for `CreatePayment`.* Rows are never replaced; a call about to
INSERT has its checkout; a reply is the row of the caller's key. The refinement
maps `payment` to the table: `Find` of a taken key is `Repeat`, an INSERT that
succeeds is `Register`, the rest stutters. For a key whose calls do not overlap, what the SELECT
found still holds at the INSERT (`KeyInv`), and a checkout belongs to the payment stored,
or about to be stored (`CheckoutsUsed`), until a fault comes between.

*The argument for the ledger.* It is made for one payment `q`. On top of the invariant
above, what the one actor that holds an entity of `q` has in its hands goes with the
row (`Current`): before the item's turn the ledger cannot tell the two apart, and an
entity about to be written differs in nothing the ledger sees, or resolves the row, or
closes its notice (`Fits`). For a resolution by a webhook the order of Stripe's facts
is needed (`FactsOrder`): a session that completed does not expire. A step about
another payment leaves `q`'s row and entities alone, even in the batch that holds both
(`HeldOnly`), so every step is one of `q`'s ledger or a stutter. `NewOutcomeIsQueued`
says more than the ledger sees, the attempts and the time of the next one; for it the
invariant also says that an entity about to be written has the status of its row or
is queued from the start (`QueuesNew`). That serial operation keeps payments apart is
a count: the number of busy actors is below one when one starts, and a set of
cardinality zero is empty. None of this survives overlap on one payment, which is what
findings 1 and 3 show.

*The argument for `JobSchedule`.* The two bounds count turns. What keeps an overdue row
waiting is a run of the expire job whose batch was full of older ones, and each such run
closes them all but for its failures: `ExpireTurns` says that after `k` runs past the
deadline `BatchSize * k` and the older rows still open are together no more than the
other payments and a batch per failure, so `k` is bounded. `DispatchTurns` counts in
the same way the payments that are still ahead of a due delivery: a run that leaves
it out is full of those, and an attempt puts each of them behind it. One whose UPDATE
fails stays ahead, and a run whose SELECT fails serves nobody; either is paid for by a
fault. `PaidIsNoticed` and `AskedBeforeExpired` are about batches that hold every row,
where what a run finds stale it asks about unless it fails; `ReconcileAsks` says that an
open row nobody touched or asked about has been stale at the last run for no longer than
the failures so far account for, and where the timeout leaves room for these, a run
that asks comes before the row is overdue.

*The argument for `ListPaging`.* It counts the rows on the wrong side of the offset:
those still to be seen that are ahead of it (`Ahead`), and those seen already that are
behind it (`Behind`). A row that joins or leaves the list moves every other by at
most one place, and no two share a place, so it puts at most one on the wrong side; a
page moves its own rows, and no others, ahead of the offset. An empty page means that
nothing is behind it, since no place is left out.

*The argument for `RequestIntake`.* `Admits` says which requests each transport lets
through, as a function of what the caller wrote. An attempt in progress knows the
request as its transport reads it (`AttemptOK`), so every answer is tied to `Admits`
and its code to the outcome (`AnswersOK`), and every payment to one key (`PaymentsOK`).
The rest compares `Admits` over the two transports and the two tables of codes.

*The argument for `WebhookIntake`.* By whichever route it came, a copy is bound to the
payload it carries and the signature Stripe made (`RoutesEndAlike`), so verification
depends on neither route nor header but on the payload and the age (`VerifiedMeans`). Ages
stay within those told apart (`ClipBounds`); time may make two copies one but never one
two, which keeps their number bounded.

*The argument for `StripeCheckout`.* `OpenRowKeepsItsId` is about the row and about
every entity held, like `Sound` above: an id comes with an outcome, and an
entity written back late brings both. `ReadingsAgree` needs the last event of a
session, and so an invariant that ties the state of every session to it. For orderly
delivery `OrderInv` adds that one writer at most holds an entity, and that a PAID in
what was written or computed last is backed (`LatestIsBacked`): by a session whose
money came or may still come, or by a failure of it that is still to be delivered
and will take the PAID back (`Stands`). For that it knows of every event in the log
where it has brought its session (`World`).

*The argument for the two processes.* Both invariants say what the place in the code
implies: in `WorkerLoop` that nothing is left of a batch when the select is
reached, and that since the end of an interval the batches begun and the ticks
waiting are together at most one; in `ServeShutdown` that a server told to stop takes no call, that HTTP
calls left behind mean the ten seconds are up, and that no gRPC call is left once
the deferred calls begin.

**Only model-checked:** liveness (`ComesToRest`, `PaidIsReconciled`, `SignalStops`,
`TickRuns`, `StopsOnSignal`, `EventArrives`), which needs fairness and is beyond the
prover. Every invariant and every action property of a passing run is stated by a
theorem. Theorems about `InFlightSound`, `OnlyOutcomesTold`, `SameAnswer` of
`CreatePayment`, `ConflictMeansStored`, `DuplicatesGetThePayment`, `OneCheckoutPerKey`,
`AckMeansRecorded`, `OutcomesStay`, `CancelSparesPaid` and `SweepsSpareOutcomes` need no
run that passes.

## Not modelled, and why

- `mapper/payment.go` copies an entity to a message field by field; the protobuf code is
  generated (its enumerations are the statuses of the models).
- Command line, logging, version, `Health`: no state the system depends on. The
  configuration is read once; what matters of it are the CONSTANTS, which the
  models take to be positive where the code does not replace other values.
- The auth library is not in this repository. `ServeShutdown` lets it fail once its
  client is closed; elsewhere it admits the caller.
- JSON and form encoding, metadata, customer and amount columns: nothing branches on
  them. `status_callback_url` is never empty, since `Validate` refuses that, so the first
  branch of `dispatchCallback` is not reached.
- A configuration without webhook secret, which refuses every webhook; providers other
  than Stripe, which do not exist.
- The database's own behaviour (collation of keys, rounding of DATETIME, a
  statement cut in two) beyond `RowsAffected` and failure.
- Context cancellation: a caller that hangs up makes statements of its call fail,
  which the faults of `PaymentService` and `CreatePayment` include.

## Plan

Done: every component but those above. What could follow:

1. `PaymentService` with `WHERE status = ?` in its UPDATE, to show which of the
   findings it removes, and that it then implements `PaymentLedger` without the
   condition on overlap.
2. `StripeCheckout` composed with `CreatePayment`'s retries: two checkouts of one key.
