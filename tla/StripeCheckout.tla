---------------------------- MODULE StripeCheckout ----------------------------
(***************************************************************************)
(* The Stripe provider: how one payment looks at Stripe, which events that *)
(* makes, what a webhook reads out of an event, and what asking for the    *)
(* payment's status finds, by the provider_payment_id in the row.          *)
(*                                                                         *)
(* PaymentService takes a payment for one session.  Here a hosted card     *)
(* payment has one, whose id is stored at creation; a payment link has one *)
(* for every visit, and what is stored at creation is the id of the link.  *)
(* A recurring payment also has subscriptions and invoices.                *)
(***************************************************************************)
EXTENDS PaymentRow, FiniteSets, Sequences

CONSTANTS
    Sessions,       \* checkout sessions there may be
    Invoices,       \* invoices of renewals there may be
    Handlers,       \* writers of the row: webhooks, cancels, the expire job
    Reconcilers,    \* processes running `reconcile`
    MaxInFlight,    \* bound: entities held at a time
    MaxEvents,      \* bound: events Stripe sends
    Methods,        \* payment methods in this instance
    Delayed,        \* whether the money of a completed session may come later
    LinkId,         \* the id of a payment link
    NoSubscription, \* no subscription id
    NoEntity        \* no entity held

ASSUME BoundsAssumption == MaxInFlight \in Nat \ {0} /\ MaxEvents \in Nat
ASSUME SettingsAssumption ==
    /\ Delayed \in BOOLEAN
    /\ Methods \subseteq {"hosted_card", "payment_link"}
ASSUME IdsAssumption ==
    /\ Sessions \cap Invoices = {}
    /\ LinkId \notin Sessions \cup Invoices
    /\ Handlers \cap Reconcilers = {}
    /\ NoSubscription \notin Sessions

Writers == Handlers \cup Reconcilers

ProviderIds == Sessions \cup Invoices \cup {LinkId}

\* A subscription is named after the session it was taken out in.
Entity == [status : Status, id : ProviderIds, subscription : Sessions \cup {NoSubscription}]

ASSUME NoEntityAssumption == NoEntity \notin Entity

EventTypes == {"checkout.session.completed", "checkout.session.async_payment_succeeded",
               "checkout.session.async_payment_failed", "checkout.session.expired",
               "invoice.paid", "invoice.payment_failed", "customer.subscription.deleted",
               "other"}

VARIABLES
    orderly,        \* events arrive once and in order, and writers do not overlap or fail
    method,         \* payment_method of the payment
    recurring,      \* payment_type is recurring
    createdId,      \* the provider_payment_id CreatePayment stored
    session,        \* Stripe: where each session stands
    subscribed,     \* Stripe: sessions whose subscription is alive
    log,            \* Stripe: the events, in the order they happened
    delivered,      \* if orderly: events that have arrived
    row,            \* payments: status and provider ids
    stale,          \* payments: updated_at is ReconcileStaleAfter ago or more
    snap            \* entity each writer is about to write

stripeVars == <<session, subscribed, log>>
paymentVars == <<orderly, method, recurring, createdId>>
vars == <<paymentVars, stripeVars, delivered, row, stale, snap>>

\* The row and the session or link CreatePayment left.
Init ==
    /\ orderly \in BOOLEAN
    /\ method \in Methods
    /\ recurring \in BOOLEAN
    /\ session \in [Sessions -> {"none", "open"}]
    /\ IF method = "hosted_card"
       THEN createdId \in Sessions /\ \A s \in Sessions : session[s] = "open" <=> s = createdId
       ELSE createdId = LinkId /\ \A s \in Sessions : session[s] = "none"
    /\ subscribed = {}
    /\ log = <<>>
    /\ delivered = 0
    /\ row = [status |-> "pending", id |-> createdId, subscription |-> NoSubscription]
    /\ stale = FALSE
    /\ snap = [w \in Writers |-> NoEntity]

-------------------------------------------------------------------------------
(* Stripe.                                                                 *)

\* An event about a session, an invoice of session s, or its subscription.
Event(type, object, s) ==
    [type |-> type, object |-> object,
     subscription |-> IF recurring THEN s ELSE NoSubscription]

Emit(e) == Len(log) < MaxEvents /\ log' = Append(log, e)

\* A customer opens a payment link.
Visit(s) ==
    /\ method = "payment_link"
    /\ session[s] = "none"
    /\ session' = [session EXCEPT ![s] = "open"]
    /\ UNCHANGED <<paymentVars, subscribed, log, delivered, row, stale, snap>>

\* How a session goes on, and the event Stripe sends.
Moves ==
    {[from |-> "open", to |-> "paid", type |-> "checkout.session.completed"],
     [from |-> "open", to |-> "expired", type |-> "checkout.session.expired"]}
    \cup IF Delayed
         THEN {[from |-> "open", to |-> "unpaid", type |-> "checkout.session.completed"],
               [from |-> "unpaid", to |-> "paid",
                type |-> "checkout.session.async_payment_succeeded"],
               [from |-> "unpaid", to |-> "failed",
                type |-> "checkout.session.async_payment_failed"]}
         ELSE {}

SessionMoves(s, m) ==
    /\ session[s] = m.from
    /\ session' = [session EXCEPT ![s] = m.to]
    /\ subscribed' = IF recurring /\ m.type = "checkout.session.completed"
                     THEN subscribed \cup {s} ELSE subscribed
    /\ Emit(Event(m.type, s, s))
    /\ UNCHANGED <<paymentVars, delivered, row, stale, snap>>

\* A renewal is invoiced, and paid or not.
Renewal(s, i, type) ==
    /\ s \in subscribed
    /\ type \in {"invoice.paid", "invoice.payment_failed"}
    /\ Emit(Event(type, i, s))
    /\ UNCHANGED <<paymentVars, session, subscribed, delivered, row, stale, snap>>

SubscriptionEnds(s) ==
    /\ s \in subscribed
    /\ subscribed' = subscribed \ {s}
    /\ Emit(Event("customer.subscription.deleted", s, s))
    /\ UNCHANGED <<paymentVars, session, delivered, row, stale, snap>>

\* An event of a type the code does not know, say about invoice i.
OtherEvent(i) ==
    /\ Emit([type |-> "other", object |-> i, subscription |-> NoSubscription])
    /\ UNCHANGED <<paymentVars, session, subscribed, delivered, row, stale, snap>>

-------------------------------------------------------------------------------
(* What the provider reads.                                                *)

\* Mutant: a failed delayed payment is not looked at.
IgnoresFailure(type) ==
    CASE type \in {"checkout.session.completed", "invoice.paid"} -> "paid"
      [] type = "checkout.session.expired" -> "expired"
      [] OTHER -> "none"

\* VerifyAndParseCallback: the status an event asks for, if any.
NewStatus(type) ==
    CASE type \in {"checkout.session.completed", "checkout.session.async_payment_succeeded",
                   "invoice.paid"} -> "paid"
      [] type \in {"checkout.session.async_payment_failed", "invoice.payment_failed"} -> "failed"
      [] type = "checkout.session.expired" -> "expired"
      [] type = "customer.subscription.deleted" -> "canceled"
      [] type = "other" -> "none"

\* Mutant: the ids of events of unknown types are stored as well.
AssignAlways(r, e) == [r EXCEPT !.id = e.object]

\* Mutant: the session is taken for the subscription it may have.
AssignSubscriptionAlways(r, e) == [r EXCEPT !.id = e.object, !.subscription = e.object]

\* assignCheckoutSessionFields, assignInvoiceFields: an invoice id is taken for
\* the payment's id too.  assignSubscriptionFields: the subscription alone.
AssignFields(r, e) ==
    CASE e.type = "other" -> r
      [] e.type = "customer.subscription.deleted" -> [r EXCEPT !.subscription = e.object]
      [] OTHER -> [r EXCEPT !.id = e.object,
                            !.subscription = IF e.subscription = NoSubscription
                                             THEN @ ELSE e.subscription]

\* Mutant: the status of the session is not looked at.
GetPaidOrPending(id) ==
    IF id \notin Sessions THEN "none"
    ELSE IF session[id] \in {"none", "open", "unpaid"} THEN "pending" ELSE "paid"

\* Mutant: the payment_status is not looked at.
GetExpiredOrPending(id) ==
    IF id \in Sessions /\ session[id] = "expired" THEN "expired" ELSE "pending"

\* GetPaymentStatus: asks for a session; any other id is an error, and so an
\* answer of no use.  Whether the failed attempt is the last one it cannot see.
GetPaymentStatus(id) ==
    IF id \notin Sessions THEN "none"
    ELSE CASE session[id] = "expired" -> "expired"
           [] session[id] = "paid" -> "paid"
           [] OTHER -> "pending"

-------------------------------------------------------------------------------
(* Handlers and jobs: a read and the computation, then the write.          *)

Hold(w, r) ==
    /\ snap[w] = NoEntity
    /\ LET held == {v \in Writers : snap[v] # NoEntity}
       IN  IF orderly THEN held = {} ELSE Cardinality(held) < MaxInFlight
    /\ snap' = [snap EXCEPT ![w] = r]

SetIfAny(r, s) == IF s = "none" THEN r ELSE [r EXCEPT !.status = s]

HandleProviderCallback(w, n) ==
    /\ n \in DOMAIN log
    /\ orderly => n = delivered + 1
    /\ Hold(w, SetIfAny(AssignFields(row, log[n]), NewStatus(log[n].type)))
    /\ delivered' = IF orderly THEN n ELSE delivered
    /\ UNCHANGED <<paymentVars, stripeVars, row, stale>>

CancelPayment(w) ==
    /\ row.status # "paid"
    /\ Hold(w, [row EXCEPT !.status = "canceled"])
    /\ UNCHANGED <<paymentVars, stripeVars, delivered, row, stale>>

\* Mutant: the query has no status filter.
ExpireAnything(w) ==
    /\ Hold(w, [row EXCEPT !.status = "expired"])
    /\ UNCHANGED <<paymentVars, stripeVars, delivered, row, stale>>

ExpirePending(w) ==
    /\ row.status \in OpenStatus
    /\ Hold(w, [row EXCEPT !.status = "expired"])
    /\ UNCHANGED <<paymentVars, stripeVars, delivered, row, stale>>

\* Time passes: nobody has written the row for ReconcileStaleAfter.
GrowsStale ==
    /\ ~stale
    /\ stale' = TRUE
    /\ UNCHANGED <<paymentVars, stripeVars, delivered, row, snap>>

\* RunReconcileBatch lists open rows that are stale.
Reconcile(w) ==
    /\ row.status \in OpenStatus
    /\ stale
    /\ GetPaymentStatus(row.id) \notin {"none", row.status}
    /\ Hold(w, [row EXCEPT !.status = GetPaymentStatus(row.id)])
    /\ UNCHANGED <<paymentVars, stripeVars, delivered, row, stale>>

\* Every entity that is written carries the time of its writer as updated_at,
\* those made from events of unknown types too.
Update(w) ==
    /\ snap[w] # NoEntity
    /\ row' = snap[w]
    /\ stale' = FALSE
    /\ snap' = [snap EXCEPT ![w] = NoEntity]
    /\ UNCHANGED <<paymentVars, stripeVars, delivered>>

\* The write fails, or the process dies.
UpdateFails(w) ==
    /\ ~orderly
    /\ snap[w] # NoEntity
    /\ snap' = [snap EXCEPT ![w] = NoEntity]
    /\ UNCHANGED <<paymentVars, stripeVars, delivered, row, stale>>

StripeStep ==
    \/ \E s \in Sessions : Visit(s)
    \/ \E s \in Sessions, m \in Moves : SessionMoves(s, m)
    \/ \E s \in Sessions, i \in Invoices, type \in EventTypes : Renewal(s, i, type)
    \/ \E s \in Sessions : SubscriptionEnds(s)
    \/ \E i \in Invoices : OtherEvent(i)

Next ==
    \/ StripeStep
    \/ \E w \in Handlers, n \in 1..MaxEvents : HandleProviderCallback(w, n)
    \/ \E w \in Handlers : CancelPayment(w)
    \/ \E w \in Handlers : ExpirePending(w)
    \/ GrowsStale
    \/ \E w \in Reconcilers : Reconcile(w)
    \/ \E w \in Writers : Update(w)
    \/ \E w \in Writers : UpdateFails(w)

Spec == Init /\ [][Next]_vars

\* Time passes.  The reconcile job runs on every tick, so it comes to a row that
\* stays listed; one that webhooks keep refreshing it may miss every time.  A
\* write does not fail every time.  Nothing is asked of webhooks: all of them
\* may be lost.
Fairness ==
    /\ WF_vars(GrowsStale)
    /\ \A w \in Reconcilers : WF_vars(Reconcile(w)) /\ SF_vars(Update(w))

FairSpec == Spec /\ Fairness

-------------------------------------------------------------------------------
SessionStates == {"none", "open", "unpaid", "failed", "paid", "expired"}

Events == {e \in [type : EventTypes, object : Sessions \cup Invoices,
                  subscription : Sessions \cup {NoSubscription}] :
              /\ e.subscription # NoSubscription => recurring
              /\ e.type = "customer.subscription.deleted" => e.object \in Sessions /\ recurring}

EntityOK(r) == r \in Entity /\ (r.subscription # NoSubscription => recurring)

\* Types; a payment knows of subscriptions only if it is recurring.
TypeOK ==
    /\ orderly \in BOOLEAN
    /\ method \in Methods /\ recurring \in BOOLEAN /\ createdId \in ProviderIds
    /\ session \in [Sessions -> SessionStates]
    /\ subscribed \subseteq Sessions
    /\ \A s \in subscribed : recurring
    /\ log \in Seq(Events)
    /\ delivered \in 0..Len(log)
    /\ EntityOK(row)
    /\ stale \in BOOLEAN
    /\ DOMAIN snap = Writers /\ \A w \in Writers : snap[w] = NoEntity \/ EntityOK(snap[w])

KeepsItsId(r) == r.status \in OpenStatus => r.id = createdId

\* While a row is open it keeps the provider id it was created with, whoever
\* overwrites whom: ids that webhooks bring come with an outcome.  So the id of
\* an invoice, which GetPaymentStatus could not ask about, never gets in the
\* way of reconciling, and a card payment stays reconcilable.
OpenRowKeepsItsId ==
    /\ KeepsItsId(row)
    /\ \A w \in Writers : snap[w] # NoEntity => KeepsItsId(snap[w])

\* The events about a session's payment.
About(s) == {n \in DOMAIN log : log[n].object = s /\ log[n].type \in {m.type : m \in Moves}}

Agrees(s) ==
    GetPaymentStatus(s) \in TerminalStatus =>
        \E n \in About(s) : /\ NewStatus(log[n].type) = GetPaymentStatus(s)
                            /\ \A k \in About(s) : k <= n

\* The two readings of a session agree: when GetPaymentStatus finds an outcome,
\* the last event about the session's payment asks for that same outcome
\* (VerifyAndParseCallback).
ReadingsAgree == \A s \in Sessions : Agrees(s)

\* A one-time payment whose events all arrived in order is not left PAID when
\* its delayed payment failed: checkout.session.completed is taken for PAID
\* before the money is there, and the failure takes that back.
PaidIsBacked ==
    orderly /\ row.status = "paid" /\ ~recurring /\ delivered = Len(log)
        /\ (\A w \in Writers : snap[w] = NoEntity)
    => \E s \in Sessions : session[s] \in {"unpaid", "paid"}

\* A paid card payment does not expire when nothing overlaps: PAID is a terminal
\* status (README: "dispatching terminal payment status callbacks to caller
\* services"), and its one session has ended.  Not so of a payment link: a
\* second visitor's session expires after the first has paid, and
\* HandleProviderCallback takes that for the payment's end.
PaidDoesNotExpire ==
    [][orderly /\ method = "hosted_card" /\ row.status = "paid" => row'.status # "expired"]_vars

\* Webhooks, cancels and the expire job come to an end; jobs that reconcile do
\* not, and neither does Stripe.
OthersComeToAnEnd == <>[](\A h \in Handlers : snap[h] = NoEntity)

\* A card payment paid at Stripe does not stay open although its webhooks are
\* lost, repeated or overtaken (README: "stale payment reconcile against
\* provider"), if they come to an end: every webhook that is stored, of a known
\* type or not, puts updated_at off, and with it the next reconcile.  Of a
\* payment link only the link's id is stored, about which GetPaymentStatus
\* cannot ask.
PaidIsReconciled ==
    OthersComeToAnEnd =>
        ((/\ ~orderly /\ method = "hosted_card" /\ row.status \in OpenStatus
          /\ \E s \in Sessions : session[s] = "paid")
             ~> row.status \notin OpenStatus)
===============================================================================
