------------------------- MODULE StripeCheckoutProofs -------------------------
(***************************************************************************)
(* StripeCheckout for any sessions, invoices, writers and events, however  *)
(* they overlap and whatever is lost, repeated or reordered.               *)
(*                                                                         *)
(* The types and OpenRowKeepsItsId are inductive together: a writer holds  *)
(* an entity made from the row as it was, so both are stated of the row    *)
(* and of every entity held.                                               *)
(*                                                                         *)
(* PaidIsBacked and PaidDoesNotExpire are about orderly delivery, where    *)
(* what was computed last is the last word: OrderInv says what backs it.   *)
(***************************************************************************)
EXTENDS StripeCheckout, TLAPS

IInv == TypeOK /\ OpenRowKeepsItsId

\* The part about one writer's entity, or the row.
Sound(r) == EntityOK(r) /\ KeepsItsId(r)

-------------------------------------------------------------------------------
\* The row is sound, and so is what is held.
LEMMA SoundParts ==
  ASSUME IInv
  PROVE  Sound(row) /\ \A w \in Writers : snap[w] = NoEntity \/ Sound(snap[w])
  BY DEF IInv, TypeOK, OpenRowKeepsItsId, Sound

\* CreatePayment leaves the id it stores as createdId.
LEMMA InitIInv == Init => IInv
  <1> SUFFICES ASSUME Init PROVE IInv
    OBVIOUS
  <1>1. createdId \in ProviderIds
    BY DEF Init, ProviderIds
  <1>2. EntityOK(row) /\ KeepsItsId(row)
    BY <1>1 DEF Init, EntityOK, Entity, Status, KeepsItsId
  <1>3. session \in [Sessions -> SessionStates]
    BY DEF Init, SessionStates
  <1>4. delivered \in 0..Len(log) /\ log \in Seq(Events)
    BY DEF Init
  <1> QED  BY <1>1, <1>2, <1>3, <1>4 DEF Init, IInv, TypeOK, OpenRowKeepsItsId

\* A step that leaves the row, what is held and the payment alone keeps IInv
\* if Stripe's part and the deliveries keep their types.
LEMMA StripeKeeps ==
  ASSUME IInv, UNCHANGED <<paymentVars, row, stale, snap>>,
         session' \in [Sessions -> SessionStates],
         subscribed' \subseteq Sessions, \A s \in subscribed' : recurring,
         log' \in Seq(Events), delivered' \in 0..Len(log')
  PROVE  IInv'
  BY DEF IInv, TypeOK, OpenRowKeepsItsId, paymentVars, EntityOK, KeepsItsId, Events

\* An event more is an event more: deliveries keep their place.
LEMMA EmitTypes ==
  ASSUME IInv, NEW e \in Events, Emit(e), UNCHANGED delivered
  PROVE  log' \in Seq(Events) /\ delivered' \in 0..Len(log')
  BY DEF IInv, TypeOK, Emit

\* Events carry a subscription only if the payment is recurring.
LEMMA EventType ==
  ASSUME NEW type \in EventTypes, NEW o \in Sessions \cup Invoices, NEW s \in Sessions,
         recurring \in BOOLEAN,
         type = "customer.subscription.deleted" => o \in Sessions /\ recurring
  PROVE  Event(type, o, s) \in Events
  BY DEF Event, Events

\* Moves name event types and session states.
LEMMA MovesType ==
  ASSUME NEW m \in Moves
  PROVE  m.to \in SessionStates /\ m.type \in EventTypes \ {"customer.subscription.deleted"}
  BY DEF Moves, SessionStates, EventTypes

\* Stripe's own steps.
LEMMA StripeStepKeeps == ASSUME IInv, StripeStep PROVE IInv'
  <1> USE DEF paymentVars
  <1>0. recurring \in BOOLEAN /\ session \in [Sessions -> SessionStates]
        /\ subscribed \subseteq Sessions /\ (\A s \in subscribed : recurring)
        /\ log \in Seq(Events) /\ delivered \in 0..Len(log)
    BY DEF IInv, TypeOK
  <1>1. ASSUME NEW s \in Sessions, Visit(s) PROVE IInv'
    <2>1. session' \in [Sessions -> SessionStates]
      BY <1>0, <1>1 DEF Visit, SessionStates
    <2> QED  BY <1>0, <1>1, <2>1, StripeKeeps DEF Visit
  <1>2. ASSUME NEW s \in Sessions, NEW m \in Moves, SessionMoves(s, m) PROVE IInv'
    <2>1. session' \in [Sessions -> SessionStates]
      BY <1>0, <1>2, MovesType DEF SessionMoves
    <2>2. Event(m.type, s, s) \in Events
      BY <1>0, MovesType, EventType
    <2>3. log' \in Seq(Events) /\ delivered' \in 0..Len(log')
      BY <1>2, <2>2, EmitTypes DEF SessionMoves
    <2>4. subscribed' \subseteq Sessions /\ \A t \in subscribed' : recurring
      BY <1>0, <1>2 DEF SessionMoves
    <2> QED  BY <1>2, <2>1, <2>3, <2>4, StripeKeeps DEF SessionMoves
  <1>3. ASSUME NEW s \in Sessions, NEW i \in Invoices, NEW type \in EventTypes,
               Renewal(s, i, type)
        PROVE  IInv'
    <2>1. Event(type, i, s) \in Events
      BY <1>0, <1>3, EventType DEF Renewal
    <2>2. log' \in Seq(Events) /\ delivered' \in 0..Len(log')
      BY <1>3, <2>1, EmitTypes DEF Renewal
    <2> QED  BY <1>0, <1>3, <2>2, StripeKeeps DEF Renewal
  <1>4. ASSUME NEW s \in Sessions, SubscriptionEnds(s) PROVE IInv'
    <2>1. Event("customer.subscription.deleted", s, s) \in Events
      BY <1>0, <1>4, EventType DEF SubscriptionEnds, EventTypes
    <2>2. log' \in Seq(Events) /\ delivered' \in 0..Len(log')
      BY <1>4, <2>1, EmitTypes DEF SubscriptionEnds
    <2> QED  BY <1>0, <1>4, <2>2, StripeKeeps DEF SubscriptionEnds
  <1>5. ASSUME NEW i \in Invoices, OtherEvent(i) PROVE IInv'
    <2>1. [type |-> "other", object |-> i, subscription |-> NoSubscription] \in Events
      BY DEF Events, EventTypes
    <2>2. log' \in Seq(Events) /\ delivered' \in 0..Len(log')
      BY <1>5, <2>1, EmitTypes DEF OtherEvent
    <2> QED  BY <1>0, <1>5, <2>2, StripeKeeps DEF OtherEvent
  <1> QED  BY <1>1, <1>2, <1>3, <1>4, <1>5 DEF StripeStep

-------------------------------------------------------------------------------
\* Holding a sound entity keeps IInv.
LEMMA HoldKeeps ==
  ASSUME IInv, NEW w \in Writers, NEW r, Sound(r), Hold(w, r),
         delivered' \in 0..Len(log),
         UNCHANGED <<paymentVars, stripeVars, row, stale>>
  PROVE  IInv'
  <1>1. TypeOK'
    BY DEF IInv, TypeOK, Sound, Hold, paymentVars, stripeVars, EntityOK, Events
  <1>2. OpenRowKeepsItsId'
    BY DEF IInv, TypeOK, OpenRowKeepsItsId, Sound, Hold, paymentVars, KeepsItsId
  <1> QED  BY <1>1, <1>2 DEF IInv

\* A status that is not open asks nothing of the id.
LEMMA OutcomeIsSound ==
  ASSUME NEW r, EntityOK(r), NEW s \in TerminalStatus
  PROVE  Sound([r EXCEPT !.status = s])
  BY DEF Sound, EntityOK, Entity, Status, KeepsItsId, TerminalStatus, OpenStatus

\* Assigning the ids of an event keeps the types.
LEMMA AssignedTypes ==
  ASSUME NEW r, EntityOK(r), NEW e \in Events
  PROVE  EntityOK(AssignFields(r, e))
  <1>1. e.type \in EventTypes /\ e.object \in Sessions \cup Invoices
        /\ e.subscription \in Sessions \cup {NoSubscription}
        /\ (e.subscription # NoSubscription => recurring)
        /\ (e.type = "customer.subscription.deleted" => e.object \in Sessions /\ recurring)
    BY DEF Events
  <1>2. r \in Entity /\ (r.subscription # NoSubscription => recurring)
    BY DEF EntityOK
  <1> QED  BY <1>1, <1>2 DEF AssignFields, EntityOK, Entity, ProviderIds

\* What an event asks for is an outcome, unless its type is unknown: then the
\* ids are left alone too.
LEMMA AppliedIsSound ==
  ASSUME Sound(row), NEW e \in Events
  PROVE  Sound(SetIfAny(AssignFields(row, e), NewStatus(e.type)))
  <1>1. CASE e.type = "other"
    BY <1>1 DEF AssignFields, NewStatus, SetIfAny
  <1>2. CASE e.type # "other"
    <2>1. NewStatus(e.type) \in TerminalStatus
      BY <1>2 DEF Events, EventTypes, NewStatus, TerminalStatus
    <2>2. EntityOK(AssignFields(row, e))
      BY AssignedTypes DEF Sound
    <2>3. NewStatus(e.type) # "none"
      BY <2>1 DEF TerminalStatus
    <2> QED  BY <2>1, <2>2, <2>3, OutcomeIsSound DEF SetIfAny
  <1> QED  BY <1>1, <1>2

\* Stripe's answer about a session is pending or an outcome.
LEMMA AnswerTypes ==
  ASSUME NEW id
  PROVE  GetPaymentStatus(id) \in {"none", "pending"} \cup TerminalStatus
  BY DEF GetPaymentStatus, TerminalStatus

\* Webhooks, cancel and the jobs hold a sound entity, and a write puts it in
\* the row.
LEMMA WriterKeeps ==
  ASSUME IInv,
         \/ \E w \in Handlers, n \in 1..MaxEvents : HandleProviderCallback(w, n)
         \/ \E w \in Handlers : CancelPayment(w)
         \/ \E w \in Handlers : ExpirePending(w)
         \/ \E w \in Reconcilers : Reconcile(w)
         \/ \E w \in Writers : Update(w)
         \/ \E w \in Writers : UpdateFails(w)
  PROVE  IInv'
  <1>0. /\ Sound(row) /\ EntityOK(row)
        /\ \A w \in Writers : snap[w] = NoEntity \/ Sound(snap[w])
        /\ log \in Seq(Events) /\ delivered \in 0..Len(log)
    BY SoundParts DEF IInv, TypeOK, Sound
  <1>1. ASSUME NEW w \in Handlers, NEW n \in 1..MaxEvents, HandleProviderCallback(w, n)
        PROVE  IInv'
    <2>1. w \in Writers
      BY DEF Writers
    <2>2. n \in 1..Len(log) /\ log[n] \in Events
      BY <1>0, <1>1 DEF HandleProviderCallback
    <2>3. Sound(SetIfAny(AssignFields(row, log[n]), NewStatus(log[n].type)))
      BY <1>0, <2>2, AppliedIsSound
    <2>4. delivered' \in 0..Len(log)
      BY <1>0, <1>1, <2>2 DEF HandleProviderCallback
    <2> QED  BY <1>1, <2>1, <2>3, <2>4, HoldKeeps DEF HandleProviderCallback
  <1>2. ASSUME NEW w \in Handlers, CancelPayment(w) PROVE IInv'
    <2>1. Sound([row EXCEPT !.status = "canceled"])
      BY <1>0, OutcomeIsSound DEF TerminalStatus
    <2>2. w \in Writers
      BY DEF Writers
    <2> QED  BY <1>0, <1>2, <2>1, <2>2, HoldKeeps DEF CancelPayment
  <1>3. ASSUME NEW w \in Handlers, ExpirePending(w) PROVE IInv'
    <2>1. Sound([row EXCEPT !.status = "expired"])
      BY <1>0, OutcomeIsSound DEF TerminalStatus
    <2>2. w \in Writers
      BY DEF Writers
    <2> QED  BY <1>0, <1>3, <2>1, <2>2, HoldKeeps DEF ExpirePending
  <1>4. ASSUME NEW w \in Reconcilers, Reconcile(w) PROVE IInv'
    <2> DEFINE s == GetPaymentStatus(row.id)
    <2>1. s \in {"pending"} \cup TerminalStatus /\ row.status \in OpenStatus
      BY <1>4, AnswerTypes DEF Reconcile
    <2>2. Sound([row EXCEPT !.status = s])
      <3>1. CASE s \in TerminalStatus
        BY <1>0, <3>1, OutcomeIsSound
      <3>2. CASE s = "pending"
        BY <1>0, <2>1, <3>2 DEF Sound, EntityOK, Entity, Status, KeepsItsId
      <3> HIDE DEF s
      <3> QED  BY <2>1, <3>1, <3>2
    <2>3. w \in Writers
      BY DEF Writers
    <2> QED  BY <1>0, <1>4, <2>2, <2>3, HoldKeeps DEF Reconcile
  <1>5. ASSUME NEW w \in Writers, Update(w) PROVE IInv'
    <2>1. Sound(snap[w])
      BY <1>0, <1>5 DEF Update
    <2>2. TypeOK'
      BY <1>5, <2>1 DEF IInv, TypeOK, Update, Sound, paymentVars, stripeVars, EntityOK, Events
    <2>3. OpenRowKeepsItsId'
      BY <1>5, <2>1
      DEF IInv, TypeOK, OpenRowKeepsItsId, Update, Sound, paymentVars, KeepsItsId
    <2> QED  BY <2>2, <2>3 DEF IInv
  <1>6. ASSUME NEW w \in Writers, UpdateFails(w) PROVE IInv'
    <2>1. TypeOK'
      BY <1>6 DEF IInv, TypeOK, UpdateFails, paymentVars, stripeVars, EntityOK, Events
    <2>2. OpenRowKeepsItsId'
      BY <1>6 DEF IInv, TypeOK, OpenRowKeepsItsId, UpdateFails, paymentVars, KeepsItsId
    <2> QED  BY <2>1, <2>2 DEF IInv
  <1> QED  BY <1>1, <1>2, <1>3, <1>4, <1>5, <1>6

\* The row grows older, or nothing changes.
LEMMA QuietKeeps ==
  ASSUME IInv, UNCHANGED <<paymentVars, stripeVars, delivered, row, snap>>,
         stale' \in BOOLEAN
  PROVE  IInv'
  BY DEF IInv, TypeOK, OpenRowKeepsItsId, paymentVars, stripeVars, EntityOK,
         KeepsItsId, Events

LEMMA GrowsStaleKeeps == ASSUME IInv, GrowsStale PROVE IInv'
  BY QuietKeeps DEF GrowsStale

LEMMA StutterKeeps == ASSUME IInv, UNCHANGED vars PROVE IInv'
  <1>1. stale' \in BOOLEAN
    BY DEF IInv, TypeOK, vars
  <1> QED  BY <1>1, QuietKeeps DEF vars

-------------------------------------------------------------------------------
\* IInv is an invariant.
LEMMA Invariance == Spec => []IInv
  <1>1. ASSUME IInv, [Next]_vars PROVE IInv'
    BY <1>1, StripeStepKeeps, WriterKeeps, GrowsStaleKeeps, StutterKeeps DEF Next
  <1> QED  BY InitIInv, <1>1, PTL DEF Spec

\* The types of StripeCheckout; a payment knows of subscriptions only if it is
\* recurring (HandleProviderCallback stores what Stripe sends).
THEOREM TypesCorrect == Spec => []TypeOK
  <1>1. IInv => TypeOK
    BY DEF IInv
  <1> QED  BY Invariance, <1>1, PTL

\* A row that is open has the provider id CreatePayment stored, so reconciling
\* a card payment asks Stripe about its session: HandleProviderCallback brings
\* other ids only together with an outcome, and a stale write of an open row
\* brings the old id back with the old status.
THEOREM OpenRowsKeepTheirId == Spec => []OpenRowKeepsItsId
  <1>1. IInv => OpenRowKeepsItsId
    BY DEF IInv
  <1> QED  BY Invariance, <1>1, PTL

-------------------------------------------------------------------------------
\* An event about something else changes nothing for session s.
LEMMA OtherEventAgrees ==
  ASSUME IInv, NEW s \in Sessions, Agrees(s), session'[s] = session[s],
         NEW e, Emit(e), e.object # s \/ e.type \notin {m.type : m \in Moves}
  PROVE  Agrees(s)'
  <1>1. log' = Append(log, e) /\ log \in Seq(Events)
    BY DEF Emit, IInv, TypeOK
  <1>2. DOMAIN log' = 1..(Len(log) + 1) /\ DOMAIN log = 1..Len(log)
        /\ log'[Len(log) + 1] = e /\ \A n \in 1..Len(log) : log'[n] = log[n]
        /\ Len(log) \in Nat
    BY <1>1
  <1>3. About(s)' = About(s) /\ About(s) \subseteq 1..Len(log)
    BY <1>2 DEF About
  <1>4. GetPaymentStatus(s)' = GetPaymentStatus(s)
    BY DEF GetPaymentStatus
  <1> QED  BY <1>2, <1>3, <1>4 DEF Agrees

\* A step without an event changes nothing either, if s does not get an outcome.
LEMMA QuietAgrees ==
  ASSUME NEW s \in Sessions, Agrees(s), log' = log,
         session'[s] = session[s] \/ session'[s] = "open"
  PROVE  Agrees(s)'
  <1>1. GetPaymentStatus(s)' = GetPaymentStatus(s) \/ GetPaymentStatus(s)' = "pending"
    BY DEF GetPaymentStatus
  <1> QED  BY <1>1 DEF Agrees, About, TerminalStatus

\* The step of a session to an outcome sends the event that asks for it.
LEMMA MoveAgrees ==
  ASSUME IInv, NEW s \in Sessions, NEW m \in Moves, SessionMoves(s, m)
  PROVE  Agrees(s)'
  <1>1. log' = Append(log, Event(m.type, s, s)) /\ log \in Seq(Events)
        /\ session'[s] = m.to
    BY DEF SessionMoves, Emit, IInv, TypeOK
  <1>2. Event(m.type, s, s).object = s /\ Event(m.type, s, s).type = m.type
    BY DEF Event
  <1>3. DOMAIN log' = 1..(Len(log) + 1) /\ log'[Len(log) + 1] = Event(m.type, s, s)
        /\ Len(log) \in Nat
    BY <1>1
  <1>4. Len(log) + 1 \in About(s)' /\ \A k \in About(s)' : k <= Len(log) + 1
    BY <1>2, <1>3 DEF About
  <1>5. GetPaymentStatus(s)' \in TerminalStatus => NewStatus(m.type) = GetPaymentStatus(s)'
    BY <1>1 DEF Moves, GetPaymentStatus, NewStatus, TerminalStatus
  <1> QED  BY <1>2, <1>3, <1>4, <1>5 DEF Agrees

\* Every step: what is about one session is not about another, and invoices are
\* not sessions.
LEMMA ReadingsKept ==
  ASSUME IInv, ReadingsAgree, [Next]_vars
  PROVE  ReadingsAgree'
  <1> SUFFICES ASSUME NEW s \in Sessions PROVE Agrees(s)'
    BY DEF ReadingsAgree
  <1>0. Agrees(s) /\ session \in [Sessions -> SessionStates]
    BY DEF ReadingsAgree, IInv, TypeOK
  <1>1. ASSUME NEW t \in Sessions, Visit(t) PROVE Agrees(s)'
    BY <1>0, <1>1, QuietAgrees DEF Visit
  <1>2. ASSUME NEW t \in Sessions, NEW m \in Moves, SessionMoves(t, m) PROVE Agrees(s)'
    <2>1. CASE s = t
      BY <1>2, <2>1, MoveAgrees
    <2>2. CASE s # t
      <3>1. session'[s] = session[s]
        BY <1>0, <1>2, <2>2 DEF SessionMoves
      <3>2. Emit(Event(m.type, t, t)) /\ Event(m.type, t, t).object # s
        BY <1>2, <2>2 DEF SessionMoves, Event
      <3> QED  BY <1>0, <3>1, <3>2, OtherEventAgrees
    <2> QED  BY <2>1, <2>2
  <1>3. ASSUME NEW t \in Sessions, NEW i \in Invoices, NEW type \in EventTypes,
               Renewal(t, i, type)
        PROVE  Agrees(s)'
    <2>1. Event(type, i, t).object # s
      BY IdsAssumption DEF Event
    <2> QED  BY <1>0, <1>3, <2>1, OtherEventAgrees DEF Renewal
  <1>4. ASSUME NEW t \in Sessions, SubscriptionEnds(t) PROVE Agrees(s)'
    <2> DEFINE e == Event("customer.subscription.deleted", t, t)
    <2>1. e.type \notin {m.type : m \in Moves}
      BY MovesType DEF Event
    <2>2. Emit(e) /\ session' = session
      BY <1>4 DEF SubscriptionEnds
    <2> HIDE DEF e
    <2> QED  BY <1>0, <2>1, <2>2, OtherEventAgrees
  <1>5. ASSUME NEW i \in Invoices, OtherEvent(i) PROVE Agrees(s)'
    <2> DEFINE e == [type |-> "other", object |-> i, subscription |-> NoSubscription]
    <2>1. e.object # s
      BY IdsAssumption
    <2>2. Emit(e) /\ session' = session
      BY <1>5 DEF OtherEvent
    <2> HIDE DEF e
    <2> QED  BY <1>0, <2>1, <2>2, OtherEventAgrees
  <1>6. CASE UNCHANGED stripeVars
    BY <1>0, <1>6, QuietAgrees DEF stripeVars
  <1>7. Next => StripeStep \/ UNCHANGED stripeVars
    BY DEF Next, HandleProviderCallback, CancelPayment, ExpirePending, GrowsStale, Reconcile,
           Update, UpdateFails
  <1>8. UNCHANGED vars => UNCHANGED stripeVars
    BY DEF vars
  <1>9. StripeStep => Agrees(s)'
    BY <1>1, <1>2, <1>3, <1>4, <1>5 DEF StripeStep
  <1> QED  BY <1>6, <1>7, <1>8, <1>9

\* What GetPaymentStatus says of a session is what the last webhook about it
\* said, for any number of sessions and events: the reconcile job and the
\* webhook handler never take the same session for different outcomes for good.
THEOREM ReadingsOfASessionAgree == Spec => []ReadingsAgree
  <1>1. Init => ReadingsAgree
    BY DEF Init, ReadingsAgree, Agrees, GetPaymentStatus, TerminalStatus
  <1> QED  BY Invariance, <1>1, ReadingsKept, PTL DEF Spec

-------------------------------------------------------------------------------
(* Orderly delivery.  What is behind a PAID: a session that completed, and,   *)
(* if its delayed payment failed, an event about that which is still to come. *)

Completed == {"unpaid", "paid", "failed"}

OneHolder ==
    orderly => \A v, w \in Writers : snap[v] # NoEntity /\ snap[w] # NoEntity => v = w

\* A card payment has the session it was created with.
OneSession ==
    method = "hosted_card" =>
        createdId \in Sessions /\ \A s \in Sessions : session[s] # "none" => s = createdId

Completions == {"checkout.session.completed", "checkout.session.async_payment_succeeded"}
Renewals == {"invoice.paid", "invoice.payment_failed", "customer.subscription.deleted"}

\* The sessions are where event e says.
Happened(e) ==
    /\ e.type \in Completions \cup {"checkout.session.async_payment_failed"} =>
            e.object \in Sessions /\ session[e.object] \in Completed
    /\ e.type = "checkout.session.expired" =>
            e.object \in Sessions /\ session[e.object] = "expired"
    /\ e.type \in Renewals => recurring /\ \E s \in Sessions : session[s] \in Completed

FailsAfter(s, n) ==
    \E k \in DOMAIN log : /\ k > n /\ log[k].object = s
                          /\ log[k].type = "checkout.session.async_payment_failed"

\* The money of session s is there or may still come, or an event after the
\* n-th takes that back.
Stands(s, n) == session[s] \in {"unpaid", "paid"} \/ FailsAfter(s, n)

World ==
    /\ OneSession
    /\ \A n \in DOMAIN log : Happened(log[n])
    /\ \A s \in subscribed : session[s] \in Completed
    /\ \A n \in DOMAIN log : log[n].type \in Completions => Stands(log[n].object, n)

Backed(r) == r.status = "paid" => \E s \in Sessions : Stands(s, delivered)

\* The last word on the payment: what is held, or else the row.
LatestIsBacked ==
    orderly /\ ~recurring =>
        /\ \A w \in Writers : snap[w] # NoEntity => Backed(snap[w])
        /\ (\A w \in Writers : snap[w] = NoEntity) => Backed(row)

CompletedIfPaid(r) == r.status = "paid" => \E s \in Sessions : session[s] \in Completed

PaidHasCompleted ==
    CompletedIfPaid(row) /\ \A w \in Writers : snap[w] # NoEntity => CompletedIfPaid(snap[w])

NoExpiryHeld ==
    orderly /\ method = "hosted_card" /\ row.status = "paid" =>
        \A w \in Writers : snap[w] # NoEntity => snap[w].status # "expired"

OrderInv ==
    IInv /\ World /\ OneHolder /\ LatestIsBacked /\ PaidHasCompleted /\ NoExpiryHeld

-------------------------------------------------------------------------------
\* Nothing has happened when the payment is created.
LEMMA InitOrderInv == Init => OrderInv
  <1> SUFFICES ASSUME Init PROVE OrderInv
    OBVIOUS
  <1>1. IInv
    BY InitIInv
  <1>2. OneSession
    BY DEF Init, OneSession
  <1>3. World
    BY <1>2 DEF Init, World
  <1>4. row.status = "pending" /\ \A w \in Writers : snap[w] = NoEntity
    BY DEF Init
  <1> QED  BY <1>1, <1>3, <1>4
           DEF OrderInv, OneHolder, LatestIsBacked, Backed, PaidHasCompleted,
               CompletedIfPaid, NoExpiryHeld

\* Sessions that completed or expired stay so.
Later ==
    \A s \in Sessions : /\ session[s] \in Completed => session'[s] \in Completed
                        /\ session[s] = "expired" => session'[s] = "expired"

\* The events so far keep their places.
LEMMA EmitAppends ==
  ASSUME IInv, NEW e, Emit(e)
  PROVE  /\ DOMAIN log = 1..Len(log) /\ DOMAIN log' = 1..(Len(log) + 1)
         /\ log'[Len(log) + 1] = e /\ (\A n \in 1..Len(log) : log'[n] = log[n])
         /\ Len(log) \in Nat
  BY DEF IInv, TypeOK, Emit

\* What an event says stays true.
LEMMA HappenedStays ==
  ASSUME NEW e, Happened(e), Later, UNCHANGED recurring
  PROVE  Happened(e)'
  BY DEF Happened, Later

\* A step that appends event e keeps World, if e has happened, stands, and a
\* session that fails does so with e.
LEMMA EmitKeepsWorld ==
  ASSUME IInv, World, NEW e, Emit(e), Later, UNCHANGED <<paymentVars>>,
         Happened(e)', OneSession',
         \A s \in subscribed' : session'[s] \in Completed,
         e.type \in Completions => session'[e.object] \in {"unpaid", "paid"},
         \A s \in Sessions : session[s] \in {"unpaid", "paid"} =>
            \/ session'[s] \in {"unpaid", "paid"}
            \/ e.object = s /\ e.type = "checkout.session.async_payment_failed"
  PROVE  /\ World'
         /\ \A s \in Sessions, n \in 0..Len(log) : Stands(s, n) => Stands(s, n)'
  <1>1. ASSUME NEW s \in Sessions, NEW n \in 0..Len(log), Stands(s, n) PROVE Stands(s, n)'
    <2>1. CASE FailsAfter(s, n)
      BY <2>1, EmitAppends DEF FailsAfter, Stands
    <2>2. CASE session[s] \in {"unpaid", "paid"}
      BY <2>2, EmitAppends DEF FailsAfter, Stands
    <2> QED  BY <1>1, <2>1, <2>2 DEF Stands
  <1>2. ASSUME NEW n \in DOMAIN log' PROVE Happened(log[n])'
    <2>1. CASE n = Len(log) + 1
      BY <2>1, EmitAppends
    <2>2. CASE n \in 1..Len(log)
      <3>1. Happened(log[n]) /\ log'[n] = log[n]
        BY <2>2, EmitAppends DEF World
      <3> QED  BY <3>1 DEF Happened, Later, paymentVars
    <2> QED  BY <2>1, <2>2, EmitAppends
  <1>3. ASSUME NEW n \in DOMAIN log', log'[n].type \in Completions
        PROVE  Stands(log[n].object, n)'
    <2>1. CASE n = Len(log) + 1
      BY <1>3, <2>1, EmitAppends DEF Stands
    <2>2. CASE n \in 1..Len(log)
      <3>1. log'[n] = log[n] /\ log[n].object \in Sessions /\ Stands(log[n].object, n)
        BY <1>3, <2>2, EmitAppends DEF World, Happened
      <3> QED  BY <1>1, <2>2, <3>1
    <2> QED  BY <2>1, <2>2, EmitAppends
  <1> QED  BY <1>1, <1>2, <1>3 DEF World

\* A visit sends nothing.
LEMMA VisitKeepsWorld ==
  ASSUME IInv, World, NEW s \in Sessions, Visit(s)
  PROVE  /\ World' /\ Later
         /\ \A t \in Sessions, n \in 0..Len(log) : Stands(t, n) => Stands(t, n)'
  <1>1. /\ session \in [Sessions -> SessionStates] /\ log' = log /\ subscribed' = subscribed
        /\ session[s] = "none" /\ session' = [session EXCEPT ![s] = "open"]
        /\ method = "payment_link" /\ recurring' = recurring /\ method' = method
    BY DEF Visit, IInv, TypeOK, paymentVars
  <1>2. \A t \in Sessions : session'[t] = session[t] \/ (session[t] = "none" /\ session'[t] = "open")
    BY <1>1
  <1>3. Later
    BY <1>2 DEF Later, Completed
  <1>4. ASSUME NEW t \in Sessions, NEW n, Stands(t, n) PROVE Stands(t, n)'
    BY <1>1, <1>2, <1>4 DEF Stands, FailsAfter
  <1>5. \A n \in DOMAIN log : Happened(log[n])'
    BY <1>1, <1>3 DEF World, Happened, Later
  <1>6. \A t \in subscribed' : session'[t] \in Completed
    BY <1>1, <1>3 DEF World, Later, IInv, TypeOK
  <1>7. \A n \in DOMAIN log : log[n].type \in Completions => Stands(log[n].object, n)'
    BY <1>1, <1>4 DEF World, Happened
  <1> QED  BY <1>1, <1>3, <1>4, <1>5, <1>6, <1>7 DEF World, OneSession

\* The moves of a session and what is sent about them.
LEMMA MovesSay ==
  ASSUME NEW m \in Moves
  PROVE  /\ m.from \in {"open", "unpaid"}
         /\ m.type \in Completions => m.to \in {"unpaid", "paid"}
         /\ m.type = "checkout.session.async_payment_failed" <=> m.to = "failed"
         /\ m.type = "checkout.session.expired" <=> m.to = "expired"
         /\ m.from = "unpaid" => m.to \in {"paid", "failed"}
         /\ m.to \in Completed \cup {"expired"}
         /\ m.type \notin Renewals
         /\ m.type = "checkout.session.completed" => m.to \in Completed
  BY DEF Moves, Completions, Completed, Renewals

\* A session goes on.
LEMMA MoveKeepsWorld ==
  ASSUME IInv, World, NEW s \in Sessions, NEW m \in Moves, SessionMoves(s, m)
  PROVE  /\ World' /\ Later
         /\ \A t \in Sessions, n \in 0..Len(log) : Stands(t, n) => Stands(t, n)'
  <1>0. PICK e : e = Event(m.type, s, s)
    OBVIOUS
  <1>1. /\ session \in [Sessions -> SessionStates] /\ Emit(e) /\ UNCHANGED <<paymentVars>>
        /\ session[s] = m.from /\ session' = [session EXCEPT ![s] = m.to]
        /\ subscribed' \subseteq subscribed \cup (IF m.type = "checkout.session.completed"
                                                  THEN {s} ELSE {})
        /\ subscribed \subseteq Sessions
    BY <1>0 DEF SessionMoves, IInv, TypeOK
  <1>2. e.type = m.type /\ e.object = s
    BY <1>0 DEF Event
  <1>3. session'[s] = m.to /\ \A t \in Sessions \ {s} : session'[t] = session[t]
    BY <1>1
  <1>4. Later
    BY <1>1, <1>3, MovesSay DEF Later, Completed
  <1>5. Happened(e)'
    BY <1>2, <1>3, MovesSay DEF Happened, Completed, Completions
  <1>6. OneSession'
    BY <1>1, <1>3, MovesSay DEF World, OneSession, paymentVars
  <1>7. \A t \in subscribed' : session'[t] \in Completed
    BY <1>1, <1>3, <1>4, MovesSay DEF World, Later
  <1>8. e.type \in Completions => session'[e.object] \in {"unpaid", "paid"}
    BY <1>2, <1>3, MovesSay
  <1>9. \A t \in Sessions : session[t] \in {"unpaid", "paid"} =>
            \/ session'[t] \in {"unpaid", "paid"}
            \/ e.object = t /\ e.type = "checkout.session.async_payment_failed"
    BY <1>1, <1>2, <1>3, MovesSay
  <1> QED  BY <1>1, <1>4, <1>5, <1>6, <1>7, <1>8, <1>9, EmitKeepsWorld

\* An event that is not about a session's payment.
LEMMA NoteKeepsWorld ==
  ASSUME IInv, World, NEW e, Emit(e), UNCHANGED <<paymentVars, session>>,
         subscribed' \subseteq subscribed, Happened(e),
         e.type \in Renewals \cup {"other"}
  PROVE  /\ World' /\ Later
         /\ \A t \in Sessions, n \in 0..Len(log) : Stands(t, n) => Stands(t, n)'
  <1>1. Later
    BY DEF Later
  <1>2. Happened(e)' /\ OneSession'
    BY DEF World, Happened, OneSession, paymentVars
  <1>3. e.type \notin Completions
    BY DEF Renewals, Completions
  <1>4. \A s \in subscribed' : session'[s] \in Completed
    BY DEF World
  <1> QED  BY <1>1, <1>2, <1>3, <1>4, EmitKeepsWorld

\* What Stripe does takes nothing back.
LEMMA StripeKeepsWorld ==
  ASSUME IInv, World, StripeStep
  PROVE  /\ World' /\ Later /\ UNCHANGED <<paymentVars, delivered, row, snap>>
         /\ \A t \in Sessions, n \in 0..Len(log) : Stands(t, n) => Stands(t, n)'
  <1> DEFINE Goal == /\ World' /\ Later /\ UNCHANGED <<paymentVars, delivered, row, snap>>
                     /\ \A t \in Sessions, n \in 0..Len(log) : Stands(t, n) => Stands(t, n)'
  <1>0. subscribed \subseteq Sessions /\ \A s \in subscribed : recurring /\ session[s] \in Completed
    BY DEF World, IInv, TypeOK
  <1>1. ASSUME NEW s \in Sessions, Visit(s) PROVE Goal
    BY <1>1, VisitKeepsWorld DEF Visit
  <1>2. ASSUME NEW s \in Sessions, NEW m \in Moves, SessionMoves(s, m) PROVE Goal
    BY <1>2, MoveKeepsWorld DEF SessionMoves
  <1>3. ASSUME NEW s \in Sessions, NEW i \in Invoices, NEW type \in EventTypes,
               Renewal(s, i, type)
        PROVE  Goal
    <2> DEFINE e == Event(type, i, s)
    <2>1. e.type = type /\ type \in {"invoice.paid", "invoice.payment_failed"} /\ Emit(e)
      BY <1>3 DEF Renewal, Event
    <2>2. /\ s \in subscribed /\ UNCHANGED <<paymentVars, session, subscribed>>
          /\ UNCHANGED <<delivered, row, snap>>
      BY <1>3 DEF Renewal
    <2> HIDE DEF e
    <2>3. Happened(e) /\ e.type \in Renewals \cup {"other"}
      BY <1>0, <2>1, <2>2 DEF Happened, Renewals, Completions
    <2> QED  BY <2>1, <2>2, <2>3, NoteKeepsWorld
  <1>4. ASSUME NEW s \in Sessions, SubscriptionEnds(s) PROVE Goal
    <2> DEFINE e == Event("customer.subscription.deleted", s, s)
    <2>1. e.type = "customer.subscription.deleted" /\ Emit(e)
      BY <1>4 DEF SubscriptionEnds, Event
    <2>2. /\ s \in subscribed /\ UNCHANGED <<paymentVars, session>>
          /\ subscribed' \subseteq subscribed /\ UNCHANGED <<delivered, row, snap>>
      BY <1>4 DEF SubscriptionEnds
    <2> HIDE DEF e
    <2>3. Happened(e) /\ e.type \in Renewals \cup {"other"}
      BY <1>0, <2>1, <2>2 DEF Happened, Renewals, Completions
    <2> QED  BY <2>1, <2>2, <2>3, NoteKeepsWorld
  <1>5. ASSUME NEW i \in Invoices, OtherEvent(i) PROVE Goal
    <2> DEFINE e == [type |-> "other", object |-> i, subscription |-> NoSubscription]
    <2>1. e.type = "other" /\ Emit(e)
      BY <1>5 DEF OtherEvent
    <2>2. UNCHANGED <<paymentVars, session, subscribed>> /\ UNCHANGED <<delivered, row, snap>>
      BY <1>5 DEF OtherEvent
    <2> HIDE DEF e
    <2>3. Happened(e) /\ e.type \in Renewals \cup {"other"}
      BY <2>1 DEF Happened, Renewals, Completions
    <2> QED  BY <2>1, <2>2, <2>3, NoteKeepsWorld
  <1> QED  BY <1>1, <1>2, <1>3, <1>4, <1>5 DEF StripeStep

\* Stripe's steps leave what is behind a PAID behind it.
LEMMA StripeKeepsOrder == ASSUME OrderInv, StripeStep PROVE OrderInv'
  <1>1. IInv' /\ IInv /\ delivered \in 0..Len(log)
    BY StripeStepKeeps DEF OrderInv, IInv, TypeOK
  <1>2. /\ World' /\ Later
        /\ orderly' = orderly /\ method' = method /\ recurring' = recurring
        /\ delivered' = delivered /\ row' = row /\ snap' = snap
        /\ \A t \in Sessions, n \in 0..Len(log) : Stands(t, n) => Stands(t, n)'
    BY StripeKeepsWorld DEF OrderInv, paymentVars
  <1>3. \A t \in Sessions : Stands(t, delivered) => Stands(t, delivered)'
    BY <1>1, <1>2
  <1>4. LatestIsBacked'
    BY <1>2, <1>3 DEF OrderInv, LatestIsBacked, Backed
  <1>5. PaidHasCompleted'
    BY <1>2 DEF OrderInv, PaidHasCompleted, CompletedIfPaid, Later
  <1>6. OneHolder' /\ NoExpiryHeld'
    BY <1>2 DEF OrderInv, OneHolder, NoExpiryHeld
  <1> QED  BY <1>1, <1>2, <1>4, <1>5, <1>6 DEF OrderInv

\* A writer takes entity r in hand: what is asked of r is what the invariant
\* asks of what is held.
LEMMA HoldKeepsOrder ==
  ASSUME OrderInv, IInv', NEW w \in Writers, NEW r \in Entity, Hold(w, r),
         UNCHANGED <<paymentVars, stripeVars, row>>,
         orderly /\ ~recurring /\ r.status = "paid" => \E s \in Sessions : Stands(s, delivered'),
         CompletedIfPaid(r),
         orderly /\ method = "hosted_card" /\ row.status = "paid" => r.status # "expired",
         orderly \/ delivered' = delivered
  PROVE  OrderInv'
  <1>1. /\ orderly' = orderly /\ recurring' = recurring /\ method' = method
        /\ createdId' = createdId
        /\ session' = session /\ log' = log /\ subscribed' = subscribed /\ row' = row
    BY DEF paymentVars, stripeVars
  <1>2. /\ snap[w] = NoEntity /\ snap'[w] = r
        /\ \A v \in Writers \ {w} : snap'[v] = snap[v]
        /\ orderly => \A v \in Writers : snap[v] = NoEntity
    BY DEF Hold, OrderInv, IInv, TypeOK
  <1>3. World'
    BY <1>1 DEF OrderInv, World, OneSession, Happened, Stands, FailsAfter
  <1>4. OneHolder'
    BY <1>1, <1>2 DEF OneHolder
  <1>5. LatestIsBacked'
    <2> SUFFICES ASSUME orderly, ~recurring PROVE LatestIsBacked'
      BY <1>1 DEF LatestIsBacked
    <2>1. \A v \in Writers \ {w} : snap'[v] = NoEntity
      BY <1>2
    <2>2. r.status = "paid" => \E s \in Sessions : Stands(s, delivered)'
      BY <1>1 DEF Stands, FailsAfter
    <2>3. snap'[w] # NoEntity
      BY <1>2, NoEntityAssumption
    <2> QED  BY <1>2, <2>1, <2>2, <2>3 DEF LatestIsBacked, Backed
  <1>6. PaidHasCompleted'
    BY <1>1, <1>2 DEF OrderInv, PaidHasCompleted, CompletedIfPaid
  <1>7. NoExpiryHeld'
    BY <1>1, <1>2 DEF OrderInv, NoExpiryHeld
  <1> QED  BY <1>3, <1>4, <1>5, <1>6, <1>7 DEF OrderInv

\* Event n asks for PAID only of a completed session, whose money stands unless
\* a later event takes it back, and for EXPIRED only of one that did not complete.
LEMMA EventIsFounded ==
  ASSUME OrderInv, NEW n \in DOMAIN log, NEW r,
         r = SetIfAny(AssignFields(row, log[n]), NewStatus(log[n].type)),
         log[n] \in Events, Sound(row)
  PROVE  /\ log[n].type = "other" => r = row
         /\ r.status = "paid" /\ log[n].type # "other" =>
                /\ ~recurring => log[n].object \in Sessions /\ Stands(log[n].object, n)
                /\ \E s \in Sessions : session[s] \in Completed
         /\ r.status = "expired" /\ log[n].type # "other" =>
                log[n].object \in Sessions /\ session[log[n].object] = "expired"
  <1>1. log[n].type \in EventTypes
    BY DEF Events
  <1>2. CASE log[n].type = "other"
    BY <1>2 DEF AssignFields, NewStatus, SetIfAny
  <1>3. CASE log[n].type # "other"
    <2>1. EntityOK(AssignFields(row, log[n]))
      BY AssignedTypes DEF Sound
    <2>2. NewStatus(log[n].type) # "none"
      BY <1>1, <1>3 DEF EventTypes, NewStatus
    <2>3. r.status = NewStatus(log[n].type)
      BY <2>1, <2>2 DEF SetIfAny, EntityOK, Entity
    <2>4. NewStatus(log[n].type) = "paid" =>
              log[n].type \in Completions \/ log[n].type = "invoice.paid"
      BY <1>1, <1>3 DEF EventTypes, NewStatus, Completions
    <2>5. NewStatus(log[n].type) = "expired" => log[n].type = "checkout.session.expired"
      BY <1>1, <1>3 DEF EventTypes, NewStatus
    <2>6. /\ Happened(log[n])
          /\ log[n].type \in Completions => Stands(log[n].object, n)
      BY DEF OrderInv, World
    <2> QED  BY <1>3, <2>3, <2>4, <2>5, <2>6 DEF Happened, Renewals
  <1> QED  BY <1>2, <1>3

\* A webhook is the next event, if all is in order.
LEMMA CallbackKeepsOrder ==
  ASSUME OrderInv, IInv', NEW w \in Handlers, NEW n \in 1..MaxEvents,
         HandleProviderCallback(w, n)
  PROVE  OrderInv'
  <1>1. PICK r : r = SetIfAny(AssignFields(row, log[n]), NewStatus(log[n].type))
    OBVIOUS
  <1>2. /\ n \in DOMAIN log /\ w \in Writers /\ Hold(w, r)
        /\ orderly => n = delivered + 1
        /\ delivered' = IF orderly THEN n ELSE delivered
        /\ UNCHANGED <<paymentVars, stripeVars, row>>
    BY <1>1 DEF HandleProviderCallback, Writers
  <1>3. /\ log \in Seq(Events) /\ delivered \in Nat /\ Sound(row) /\ log[n] \in Events
        /\ DOMAIN log \subseteq Nat
    BY <1>2, SoundParts DEF OrderInv, IInv, TypeOK
  <1>4. r \in Entity
    BY <1>1, <1>3, AppliedIsSound DEF Sound, EntityOK
  <1>5. /\ log[n].type = "other" => r = row
        /\ r.status = "paid" /\ log[n].type # "other" =>
                /\ ~recurring => log[n].object \in Sessions /\ Stands(log[n].object, n)
                /\ \E s \in Sessions : session[s] \in Completed
        /\ r.status = "expired" /\ log[n].type # "other" =>
                log[n].object \in Sessions /\ session[log[n].object] = "expired"
    BY <1>1, <1>2, <1>3, EventIsFounded
  <1>6. ASSUME orderly, ~recurring, r.status = "paid"
        PROVE  \E s \in Sessions : Stands(s, delivered')
    <2>1. CASE log[n].type # "other"
      BY <1>2, <1>5, <1>6, <2>1
    <2>2. CASE log[n].type = "other"
      <3>1. \A v \in Writers : snap[v] = NoEntity
        BY <1>2, <1>6 DEF Hold
      <3>2. PICK s \in Sessions : Stands(s, delivered)
        BY <1>5, <1>6, <2>2, <3>1 DEF OrderInv, LatestIsBacked, Backed
      <3>3. CASE session[s] \in {"unpaid", "paid"}
        BY <3>3 DEF Stands
      <3>4. CASE FailsAfter(s, delivered)
        <4>1. PICK k \in DOMAIN log :
                  /\ k > delivered /\ log[k].object = s
                  /\ log[k].type = "checkout.session.async_payment_failed"
          BY <3>4 DEF FailsAfter
        <4>2. k # n
          BY <2>2, <4>1
        <4>3. k > n
          BY <1>2, <1>3, <1>6, <4>1, <4>2
        <4>4. FailsAfter(s, n)
          BY <4>1, <4>3 DEF FailsAfter
        <4> QED  BY <1>2, <1>6, <4>4 DEF Stands
      <3> QED  BY <3>2, <3>3, <3>4 DEF Stands
    <2> QED  BY <2>1, <2>2
  <1>7. CompletedIfPaid(r)
    BY <1>5 DEF CompletedIfPaid, OrderInv, PaidHasCompleted
  <1>8. ASSUME orderly, method = "hosted_card", row.status = "paid", r.status = "expired"
        PROVE  FALSE
    <2>1. log[n].object \in Sessions /\ session[log[n].object] = "expired"
      BY <1>5, <1>8
    <2>2. PICK s \in Sessions : session[s] \in Completed
      BY <1>8 DEF OrderInv, PaidHasCompleted, CompletedIfPaid
    <2>3. s = log[n].object
      BY <1>8, <2>1, <2>2 DEF OrderInv, World, OneSession, Completed
    <2> QED  BY <2>1, <2>2, <2>3 DEF Completed
  <1> QED  BY <1>2, <1>4, <1>6, <1>7, <1>8, HoldKeepsOrder

\* Cancel and the jobs write PAID only if Stripe says so of a session.
LEMMA ChangeKeepsOrder ==
  ASSUME OrderInv, IInv', NEW w \in Writers, NEW s, Hold(w, [row EXCEPT !.status = s]),
         s \in Status, row.status # "paid" \/ s # "expired",
         s = "paid" => \E t \in Sessions : session[t] = "paid",
         UNCHANGED <<paymentVars, stripeVars, delivered, row>>
  PROVE  OrderInv'
  <1>1. PICK r : r = [row EXCEPT !.status = s]
    OBVIOUS
  <1>2. r \in Entity /\ r.status = s
    BY <1>1, SoundParts DEF OrderInv, Sound, EntityOK, Entity
  <1>3. s = "paid" => \E t \in Sessions : Stands(t, delivered')
    BY DEF Stands
  <1>4. CompletedIfPaid(r)
    BY <1>2 DEF CompletedIfPaid, Completed
  <1> QED  BY <1>1, <1>2, <1>3, <1>4, HoldKeepsOrder

\* A write puts the last word into the row.
LEMMA UpdateKeepsOrder ==
  ASSUME OrderInv, IInv', NEW w \in Writers, Update(w)
  PROVE  OrderInv'
  <1>1. /\ orderly' = orderly /\ recurring' = recurring /\ method' = method
        /\ createdId' = createdId
        /\ session' = session /\ log' = log /\ subscribed' = subscribed
        /\ delivered' = delivered
        /\ snap[w] # NoEntity /\ row' = snap[w] /\ snap'[w] = NoEntity
        /\ \A v \in Writers \ {w} : snap'[v] = snap[v]
    BY DEF Update, paymentVars, stripeVars, OrderInv, IInv, TypeOK
  <1>2. World'
    BY <1>1 DEF OrderInv, World, OneSession, Happened, Stands, FailsAfter
  <1>3. orderly => \A v \in Writers : snap'[v] = NoEntity
    BY <1>1 DEF OrderInv, OneHolder
  <1>4. OneHolder' /\ NoExpiryHeld'
    BY <1>1, <1>3 DEF OneHolder, NoExpiryHeld
  <1>5. LatestIsBacked'
    BY <1>1, <1>3 DEF OrderInv, LatestIsBacked, Backed, Stands, FailsAfter
  <1>6. PaidHasCompleted'
    BY <1>1 DEF OrderInv, PaidHasCompleted, CompletedIfPaid
  <1> QED  BY <1>2, <1>4, <1>5, <1>6 DEF OrderInv

\* A write that fails is out of order.
LEMMA UpdateFailsKeepsOrder ==
  ASSUME OrderInv, IInv', NEW w \in Writers, UpdateFails(w)
  PROVE  OrderInv'
  <1>1. /\ ~orderly /\ orderly' = orderly /\ recurring' = recurring /\ method' = method
        /\ createdId' = createdId
        /\ session' = session /\ log' = log /\ subscribed' = subscribed
        /\ row' = row /\ \A v \in Writers : snap'[v] \in {snap[v], NoEntity}
    BY DEF UpdateFails, paymentVars, stripeVars, OrderInv, IInv, TypeOK
  <1>2. World'
    BY <1>1 DEF OrderInv, World, OneSession, Happened, Stands, FailsAfter
  <1>3. PaidHasCompleted'
    BY <1>1 DEF OrderInv, PaidHasCompleted, CompletedIfPaid
  <1> QED  BY <1>1, <1>2, <1>3 DEF OrderInv, OneHolder, LatestIsBacked, NoExpiryHeld

\* Every step keeps the invariant.
LEMMA OrderKept == ASSUME OrderInv, [Next]_vars PROVE OrderInv'
  <1>1. IInv /\ IInv'
    BY StripeStepKeeps, WriterKeeps, GrowsStaleKeeps, StutterKeeps DEF Next, OrderInv
  <1>2. /\ Handlers \subseteq Writers /\ Reconcilers \subseteq Writers
        /\ {"canceled", "expired", "pending", "paid", "failed"} \subseteq Status
    BY DEF Writers, Status
  <1>3. ASSUME NEW w \in Handlers, CancelPayment(w) PROVE OrderInv'
    BY <1>1, <1>2, <1>3, ChangeKeepsOrder DEF CancelPayment
  <1>4. ASSUME NEW w \in Handlers, ExpirePending(w) PROVE OrderInv'
    BY <1>1, <1>2, <1>4, ChangeKeepsOrder DEF ExpirePending, OpenStatus
  <1>5. ASSUME NEW w \in Reconcilers, Reconcile(w) PROVE OrderInv'
    <2>1. PICK s : s = GetPaymentStatus(row.id)
      OBVIOUS
    <2>2. /\ s \in Status
          /\ s = "paid" => \E t \in Sessions : session[t] = "paid"
          /\ row.status # "paid"
      BY <1>2, <1>5, <2>1 DEF Reconcile, GetPaymentStatus, OpenStatus
    <2>3. /\ Hold(w, [row EXCEPT !.status = s]) /\ w \in Writers
          /\ UNCHANGED <<paymentVars, stripeVars, delivered, row>>
      BY <1>2, <1>5, <2>1 DEF Reconcile
    <2> QED  BY <1>1, <2>2, <2>3, ChangeKeepsOrder
  <1>6. CASE UNCHANGED <<paymentVars, stripeVars, delivered, row, snap>>
    BY <1>1, <1>6
    DEF paymentVars, stripeVars, OrderInv, World, OneSession, Happened, Stands, FailsAfter,
        OneHolder, LatestIsBacked, Backed, PaidHasCompleted, CompletedIfPaid, NoExpiryHeld
  <1> QED  BY <1>1, <1>2, <1>3, <1>4, <1>5, <1>6, StripeKeepsOrder, CallbackKeepsOrder,
              UpdateKeepsOrder, UpdateFailsKeepsOrder
           DEF Next, GrowsStale, vars

\* OrderInv is an invariant.
LEMMA OrderInvariance == Spec => []OrderInv
  BY InitOrderInv, OrderKept, PTL DEF Spec

\* A one-time payment whose events arrived in order, one by one, is not left PAID
\* when its delayed payment failed, for any number of sessions, writers and
\* events: what a writer holds, or else the row, is PAID only if the money of a
\* session stands, or the event that takes it back is still to come.
THEOREM PaidIsAlwaysBacked == Spec => []PaidIsBacked
  <1>1. OrderInv => PaidIsBacked
    <2> SUFFICES ASSUME OrderInv, orderly, row.status = "paid", ~recurring,
                        delivered = Len(log), \A w \in Writers : snap[w] = NoEntity
                 PROVE  \E s \in Sessions : session[s] \in {"unpaid", "paid"}
      BY DEF PaidIsBacked
    <2>1. PICK s \in Sessions : Stands(s, delivered)
      BY DEF OrderInv, LatestIsBacked, Backed
    <2>2. ~FailsAfter(s, delivered)
      BY DEF FailsAfter, OrderInv, IInv, TypeOK
    <2> QED  BY <2>1, <2>2 DEF Stands
  <1> QED  BY OrderInvariance, <1>1, PTL

\* A paid card payment does not expire when nothing overlaps, for any number of
\* writers and events: its session completed, so the event that would expire it
\* (HandleProviderCallback) was never sent, and the jobs leave paid rows alone.
THEOREM PaidCardsDoNotExpire == Spec => PaidDoesNotExpire
  <1>1. ASSUME OrderInv, [Next]_vars, orderly, method = "hosted_card", row.status = "paid"
        PROVE  row'.status # "expired"
    <2>1. ASSUME NEW w \in Writers, Update(w) PROVE row'.status # "expired"
      BY <1>1, <2>1 DEF Update, OrderInv, NoExpiryHeld
    <2>2. CASE row' = row
      BY <1>1, <2>2
    <2>3. (\E w \in Writers : Update(w)) \/ row' = row
      BY <1>1 DEF Next, vars, StripeStep, Visit, SessionMoves, Renewal, SubscriptionEnds,
                  OtherEvent, HandleProviderCallback, CancelPayment, ExpirePending,
                  GrowsStale, Reconcile, UpdateFails
    <2> QED  BY <2>1, <2>2, <2>3
  <1>2. OrderInv /\ [Next]_vars =>
          [orderly /\ method = "hosted_card" /\ row.status = "paid" => row'.status # "expired"]_vars
    BY <1>1
  <1> QED  BY OrderInvariance, <1>2, PTL DEF Spec, PaidDoesNotExpire
===============================================================================
