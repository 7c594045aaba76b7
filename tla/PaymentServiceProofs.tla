------------------------- MODULE PaymentServiceProofs -------------------------
(***************************************************************************)
(* The safety of PaymentService for every number of payments, requests and *)
(* workers, every batch size, retry budget and number of faults, in three  *)
(* parts.                                                                  *)
(*                                                                         *)
(* 1. Every rewriting of a payments row turns a consistent row into a      *)
(*    consistent row (PaymentRow).                                         *)
(*                                                                         *)
(* 2. IInv, the inductive invariant of PaymentService, and what follows    *)
(*    from it however operations interleave.                               *)
(*                                                                         *)
(* 3. A payment whose operations do not overlap keeps its PaymentLedger,   *)
(*    whatever overlaps on other payments and whatever batches are held,   *)
(*    with any number of faults between two steps.  The invariant on top   *)
(*    of IInv says what this means for the entities held of the payment:   *)
(*    one actor holds any; those of a batch are still what the table       *)
(*    says, up to the next attempt's time; and the entity in hand may      *)
(*    replace its row in one step of the ledger.                           *)
(***************************************************************************)
EXTENDS PaymentService, FiniteSetTheorems, TLAPS

-------------------------------------------------------------------------------
(* Part 1: rows.                                                           *)

\* The retry budget is at least one attempt, whatever the setting.
LEMMA BudgetPositive == Budget \in Nat /\ Budget >= 1
  BY MaxAttemptsAssumption DEF Budget

\* The row CreatePayment inserts is consistent.
LEMMA InitialRowConsistent == InitialRow \in Row /\ RowConsistent(InitialRow)
  BY BudgetPositive
  DEF InitialRow, Row, RowConsistent, Status, OpenStatus, TerminalStatus

\* Setting a status leaves a row of the table's type, otherwise unchanged.
LEMMA StatusSet ==
  ASSUME NEW r \in Row, NEW s \in Status
  PROVE  /\ SetStatus(r, s) \in Row
         /\ SetStatus(r, s).status = s
         /\ SetStatus(r, s).delivery = r.delivery
         /\ SetStatus(r, s).attempts = r.attempts
         /\ SetStatus(r, s).nextAt = r.nextAt
  BY DEF Row, SetStatus

\* Setting the delivery columns leaves a row of the table's type and status.
LEMMA DeliverySet ==
  ASSUME NEW r \in Row, NEW n \in Nat,
         NEW v \in {"none", "pending", "success", "failed"},
         NEW t \in {"null", "due", "later"}
  PROVE  /\ SetDelivery(r, n, v, t) \in Row
         /\ SetDelivery(r, n, v, t).status = r.status
         /\ SetDelivery(r, n, v, t).attempts = n
         /\ SetDelivery(r, n, v, t).delivery = v
         /\ SetDelivery(r, n, v, t).nextAt = t
  BY DEF Row, SetDelivery

\* DeliverySet for a delivery that was made, with the values written out.
LEMMA DeliveryMade ==
  ASSUME NEW r \in Row, NEW n \in Nat
  PROVE  /\ SetDelivery(r, n, "success", "null") \in Row
         /\ SetDelivery(r, n, "success", "null").status = r.status
         /\ SetDelivery(r, n, "success", "null").attempts = n
         /\ SetDelivery(r, n, "success", "null").delivery = "success"
         /\ SetDelivery(r, n, "success", "null").nextAt = "null"
  BY DeliverySet

\* DeliverySet for a delivery that is given up.
LEMMA DeliveryGivenUp ==
  ASSUME NEW r \in Row, NEW n \in Nat
  PROVE  /\ SetDelivery(r, n, "failed", "null") \in Row
         /\ SetDelivery(r, n, "failed", "null").status = r.status
         /\ SetDelivery(r, n, "failed", "null").attempts = n
         /\ SetDelivery(r, n, "failed", "null").delivery = "failed"
         /\ SetDelivery(r, n, "failed", "null").nextAt = "null"
  BY DeliverySet

\* DeliverySet for a delivery that is tried again later.
LEMMA DeliveryPutOff ==
  ASSUME NEW r \in Row, NEW n \in Nat
  PROVE  /\ SetDelivery(r, n, "pending", "later") \in Row
         /\ SetDelivery(r, n, "pending", "later").status = r.status
         /\ SetDelivery(r, n, "pending", "later").attempts = n
         /\ SetDelivery(r, n, "pending", "later").delivery = "pending"
         /\ SetDelivery(r, n, "pending", "later").nextAt = "later"
  BY DeliverySet

\* Queueing a terminal status gives a consistent row, whatever the delivery
\* columns held before (markForCallbackDelivery).
LEMMA MarkedConsistent ==
  ASSUME NEW r \in Row, r.status \in TerminalStatus
  PROVE  /\ markForCallbackDelivery(r) \in Row
         /\ RowConsistent(markForCallbackDelivery(r))
         /\ markForCallbackDelivery(r).status = r.status
         /\ markForCallbackDelivery(r).attempts = 0
         /\ markForCallbackDelivery(r).delivery = "pending"
  <1> DEFINE m == markForCallbackDelivery(r)
  <1>1. /\ m \in Row /\ m.status = r.status /\ m.attempts = 0
        /\ m.delivery = "pending" /\ m.nextAt = "due"
    BY DeliverySet DEF markForCallbackDelivery
  <1>2. RowConsistent(m)
    BY <1>1, BudgetPositive DEF RowConsistent
  <1> QED  BY <1>1, <1>2

\* So does setting an outcome and queueing it.
LEMMA OutcomeQueued ==
  ASSUME NEW r \in Row, NEW s \in TerminalStatus
  PROVE  LET m == markForCallbackDelivery(SetStatus(r, s))
         IN  /\ m \in Row
             /\ RowConsistent(m)
             /\ m.status = s
             /\ m.attempts = 0
             /\ m.delivery = "pending"
  <1>1. s \in Status
    BY DEF Status, TerminalStatus
  <1> QED  BY <1>1, StatusSet, MarkedConsistent

\* A canceled row is consistent and queued (CancelPayment).
LEMMA CanceledConsistent ==
  ASSUME NEW r \in Row
  PROVE  /\ Canceled(r) \in Row
         /\ RowConsistent(Canceled(r))
         /\ Canceled(r).status = "canceled"
         /\ Canceled(r).attempts = 0
         /\ Canceled(r).delivery = "pending"
  <1>1. "canceled" \in TerminalStatus
    BY DEF TerminalStatus
  <1> QED  BY <1>1, OutcomeQueued DEF Canceled

\* An expired row is consistent and queued (RunExpirePendingBatch).
LEMMA ExpiredConsistent ==
  ASSUME NEW r \in Row
  PROVE  /\ Expired(r) \in Row
         /\ RowConsistent(Expired(r))
         /\ Expired(r).status = "expired"
         /\ Expired(r).attempts = 0
         /\ Expired(r).delivery = "pending"
  <1>1. "expired" \in TerminalStatus
    BY DEF TerminalStatus
  <1> QED  BY <1>1, OutcomeQueued DEF Expired

\* A webhook either leaves the row as it was read or gives it a new outcome
\* that is queued (HandleProviderCallback).
LEMMA CallbackConsistent ==
  ASSUME NEW r \in Row, RowConsistent(r), NEW new \in TerminalStatus \cup {"none"}
  PROVE  /\ CallbackApplied(r, new) \in Row
         /\ RowConsistent(CallbackApplied(r, new))
         /\ \/ CallbackApplied(r, new) = r
            \/ /\ new \in TerminalStatus
               /\ CallbackApplied(r, new).status = new
               /\ CallbackApplied(r, new).attempts = 0
               /\ CallbackApplied(r, new).delivery = "pending"
  <1>1. CASE new = "none" \/ new = r.status
    BY <1>1 DEF CallbackApplied
  <1>2. CASE new # "none" /\ new # r.status
    <2>1. new \in TerminalStatus
      BY <1>2
    <2> QED  BY <1>2, <2>1, OutcomeQueued DEF CallbackApplied, terminalStatus
  <1> QED  BY <1>1, <1>2

\* An answer from Stripe on an open row leaves a consistent row
\* (RunReconcileBatch).
LEMMA ReconciledConsistent ==
  ASSUME NEW r \in Row, RowConsistent(r), r.status \in OpenStatus,
         NEW new \in {"expired", "paid", "pending"}
  PROVE  /\ Reconciled(r, new) \in Row
         /\ RowConsistent(Reconciled(r, new))
         /\ Reconciled(r, new).status = new
         /\ Reconciled(r, new).attempts = 0
         /\ Reconciled(r, new).delivery # "success"
  <1>1. CASE new \in TerminalStatus
    BY <1>1, OutcomeQueued DEF Reconciled, terminalStatus
  <1>2. CASE new \notin TerminalStatus
    <2>1. new = "pending" /\ new \in Status
      BY <1>2 DEF TerminalStatus, Status
    <2>2. Reconciled(r, new) = SetStatus(r, new)
      BY <1>2 DEF Reconciled, terminalStatus
    <2> QED
      BY <2>1, <2>2, StatusSet, BudgetPositive
      DEF RowConsistent, OpenStatus, TerminalStatus
  <1> QED  BY <1>1, <1>2

\* A delivery made leaves a consistent row, of the same status and with the
\* same count of attempts (dispatchCallback).
LEMMA DispatchedConsistent ==
  ASSUME NEW r \in Row, RowConsistent(r), r.delivery = "pending"
  PROVE  /\ Dispatched(r) \in Row
         /\ RowConsistent(Dispatched(r))
         /\ Dispatched(r).status = r.status
         /\ Dispatched(r).attempts = r.attempts
         /\ Dispatched(r).delivery = "success"
  <1> DEFINE d == Dispatched(r)
  <1>1. r.attempts \in Nat
    BY DEF Row
  <1>2. /\ d \in Row /\ d.status = r.status /\ d.attempts = r.attempts
        /\ d.delivery = "success" /\ d.nextAt = "null"
    BY <1>1, DeliveryMade DEF Dispatched
  <1>3. RowConsistent(d)
    BY <1>2, BudgetPositive DEF RowConsistent
  <1> QED  BY <1>2, <1>3

\* A failed delivery leaves a consistent row of the same status, one attempt
\* up: queued again, or given up exactly at the budget (recordDispatchFailure).
LEMMA DispatchFailedConsistent ==
  ASSUME NEW r \in Row, RowConsistent(r), r.delivery = "pending"
  PROVE  /\ DispatchFailed(r) \in Row
         /\ RowConsistent(DispatchFailed(r))
         /\ DispatchFailed(r).status = r.status
         /\ DispatchFailed(r).attempts = r.attempts + 1
         /\ DispatchFailed(r).attempts <= Budget
         /\ DispatchFailed(r).delivery # "success"
  <1> DEFINE d == DispatchFailed(r)
  <1>1. r.attempts \in Nat /\ r.attempts + 1 \in Nat /\ r.attempts < Budget
    BY BudgetPositive DEF Row, RowConsistent
  <1>2. CASE r.attempts + 1 >= Budget
    <2>1. /\ d \in Row /\ d.status = r.status /\ d.attempts = r.attempts + 1
          /\ d.delivery = "failed" /\ d.nextAt = "null"
      BY <1>1, <1>2, DeliveryGivenUp DEF DispatchFailed
    <2>2. RowConsistent(d)
      BY <1>1, <1>2, <2>1, BudgetPositive DEF RowConsistent
    <2> QED  BY <1>1, <2>1, <2>2, BudgetPositive
  <1>3. CASE ~(r.attempts + 1 >= Budget)
    <2>1. /\ d \in Row /\ d.status = r.status /\ d.attempts = r.attempts + 1
          /\ d.delivery = "pending" /\ d.nextAt = "later"
      BY <1>1, <1>3, DeliveryPutOff DEF DispatchFailed
    <2>2. RowConsistent(d)
      BY <1>1, <1>3, <2>1, BudgetPositive DEF RowConsistent
    <2> QED  BY <1>1, <2>1, <2>2, BudgetPositive
  <1> QED  BY <1>2, <1>3

-------------------------------------------------------------------------------
(* Part 2: any interleaving.                                               *)

(* Types: what each way of moving an actor does to the actors' variables.  *)

\* No step deletes a row.
RowsKept == \A q \in Payments : row[q] # NoRow => row'[q] # NoRow

\* The three values of pc that are not outcomes are distinct from them.
LEMMA Control ==
  /\ Idle # InBatch /\ Idle # Updating /\ InBatch # Updating
  /\ Idle \notin Outcomes /\ InBatch \notin Outcomes /\ Updating \notin Outcomes
  BY DEF Idle, InBatch, Updating, Outcomes

\* A request is no worker, and both are actors.
LEMMA ActorSets ==
  /\ Requests \subseteq Actors /\ Workers \subseteq Actors
  /\ Dispatchers \subseteq Workers /\ Expirers \subseteq Workers /\ Reconcilers \subseteq Workers
  /\ Requests \cap Workers = {}
  BY ActorsAssumption DEF Actors, Workers

\* Actors that do not move keep their shape.
LEMMA StillOK ==
  ASSUME ActorsOK, UNCHANGED actorVars, RowsKept
  PROVE  ActorsOK'
  <1>1. ASSUME NEW a \in Actors PROVE ActorOK(a)'
    BY DEF ActorsOK, ActorOK, actorVars, RowsKept
  <1> QED  BY <1>1 DEF ActorsOK, actorVars

\* Taking an entity in hand keeps the actors' types and shapes.
LEMMA HoldOK ==
  ASSUME ActorsOK, NEW a \in Actors, NEW p \in Payments, NEW r \in Row,
         NEW e \in EventTypes, Hold(a, p, r, e), row' = row, row[p] # NoRow
  PROVE  ActorsOK'
  <1>1. /\ pc' \in [Actors -> {Idle, InBatch, Updating} \cup Outcomes]
        /\ act' \in [Actors -> EventTypes \cup {"none"}]
        /\ cur' \in [Actors -> Payments \cup {NoPayment}]
        /\ snap' \in [Actors -> [Payments -> Row \cup {NoRow}]]
    BY DEF ActorsOK, Hold
  <1>2. ASSUME NEW b \in Actors PROVE ActorOK(b)'
    <2>1. CASE b = a
      <3>1. /\ pc'[a] = Updating /\ cur'[a] = p /\ act'[a] = e /\ snap'[a][p] = r
            /\ \A q \in Payments \ {p} : snap'[a][q] = snap[a][q]
        BY DEF ActorsOK, Hold
      <3> QED  BY <2>1, <3>1, NoRowAssumption, Control DEF ActorsOK, ActorOK
    <2>2. CASE b # a
      <3>1. /\ pc'[b] = pc[b] /\ cur'[b] = cur[b] /\ act'[b] = act[b] /\ snap'[b] = snap[b]
        BY <2>2 DEF ActorsOK, Hold
      <3> QED  BY <3>1 DEF ActorsOK, ActorOK
    <2> QED  BY <2>1, <2>2
  <1> QED  BY <1>1, <1>2 DEF ActorsOK

\* So does finishing an item of a batch.
LEMMA NextItemOK ==
  ASSUME ActorsOK, NEW w \in Workers, NEW p \in Payments, NextItem(w, p), RowsKept
  PROVE  ActorsOK'
  <1>0. w \in Actors
    BY ActorSets
  <1>1. /\ pc' \in [Actors -> {Idle, InBatch, Updating} \cup Outcomes]
        /\ act' \in [Actors -> EventTypes \cup {"none"}]
        /\ cur' \in [Actors -> Payments \cup {NoPayment}]
        /\ snap' \in [Actors -> [Payments -> Row \cup {NoRow}]]
    BY <1>0 DEF ActorsOK, NextItem
  <1>2. ASSUME NEW b \in Actors PROVE ActorOK(b)'
    <2>1. CASE b = w
      <3>1. /\ cur'[w] = NoPayment /\ snap'[w][p] = NoRow
            /\ \A q \in Payments \ {p} : snap'[w][q] = snap[w][q]
            /\ pc'[w] = IF \E q \in Payments \ {p} : snap[w][q] # NoRow THEN InBatch ELSE Idle
            /\ DOMAIN snap'[w] = Payments
        BY <1>0 DEF ActorsOK, NextItem
      <3>2. pc'[w] # Updating
        BY <3>1, Control
      <3>3. pc'[w] # InBatch => \A q \in Payments : snap'[w][q] = NoRow
        BY <3>1
      <3>4. pc'[w] # InBatch => snap'[w] = Nothing
        BY <1>0, <1>1, <3>3 DEF Nothing
      <3>5. \A q \in Payments : snap'[w][q] # NoRow => row'[q] # NoRow
        BY <1>0, <3>1 DEF ActorsOK, ActorOK, RowsKept
      <3> QED  BY <2>1, <3>1, <3>2, <3>4, <3>5 DEF ActorOK
    <2>2. CASE b # w
      <3>1. /\ pc'[b] = pc[b] /\ cur'[b] = cur[b] /\ act'[b] = act[b] /\ snap'[b] = snap[b]
        BY <1>0, <2>2 DEF ActorsOK, NextItem
      <3> QED  BY <3>1 DEF ActorsOK, ActorOK, RowsKept
    <2> QED  BY <2>1, <2>2
  <1> QED  BY <1>1, <1>2 DEF ActorsOK

\* So does answering a request.
LEMMA AnswerOK ==
  ASSUME ActorsOK, NEW r \in Requests, NEW p \in Payments \cup {NoPayment},
         NEW outcome \in Outcomes, Answer(r, p, outcome), RowsKept
  PROVE  ActorsOK'
  <1>0. r \in Actors /\ r \notin Workers
    BY ActorSets
  <1>1. /\ pc' \in [Actors -> {Idle, InBatch, Updating} \cup Outcomes]
        /\ act' \in [Actors -> EventTypes \cup {"none"}]
        /\ cur' \in [Actors -> Payments \cup {NoPayment}]
        /\ snap' \in [Actors -> [Payments -> Row \cup {NoRow}]]
    BY <1>0 DEF ActorsOK, Answer, Nothing
  <1>2. ASSUME NEW b \in Actors PROVE ActorOK(b)'
    <2>1. CASE b = r
      <3>1. pc'[r] = outcome /\ snap'[r] = Nothing
        BY <1>0 DEF ActorsOK, Answer
      <3>2. \A q \in Payments : snap'[r][q] = NoRow
        BY <3>1 DEF Nothing
      <3> QED  BY <1>0, <2>1, <3>1, <3>2, Control DEF ActorOK
    <2>2. CASE b # r
      <3>1. /\ pc'[b] = pc[b] /\ cur'[b] = cur[b] /\ act'[b] = act[b] /\ snap'[b] = snap[b]
        BY <1>0, <2>2 DEF ActorsOK, Answer
      <3> QED  BY <3>1 DEF ActorsOK, ActorOK, RowsKept
    <2> QED  BY <2>1, <2>2
  <1> QED  BY <1>1, <1>2 DEF ActorsOK

\* So does reading a batch of stored rows.
LEMMA SelectOK ==
  ASSUME TablesOK, ActorsOK, NEW w \in Workers, NEW B \in SUBSET {p \in Payments : Exists(p)},
         Select(w, B)
  PROVE  ActorsOK'
  <1>0. w \in Actors /\ row' = row
    BY ActorSets DEF Select, rowVars
  <1>1. /\ pc' \in [Actors -> {Idle, InBatch, Updating} \cup Outcomes]
        /\ act' \in [Actors -> EventTypes \cup {"none"}]
        /\ cur' \in [Actors -> Payments \cup {NoPayment}]
        /\ snap' \in [Actors -> [Payments -> Row \cup {NoRow}]]
    BY <1>0 DEF ActorsOK, TablesOK, Select
  <1>2. ASSUME NEW b \in Actors PROVE ActorOK(b)'
    <2>1. CASE b = w
      <3>1. /\ pc[w] = Idle /\ pc'[w] = InBatch /\ cur'[w] = cur[w]
            /\ snap'[w] = [p \in Payments |-> IF p \in B THEN row[p] ELSE NoRow]
        BY <1>0 DEF ActorsOK, Select
      <3>2. \A q \in Payments : snap'[w][q] # NoRow => row'[q] # NoRow
        BY <1>0, <3>1
      <3> QED  BY <1>0, <2>1, <3>1, <3>2, Control DEF ActorsOK, ActorOK
    <2>2. CASE b # w
      <3>1. /\ pc'[b] = pc[b] /\ cur'[b] = cur[b] /\ act'[b] = act[b] /\ snap'[b] = snap[b]
        BY <1>0, <2>2 DEF ActorsOK, Select
      <3> QED  BY <1>0, <3>1 DEF ActorsOK, ActorOK
    <2> QED  BY <2>1, <2>2
  <1> QED  BY <1>1, <1>2 DEF ActorsOK

\* So does the death of a worker.
LEMMA DiesOK ==
  ASSUME ActorsOK, NEW w \in Workers, WorkerDies(w)
  PROVE  ActorsOK'
  <1>0. w \in Actors /\ row' = row
    BY ActorSets DEF WorkerDies, rowVars
  <1>1. /\ pc' \in [Actors -> {Idle, InBatch, Updating} \cup Outcomes]
        /\ act' \in [Actors -> EventTypes \cup {"none"}]
        /\ cur' \in [Actors -> Payments \cup {NoPayment}]
        /\ snap' \in [Actors -> [Payments -> Row \cup {NoRow}]]
    BY <1>0 DEF ActorsOK, WorkerDies, Nothing
  <1>2. ASSUME NEW b \in Actors PROVE ActorOK(b)'
    <2>1. CASE b = w
      <3>1. pc'[w] = Idle /\ cur'[w] = NoPayment /\ snap'[w] = Nothing
        BY <1>0 DEF ActorsOK, WorkerDies
      <3>2. \A q \in Payments : snap'[w][q] = NoRow
        BY <3>1 DEF Nothing
      <3> QED  BY <2>1, <3>1, <3>2, Control DEF ActorOK
    <2>2. CASE b # w
      <3>1. /\ pc'[b] = pc[b] /\ cur'[b] = cur[b] /\ act'[b] = act[b] /\ snap'[b] = snap[b]
        BY <1>0, <2>2 DEF ActorsOK, WorkerDies
      <3> QED  BY <1>0, <3>1 DEF ActorsOK, ActorOK
    <2> QED  BY <2>1, <2>2
  <1> QED  BY <1>1, <1>2 DEF ActorsOK

-------------------------------------------------------------------------------
(* The inductive invariant.                                                *)

\* Whatever the caller was told is an outcome that happened.
ToldSound ==
    \A p \in Payments : \A s \in told[p] : s \in TerminalStatus /\ Founded(facts[p], s)

\* Whatever the audit trail says happened, deliveries included.
EventsSound ==
    \A p \in Payments : \A e \in events[p] :
        Founded(facts[p], e[2]) /\ (e[1] = "callback_dispatched" => e[2] \in told[p])

IInv == TypeOK /\ RowsSound /\ InFlightSound /\ ToldSound /\ EventsSound

\* What happened stays happened: Stripe's facts, what the caller was told and
\* the failed POSTs only grow.
WorldGrows ==
    \A p \in Payments :
        /\ facts[p] \subseteq facts'[p]
        /\ told[p] \subseteq told'[p]
        /\ \A s \in Status : failures[p][s] <= failures'[p][s]

\* An outcome that happened remains one that happened.
LEMMA FoundedGrows ==
  ASSUME NEW before, NEW after, before \subseteq after, NEW s, Founded(before, s)
  PROVE  Founded(after, s)
  BY DEF Founded

\* A sound entity remains sound as the world grows.
LEMMA SoundGrows ==
  ASSUME TypeOK, WorldGrows, NEW p \in Payments, NEW r \in Row,
         failures' \in [Payments -> [Status -> 0..Budget]],
         Sound(facts[p], told[p], failures[p], r)
  PROVE  Sound(facts'[p], told'[p], failures'[p], r)
  <1>1. r.status \in Status /\ r.attempts \in Nat
    BY DEF Row
  <1>2. Founded(facts'[p], r.status)
    BY FoundedGrows DEF WorldGrows, Sound
  <1>3. r.attempts <= failures'[p][r.status]
    <2>1. failures[p][r.status] \in Int /\ failures'[p][r.status] \in Int
      BY <1>1, BudgetPositive DEF TypeOK, WorldOK
    <2>2. /\ r.attempts <= failures[p][r.status]
          /\ failures[p][r.status] <= failures'[p][r.status]
      BY <1>1 DEF WorldGrows, Sound
    <2> QED  BY <1>1, <2>1, <2>2
  <1>4. r.delivery = "success" => r.status \in told'[p]
    BY DEF WorldGrows, Sound
  <1> QED  BY <1>2, <1>3, <1>4 DEF Sound

\* If the world stands still, it has grown.
LEMMA WorldStill ==
  ASSUME TypeOK, UNCHANGED worldVars
  PROVE  WorldGrows /\ failures' \in [Payments -> [Status -> 0..Budget]]
  <1>1. \A p \in Payments, s \in Status : failures[p][s] \in Int
    BY BudgetPositive DEF TypeOK, WorldOK
  <1> QED  BY <1>1 DEF TypeOK, WorldOK, WorldGrows, worldVars

\* Rows no step touches remain sound.
LEMMA RowsSoundStill ==
  ASSUME TypeOK, RowsSound, row' = row, WorldGrows,
         failures' \in [Payments -> [Status -> 0..Budget]]
  PROVE  RowsSound'
  <1> SUFFICES ASSUME NEW p \in Payments, row[p] # NoRow
               PROVE  Sound(facts'[p], told'[p], failures'[p], row[p])
    BY DEF RowsSound, SoundFor, Exists
  <1>1. row[p] \in Row
    BY DEF TypeOK, TablesOK
  <1> QED  BY <1>1, SoundGrows DEF RowsSound, SoundFor, Exists

\* The audit trail remains sound if nothing is added to it.
LEMMA EventsSoundStill ==
  ASSUME EventsSound, events' = events, WorldGrows
  PROVE  EventsSound'
  BY FoundedGrows DEF EventsSound, WorldGrows

\* What the caller was told remains sound if it is told nothing new.
LEMMA ToldSoundStill ==
  ASSUME ToldSound, told' = told, WorldGrows
  PROVE  ToldSound'
  BY FoundedGrows DEF ToldSound, WorldGrows

\* Entities in flight remain sound if actors only let go of some.
LEMMA InFlightShrinks ==
  ASSUME TypeOK, InFlightSound, WorldGrows,
         failures' \in [Payments -> [Status -> 0..Budget]],
         \A a \in Actors, p \in Payments :
            snap'[a][p] # NoRow => /\ snap'[a][p] = snap[a][p]
                                   /\ cur'[a] # p => cur[a] # p
                                   /\ cur'[a] = p => cur[a] = p /\ act'[a] = act[a]
  PROVE  InFlightSound'
  <1> SUFFICES ASSUME NEW a \in Actors, NEW p \in Payments, snap'[a][p] # NoRow
               PROVE  /\ Sound(facts'[p], told'[p], failures'[p], snap'[a][p])
                      /\ a \in Dispatchers /\ cur'[a] # p => snap'[a][p].delivery = "pending"
                      /\ a \in Reconcilers /\ cur'[a] # p => snap'[a][p].status \in OpenStatus
                      /\ cur'[a] = p /\ act'[a] = "callback_dispatched" => snap'[a][p].delivery = "success"
    BY DEF InFlightSound, SoundFor
  <1>1. snap[a][p] \in Row /\ snap'[a][p] = snap[a][p]
    BY DEF TypeOK, ActorsOK
  <1>2. Sound(facts[p], told[p], failures[p], snap[a][p])
    BY <1>1 DEF InFlightSound, SoundFor
  <1>3. Sound(facts'[p], told'[p], failures'[p], snap'[a][p])
    BY <1>1, <1>2, SoundGrows
  <1> QED  BY <1>1, <1>3 DEF InFlightSound

\* A sound entity taken in hand keeps the entities in flight sound.
LEMMA InFlightHolds ==
  ASSUME TypeOK, InFlightSound, WorldGrows,
         failures' \in [Payments -> [Status -> 0..Budget]],
         NEW a \in Actors, NEW p \in Payments, NEW r \in Row, NEW e,
         Hold(a, p, r, e),
         a \in Workers => pc[a] # Updating,
         Sound(facts'[p], told'[p], failures'[p], r),
         e = "callback_dispatched" => r.delivery = "success"
  PROVE  InFlightSound'
  <1> SUFFICES ASSUME NEW b \in Actors, NEW q \in Payments, snap'[b][q] # NoRow
               PROVE  /\ Sound(facts'[q], told'[q], failures'[q], snap'[b][q])
                      /\ b \in Dispatchers /\ cur'[b] # q => snap'[b][q].delivery = "pending"
                      /\ b \in Reconcilers /\ cur'[b] # q => snap'[b][q].status \in OpenStatus
                      /\ cur'[b] = q /\ act'[b] = "callback_dispatched" => snap'[b][q].delivery = "success"
    BY DEF InFlightSound, SoundFor
  <1>1. CASE b = a /\ q = p
    <2>1. snap'[b][q] = r /\ cur'[b] = q /\ act'[b] = e
      BY <1>1 DEF Hold, TypeOK, ActorsOK
    <2> QED  BY <1>1, <2>1
  <1>2. CASE ~(b = a /\ q = p)
    <2>1. snap'[b][q] = snap[b][q]
      BY <1>2 DEF Hold, TypeOK, ActorsOK
    <2>2. snap[b][q] \in Row /\ Sound(facts[q], told[q], failures[q], snap[b][q])
      BY <2>1 DEF TypeOK, ActorsOK, InFlightSound, SoundFor
    <2>3. Sound(facts'[q], told'[q], failures'[q], snap'[b][q])
      BY <2>1, <2>2, SoundGrows
    <2>4. CASE b = a
      <3>1. q # p /\ cur'[b] = p
        BY <1>2, <2>4 DEF Hold, TypeOK, ActorsOK
      <3>2. a \in Workers => cur[a] = NoPayment
        BY DEF TypeOK, ActorsOK, ActorOK
      <3>3. a \in Workers => cur[a] # q
        BY <3>2, NoPaymentAssumption
      <3> QED  BY <2>1, <2>3, <2>4, <3>1, <3>3, ActorSets DEF InFlightSound
    <2>5. CASE b # a
      <3>1. cur'[b] = cur[b] /\ act'[b] = act[b]
        BY <2>5 DEF Hold, TypeOK, ActorsOK
      <3> QED  BY <2>1, <2>3, <3>1 DEF InFlightSound
    <2> QED  BY <2>4, <2>5
  <1> QED  BY <1>1, <1>2

\* Finishing an item only lets go of entities.
LEMMA NextItemShrinks ==
  ASSUME TypeOK, InFlightSound, UNCHANGED worldVars, NEW w \in Workers, NEW p \in Payments,
         pc[w] = InBatch \/ cur[w] = p, NextItem(w, p)
  PROVE  InFlightSound'
  <1>0. w \in Actors
    BY ActorSets
  <1>1. \A a \in Actors, q \in Payments :
            snap'[a][q] # NoRow => /\ snap'[a][q] = snap[a][q]
                                   /\ cur'[a] # q => cur[a] # q
                                   /\ cur'[a] = q => cur[a] = q /\ act'[a] = act[a]
    <2> SUFFICES ASSUME NEW a \in Actors, NEW q \in Payments, snap'[a][q] # NoRow
                 PROVE  /\ snap'[a][q] = snap[a][q]
                        /\ cur'[a] # q => cur[a] # q
                        /\ cur'[a] = q => cur[a] = q /\ act'[a] = act[a]
      OBVIOUS
    <2>1. CASE a # w
      BY <1>0, <2>1 DEF NextItem, TypeOK, ActorsOK
    <2>2. CASE a = w
      <3>1. cur[w] = p \/ cur[w] = NoPayment
        BY <1>0, Control DEF TypeOK, ActorsOK, ActorOK
      <3>2. q # p /\ snap'[a][q] = snap[a][q] /\ cur'[a] = NoPayment
        BY <1>0, <2>2 DEF NextItem, TypeOK, ActorsOK
      <3> QED  BY <2>2, <3>1, <3>2, NoPaymentAssumption
    <2> QED  BY <2>1, <2>2
  <1> QED  BY <1>1, WorldStill, InFlightShrinks

\* Answering a request only lets go of entities.
LEMMA AnswerShrinks ==
  ASSUME TypeOK, InFlightSound, UNCHANGED worldVars, NEW r \in Requests, NEW p, NEW outcome,
         Answer(r, p, outcome)
  PROVE  InFlightSound'
  <1>0. r \in Actors
    BY ActorSets
  <1>1. \A a \in Actors, q \in Payments :
            snap'[a][q] # NoRow => /\ snap'[a][q] = snap[a][q]
                                   /\ cur'[a] # q => cur[a] # q
                                   /\ cur'[a] = q => cur[a] = q /\ act'[a] = act[a]
    <2> SUFFICES ASSUME NEW a \in Actors, NEW q \in Payments, snap'[a][q] # NoRow
                 PROVE  a # r
      BY <1>0 DEF Answer, TypeOK, ActorsOK
    <2>1. snap'[r][q] = NoRow
      BY <1>0 DEF Answer, TypeOK, ActorsOK, Nothing
    <2> QED  BY <2>1
  <1> QED  BY <1>1, WorldStill, InFlightShrinks

\* A fault counts up to the bound.
LEMMA FaultOK ==
  ASSUME TypeOK, Fault \/ UNCHANGED faults
  PROVE  faults' \in 0..MaxFaults
  BY MaxFaultsAssumption DEF TypeOK, WorldOK, Fault

\* A step that changes no row, no event and nothing outside keeps the
\* invariant if it keeps the actors in shape and what they hold sound.
LEMMA QuietStep ==
  ASSUME IInv, UNCHANGED <<row, events>>, UNCHANGED worldVars,
         callbacks' \in [Requests -> {"none", "processed", "rejected"}],
         Fault \/ UNCHANGED faults, ActorsOK', InFlightSound'
  PROVE  IInv'
  <1>1. WorldGrows /\ failures' \in [Payments -> [Status -> 0..Budget]]
    BY WorldStill DEF IInv
  <1>2. faults' \in 0..MaxFaults
    BY FaultOK DEF IInv
  <1>3. TypeOK'
    BY <1>2 DEF IInv, TypeOK, TablesOK, WorldOK, worldVars
  <1>4. RowsSound'
    BY <1>1, RowsSoundStill DEF IInv
  <1>5. ToldSound' /\ EventsSound'
    BY <1>1, ToldSoundStill, EventsSoundStill DEF IInv, worldVars
  <1> QED  BY <1>3, <1>4, <1>5 DEF IInv

\* A step that only takes a sound entity in hand keeps the invariant.
LEMMA HoldStep ==
  ASSUME IInv, UNCHANGED <<row, events>>, UNCHANGED worldVars, UNCHANGED callbacks,
         Fault \/ UNCHANGED faults,
         NEW a \in Actors, NEW p \in Payments, NEW r \in Row, NEW e \in EventTypes,
         Hold(a, p, r, e), Exists(p),
         a \in Workers => pc[a] # Updating,
         Sound(facts[p], told[p], failures[p], r),
         e = "callback_dispatched" => r.delivery = "success"
  PROVE  IInv'
  <1>1. WorldGrows /\ failures' \in [Payments -> [Status -> 0..Budget]]
    BY WorldStill DEF IInv
  <1>2. Sound(facts'[p], told'[p], failures'[p], r)
    BY DEF worldVars
  <1>3. InFlightSound'
    BY <1>1, <1>2, InFlightHolds DEF IInv
  <1>4. ActorsOK'
    BY HoldOK DEF IInv, TypeOK, Exists
  <1> QED  BY <1>3, <1>4, QuietStep DEF IInv, TypeOK, TablesOK

\* A queued outcome of a founded status with no attempts is sound.
LEMMA FreshSound ==
  ASSUME TypeOK, NEW p \in Payments, NEW r \in Row, RowConsistent(r),
         r.attempts = 0, r.delivery # "success", Founded(facts[p], r.status)
  PROVE  Sound(facts[p], told[p], failures[p], r)
  <1>1. r.status \in Status
    BY DEF Row
  <1>2. failures[p][r.status] \in Nat
    BY <1>1, BudgetPositive DEF TypeOK, WorldOK
  <1> QED  BY <1>2 DEF Sound

-------------------------------------------------------------------------------
(* Step by step: the API handlers.                                         *)

\* CancelPayment keeps the invariant.
LEMMA CancelStep ==
  ASSUME IInv, NEW r \in Requests, NEW p \in Payments, CancelPayment(r, p)
  PROVE  IInv'
  <1>0. r \in Actors /\ r \notin Workers /\ UNCHANGED <<row, events, callbacks>>
    BY ActorSets DEF CancelPayment, rowVars
  <1>1. CASE ~Exists(p) /\ Answer(r, p, "notfound")
    BY <1>0, <1>1, AnswerOK, AnswerShrinks, QuietStep
    DEF IInv, TypeOK, TablesOK, CancelPayment, Outcomes, RowsKept
  <1>2. CASE Exists(p) /\ row[p].status = "paid" /\ Answer(r, p, "invalid")
    BY <1>0, <1>2, AnswerOK, AnswerShrinks, QuietStep
    DEF IInv, TypeOK, TablesOK, CancelPayment, Outcomes, RowsKept
  <1>3. CASE Exists(p) /\ Hold(r, p, Canceled(row[p]), "payment_canceled")
    <2>1. row[p] \in Row
      BY <1>3 DEF IInv, TypeOK, TablesOK, Exists
    <2>2. /\ Canceled(row[p]) \in Row /\ RowConsistent(Canceled(row[p]))
          /\ Canceled(row[p]).status = "canceled" /\ Canceled(row[p]).attempts = 0
          /\ Canceled(row[p]).delivery # "success"
      BY <2>1, CanceledConsistent
    <2>3. Founded(facts[p], Canceled(row[p]).status)
      BY <2>2 DEF Founded
    <2>4. Sound(facts[p], told[p], failures[p], Canceled(row[p]))
      BY <2>2, <2>3, FreshSound DEF IInv
    <2>5. "payment_canceled" \in EventTypes /\ "payment_canceled" # "callback_dispatched"
      BY DEF EventTypes
    <2> QED  BY <1>0, <1>3, <2>2, <2>4, <2>5, HoldStep DEF CancelPayment
  <1> QED  BY <1>1, <1>2, <1>3 DEF CancelPayment

\* Rejecting a webhook keeps the invariant.
LEMMA RejectStep ==
  ASSUME IInv, NEW r \in Requests, NEW p \in Payments \cup {NoPayment},
         NEW outcome \in Outcomes, Reject(r, p, outcome), UNCHANGED <<row, events, worldVars>>
  PROVE  IInv'
  <1>1. callbacks' \in [Requests -> {"none", "processed", "rejected"}]
    BY DEF IInv, TypeOK, TablesOK, Reject
  <1>2. Fault \/ UNCHANGED faults
    BY DEF Reject
  <1> QED  BY <1>1, <1>2, AnswerOK, AnswerShrinks, QuietStep DEF IInv, TypeOK, Reject, RowsKept

\* HandleProviderCallback, up to its UPDATE, keeps the invariant.
LEMMA CallbackStep ==
  ASSUME IInv, NEW r \in Requests, NEW p \in Payments, NEW e \in facts[p] \cup {"other"},
         CallbackReceive(r, p, e)
  PROVE  IInv'
  <1>0. r \in Actors /\ r \notin Workers /\ UNCHANGED <<row, events, worldVars>>
    BY ActorSets DEF CallbackReceive
  <1>1. CASE ~Exists(p) /\ Reject(r, p, "notfound")
    BY <1>0, <1>1, RejectStep DEF Outcomes
  <1>2. CASE /\ Exists(p)
             /\ Hold(r, p, CallbackApplied(row[p], CallbackStatus(e)), "provider_callback")
             /\ UNCHANGED <<callbacks, faults>>
    <2> DEFINE new == CallbackStatus(e)
               after == CallbackApplied(row[p], new)
    <2>1. row[p] \in Row /\ SoundFor(p, row[p])
      BY <1>2 DEF IInv, TypeOK, TablesOK, Exists, RowsSound
    <2>2. e \in {"completed", "paid", "failed", "expired", "canceled", "other"}
      BY FactsAssumption DEF IInv, TypeOK, WorldOK
    <2>3. new \in TerminalStatus \cup {"none"} /\ Founded(facts[p], new)
      BY <2>2 DEF CallbackStatus, TerminalStatus, Founded
    <2>4. /\ after \in Row /\ RowConsistent(after)
          /\ \/ after = row[p]
             \/ /\ new \in TerminalStatus /\ after.status = new /\ after.attempts = 0
                /\ after.delivery = "pending"
      BY <2>1, <2>3, CallbackConsistent DEF SoundFor, Sound
    <2>5. Sound(facts[p], told[p], failures[p], after)
      <3>1. CASE after = row[p]
        BY <2>1, <3>1 DEF SoundFor
      <3>2. CASE after.status = new /\ after.attempts = 0 /\ after.delivery = "pending"
        BY <2>3, <2>4, <3>2, FreshSound DEF IInv
      <3> QED  BY <2>4, <3>1, <3>2
    <2>6. "provider_callback" \in EventTypes /\ "provider_callback" # "callback_dispatched"
      BY DEF EventTypes
    <2> HIDE DEF new, after
    <2>7. Hold(r, p, after, "provider_callback") /\ UNCHANGED callbacks /\ UNCHANGED faults
      BY <1>2 DEF after, new
    <2> QED  BY <1>0, <1>2, <2>4, <2>5, <2>6, <2>7, HoldStep
  <1> QED  BY <1>1, <1>2 DEF CallbackReceive

\* A handler whose SELECT fails, or that rejects the webhook, keeps it too.
LEMMA RefusalStep ==
  ASSUME IInv, NEW r \in Requests, CallbackReject(r) \/ ReadFails(r)
  PROVE  IInv'
  <1>1. CASE CallbackReject(r)
    BY <1>1, RejectStep DEF CallbackReject, Outcomes
  <1>2. CASE ReadFails(r)
    <2>1. UNCHANGED <<row, events, callbacks, worldVars>> /\ Fault /\ Answer(r, NoPayment, "error")
      BY <1>2 DEF ReadFails, rowVars
    <2>2. RowsKept /\ "error" \in Outcomes
      BY <2>1 DEF RowsKept, Outcomes
    <2>3. ActorsOK' /\ InFlightSound'
      BY <2>1, <2>2, AnswerOK, AnswerShrinks DEF IInv, TypeOK
    <2> QED  BY <2>1, <2>3, QuietStep DEF IInv, TypeOK, TablesOK
  <1> QED  BY <1>1, <1>2

-------------------------------------------------------------------------------
(* Step by step: the jobs.                                                 *)

\* Reading a batch keeps the invariant if the query finds the right rows.
LEMMA SelectStep ==
  ASSUME IInv, NEW w \in Workers, NEW found \in SUBSET {p \in Payments : Exists(p)},
         NEW B \in Batches(found), Select(w, B),
         w \in Dispatchers => \A p \in found : row[p].delivery = "pending",
         w \in Reconcilers => \A p \in found : row[p].status \in OpenStatus
  PROVE  IInv'
  <1>0. /\ w \in Actors /\ B \subseteq found /\ pc[w] = Idle
        /\ UNCHANGED <<row, events, callbacks, act, cur, worldVars, faults>>
    BY ActorSets DEF Batches, Select, rowVars
  <1>1. ActorsOK'
    BY <1>0, SelectOK DEF IInv, TypeOK
  <1>2. InFlightSound'
    <2> SUFFICES ASSUME NEW a \in Actors, NEW p \in Payments, snap'[a][p] # NoRow
                 PROVE  /\ Sound(facts[p], told[p], failures[p], snap'[a][p])
                        /\ a \in Dispatchers /\ cur[a] # p => snap'[a][p].delivery = "pending"
                        /\ a \in Reconcilers /\ cur[a] # p => snap'[a][p].status \in OpenStatus
                        /\ cur[a] = p /\ act[a] = "callback_dispatched" => snap'[a][p].delivery = "success"
      BY <1>0 DEF InFlightSound, SoundFor, worldVars
    <2>1. CASE a # w
      <3>1. snap'[a][p] = snap[a][p]
        BY <1>0, <2>1 DEF Select, IInv, TypeOK, ActorsOK
      <3> QED  BY <3>1 DEF IInv, InFlightSound, SoundFor
    <2>2. CASE a = w
      <3>1. snap'[w] = [q \in Payments |-> IF q \in B THEN row[q] ELSE NoRow]
        BY <1>0 DEF Select, IInv, TypeOK, ActorsOK
      <3>2. p \in B /\ snap'[a][p] = row[p]
        BY <2>2, <3>1
      <3>3. p \in found /\ Exists(p)
        BY <1>0, <3>2
      <3>4. Sound(facts[p], told[p], failures[p], row[p])
        BY <3>3 DEF IInv, RowsSound, SoundFor
      <3>5. cur[w] # p
        BY <1>0, Control, NoPaymentAssumption DEF IInv, TypeOK, ActorsOK, ActorOK
      <3> QED  BY <2>2, <3>2, <3>3, <3>4, <3>5
    <2> QED  BY <2>1, <2>2
  <1> QED  BY <1>0, <1>1, <1>2, QuietStep DEF IInv, TypeOK, TablesOK

\* What an item of a batch is, before the worker turns to it.
LEMMA ItemFacts ==
  ASSUME IInv, NEW w \in Workers, NEW p \in Payments, HasItem(w, p)
  PROVE  /\ w \in Actors /\ pc[w] = InBatch /\ pc[w] # Updating
         /\ snap[w][p] \in Row
         /\ Sound(facts[p], told[p], failures[p], snap[w][p])
         /\ Exists(p)
         /\ w \in Dispatchers => snap[w][p].delivery = "pending"
         /\ w \in Reconcilers => snap[w][p].status \in OpenStatus
  <1>1. w \in Actors /\ pc[w] = InBatch /\ pc[w] # Updating /\ snap[w][p] # NoRow
    BY ActorSets, Control DEF HasItem
  <1>2. snap[w][p] \in Row /\ row[p] # NoRow
    BY <1>1 DEF IInv, TypeOK, ActorsOK, ActorOK
  <1>3. cur[w] = NoPayment /\ cur[w] # p
    BY <1>1, NoPaymentAssumption DEF IInv, TypeOK, ActorsOK, ActorOK
  <1> QED  BY <1>1, <1>2, <1>3 DEF IInv, InFlightSound, SoundFor, Exists

\* RunReconcileBatch keeps the invariant.
LEMMA ReconcilerKeeps ==
  ASSUME IInv, NEW w \in Reconcilers, ReconcilerStep(w)
  PROVE  IInv'
  <1>0. w \in Workers /\ w \notin Dispatchers
    BY ActorSets, ActorsAssumption
  <1>1. CASE ListForReconcile(w)
    <2>1. PICK found \in SUBSET {p \in Payments : Exists(p) /\ row[p].status \in OpenStatus} :
             \E B \in Batches(found) : Select(w, B)
      BY <1>1 DEF ListForReconcile
    <2> QED  BY <1>0, <2>1, SelectStep
  <1>2. ASSUME NEW p \in Payments, ReconcileItem(w, p) PROVE IInv'
    <2> DEFINE new == ProviderStatus(p)
               after == Reconciled(snap[w][p], new)
    <2>1. HasItem(w, p) /\ UNCHANGED <<row, events, callbacks, worldVars, faults>>
          /\ Hold(w, p, after, "payment_reconciled")
      BY <1>2 DEF ReconcileItem, rowVars
    <2>2. new \in {"expired", "paid", "pending"} /\ Founded(facts[p], new)
      BY DEF ProviderStatus, Founded
    <2>3. /\ snap[w][p] \in Row /\ RowConsistent(snap[w][p])
          /\ snap[w][p].status \in OpenStatus /\ Exists(p) /\ pc[w] # Updating /\ w \in Actors
      BY <1>0, <2>1, ItemFacts DEF Sound
    <2>4. /\ after \in Row /\ RowConsistent(after) /\ after.status = new
          /\ after.attempts = 0 /\ after.delivery # "success"
      BY <2>2, <2>3, ReconciledConsistent
    <2>5. Sound(facts[p], told[p], failures[p], after)
      BY <2>2, <2>4, FreshSound DEF IInv
    <2>6. "payment_reconciled" \in EventTypes /\ "payment_reconciled" # "callback_dispatched"
      BY DEF EventTypes
    <2> HIDE DEF after, new
    <2> QED  BY <2>1, <2>3, <2>4, <2>5, <2>6, HoldStep
  <1>3. ASSUME NEW p \in Payments, ReconcileSkip(w, p) PROVE IInv'
    <2>1. HasItem(w, p) /\ UNCHANGED <<row, events, callbacks, worldVars, faults>> /\ NextItem(w, p)
      BY <1>3 DEF ReconcileSkip, rowVars
    <2>2. ActorsOK' /\ InFlightSound'
      BY <1>0, <2>1, NextItemOK, NextItemShrinks DEF HasItem, IInv, TypeOK, RowsKept
    <2> QED  BY <2>1, <2>2, QuietStep DEF IInv, TypeOK, TablesOK
  <1> QED  BY <1>1, <1>2, <1>3 DEF ReconcilerStep

\* RunExpirePendingBatch keeps the invariant.
LEMMA ExpirerKeeps ==
  ASSUME IInv, NEW w \in Expirers, ExpirerStep(w)
  PROVE  IInv'
  <1>0. w \in Workers /\ w \notin Dispatchers /\ w \notin Reconcilers
    BY ActorSets, ActorsAssumption
  <1>1. CASE ListExpiredPending(w)
    <2>1. PICK B \in Batches(ExpiredPending) : Select(w, B)
      BY <1>1 DEF ListExpiredPending
    <2>2. ExpiredPending \in SUBSET {p \in Payments : Exists(p)}
      BY DEF ExpiredPending
    <2> QED  BY <1>0, <2>1, <2>2, SelectStep
  <1>2. ASSUME NEW p \in Payments, ExpireItem(w, p) PROVE IInv'
    <2> DEFINE after == Expired(snap[w][p])
    <2>1. HasItem(w, p) /\ UNCHANGED <<row, events, callbacks, worldVars, faults>>
          /\ Hold(w, p, after, "payment_expired")
      BY <1>2 DEF ExpireItem, rowVars
    <2>2. snap[w][p] \in Row /\ Exists(p) /\ pc[w] # Updating /\ w \in Actors
      BY <1>0, <2>1, ItemFacts
    <2>3. /\ after \in Row /\ RowConsistent(after) /\ after.status = "expired"
          /\ after.attempts = 0 /\ after.delivery # "success"
      BY <2>2, ExpiredConsistent
    <2>4. Founded(facts[p], after.status)
      BY <2>3 DEF Founded
    <2>5. Sound(facts[p], told[p], failures[p], after)
      BY <2>3, <2>4, FreshSound DEF IInv
    <2>6. "payment_expired" \in EventTypes /\ "payment_expired" # "callback_dispatched"
      BY DEF EventTypes
    <2> HIDE DEF after
    <2> QED  BY <2>1, <2>2, <2>3, <2>5, <2>6, HoldStep
  <1> QED  BY <1>1, <1>2 DEF ExpirerStep

\* A POST attempt, as the world sees it: the caller may have learnt the status
\* of the item, and the failures of that status may have gone up by one.
LEMMA PostStep ==
  ASSUME IInv, NEW w \in Dispatchers, NEW p \in Payments, HasItem(w, p),
         UNCHANGED <<row, events, callbacks, facts, overdue, faults>>,
         Tell(p, snap[w][p].status) \/ UNCHANGED told,
         Failed(p, snap[w][p].status) \/ UNCHANGED failures,
         NEW r \in Row, NEW e \in EventTypes, Hold(w, p, r, e),
         Sound(facts[p], told'[p], failures'[p], r),
         e = "callback_dispatched" => r.delivery = "success"
  PROVE  IInv'
  <1> DEFINE s == snap[w][p].status
  <1>1. /\ w \in Workers /\ w \in Actors /\ pc[w] # Updating /\ Exists(p)
        /\ snap[w][p] \in Row /\ Sound(facts[p], told[p], failures[p], snap[w][p])
        /\ snap[w][p].delivery = "pending"
    BY ActorSets, ItemFacts
  <1>2. s \in Status /\ s \in TerminalStatus /\ Founded(facts[p], s)
    BY <1>1 DEF Row, Sound, RowConsistent
  <1>3. told' \in [Payments -> SUBSET Status]
    BY <1>2 DEF Tell, IInv, TypeOK, WorldOK
  <1>4. /\ failures' \in [Payments -> [Status -> 0..Budget]]
        /\ \A q \in Payments, t \in Status : failures[q][t] <= failures'[q][t]
    <2>1. failures \in [Payments -> [Status -> 0..Budget]]
      BY DEF IInv, TypeOK, WorldOK
    <2>2. CASE UNCHANGED failures
      BY <2>1, <2>2, BudgetPositive
    <2>3. CASE Failed(p, s)
      <3> DEFINE n == failures[p][s]
                 m == IF n < Budget THEN n + 1 ELSE n
      <3>1. n \in 0..Budget /\ m \in 0..Budget /\ n <= m
        BY <1>2, <2>1, BudgetPositive
      <3>2. failures' = [failures EXCEPT ![p][s] = m]
        BY <2>3 DEF Failed
      <3> HIDE DEF n, m
      <3>3. failures' \in [Payments -> [Status -> 0..Budget]]
        BY <2>1, <3>1, <3>2
      <3>4. \A q \in Payments, t \in Status :
               failures'[q][t] = IF q = p /\ t = s THEN m ELSE failures[q][t]
        BY <2>1, <3>2
      <3>5. \A q \in Payments, t \in Status : failures[q][t] <= failures'[q][t]
        BY <2>1, <3>1, <3>4, BudgetPositive DEF n
      <3> QED  BY <3>3, <3>5
    <2> QED  BY <2>2, <2>3
  <1>5. WorldGrows
    BY <1>4 DEF WorldGrows, Tell, IInv, TypeOK, WorldOK
  <1>6. ActorsOK'
    BY <1>1, HoldOK DEF IInv, TypeOK, Exists
  <1>7. TypeOK'
    BY <1>3, <1>4, <1>6 DEF IInv, TypeOK, TablesOK, WorldOK
  <1>8. InFlightSound'
    BY <1>1, <1>4, <1>5, InFlightHolds DEF IInv
  <1>9. RowsSound'
    BY <1>4, <1>5, RowsSoundStill DEF IInv
  <1>10. EventsSound'
    BY <1>5, EventsSoundStill DEF IInv
  <1>11. ToldSound'
    <2> SUFFICES ASSUME NEW q \in Payments, NEW t \in told'[q]
                 PROVE  t \in TerminalStatus /\ Founded(facts[q], t)
      BY DEF ToldSound
    <2>1. t \in told[q] \/ (q = p /\ t = s)
      BY DEF Tell, IInv, TypeOK, WorldOK
    <2> QED  BY <1>2, <2>1 DEF IInv, ToldSound
  <1> QED  BY <1>7, <1>8, <1>9, <1>10, <1>11 DEF IInv

\* RunDispatchCallbacksBatch keeps the invariant.
LEMMA DispatcherKeeps ==
  ASSUME IInv, NEW w \in Dispatchers, DispatcherStep(w)
  PROVE  IInv'
  <1>0. w \in Workers /\ w \notin Reconcilers
    BY ActorSets, ActorsAssumption
  <1>1. CASE ListDueCallbackDispatch(w)
    <2>1. PICK B \in Batches(DueCallbackDispatch) : Select(w, B)
      BY <1>1 DEF ListDueCallbackDispatch
    <2>2. /\ DueCallbackDispatch \in SUBSET {p \in Payments : Exists(p)}
          /\ \A p \in DueCallbackDispatch : row[p].delivery = "pending"
      BY DEF DueCallbackDispatch
    <2> QED  BY <1>0, <2>1, <2>2, SelectStep
  <1>2. ASSUME NEW p \in Payments, PostAccepted(w, p) PROVE IInv'
    <2> DEFINE item == snap[w][p]
               after == Dispatched(item)
    <2>1. HasItem(w, p) /\ UNCHANGED <<row, events, callbacks, facts, failures, overdue, faults>>
          /\ Hold(w, p, after, "callback_dispatched") /\ Tell(p, item.status)
      BY <1>2 DEF PostAccepted, rowVars
    <2>2. /\ item \in Row /\ item.delivery = "pending" /\ RowConsistent(item)
          /\ Founded(facts[p], item.status) /\ item.attempts <= failures[p][item.status]
      BY <1>0, <2>1, ItemFacts DEF Sound
    <2>3. /\ after \in Row /\ RowConsistent(after) /\ after.status = item.status
          /\ after.attempts = item.attempts /\ after.delivery = "success"
      BY <2>2, DispatchedConsistent
    <2>4. item.status \in told'[p]
      BY <2>1 DEF Tell, IInv, TypeOK, WorldOK
    <2>5. Sound(facts[p], told'[p], failures'[p], after)
      BY <2>1, <2>2, <2>3, <2>4 DEF Sound
    <2>6. "callback_dispatched" \in EventTypes
      BY DEF EventTypes
    <2> HIDE DEF after
    <2> QED  BY <2>1, <2>3, <2>5, <2>6, PostStep
  <1>3. ASSUME NEW p \in Payments, PostFailed(w, p) PROVE IInv'
    <2> DEFINE item == snap[w][p]
               after == DispatchFailed(item)
    <2>1. HasItem(w, p) /\ UNCHANGED <<row, events, callbacks, facts, overdue, faults>>
          /\ Hold(w, p, after, "callback_dispatch_failed")
          /\ (Tell(p, item.status) \/ UNCHANGED told) /\ Failed(p, item.status)
      BY <1>3 DEF PostFailed, rowVars
    <2>2. /\ item \in Row /\ item.delivery = "pending" /\ RowConsistent(item)
          /\ Founded(facts[p], item.status) /\ item.attempts <= failures[p][item.status]
      BY <1>0, <2>1, ItemFacts DEF Sound
    <2>3. /\ after \in Row /\ RowConsistent(after) /\ after.status = item.status
          /\ after.attempts = item.attempts + 1 /\ after.attempts <= Budget
          /\ after.delivery # "success"
      BY <2>2, DispatchFailedConsistent
    <2>4. item.status \in Status /\ item.attempts \in Nat
      BY <2>2 DEF Row
    <2>5. failures[p][item.status] \in 0..Budget
      BY <2>4 DEF IInv, TypeOK, WorldOK
    <2>6. failures'[p][item.status] =
            IF failures[p][item.status] < Budget THEN failures[p][item.status] + 1
                                                 ELSE failures[p][item.status]
      BY <2>1, <2>4 DEF Failed, IInv, TypeOK, WorldOK
    <2>7. after.attempts <= failures'[p][after.status]
      BY <2>2, <2>3, <2>4, <2>5, <2>6, BudgetPositive
    <2>8. Sound(facts[p], told'[p], failures'[p], after)
      BY <2>2, <2>3, <2>7 DEF Sound
    <2>9. "callback_dispatch_failed" \in EventTypes /\ "callback_dispatch_failed" # "callback_dispatched"
      BY DEF EventTypes
    <2> HIDE DEF after
    <2> QED  BY <2>1, <2>3, <2>8, <2>9, PostStep
  <1> QED  BY <1>1, <1>2, <1>3 DEF DispatcherStep

-------------------------------------------------------------------------------
(* Step by step: writing back, giving up, and the world.                   *)

\* What an actor about to execute its UPDATE is going to write.
LEMMA UpdateFacts ==
  ASSUME IInv, NEW a \in Actors, pc[a] = Updating
  PROVE  /\ cur[a] \in Payments /\ row[cur[a]] # NoRow
         /\ snap[a][cur[a]] \in Row /\ snap[a][cur[a]] # NoRow
         /\ Sound(facts[cur[a]], told[cur[a]], failures[cur[a]], snap[a][cur[a]])
         /\ act[a] \in EventTypes
         /\ act[a] = "callback_dispatched" => snap[a][cur[a]].delivery = "success"
  <1>1. /\ cur[a] \in Payments /\ row[cur[a]] # NoRow
        /\ snap[a][cur[a]] # NoRow /\ act[a] \in EventTypes
    BY DEF IInv, TypeOK, ActorsOK, ActorOK
  <1>2. snap[a][cur[a]] \in Row
    BY <1>1 DEF IInv, TypeOK, ActorsOK
  <1> QED  BY <1>1, <1>2 DEF IInv, InFlightSound, SoundFor

\* Leaving the UPDATE, by an answer or with the next item, keeps actors in
\* shape and what they hold sound.
LEMMA LeaveUpdate ==
  ASSUME IInv, NEW a \in Actors, pc[a] = Updating, NEW outcome \in Outcomes,
         IF a \in Requests THEN Answer(a, cur[a], outcome) ELSE NextItem(a, cur[a]),
         UNCHANGED worldVars, RowsKept
  PROVE  ActorsOK' /\ InFlightSound'
  <1>1. cur[a] \in Payments
    BY UpdateFacts
  <1>2. CASE a \in Requests
    BY <1>1, <1>2, AnswerOK, AnswerShrinks DEF IInv, TypeOK
  <1>3. CASE a \notin Requests
    <2>1. a \in Workers
      BY <1>3 DEF Actors
    <2>2. NextItem(a, cur[a])
      BY <1>3
    <2> QED  BY <1>1, <2>1, <2>2, NextItemOK, NextItemShrinks DEF IInv, TypeOK
  <1> QED  BY <1>2, <1>3

\* The UPDATE keeps the invariant: it stores a sound row, whatever it overwrites.
LEMMA WriteStep ==
  ASSUME IInv, NEW a \in Actors, Write(a)
  PROVE  IInv'
  <1> DEFINE p == cur[a]
             r == snap[a][p]
             logged == [events EXCEPT ![p] = @ \cup {<<act[a], r.status>>}]
  <1>1. pc[a] = Updating /\ row' = [row EXCEPT ![p] = r] /\ UNCHANGED worldVars
    BY DEF Write, Written
  <1>2. /\ events' \in {events, logged}
        /\ Fault \/ UNCHANGED faults
        /\ \E outcome \in {"ok", "error"} : Replied(a, outcome)
    BY DEF Write, Written
  <1>3. /\ p \in Payments /\ r \in Row /\ r # NoRow
        /\ Sound(facts[p], told[p], failures[p], r)
        /\ act[a] \in EventTypes /\ (act[a] = "callback_dispatched" => r.delivery = "success")
    BY <1>1, UpdateFacts
  <1>4. RowsKept /\ row' \in [Payments -> Row \cup {NoRow}]
    BY <1>1, <1>3 DEF RowsKept, IInv, TypeOK, TablesOK
  <1>5. ActorsOK' /\ InFlightSound'
    <2>1. PICK outcome \in {"ok", "error"} : Replied(a, outcome)
      BY <1>2
    <2>2. outcome \in Outcomes
      BY DEF Outcomes
    <2>3. IF a \in Requests THEN Answer(a, cur[a], outcome) ELSE NextItem(a, cur[a])
      BY <2>1 DEF Replied
    <2> QED  BY <1>1, <1>4, <2>2, <2>3, LeaveUpdate
  <1>6. callbacks' \in [Requests -> {"none", "processed", "rejected"}]
    BY <1>2 DEF Replied, IInv, TypeOK, TablesOK
  <1>7. events' \in [Payments -> SUBSET (EventTypes \X Status)]
    BY <1>2, <1>3 DEF IInv, TypeOK, TablesOK, Row
  <1>8. WorldGrows
    BY <1>1, WorldStill DEF IInv
  <1>9. TypeOK'
    <2>1. faults' \in 0..MaxFaults
      BY <1>2, FaultOK DEF IInv
    <2> QED  BY <1>1, <1>4, <1>5, <1>6, <1>7, <2>1
             DEF IInv, TypeOK, TablesOK, WorldOK, worldVars
  <1>10. RowsSound'
    <2> SUFFICES ASSUME NEW q \in Payments, row'[q] # NoRow
                 PROVE  Sound(facts[q], told[q], failures[q], row'[q])
      BY <1>1 DEF RowsSound, SoundFor, Exists, worldVars
    <2>1. CASE q = p
      BY <1>1, <1>3, <2>1 DEF IInv, TypeOK, TablesOK
    <2>2. CASE q # p
      <3>1. row'[q] = row[q]
        BY <1>1, <2>2 DEF IInv, TypeOK, TablesOK
      <3> QED  BY <3>1 DEF IInv, RowsSound, SoundFor, Exists
    <2> QED  BY <2>1, <2>2
  <1>11. ToldSound'
    BY <1>1, <1>8, ToldSoundStill DEF IInv, worldVars
  <1>12. EventsSound'
    <2> SUFFICES ASSUME NEW q \in Payments, NEW e \in events'[q]
                 PROVE  Founded(facts[q], e[2]) /\ (e[1] = "callback_dispatched" => e[2] \in told[q])
      BY <1>1 DEF EventsSound, worldVars
    <2>1. e \in events[q] \/ (q = p /\ e = <<act[a], r.status>>)
      BY <1>2 DEF IInv, TypeOK, TablesOK
    <2>2. CASE e \in events[q]
      BY <2>2 DEF IInv, EventsSound
    <2>3. CASE q = p /\ e = <<act[a], r.status>>
      <3>1. e[1] = act[a] /\ e[2] = r.status
        BY <2>3
      <3> QED  BY <1>3, <2>3, <3>1 DEF Sound
    <2> QED  BY <2>1, <2>2, <2>3
  <1> QED  BY <1>5, <1>9, <1>10, <1>11, <1>12 DEF IInv

\* An UPDATE that changes nothing, or fails, keeps the invariant.
LEMMA NoWriteStep ==
  ASSUME IInv, NEW a \in Actors, WriteChangesNothing(a) \/ WriteFails(a)
  PROVE  IInv'
  <1>1. /\ pc[a] = Updating /\ UNCHANGED <<row, events, callbacks, worldVars>>
        /\ Fault \/ UNCHANGED faults
    BY DEF WriteChangesNothing, WriteFails, rowVars
  <1>2. \E outcome \in {"notfound", "error"} :
           IF a \in Requests THEN Answer(a, cur[a], outcome) ELSE NextItem(a, cur[a])
    BY DEF WriteChangesNothing, WriteFails
  <1>3. PICK outcome \in {"notfound", "error"} :
           IF a \in Requests THEN Answer(a, cur[a], outcome) ELSE NextItem(a, cur[a])
    BY <1>2
  <1>4. outcome \in Outcomes /\ RowsKept
    BY <1>1 DEF Outcomes, RowsKept
  <1>5. ActorsOK' /\ InFlightSound'
    BY <1>1, <1>3, <1>4, LeaveUpdate
  <1> QED  BY <1>1, <1>5, QuietStep DEF IInv, TypeOK, TablesOK

\* The death of a worker keeps the invariant.
LEMMA DiesStep ==
  ASSUME IInv, NEW w \in Workers, WorkerDies(w)
  PROVE  IInv'
  <1>0. w \in Actors /\ UNCHANGED <<row, events, callbacks, worldVars>> /\ Fault
    BY ActorSets DEF WorkerDies, rowVars
  <1>1. \A a \in Actors, q \in Payments :
            snap'[a][q] # NoRow => /\ snap'[a][q] = snap[a][q]
                                   /\ cur'[a] # q => cur[a] # q
                                   /\ cur'[a] = q => cur[a] = q /\ act'[a] = act[a]
    <2> SUFFICES ASSUME NEW a \in Actors, NEW q \in Payments, snap'[a][q] # NoRow
                 PROVE  a # w
      BY <1>0 DEF WorkerDies, IInv, TypeOK, ActorsOK
    <2>1. snap'[w][q] = NoRow
      BY <1>0 DEF WorkerDies, IInv, TypeOK, ActorsOK, Nothing
    <2> QED  BY <2>1
  <1>2. InFlightSound'
    BY <1>0, <1>1, WorldStill, InFlightShrinks DEF IInv
  <1>3. ActorsOK'
    BY DiesOK DEF IInv, TypeOK
  <1> QED  BY <1>0, <1>2, <1>3, QuietStep DEF IInv, TypeOK, TablesOK

\* What actors hold remains sound while no actor moves.
LEMMA InFlightStill ==
  ASSUME TypeOK, InFlightSound, WorldGrows, UNCHANGED actorVars,
         failures' \in [Payments -> [Status -> 0..Budget]]
  PROVE  InFlightSound'
  <1>1. \A a \in Actors, p \in Payments :
            snap'[a][p] # NoRow => /\ snap'[a][p] = snap[a][p]
                                   /\ cur'[a] # p => cur[a] # p
                                   /\ cur'[a] = p => cur[a] = p /\ act'[a] = act[a]
    BY DEF actorVars
  <1> QED  BY <1>1, InFlightShrinks

\* A step that changes one stored row into a sound one, or inserts one, while
\* nothing else moves but the audit trail, keeps the invariant.
LEMMA RowStep ==
  ASSUME IInv, UNCHANGED actorVars, UNCHANGED worldVars, UNCHANGED callbacks,
         Fault \/ UNCHANGED faults, EventsSound',
         events' \in [Payments -> SUBSET (EventTypes \X Status)],
         NEW p \in Payments, NEW r \in Row, row' = [row EXCEPT ![p] = r],
         Sound(facts[p], told[p], failures[p], r)
  PROVE  IInv'
  <1>1. WorldGrows /\ failures' \in [Payments -> [Status -> 0..Budget]]
    BY WorldStill DEF IInv
  <1>2. row' \in [Payments -> Row \cup {NoRow}] /\ RowsKept
    BY NoRowAssumption DEF IInv, TypeOK, TablesOK, RowsKept
  <1>3. ActorsOK'
    BY <1>2, StillOK DEF IInv, TypeOK
  <1>4. faults' \in 0..MaxFaults
    BY FaultOK DEF IInv
  <1>5. TypeOK'
    BY <1>2, <1>3, <1>4 DEF IInv, TypeOK, TablesOK, WorldOK, worldVars
  <1>6. InFlightSound'
    BY <1>1, InFlightStill DEF IInv
  <1>7. RowsSound'
    <2> SUFFICES ASSUME NEW q \in Payments, row'[q] # NoRow
                 PROVE  Sound(facts[q], told[q], failures[q], row'[q])
      BY DEF RowsSound, SoundFor, Exists, worldVars
    <2>1. CASE q = p
      BY <2>1 DEF IInv, TypeOK, TablesOK
    <2>2. CASE q # p
      <3>1. row'[q] = row[q]
        BY <2>2 DEF IInv, TypeOK, TablesOK
      <3> QED  BY <3>1 DEF IInv, RowsSound, SoundFor, Exists
    <2> QED  BY <2>1, <2>2
  <1>8. ToldSound'
    BY <1>1, ToldSoundStill DEF IInv, worldVars
  <1> QED  BY <1>5, <1>6, <1>7, <1>8 DEF IInv

\* The INSERT keeps the invariant.
LEMMA CreateStep ==
  ASSUME IInv, NEW p \in Payments, CreatePayment(p)
  PROVE  IInv'
  <1>1. /\ row' = [row EXCEPT ![p] = InitialRow]
        /\ UNCHANGED <<callbacks, actorVars, worldVars>> /\ (Fault \/ UNCHANGED faults)
        /\ events' \in {events, [events EXCEPT ![p] = @ \cup {<<"payment_created", "pending">>}]}
    BY DEF CreatePayment
  <1>2. /\ InitialRow \in Row /\ RowConsistent(InitialRow)
        /\ InitialRow.status = "pending" /\ InitialRow.attempts = 0 /\ InitialRow.delivery # "success"
    BY InitialRowConsistent DEF InitialRow
  <1>3. Sound(facts[p], told[p], failures[p], InitialRow)
    <2>1. Founded(facts[p], InitialRow.status)
      BY <1>2 DEF Founded
    <2> QED  BY <1>2, <2>1, FreshSound DEF IInv
  <1>4. events' \in [Payments -> SUBSET (EventTypes \X Status)]
    BY <1>1 DEF IInv, TypeOK, TablesOK, EventTypes, Status
  <1>5. EventsSound'
    <2> SUFFICES ASSUME NEW q \in Payments, NEW e \in events'[q]
                 PROVE  Founded(facts[q], e[2]) /\ (e[1] = "callback_dispatched" => e[2] \in told[q])
      BY <1>1 DEF EventsSound, worldVars
    <2>1. e \in events[q] \/ e = <<"payment_created", "pending">>
      BY <1>1 DEF IInv, TypeOK, TablesOK
    <2>2. CASE e \in events[q]
      BY <2>2 DEF IInv, EventsSound
    <2>3. CASE e = <<"payment_created", "pending">>
      BY <2>3 DEF Founded
    <2> QED  BY <2>1, <2>2, <2>3
  <1> QED  BY <1>1, <1>2, <1>3, <1>4, <1>5, RowStep

\* The world's steps keep the invariant.
LEMMA EnvironmentKeeps ==
  ASSUME IInv, EnvironmentStep
  PROVE  IInv'
  <1>1. ASSUME NEW p \in Payments, NEW f \in ProviderFacts, ProviderStep(p, f) PROVE IInv'
    <2>1. /\ UNCHANGED <<row, events, callbacks, actorVars, told, failures, overdue, faults>>
          /\ facts' = [facts EXCEPT ![p] = @ \cup {f}]
      BY <1>1 DEF ProviderStep, rowVars
    <2>2. \A q \in Payments, s \in Status : failures[q][s] \in Int
      BY BudgetPositive DEF IInv, TypeOK, WorldOK
    <2>3. WorldGrows /\ failures' \in [Payments -> [Status -> 0..Budget]]
      BY <2>1, <2>2 DEF WorldGrows, IInv, TypeOK, WorldOK
    <2>4. ActorsOK'
      BY <2>1, StillOK DEF IInv, TypeOK, RowsKept
    <2>5. TypeOK'
      BY <2>1, <2>4 DEF IInv, TypeOK, TablesOK, WorldOK
    <2> QED
      BY <2>1, <2>3, <2>5, RowsSoundStill, InFlightStill, ToldSoundStill, EventsSoundStill DEF IInv
  <1>2. ASSUME NEW p \in Payments, RetryIntervalPasses(p) PROVE IInv'
    <2> DEFINE r == [row[p] EXCEPT !.nextAt = "due"]
    <2>1. /\ row[p] \in Row /\ row[p].nextAt = "later" /\ row' = [row EXCEPT ![p] = r]
          /\ UNCHANGED <<events, callbacks, actorVars, worldVars, faults>>
          /\ Sound(facts[p], told[p], failures[p], row[p])
      BY <1>2 DEF RetryIntervalPasses, Exists, IInv, TypeOK, TablesOK, RowsSound, SoundFor
    <2>2. /\ r \in Row /\ r.status = row[p].status /\ r.attempts = row[p].attempts
          /\ r.delivery = row[p].delivery /\ r.nextAt = "due"
      BY <2>1 DEF Row
    <2> HIDE DEF r
    <2>3. Sound(facts[p], told[p], failures[p], r)
      BY <2>1, <2>2 DEF Sound, RowConsistent
    <2>4. EventsSound' /\ events' \in [Payments -> SUBSET (EventTypes \X Status)]
      BY <2>1, WorldStill, EventsSoundStill DEF IInv, TypeOK, TablesOK
    <2> QED  BY <2>1, <2>2, <2>3, <2>4, RowStep
  <1>3. ASSUME NEW p \in Payments, PendingTimeoutPasses(p) PROVE IInv'
    <2>1. /\ UNCHANGED <<row, events, callbacks, actorVars, facts, told, failures, faults>>
          /\ overdue' = [overdue EXCEPT ![p] = TRUE]
      BY <1>3 DEF PendingTimeoutPasses, rowVars
    <2>2. \A q \in Payments, s \in Status : failures[q][s] \in Int
      BY BudgetPositive DEF IInv, TypeOK, WorldOK
    <2>3. WorldGrows /\ failures' \in [Payments -> [Status -> 0..Budget]]
      BY <2>1, <2>2 DEF WorldGrows, IInv, TypeOK, WorldOK
    <2>4. ActorsOK'
      BY <2>1, StillOK DEF IInv, TypeOK, RowsKept
    <2>5. TypeOK'
      BY <2>1, <2>4 DEF IInv, TypeOK, TablesOK, WorldOK
    <2> QED
      BY <2>1, <2>3, <2>5, RowsSoundStill, InFlightStill, ToldSoundStill, EventsSoundStill DEF IInv
  <1> QED  BY <1>1, <1>2, <1>3 DEF EnvironmentStep

-------------------------------------------------------------------------------
(* The theorems.                                                           *)

\* The empty tables satisfy the invariant.
LEMMA InitIInv == Init => IInv
  <1> SUFFICES ASSUME Init PROVE IInv
    OBVIOUS
  <1>1. TablesOK
    BY DEF Init, TablesOK, Nothing
  <1>2. WorldOK
    BY MaxFaultsAssumption, BudgetPositive DEF Init, WorldOK
  <1>3. ActorsOK
    <2>1. \A a \in Actors : ActorOK(a)
      BY Control, ActorSets DEF Init, ActorOK, Nothing
    <2> QED  BY <2>1 DEF Init, ActorsOK, Nothing
  <1>4. RowsSound /\ InFlightSound /\ ToldSound /\ EventsSound
    BY DEF Init, Nothing, RowsSound, InFlightSound, ToldSound, EventsSound, Exists
  <1> QED  BY <1>1, <1>2, <1>3, <1>4 DEF IInv, TypeOK

\* Every step keeps the invariant.
LEMMA StepIInv == IInv /\ [Next]_vars => IInv'
  <1> SUFFICES ASSUME IInv, [Next]_vars PROVE IInv'
    OBVIOUS
  <1>1. CASE UNCHANGED vars
    <2>1. UNCHANGED <<row, events, callbacks, actorVars, worldVars, faults>>
      BY <1>1 DEF vars, rowVars
    <2>2. ActorsOK' /\ InFlightSound'
      BY <2>1, StillOK, WorldStill, InFlightStill DEF IInv, TypeOK, RowsKept
    <2> QED  BY <2>1, <2>2, QuietStep DEF IInv, TypeOK, TablesOK
  <1>2. CASE EnvironmentStep
    BY <1>2, EnvironmentKeeps
  <1>3. ASSUME NEW p \in Payments, CreatePayment(p) PROVE IInv'
    BY <1>3, CreateStep
  <1>4. ASSUME NEW r \in Requests, HandlerStep(r) PROVE IInv'
    BY <1>4, CancelStep, CallbackStep, RefusalStep DEF HandlerStep
  <1>5. ASSUME NEW w \in Reconcilers, ReconcilerStep(w) PROVE IInv'
    BY <1>5, ReconcilerKeeps
  <1>6. ASSUME NEW w \in Expirers, ExpirerStep(w) PROVE IInv'
    BY <1>6, ExpirerKeeps
  <1>7. ASSUME NEW w \in Dispatchers, DispatcherStep(w) PROVE IInv'
    BY <1>7, DispatcherKeeps
  <1>8. ASSUME NEW a \in Actors, WriteBack(a) PROVE IInv'
    BY <1>8, WriteStep, NoWriteStep DEF WriteBack
  <1>9. ASSUME NEW a \in Actors, WriteFails(a) PROVE IInv'
    BY <1>9, NoWriteStep
  <1>10. ASSUME NEW w \in Workers, WorkerDies(w) PROVE IInv'
    BY <1>10, DiesStep
  <1> QED
    BY <1>1, <1>2, <1>3, <1>4, <1>5, <1>6, <1>7, <1>8, <1>9, <1>10 DEF Next

\* The invariant holds of every behaviour.
THEOREM Invariant == Spec => []IInv
  BY InitIInv, StepIInv, PTL DEF Spec

\* The variables keep their types and the actors their shape.
THEOREM TypeCorrect == Spec => []TypeOK
  <1>1. IInv => TypeOK
    BY DEF IInv
  <1> QED  BY <1>1, Invariant, PTL

\* Whatever overlaps, every stored row is sound: a status and the delivery
\* columns next to it belong together.
THEOREM RowsAreSound == Spec => []RowsSound
  <1>1. IInv => RowsSound
    BY DEF IInv
  <1> QED  BY <1>1, Invariant, PTL

\* So is every entity some handler or job may still write.
THEOREM SnapshotsAreSound == Spec => []InFlightSound
  <1>1. IInv => InFlightSound
    BY DEF IInv
  <1> QED  BY <1>1, Invariant, PTL

\* A delivery is credited only to the status the caller received.
THEOREM DeliveriesAreReal == Spec => []DeliveredMeansTold
  <1>1. IInv => DeliveredMeansTold
    BY DEF IInv, DeliveredMeansTold, RowsSound, SoundFor, Sound, EventsSound
  <1> QED  BY <1>1, Invariant, PTL

\* A delivery is given up only after the whole retry budget was spent on it.
THEOREM GivingUpIsEarned == Spec => []GivenUpMeansBudgetSpent
  <1>1. ASSUME IInv, NEW p \in Payments, Exists(p), row[p].delivery = "failed"
        PROVE  failures[p][row[p].status] = Budget
    <2>1. row[p] \in Row /\ row[p].status \in Status
      BY <1>1 DEF IInv, TypeOK, TablesOK, Exists, Row
    <2>2. failures[p][row[p].status] \in 0..Budget
      BY <1>1, <2>1 DEF IInv, TypeOK, WorldOK
    <2>3. row[p].attempts = Budget /\ row[p].attempts <= failures[p][row[p].status]
      BY <1>1 DEF IInv, RowsSound, SoundFor, Sound, RowConsistent
    <2> QED  BY <2>2, <2>3, BudgetPositive
  <1>2. IInv => GivenUpMeansBudgetSpent
    BY <1>1 DEF GivenUpMeansBudgetSpent
  <1> QED  BY <1>2, Invariant, PTL

\* Callers are told outcomes only.
THEOREM CallersHearOutcomes == Spec => []OnlyOutcomesTold
  <1>1. IInv => OnlyOutcomesTold
    BY DEF IInv, ToldSound, OnlyOutcomesTold
  <1> QED  BY <1>1, Invariant, PTL

\* Paid and failed are never made up, in the row, the trail or the callback.
THEOREM OutcomesAreFounded == Spec => []OutcomesFounded
  <1>1. IInv => OutcomesFounded
    BY DEF IInv, OutcomesFounded, RowsSound, SoundFor, Sound, ToldSound, EventsSound
  <1> QED  BY <1>1, Invariant, PTL

-------------------------------------------------------------------------------
(* Part 3: a payment whose operations do not overlap.                      *)

\* The behaviours in which operations on payment q do not overlap, whatever those
\* on other payments do.
SpecApart(q) == Init /\ [][Next /\ Apart(q)']_vars

\* An actor at work.
Busy(a) == pc[a] \in {InBatch, Updating}

\* A session completes or expires, and only the money of a completed one comes
\* or fails.
FactsOrder(q) ==
    /\ facts[q] \cap {"paid", "failed", "canceled"} # {} => "completed" \in facts[q]
    /\ ~({"completed", "expired"} \subseteq facts[q])

OutcomeOf(r) == IF r.status \in OpenStatus THEN "open" ELSE r.status

\* The ledger does not tell the rows apart.
Alike(r, s) == s.delivery = r.delivery /\ OutcomeOf(s) = OutcomeOf(r)

\* Outcome s may follow outcome o.
MayFollow(o, s) ==
    /\ s \in TerminalStatus
    /\ s = o => o = "canceled"
    /\ s = "expired" => o \notin {"paid", "failed"}

\* Row s may replace row r in a step of the ledger, of which the caller was told t.
Fits(t, r, s) ==
    \/ Alike(r, s)
    \/ s.delivery = "pending" /\ MayFollow(OutcomeOf(r), s.status)
    \/ /\ r.delivery = "pending" /\ s.delivery \in {"success", "failed"}
       /\ s.status = r.status
       /\ s.delivery = "success" => s.status \in t

\* What actor a holds of payment q goes with the row.
Current(a, q) ==
    snap[a][q] # NoRow =>
        IF pc[a] = Updating /\ cur[a] = q
        THEN Fits(told[q], row[q], snap[a][q])
        ELSE Alike(row[q], snap[a][q]) /\ (a \in Expirers => snap[a][q].status \in OpenStatus)

SerialInv(q) == FactsOrder(q) /\ \A a \in Actors : Current(a, q)

\* A step of the payment's ledger, or none.
LedgerStep(q) == [Ledger(q)!Next]_(Ledger(q)!vars)

-------------------------------------------------------------------------------
(* Rows and the ledger.                                                    *)

\* Who is not at work holds nothing.
LEMMA RestHoldsNothing ==
  ASSUME IInv, NEW a \in Actors, ~Busy(a), NEW p \in Payments
  PROVE  snap[a][p] = NoRow
  BY DEF IInv, TypeOK, ActorsOK, ActorOK, Busy, Nothing

\* Who holds the payment is the only one.
LEMMA HeldByOne ==
  ASSUME NEW q \in Payments, Apart(q), NEW a \in Actors, snap[a][q] # NoRow
  PROVE  \A b \in Actors \ {a} : snap[b][q] = NoRow
  BY DEF Apart

\* What the ledger sees of a stored row.
LEMMA LedgerFields ==
  ASSUME NEW r \in Row
  PROVE  Outcome(r) = OutcomeOf(r) /\ Notice(r) = r.delivery /\ OutcomeOf(r) # "absent"
  BY NoRowAssumption DEF Outcome, Notice, OutcomeOf, Row, Status

\* An outcome is not an open status.
LEMMA OutcomeIsStatus ==
  ASSUME NEW r, r.status \in TerminalStatus
  PROVE  OutcomeOf(r) = r.status
  BY DEF OutcomeOf, TerminalStatus, OpenStatus

\* Nothing the ledger knows of changes.
LEMMA QuietIsNoStep ==
  ASSUME NEW q \in Payments, row'[q] = row[q], told'[q] = told[q]
  PROVE  LedgerStep(q)
  BY DEF LedgerStep, Ledger!vars, Outcome, Notice

\* Replacing the row by one that fits is a step of the ledger.
LEMMA WriteIsLedgerStep ==
  ASSUME NEW q \in Payments, NEW r \in Row, NEW s \in Row,
         row[q] = r, row'[q] = s, told'[q] = told[q],
         Fits(told[q], r, s), RowConsistent(r)
  PROVE  LedgerStep(q)
  <1>1. /\ Outcome(row[q]) = OutcomeOf(r) /\ Notice(row[q]) = r.delivery
        /\ Outcome(row[q])' = OutcomeOf(s) /\ Notice(row[q])' = s.delivery
        /\ OutcomeOf(r) # "absent"
    <2>1. Outcome(row[q])' = Outcome(s) /\ Notice(row[q])' = Notice(s)
      BY DEF Outcome, Notice
    <2> QED  BY <2>1, LedgerFields
  <1>2. CASE Alike(r, s)
    BY <1>1, <1>2 DEF LedgerStep, Ledger!vars, Alike
  <1>3. CASE s.delivery = "pending" /\ MayFollow(OutcomeOf(r), s.status)
    <2>1. s.status \in TerminalStatus /\ OutcomeOf(s) = s.status
      BY <1>3, OutcomeIsStatus DEF MayFollow
    <2>2. s.status \in Ledger(q)!Follows(Outcome(row[q])) /\ s.status \in Ledger(q)!Outcomes
      BY <1>1, <1>3 DEF Ledger!Follows, Ledger!Outcomes, TerminalStatus, MayFollow
    <2>3. Ledger(q)!Resolve(s.status)
      BY <1>1, <1>3, <2>1, <2>2 DEF Ledger!Resolve
    <2> QED  BY <2>2, <2>3 DEF LedgerStep, Ledger!Next
  <1>4. CASE /\ r.delivery = "pending" /\ s.delivery \in {"success", "failed"}
             /\ s.status = r.status
             /\ s.delivery = "success" => s.status \in told[q]
    <2>1. r.status \in TerminalStatus
      BY <1>4 DEF RowConsistent
    <2>2. OutcomeOf(s) = s.status /\ OutcomeOf(r) = s.status
      BY <1>4, <2>1, OutcomeIsStatus
    <2>3. Ledger(q)!Close(s.delivery)
      BY <1>1, <1>4, <2>2 DEF Ledger!Close
    <2> QED  BY <1>4, <2>3 DEF LedgerStep, Ledger!Next
  <1> QED  BY <1>2, <1>3, <1>4 DEF Fits

\* Telling the caller the outcome of a queued row is a step of the ledger.
LEMMA TellIsLedgerStep ==
  ASSUME NEW q \in Payments, row[q] \in Row, RowConsistent(row[q]),
         row[q].delivery = "pending", NEW s, Alike(row[q], s),
         s.status \in TerminalStatus,
         told'[q] = told[q] \cup {s.status}, row'[q] = row[q]
  PROVE  LedgerStep(q)
  <1>1. s.status = OutcomeOf(row[q])
    BY OutcomeIsStatus DEF Alike
  <1>2. /\ Outcome(row[q]) = OutcomeOf(row[q]) /\ Notice(row[q]) = "pending"
        /\ Outcome(row[q])' = Outcome(row[q]) /\ Notice(row[q])' = Notice(row[q])
    BY LedgerFields DEF Outcome, Notice
  <1>3. Ledger(q)!Tell
    BY <1>1, <1>2 DEF Ledger!Tell
  <1> QED  BY <1>3 DEF LedgerStep, Ledger!Next

-------------------------------------------------------------------------------
(* Keeping the invariant.                                                  *)

\* Alike is an equivalence as far as needed.
LEMMA AlikeTransitive ==
  ASSUME NEW q, NEW r, NEW s, Alike(q, r), Alike(r, s)
  PROVE  Alike(q, s)
  BY DEF Alike

\* What fits a row fits one like it.
LEMMA FitsLike ==
  ASSUME NEW t, NEW q \in Row, NEW r \in Row, NEW s \in Row,
         RowConsistent(r), Alike(q, r), Fits(t, r, s)
  PROVE  Fits(t, q, s)
  <1>1. CASE Alike(r, s)
    BY <1>1, AlikeTransitive DEF Fits
  <1>2. CASE s.delivery = "pending" /\ MayFollow(OutcomeOf(r), s.status)
    BY <1>2 DEF Fits, Alike
  <1>3. CASE /\ r.delivery = "pending" /\ s.delivery \in {"success", "failed"}
             /\ s.status = r.status
             /\ s.delivery = "success" => s.status \in t
    <2>1. r.status \in TerminalStatus /\ r.status \notin OpenStatus
      BY <1>3 DEF RowConsistent, TerminalStatus, OpenStatus
    <2>2. q.status = r.status
      BY <2>1 DEF Alike, OutcomeOf, OpenStatus, TerminalStatus
    <2> QED  BY <1>3, <2>2 DEF Fits, Alike
  <1> QED  BY <1>1, <1>2, <1>3 DEF Fits

\* Only actor a moves; the row, and what the caller was told, change only while
\* nobody else holds the payment.
LEMMA SerialKept ==
  ASSUME NEW q \in Payments, SerialInv(q), NEW a \in Actors, FactsOrder(q)',
         \A b \in Actors \ {a} : pc'[b] = pc[b] /\ cur'[b] = cur[b] /\ snap'[b] = snap[b],
         \/ \A b \in Actors \ {a} : snap[b][q] = NoRow
         \/ row'[q] = row[q] /\ told'[q] = told[q],
         Current(a, q)'
  PROVE  SerialInv(q)'
  <1>1. ASSUME NEW b \in Actors, b # a PROVE Current(b, q)'
    <2>1. pc'[b] = pc[b] /\ cur'[b] = cur[b] /\ snap'[b] = snap[b]
      BY <1>1
    <2>2. CASE snap[b][q] = NoRow
      BY <2>1, <2>2 DEF Current
    <2>3. CASE row'[q] = row[q] /\ told'[q] = told[q]
      <3>1. Current(b, q)
        BY DEF SerialInv
      <3> QED  BY <2>1, <2>3, <3>1 DEF Current
    <2> QED  BY <1>1, <2>2, <2>3
  <1> QED  BY <1>1 DEF SerialInv

\* Facts stay in order when none is added.
LEMMA FactsStill == ASSUME NEW q \in Payments, SerialInv(q), facts' = facts PROVE FactsOrder(q)'
  BY DEF SerialInv, FactsOrder

\* A stored row, its consistency and what it is founded on.
LEMMA StoredRow ==
  ASSUME IInv, NEW p \in Payments, Exists(p)
  PROVE  row[p] \in Row /\ RowConsistent(row[p]) /\ Founded(facts[p], row[p].status)
         /\ row \in [Payments -> Row \cup {NoRow}]
  BY DEF IInv, TypeOK, TablesOK, RowsSound, SoundFor, Sound, Exists

\* What an actor holds after taking an entity in hand.
LEMMA HeldOnly ==
  ASSUME IInv, NEW a \in Actors, NEW p \in Payments, NEW r, NEW e, Hold(a, p, r, e)
  PROVE  /\ snap'[a][p] = r /\ cur'[a] = p /\ pc'[a] = Updating
         /\ \A q \in Payments \ {p} : snap'[a][q] = snap[a][q]
         /\ \A b \in Actors \ {a} :
                pc'[b] = pc[b] /\ cur'[b] = cur[b] /\ snap'[b] = snap[b]
  BY DEF IInv, TypeOK, ActorsOK, Hold

\* A request that starts takes an entity in hand that fits the row, if it is of
\* the payment in question.
LEMMA RequestHolds ==
  ASSUME IInv, NEW q \in Payments, SerialInv(q),
         NEW a \in Actors, pc[a] = Idle, NEW p \in Payments, NEW r, NEW e, Hold(a, p, r, e),
         p = q => Fits(told[q], row[q], r), UNCHANGED <<row, told, facts>>
  PROVE  SerialInv(q)' /\ LedgerStep(q)
  <1>1. ~Busy(a)
    BY Control DEF Busy
  <1>2. Current(a, q)'
    <2>1. CASE q = p
      BY <2>1, HeldOnly DEF Current
    <2>2. CASE q # p
      BY <1>1, <2>2, HeldOnly, RestHoldsNothing DEF Current
    <2> QED  BY <2>1, <2>2
  <1>3. /\ FactsOrder(q)'
        /\ \A b \in Actors \ {a} :
                pc'[b] = pc[b] /\ cur'[b] = cur[b] /\ snap'[b] = snap[b]
    BY HeldOnly, FactsStill
  <1>4. SerialInv(q)'
    BY <1>2, <1>3, SerialKept
  <1> QED  BY <1>4, QuietIsNoStep

\* A worker takes an item of its batch in hand.
LEMMA WorkerHolds ==
  ASSUME IInv, NEW q \in Payments, Apart(q), SerialInv(q),
         NEW w \in Workers, NEW p \in Payments, HasItem(w, p),
         NEW r, NEW e, Hold(w, p, r, e), p = q => Fits(told'[q], row[q], r),
         UNCHANGED <<row, facts>>, \A o \in Payments \ {p} : told'[o] = told[o]
  PROVE  SerialInv(q)'
  <1>1. w \in Actors /\ pc[w] # Updating /\ snap[w][p] # NoRow
    BY ActorSets, Control DEF HasItem
  <1>2. /\ FactsOrder(q)'
        /\ \A b \in Actors \ {w} :
                pc'[b] = pc[b] /\ cur'[b] = cur[b] /\ snap'[b] = snap[b]
    BY <1>1, HeldOnly, FactsStill
  <1>3. CASE q = p
    <2>1. Current(w, q)'
      BY <1>1, <1>3, HeldOnly DEF Current
    <2>2. \A b \in Actors \ {w} : snap[b][q] = NoRow
      BY <1>1, <1>3, HeldByOne
    <2> QED  BY <1>1, <1>2, <2>1, <2>2, SerialKept
  <1>4. CASE q # p
    <2>1. Current(w, q) /\ snap'[w][q] = snap[w][q] /\ cur'[w] # q /\ told'[q] = told[q]
      BY <1>1, <1>4, HeldOnly DEF SerialInv
    <2>2. Current(w, q)'
      BY <1>1, <2>1 DEF Current
    <2> QED  BY <1>1, <1>2, <2>1, <2>2, SerialKept
  <1> QED  BY <1>3, <1>4

\* Actor a lets go of entities, at least of the one in hand, and starts nothing.
Drops(a) ==
    /\ \A b \in Actors \ {a} : pc'[b] = pc[b] /\ cur'[b] = cur[b] /\ snap'[b] = snap[b]
    /\ pc'[a] # Updating
    /\ \A p \in Payments :
            snap'[a][p] # NoRow => /\ snap'[a][p] = snap[a][p]
                                   /\ ~(pc[a] = Updating /\ cur[a] = p)

\* Being done with an item, the one in hand if there is one.
LEMMA NextItemDrops ==
  ASSUME IInv, NEW w \in Workers, NEW p \in Payments, NextItem(w, p),
         pc[w] = Updating => cur[w] = p
  PROVE  Drops(w)
  BY ActorSets, Control DEF IInv, TypeOK, ActorsOK, NextItem, Drops

\* Answering a request.
LEMMA AnswerDrops ==
  ASSUME IInv, NEW r \in Actors, NEW p, NEW outcome \in Outcomes, Answer(r, p, outcome)
  PROVE  Drops(r)
  BY Control DEF IInv, TypeOK, ActorsOK, Answer, Drops, Nothing

\* Being done with an UPDATE, whatever came of it.
LEMMA DoneDrops ==
  ASSUME IInv, NEW a \in Actors, WriteBack(a) \/ WriteFails(a)
  PROVE  Drops(a)
  <1>1. pc[a] = Updating /\ cur[a] \in Payments
    BY UpdateFacts DEF WriteBack, Write, WriteChangesNothing, WriteFails
  <1>2. \E outcome \in Outcomes :
            IF a \in Requests THEN Answer(a, cur[a], outcome) ELSE NextItem(a, cur[a])
    BY DEF WriteBack, Write, Replied, WriteChangesNothing, WriteFails, Outcomes
  <1>3. CASE a \in Requests
    BY <1>2, <1>3, AnswerDrops
  <1>4. CASE a \notin Requests
    BY <1>1, <1>2, <1>4, NextItemDrops DEF Actors
  <1> QED  BY <1>3, <1>4

\* Letting go keeps the invariant, if the row stays, or was in hand.
LEMMA DropKeeps ==
  ASSUME NEW q \in Payments, Apart(q), SerialInv(q), NEW a \in Actors, Drops(a),
         told' = told, facts' = facts,
         \/ row'[q] = row[q]
         \/ pc[a] = Updating /\ cur[a] = q /\ snap[a][q] # NoRow
  PROVE  SerialInv(q)'
  <1>1. /\ FactsOrder(q)'
        /\ \A b \in Actors \ {a} :
                pc'[b] = pc[b] /\ cur'[b] = cur[b] /\ snap'[b] = snap[b]
    BY FactsStill DEF Drops
  <1>2. CASE row'[q] = row[q]
    <2>1. Current(a, q)'
      BY <1>2 DEF SerialInv, Current, Drops
    <2> QED  BY <1>1, <1>2, <2>1, SerialKept
  <1>3. CASE pc[a] = Updating /\ cur[a] = q /\ snap[a][q] # NoRow
    <2>1. Current(a, q)'
      BY <1>3 DEF Current, Drops
    <2>2. \A b \in Actors \ {a} : snap[b][q] = NoRow
      BY <1>3, HeldByOne
    <2> QED  BY <1>1, <2>1, <2>2, SerialKept
  <1> QED  BY <1>2, <1>3

-------------------------------------------------------------------------------
(* Step by step.                                                           *)

\* CancelPayment: any outcome may be followed by a cancel, but for paid.
LEMMA CancelLedger ==
  ASSUME IInv, NEW q \in Payments, Apart(q), SerialInv(q),
         NEW a \in Requests, NEW p \in Payments, CancelPayment(a, p)
  PROVE  SerialInv(q)' /\ LedgerStep(q)
  <1>0. a \in Actors /\ pc[a] = Idle /\ UNCHANGED <<row, told, facts>>
    BY ActorSets DEF CancelPayment, rowVars, worldVars
  <1>1. ASSUME NEW outcome \in Outcomes, Answer(a, p, outcome)
        PROVE  SerialInv(q)' /\ LedgerStep(q)
    BY <1>0, <1>1, AnswerDrops, DropKeeps, QuietIsNoStep
  <1>2. CASE Exists(p) /\ row[p].status # "paid"
             /\ Hold(a, p, Canceled(row[p]), "payment_canceled")
    <2>1. /\ Canceled(row[p]).status = "canceled"
          /\ Canceled(row[p]).delivery = "pending"
      BY <1>2, StoredRow, CanceledConsistent
    <2>2. MayFollow(OutcomeOf(row[p]), "canceled")
      BY DEF MayFollow, TerminalStatus
    <2>3. Fits(told[p], row[p], Canceled(row[p]))
      BY <2>1, <2>2 DEF Fits
    <2> QED  BY <1>0, <1>2, <2>3, RequestHolds
  <1> QED  BY <1>1, <1>2 DEF CancelPayment, Outcomes

\* An outcome a webhook brings may follow the one in the row: a session that
\* expired was not paid, nor did its payment fail.
LEMMA CallbackFits ==
  ASSUME IInv, NEW q \in Payments, SerialInv(q), Exists(q),
         NEW e \in facts[q] \cup {"other"}
  PROVE  Fits(told[q], row[q], CallbackApplied(row[q], CallbackStatus(e)))
  <1> DEFINE new == CallbackStatus(e)
             c == CallbackApplied(row[q], new)
  <1>0. e \in {"completed", "paid", "failed", "expired", "canceled", "other"}
    BY FactsAssumption DEF IInv, TypeOK, WorldOK
  <1>1. new \in TerminalStatus \cup {"none"} /\ (new = "expired" => e = "expired")
    BY <1>0 DEF CallbackStatus, TerminalStatus
  <1>2. row[q] \in Row /\ RowConsistent(row[q]) /\ Founded(facts[q], row[q].status)
    BY StoredRow
  <1>3. CASE c = row[q]
    BY <1>3 DEF Fits, Alike
  <1>4. CASE c # row[q]
    <2>1. new # row[q].status
      BY <1>4 DEF CallbackApplied
    <2>2. new \in TerminalStatus /\ c.status = new /\ c.delivery = "pending"
      BY <1>1, <1>2, <1>4, CallbackConsistent
    <2>3. OutcomeOf(row[q]) # new
      BY <2>1, <2>2 DEF OutcomeOf, TerminalStatus
    <2>4. ASSUME new = "expired" PROVE OutcomeOf(row[q]) \notin {"paid", "failed"}
      <3>1. "expired" \in facts[q]
        BY <1>1, <2>4
      <3>2. facts[q] \cap {"completed", "paid", "failed"} = {}
        BY <3>1 DEF SerialInv, FactsOrder
      <3> QED  BY <1>2, <3>2 DEF Founded, OutcomeOf
    <2>5. MayFollow(OutcomeOf(row[q]), new)
      BY <2>2, <2>3, <2>4 DEF MayFollow
    <2> QED  BY <2>2, <2>5 DEF Fits
  <1> QED  BY <1>3, <1>4

\* HandleProviderCallback, with a genuine event.
LEMMA CallbackLedger ==
  ASSUME IInv, NEW q \in Payments, Apart(q), SerialInv(q),
         NEW a \in Requests, NEW p \in Payments,
         NEW e \in facts[p] \cup {"other"}, CallbackReceive(a, p, e)
  PROVE  SerialInv(q)' /\ LedgerStep(q)
  <1>0. a \in Actors /\ pc[a] = Idle /\ UNCHANGED <<row, told, facts>>
    BY ActorSets DEF CallbackReceive, worldVars
  <1>1. CASE Reject(a, p, "notfound")
    BY <1>0, <1>1, AnswerDrops, DropKeeps, QuietIsNoStep DEF Reject, Outcomes
  <1>2. CASE Exists(p) /\ Hold(a, p, CallbackApplied(row[p], CallbackStatus(e)),
                               "provider_callback")
    BY <1>0, <1>2, CallbackFits, RequestHolds
  <1> QED  BY <1>1, <1>2 DEF CallbackReceive

\* Requests that are refused or whose SELECT fails.
LEMMA RefusalLedger ==
  ASSUME IInv, NEW q \in Payments, Apart(q), SerialInv(q),
         NEW a \in Requests, CallbackReject(a) \/ ReadFails(a)
  PROVE  SerialInv(q)' /\ LedgerStep(q)
  <1>0. a \in Actors /\ UNCHANGED <<row, told, facts>>
    BY ActorSets DEF CallbackReject, ReadFails, rowVars, worldVars
  <1>1. \E outcome \in Outcomes : Answer(a, NoPayment, outcome)
    BY DEF CallbackReject, Reject, ReadFails, Outcomes
  <1> QED  BY <1>0, <1>1, AnswerDrops, DropKeeps, QuietIsNoStep

\* A batch is read.
LEMMA SelectLedger ==
  ASSUME IInv, NEW q \in Payments, SerialInv(q),
         NEW w \in Workers, NEW B \in SUBSET Payments, Select(w, B),
         w \in Expirers => \A p \in B : row[p].status \in OpenStatus
  PROVE  SerialInv(q)' /\ LedgerStep(q)
  <1>0. w \in Actors /\ UNCHANGED <<row, told, facts>>
    BY ActorSets DEF Select, rowVars, worldVars
  <1>1. pc'[w] = InBatch /\ \A b \in Actors \ {w} :
                pc'[b] = pc[b] /\ cur'[b] = cur[b] /\ snap'[b] = snap[b]
    BY <1>0 DEF IInv, TypeOK, ActorsOK, Select
  <1>2. Current(w, q)'
    <2>1. snap'[w][q] # NoRow => snap'[w][q] = row[q] /\ q \in B
      BY <1>0 DEF IInv, TypeOK, ActorsOK, Select
    <2>2. pc'[w] # Updating
      BY <1>1, Control
    <2> QED  BY <1>0, <2>1, <2>2 DEF Current, Alike
  <1>3. FactsOrder(q)'
    BY <1>0, FactsStill
  <1> QED  BY <1>0, <1>1, <1>2, <1>3, SerialKept, QuietIsNoStep

\* The rows a LIMIT picks are among those found.
LEMMA BatchesAreFound == ASSUME NEW found, NEW B \in Batches(found) PROVE B \subseteq found
  BY DEF Batches

\* What a worker holds of an item it has not turned to is like the row.
LEMMA ItemLikeRow ==
  ASSUME IInv, NEW q \in Payments, SerialInv(q), NEW w \in Workers, HasItem(w, q)
  PROVE  /\ Alike(row[q], snap[w][q])
         /\ row[q] \in Row /\ RowConsistent(row[q])
         /\ snap[w][q] \in Row /\ RowConsistent(snap[w][q])
         /\ w \in Expirers => snap[w][q].status \in OpenStatus
  <1>1. w \in Actors /\ pc[w] = InBatch /\ pc[w] # Updating /\ Exists(q)
        /\ snap[w][q] \in Row /\ RowConsistent(snap[w][q])
    BY ItemFacts DEF Sound
  <1>2. Current(w, q) /\ snap[w][q] # NoRow
    BY <1>1 DEF SerialInv, HasItem
  <1> QED  BY <1>1, <1>2, StoredRow DEF Current

\* An outcome fits an open row.
LEMMA OutcomeFitsOpen ==
  ASSUME NEW t, NEW r, NEW o, NEW s, Alike(r, o), o.status \in OpenStatus,
         s.status \in TerminalStatus, s.delivery = "pending"
  PROVE  Fits(t, r, s)
  <1>1. OutcomeOf(r) = "open"
    BY DEF Alike, OutcomeOf
  <1>2. MayFollow("open", s.status)
    BY DEF MayFollow, TerminalStatus
  <1> QED  BY <1>1, <1>2 DEF Fits

\* RunExpirePendingBatch: the rows of the batch are still open.
LEMMA ExpirerLedger ==
  ASSUME IInv, NEW q \in Payments, Apart(q), SerialInv(q),
         NEW w \in Expirers, ExpirerStep(w)
  PROVE  SerialInv(q)' /\ LedgerStep(q)
  <1>0. w \in Workers
    BY ActorSets
  <1>1. CASE ListExpiredPending(w)
    <2>1. PICK B \in Batches(ExpiredPending) : Select(w, B)
      BY <1>1 DEF ListExpiredPending
    <2>2. B \subseteq ExpiredPending
      BY BatchesAreFound
    <2>3. B \subseteq Payments /\ \A p \in B : row[p].status \in OpenStatus
      BY <2>2 DEF ExpiredPending
    <2> QED  BY <1>0, <2>1, <2>3, SelectLedger
  <1>2. ASSUME NEW p \in Payments, ExpireItem(w, p) PROVE SerialInv(q)' /\ LedgerStep(q)
    <2>1. HasItem(w, p) /\ Hold(w, p, Expired(snap[w][p]), "payment_expired")
          /\ UNCHANGED <<row, told, facts>>
      BY <1>2 DEF ExpireItem, rowVars, worldVars
    <2>2. ASSUME p = q PROVE Fits(told'[q], row[q], Expired(snap[w][p]))
      <3>1. Alike(row[q], snap[w][q]) /\ snap[w][q].status \in OpenStatus /\ snap[w][q] \in Row
        BY <1>0, <2>1, <2>2, ItemLikeRow
      <3>2. /\ Expired(snap[w][q]).status \in TerminalStatus
            /\ Expired(snap[w][q]).delivery = "pending"
        BY <3>1, ExpiredConsistent DEF TerminalStatus
      <3> QED  BY <2>2, <3>1, <3>2, OutcomeFitsOpen
    <2>3. SerialInv(q)'
      BY <1>0, <2>1, <2>2, WorkerHolds
    <2> QED  BY <2>1, <2>3, QuietIsNoStep
  <1> QED  BY <1>1, <1>2 DEF ExpirerStep

\* An answer from Stripe about an open row fits it.
LEMMA ReconciledFits ==
  ASSUME NEW t, NEW r, NEW o \in Row, Alike(r, o), o.status \in OpenStatus,
         NEW new \in {"expired", "paid", "pending"}
  PROVE  Fits(t, r, Reconciled(o, new))
  <1>1. CASE new \in TerminalStatus
    <2>1. Reconciled(o, new).status = new /\ Reconciled(o, new).delivery = "pending"
      BY <1>1, OutcomeQueued DEF Reconciled, terminalStatus
    <2> QED  BY <1>1, <2>1, OutcomeFitsOpen
  <1>2. CASE new \notin TerminalStatus
    <2>1. new = "pending" /\ new \in Status
      BY <1>2 DEF TerminalStatus, Status
    <2>2. Reconciled(o, new) = SetStatus(o, new)
      BY <1>2 DEF Reconciled, terminalStatus
    <2>3. Alike(r, Reconciled(o, new))
      BY <2>1, <2>2, StatusSet DEF Alike, OutcomeOf, OpenStatus
    <2> QED  BY <2>3 DEF Fits
  <1> QED  BY <1>1, <1>2

\* RunReconcileBatch: the rows of the batch are still open.
LEMMA ReconcilerLedger ==
  ASSUME IInv, NEW q \in Payments, Apart(q), SerialInv(q),
         NEW w \in Reconcilers, ReconcilerStep(w)
  PROVE  SerialInv(q)' /\ LedgerStep(q)
  <1>0. w \in Workers /\ w \in Actors /\ w \notin Expirers
    BY ActorSets, ActorsAssumption
  <1>1. CASE ListForReconcile(w)
    <2>1. PICK found \in SUBSET {p \in Payments : Exists(p) /\ row[p].status \in OpenStatus} :
            \E B \in Batches(found) : Select(w, B)
      BY <1>1 DEF ListForReconcile
    <2>2. PICK B \in Batches(found) : Select(w, B)
      BY <2>1
    <2>3. B \subseteq Payments
      BY BatchesAreFound
    <2> QED  BY <1>0, <2>2, <2>3, SelectLedger
  <1>2. ASSUME NEW p \in Payments, ReconcileItem(w, p) PROVE SerialInv(q)' /\ LedgerStep(q)
    <2> DEFINE new == ProviderStatus(p)
    <2>1. HasItem(w, p) /\ Hold(w, p, Reconciled(snap[w][p], new), "payment_reconciled")
          /\ UNCHANGED <<row, told, facts>>
      BY <1>2 DEF ReconcileItem, rowVars, worldVars
    <2>2. new \in {"expired", "paid", "pending"}
      BY DEF ProviderStatus
    <2> HIDE DEF new
    <2>3. ASSUME p = q PROVE Fits(told'[q], row[q], Reconciled(snap[w][p], new))
      <3>1. Alike(row[q], snap[w][q]) /\ snap[w][q] \in Row
        BY <1>0, <2>1, <2>3, ItemLikeRow
      <3>2. snap[w][q].status \in OpenStatus
        BY <1>0, <2>1, <2>3, ItemFacts
      <3> QED  BY <2>2, <2>3, <3>1, <3>2, ReconciledFits
    <2>4. SerialInv(q)'
      BY <1>0, <2>1, <2>3, WorkerHolds
    <2> QED  BY <2>1, <2>4, QuietIsNoStep
  <1>3. ASSUME NEW p \in Payments, ReconcileSkip(w, p) PROVE SerialInv(q)' /\ LedgerStep(q)
    <2>1. HasItem(w, p) /\ NextItem(w, p) /\ UNCHANGED <<row, told, facts>>
      BY <1>3 DEF ReconcileSkip, rowVars, worldVars
    <2>2. Drops(w)
      BY <1>0, <2>1, NextItemDrops, Control DEF HasItem
    <2> QED  BY <1>0, <2>1, <2>2, DropKeeps, QuietIsNoStep
  <1> QED  BY <1>1, <1>2, <1>3 DEF ReconcilerStep

\* An item of a dispatcher's batch is as queued as its row.
LEMMA QueuedItem ==
  ASSUME IInv, NEW q \in Payments, SerialInv(q), NEW w \in Dispatchers, HasItem(w, q)
  PROVE  /\ Alike(row[q], snap[w][q]) /\ row[q] \in Row /\ RowConsistent(row[q])
         /\ snap[w][q] \in Row /\ RowConsistent(snap[w][q])
         /\ row[q].delivery = "pending" /\ snap[w][q].delivery = "pending"
         /\ row[q].status \in TerminalStatus /\ snap[w][q].status = row[q].status
  <1>0. w \in Workers
    BY ActorSets
  <1>1. Alike(row[q], snap[w][q]) /\ row[q] \in Row /\ RowConsistent(row[q])
        /\ snap[w][q] \in Row /\ RowConsistent(snap[w][q])
    BY <1>0, ItemLikeRow
  <1>2. snap[w][q].delivery = "pending"
    BY <1>0, ItemFacts
  <1>3. row[q].delivery = "pending"
    BY <1>1, <1>2 DEF Alike
  <1>4. row[q].status \in TerminalStatus /\ snap[w][q].status \in TerminalStatus
    BY <1>1, <1>2, <1>3 DEF RowConsistent
  <1>5. snap[w][q].status = row[q].status
    BY <1>1, <1>4, OutcomeIsStatus DEF Alike
  <1> QED  BY <1>1, <1>2, <1>3, <1>4, <1>5

\* dispatchCallback, accepted: the POST is the ledger's Tell, and what is held
\* closes the notice.
LEMMA AcceptedLedger ==
  ASSUME IInv, NEW q \in Payments, Apart(q), SerialInv(q),
         NEW w \in Dispatchers, NEW p \in Payments, PostAccepted(w, p)
  PROVE  SerialInv(q)' /\ LedgerStep(q)
  <1>0. w \in Workers /\ told \in [Payments -> SUBSET Status]
    BY ActorSets DEF IInv, TypeOK, WorldOK
  <1>1. /\ HasItem(w, p) /\ Tell(p, snap[w][p].status)
        /\ Hold(w, p, Dispatched(snap[w][p]), "callback_dispatched")
        /\ UNCHANGED <<row, facts>>
    BY DEF PostAccepted, rowVars
  <1>2. /\ told'[p] = told[p] \cup {snap[w][p].status}
        /\ \A o \in Payments \ {p} : told'[o] = told[o]
    BY <1>0, <1>1 DEF Tell
  <1>3. ASSUME p = q PROVE Fits(told'[q], row[q], Dispatched(snap[w][p]))
    BY <1>1, <1>2, <1>3, QueuedItem, DispatchedConsistent DEF Fits
  <1>4. SerialInv(q)'
    BY <1>0, <1>1, <1>2, <1>3, WorkerHolds
  <1>5. CASE p = q
    <2>1. LedgerStep(q)
      BY <1>1, <1>2, <1>5, QueuedItem, TellIsLedgerStep
    <2> QED  BY <1>4, <2>1
  <1>6. CASE p # q
    <2>1. LedgerStep(q)
      BY <1>1, <1>2, <1>6, QuietIsNoStep
    <2> QED  BY <1>4, <2>1
  <1> QED  BY <1>5, <1>6

\* recordDispatchFailure: the caller may have got the POST; what is held leaves
\* the notice queued or gives it up.
LEMMA FailedLedger ==
  ASSUME IInv, NEW q \in Payments, Apart(q), SerialInv(q),
         NEW w \in Dispatchers, NEW p \in Payments, PostFailed(w, p)
  PROVE  SerialInv(q)' /\ LedgerStep(q)
  <1>0. w \in Workers /\ told \in [Payments -> SUBSET Status]
    BY ActorSets DEF IInv, TypeOK, WorldOK
  <1>1. /\ HasItem(w, p) /\ (Tell(p, snap[w][p].status) \/ told' = told)
        /\ Hold(w, p, DispatchFailed(snap[w][p]), "callback_dispatch_failed")
        /\ UNCHANGED <<row, facts>>
    BY DEF PostFailed, rowVars
  <1>2. /\ told'[p] = told[p] \cup {snap[w][p].status} \/ told'[p] = told[p]
        /\ \A o \in Payments \ {p} : told'[o] = told[o]
    BY <1>0, <1>1 DEF Tell
  <1>3. ASSUME p = q PROVE Fits(told'[q], row[q], DispatchFailed(snap[w][p]))
    <2>1. /\ row[q].delivery = "pending" /\ snap[w][q].status = row[q].status
          /\ snap[w][q].status \in TerminalStatus /\ Alike(row[q], snap[w][q])
          /\ snap[w][q] \in Row /\ RowConsistent(snap[w][q]) /\ snap[w][q].delivery = "pending"
      BY <1>1, <1>3, QueuedItem
    <2>2. /\ DispatchFailed(snap[w][q]) \in Row
          /\ RowConsistent(DispatchFailed(snap[w][q]))
          /\ DispatchFailed(snap[w][q]).status = snap[w][q].status
          /\ DispatchFailed(snap[w][q]).delivery # "success"
      BY <2>1, DispatchFailedConsistent
    <2>3. DispatchFailed(snap[w][q]).delivery \in {"pending", "failed"}
      BY <2>1, <2>2 DEF RowConsistent, Row
    <2> QED  BY <1>3, <2>1, <2>2, <2>3 DEF Fits, Alike, OutcomeOf
  <1>4. SerialInv(q)'
    BY <1>0, <1>1, <1>2, <1>3, WorkerHolds
  <1>5. CASE p = q /\ told'[q] = told[q] \cup {snap[w][q].status}
    <2>1. LedgerStep(q)
      BY <1>1, <1>5, QueuedItem, TellIsLedgerStep
    <2> QED  BY <1>4, <2>1
  <1>6. CASE told'[q] = told[q]
    <2>1. LedgerStep(q)
      BY <1>1, <1>6, QuietIsNoStep
    <2> QED  BY <1>4, <2>1
  <1> QED  BY <1>2, <1>5, <1>6

\* A step of a dispatcher.
LEMMA DispatcherLedger ==
  ASSUME IInv, NEW q \in Payments, Apart(q), SerialInv(q),
         NEW w \in Dispatchers, DispatcherStep(w)
  PROVE  SerialInv(q)' /\ LedgerStep(q)
  <1>0. w \in Workers /\ w \notin Expirers
    BY ActorSets, ActorsAssumption
  <1>1. CASE ListDueCallbackDispatch(w)
    <2>1. PICK B \in Batches(DueCallbackDispatch) : Select(w, B)
      BY <1>1 DEF ListDueCallbackDispatch
    <2>2. B \subseteq Payments
      BY BatchesAreFound DEF DueCallbackDispatch
    <2> QED  BY <1>0, <2>1, <2>2, SelectLedger
  <1> QED  BY <1>1, AcceptedLedger, FailedLedger DEF DispatcherStep


\* An UPDATE that takes effect: nobody else held the payment since the read.
LEMMA WriteLedger ==
  ASSUME IInv, NEW q \in Payments, Apart(q), SerialInv(q), NEW a \in Actors, Write(a)
  PROVE  SerialInv(q)' /\ LedgerStep(q)
  <1>1. /\ pc[a] = Updating /\ cur[a] \in Payments /\ row[cur[a]] # NoRow
        /\ snap[a][cur[a]] \in Row /\ snap[a][cur[a]] # NoRow
        /\ row \in [Payments -> Row \cup {NoRow}]
        /\ row' = [row EXCEPT ![cur[a]] = snap[a][cur[a]]] /\ UNCHANGED <<told, facts>>
    BY UpdateFacts DEF Write, Written, worldVars, IInv, TypeOK, TablesOK
  <1>2. Drops(a)
    BY DoneDrops DEF WriteBack
  <1>3. CASE cur[a] = q
    <2>1. /\ row[q] \in Row /\ RowConsistent(row[q])
          /\ row'[q] = snap[a][q] /\ snap[a][q] \in Row /\ snap[a][q] # NoRow
      BY <1>1, <1>3, StoredRow DEF Exists
    <2>2. Fits(told[q], row[q], snap[a][q])
      BY <1>1, <1>3, <2>1 DEF SerialInv, Current
    <2>3. LedgerStep(q)
      BY <1>1, <2>1, <2>2, WriteIsLedgerStep
    <2> QED  BY <1>1, <1>2, <1>3, <2>1, <2>3, DropKeeps
  <1>4. CASE cur[a] # q
    <2>1. row'[q] = row[q]
      BY <1>1, <1>4
    <2> QED  BY <1>1, <1>2, <2>1, DropKeeps, QuietIsNoStep
  <1> QED  BY <1>3, <1>4

\* An UPDATE without effect.
LEMMA NoWriteLedger ==
  ASSUME IInv, NEW q \in Payments, Apart(q), SerialInv(q), NEW a \in Actors,
         WriteChangesNothing(a) \/ WriteFails(a)
  PROVE  SerialInv(q)' /\ LedgerStep(q)
  <1>1. UNCHANGED <<row, told, facts>>
    BY DEF WriteChangesNothing, WriteFails, rowVars, worldVars
  <1>2. Drops(a)
    BY DoneDrops DEF WriteBack
  <1> QED  BY <1>1, <1>2, DropKeeps, QuietIsNoStep

\* A process that dies leaves the ledger alone.
LEMMA DiesLedger ==
  ASSUME IInv, NEW q \in Payments, Apart(q), SerialInv(q), NEW w \in Workers, WorkerDies(w)
  PROVE  SerialInv(q)' /\ LedgerStep(q)
  <1>1. w \in Actors /\ UNCHANGED <<row, told, facts>>
    BY ActorSets DEF WorkerDies, rowVars, worldVars
  <1>2. Drops(w)
    BY <1>1, Control DEF IInv, TypeOK, ActorsOK, WorkerDies, Drops, Nothing
  <1> QED  BY <1>1, <1>2, DropKeeps, QuietIsNoStep

\* Steps that move no actor: the row stays alike, and a new one nobody holds.
LEMMA WorldKeeps ==
  ASSUME IInv, NEW q \in Payments, SerialInv(q), UNCHANGED <<pc, cur, snap, told>>,
         FactsOrder(q)', Exists(q) => row'[q] \in Row /\ Alike(row'[q], row[q])
  PROVE  SerialInv(q)'
  <1> SUFFICES ASSUME NEW a \in Actors PROVE Current(a, q)'
    BY DEF SerialInv
  <1>1. CASE snap[a][q] = NoRow
    BY <1>1 DEF Current
  <1>2. CASE snap[a][q] # NoRow
    <2>1. Exists(q) /\ snap[a][q] \in Row
      BY <1>2 DEF IInv, TypeOK, ActorsOK, ActorOK, Exists
    <2>2. row[q] \in Row /\ RowConsistent(row[q]) /\ row'[q] \in Row /\ Alike(row'[q], row[q])
      BY <2>1, StoredRow
    <2>3. Current(a, q)
      BY DEF SerialInv
    <2>4. CASE pc[a] = Updating /\ cur[a] = q
      BY <1>2, <2>1, <2>2, <2>3, <2>4, FitsLike DEF Current
    <2>5. CASE ~(pc[a] = Updating /\ cur[a] = q)
      BY <1>2, <2>2, <2>3, <2>5, AlikeTransitive DEF Current
    <2> QED  BY <2>4, <2>5
  <1> QED  BY <1>1, <1>2

\* The INSERT registers the payment.
LEMMA CreateLedger ==
  ASSUME IInv, NEW q \in Payments, SerialInv(q), NEW p \in Payments, CreatePayment(p)
  PROVE  SerialInv(q)' /\ LedgerStep(q)
  <1>1. /\ ~Exists(p) /\ row' = [row EXCEPT ![p] = InitialRow]
        /\ row \in [Payments -> Row \cup {NoRow}]
        /\ UNCHANGED <<pc, cur, snap, told, facts>>
    BY DEF CreatePayment, actorVars, worldVars, IInv, TypeOK, TablesOK
  <1>2. Exists(q) => row'[q] \in Row /\ Alike(row'[q], row[q])
    BY <1>1 DEF Exists, Alike
  <1>3. SerialInv(q)'
    BY <1>1, <1>2, FactsStill, WorldKeeps
  <1>4. CASE q # p
    BY <1>1, <1>3, <1>4, QuietIsNoStep
  <1>5. CASE q = p
    <2>1. row[q] = NoRow /\ row'[q] = InitialRow /\ told'[q] = told[q] /\ InitialRow \in Row
      BY <1>1, <1>5, InitialRowConsistent DEF Exists
    <2>2. Outcome(InitialRow) = "open" /\ Notice(InitialRow) = "none"
      BY <2>1, LedgerFields DEF InitialRow, OutcomeOf, OpenStatus
    <2>3. Outcome(row[q]) = "absent" /\ Outcome(row[q])' = "open" /\ Notice(row[q])' = "none"
      BY <2>1, <2>2 DEF Outcome, Notice
    <2>4. Ledger(q)!Register
      BY <2>1, <2>3 DEF Ledger!Register
    <2> QED  BY <1>3, <2>4 DEF LedgerStep, Ledger!Next
  <1> QED  BY <1>4, <1>5

\* Stripe and the clock are not in the ledger.
LEMMA EnvironmentLedger ==
  ASSUME IInv, NEW q \in Payments, SerialInv(q), EnvironmentStep
  PROVE  SerialInv(q)' /\ LedgerStep(q)
  <1>0. row \in [Payments -> Row \cup {NoRow}] /\ facts \in [Payments -> SUBSET ProviderFacts]
        /\ FactsOrder(q)
    BY DEF IInv, TypeOK, TablesOK, WorldOK, SerialInv
  <1>1. ASSUME NEW p \in Payments, NEW f \in ProviderFacts, ProviderStep(p, f)
        PROVE  SerialInv(q)' /\ LedgerStep(q)
    <2>1. UNCHANGED <<row, pc, cur, snap, told>>
      BY <1>1 DEF ProviderStep, rowVars, actorVars
    <2>2. FactsOrder(q)'
      <3>1. CASE q # p
        BY <1>0, <1>1, <3>1 DEF ProviderStep, FactsOrder
      <3>2. CASE q = p
        <4>1. facts'[q] = facts[q] \cup {f} /\ CanHappen(q, f)
          BY <1>0, <1>1, <3>2 DEF ProviderStep
        <4>2. f \in {"completed", "paid", "failed", "expired", "canceled"}
          BY FactsAssumption
        <4>3. CASE f \in {"completed", "expired"}
          BY <4>1, <4>3 DEF CanHappen, FactsOrder
        <4>4. CASE f \in {"paid", "failed", "canceled"}
          BY <1>0, <4>1, <4>4 DEF CanHappen, FactsOrder
        <4> QED  BY <4>2, <4>3, <4>4
      <3> QED  BY <3>1, <3>2
    <2>3. SerialInv(q)'
      BY <1>0, <2>1, <2>2, WorldKeeps DEF Exists, Alike
    <2> QED  BY <2>1, <2>3, QuietIsNoStep
  <1>2. ASSUME NEW p \in Payments, RetryIntervalPasses(p)
        PROVE  SerialInv(q)' /\ LedgerStep(q)
    <2>1. /\ row[p] \in Row /\ row' = [row EXCEPT ![p].nextAt = "due"]
          /\ UNCHANGED <<pc, cur, snap, told, facts>>
      BY <1>0, <1>2 DEF RetryIntervalPasses, Exists, actorVars, worldVars
    <2>2. CASE q = p
      <3>1. row[q] \in Row /\ row'[q] \in Row /\ Alike(row'[q], row[q]) /\ Alike(row[q], row'[q])
        BY <1>0, <2>1, <2>2 DEF Row, Alike, OutcomeOf
      <3>2. SerialInv(q)'
        BY <2>1, <3>1, FactsStill, WorldKeeps
      <3>3. RowConsistent(row[q])
        BY <1>2, <2>2, StoredRow DEF RetryIntervalPasses
      <3>4. LedgerStep(q)
        BY <2>1, <3>1, <3>3, WriteIsLedgerStep DEF Fits
      <3> QED  BY <3>2, <3>4
    <2>3. CASE q # p
      <3>1. row'[q] = row[q]
        BY <1>0, <2>1, <2>3
      <3>2. SerialInv(q)'
        BY <1>0, <2>1, <3>1, FactsStill, WorldKeeps DEF Exists, Alike
      <3> QED  BY <2>1, <3>1, <3>2, QuietIsNoStep
    <2> QED  BY <2>2, <2>3
  <1>3. ASSUME NEW p \in Payments, PendingTimeoutPasses(p)
        PROVE  SerialInv(q)' /\ LedgerStep(q)
    <2>1. UNCHANGED <<row, pc, cur, snap, told, facts>>
      BY <1>3 DEF PendingTimeoutPasses, rowVars, actorVars
    <2>2. SerialInv(q)'
      BY <1>0, <2>1, FactsStill, WorldKeeps DEF Exists, Alike
    <2> QED  BY <2>1, <2>2, QuietIsNoStep
  <1> QED  BY <1>1, <1>2, <1>3 DEF EnvironmentStep

\* Nothing changes.
LEMMA StutterLedger ==
  ASSUME IInv, NEW q \in Payments, SerialInv(q), UNCHANGED vars
  PROVE  SerialInv(q)' /\ LedgerStep(q)
  <1>1. UNCHANGED <<row, pc, cur, snap, told, facts>> /\ row \in [Payments -> Row \cup {NoRow}]
    BY DEF vars, rowVars, actorVars, worldVars, IInv, TypeOK, TablesOK
  <1>2. SerialInv(q)'
    BY <1>1, FactsStill, WorldKeeps DEF Exists, Alike
  <1> QED  BY <1>1, <1>2, QuietIsNoStep

\* Initially nobody is at work and nothing has happened.
LEMMA InitSerial ==
  ASSUME Init, NEW q \in Payments
  PROVE  Apart(q) /\ SerialInv(q) /\ Ledger(q)!Init
  <1>1. \A a \in Actors : snap[a][q] = NoRow
    BY DEF Init, Nothing
  <1>2. SerialInv(q)
    BY <1>1 DEF Init, SerialInv, Current, FactsOrder
  <1>3. Ledger(q)!Init
    BY DEF Init, Nothing, Ledger!Init, Outcome, Notice
  <1> QED  BY <1>1, <1>2, <1>3 DEF Apart

\* While operations on payment q do not overlap, every step is a step of its
\* ledger, or none, and keeps the invariant.
LEMMA StepSerial ==
  ASSUME IInv, NEW q \in Payments, Apart(q), SerialInv(q), [Next]_vars
  PROVE  SerialInv(q)' /\ LedgerStep(q)
  <1> DEFINE Kept == SerialInv(q)' /\ LedgerStep(q)
  <1>1. UNCHANGED vars => Kept
    BY StutterLedger
  <1>2. EnvironmentStep => Kept
    BY EnvironmentLedger
  <1>3. ASSUME NEW p \in Payments, CreatePayment(p) PROVE Kept
    BY <1>3, CreateLedger
  <1>4. ASSUME NEW r \in Requests, HandlerStep(r) PROVE Kept
    BY <1>4, CancelLedger, CallbackLedger, RefusalLedger DEF HandlerStep
  <1>5. ASSUME NEW w \in Reconcilers, ReconcilerStep(w) PROVE Kept
    BY <1>5, ReconcilerLedger
  <1>6. ASSUME NEW w \in Expirers, ExpirerStep(w) PROVE Kept
    BY <1>6, ExpirerLedger
  <1>7. ASSUME NEW w \in Dispatchers, DispatcherStep(w) PROVE Kept
    BY <1>7, DispatcherLedger
  <1>8. ASSUME NEW a \in Actors, WriteBack(a) PROVE Kept
    BY <1>8, WriteLedger, NoWriteLedger DEF WriteBack
  <1>9. ASSUME NEW a \in Actors, WriteFails(a) PROVE Kept
    BY <1>9, NoWriteLedger
  <1>10. ASSUME NEW w \in Workers, WorkerDies(w) PROVE Kept
    BY <1>10, DiesLedger
  <1> HIDE DEF Kept
  <1>11. Kept
    BY <1>1, <1>2, <1>3, <1>4, <1>5, <1>6, <1>7, <1>8, <1>9, <1>10 DEF Next
  <1> QED  BY <1>11 DEF Kept

-------------------------------------------------------------------------------
(* What the handlers and jobs check still holds when they write.           *)

\* A cancel in hand is of a row that is not paid; a job has an open row in hand.
Hand(a, q) ==
    /\ a \in Requests /\ act[a] = "payment_canceled" =>
            pc[a] = Updating /\ (cur[a] = q => row[q].status # "paid")
    /\ a \in Expirers \cup Reconcilers /\ pc[a] = Updating /\ cur[a] = q =>
            row[q].status \in OpenStatus

Hands(q) == \A a \in Actors : Hand(a, q)

\* Nobody but perhaps a moves, and the status stands still, or only a held the
\* payment.
LEMMA HandsStill ==
  ASSUME IInv, NEW q \in Payments, Hands(q), NEW a \in Actors, Hand(a, q)',
         \A b \in Actors \ {a} : pc'[b] = pc[b] /\ cur'[b] = cur[b] /\ act'[b] = act[b],
         \/ Exists(q) => row'[q].status = row[q].status
         \/ \A b \in Actors \ {a} : snap[b][q] = NoRow
  PROVE  Hands(q)'
  <1> SUFFICES ASSUME NEW b \in Actors, b # a PROVE Hand(b, q)'
    BY DEF Hands
  <1>1. Hand(b, q) /\ pc'[b] = pc[b] /\ cur'[b] = cur[b] /\ act'[b] = act[b]
    BY DEF Hands
  <1>2. pc[b] = Updating /\ cur[b] = q => Exists(q) /\ snap[b][q] # NoRow
    BY UpdateFacts DEF Exists
  <1> QED  BY <1>1, <1>2 DEF Hand

\* An actor that does not end in an UPDATE, with no event to record.
LEMMA FreeHand ==
  ASSUME NEW q \in Payments, NEW a \in Actors, pc'[a] # Updating, act'[a] = "none"
  PROVE  Hand(a, q)'
  BY DEF Hand

\* Handlers check the row and hold their entity in one step.
LEMMA HandlerHands ==
  ASSUME IInv, NEW q \in Payments, Hands(q), NEW a \in Requests, HandlerStep(a)
  PROVE  Hands(q)'
  <1>0. a \in Actors /\ a \notin Expirers \cup Reconcilers /\ row' = row
    BY ActorSets DEF HandlerStep, CancelPayment, CallbackReject, CallbackReceive, ReadFails,
                     rowVars
  <1>1. ASSUME NEW p, NEW outcome \in Outcomes, Answer(a, p, outcome) PROVE Hands(q)'
    <2>1. pc'[a] = outcome /\ act'[a] = "none" /\ \A b \in Actors \ {a} :
                pc'[b] = pc[b] /\ cur'[b] = cur[b] /\ act'[b] = act[b]
      BY <1>0, <1>1 DEF IInv, TypeOK, ActorsOK, Answer
    <2>2. Hand(a, q)'
      BY <1>0, <2>1, FreeHand, Control
    <2> QED  BY <1>0, <2>1, <2>2, HandsStill
  <1>2. ASSUME NEW p \in Payments, NEW r, NEW e, Hold(a, p, r, e),
               e = "payment_canceled" => row[p].status # "paid"
        PROVE  Hands(q)'
    <2>1. pc'[a] = Updating /\ cur'[a] = p /\ act'[a] = e /\ \A b \in Actors \ {a} :
                pc'[b] = pc[b] /\ cur'[b] = cur[b] /\ act'[b] = act[b]
      BY <1>0, <1>2 DEF IInv, TypeOK, ActorsOK, Hold
    <2>2. Hand(a, q)'
      BY <1>0, <1>2, <2>1 DEF Hand
    <2> QED  BY <1>0, <2>1, <2>2, HandsStill
  <1>3. ASSUME NEW p \in Payments, CancelPayment(a, p) PROVE Hands(q)'
    BY <1>1, <1>2, <1>3 DEF CancelPayment, Outcomes
  <1>4. CASE CallbackReject(a) \/ ReadFails(a)
    BY <1>1, <1>4 DEF CallbackReject, ReadFails, Reject, Outcomes
  <1>5. ASSUME NEW p \in Payments, NEW e \in facts[p] \cup {"other"}, CallbackReceive(a, p, e)
        PROVE  Hands(q)'
    BY <1>1, <1>2, <1>5 DEF CallbackReceive, Reject, Outcomes
  <1> QED  BY <1>3, <1>4, <1>5 DEF HandlerStep

\* The jobs select open rows, and nobody changes them before they are written.
LEMMA WorkerHands ==
  ASSUME IInv, NEW q \in Payments, SerialInv(q), Hands(q), NEW w \in Workers,
         \/ w \in Reconcilers /\ ReconcilerStep(w)
         \/ w \in Expirers /\ ExpirerStep(w)
         \/ w \in Dispatchers /\ DispatcherStep(w)
  PROVE  Hands(q)'
  <1>0. w \in Actors /\ w \notin Requests /\ row' = row
    BY ActorSets DEF ReconcilerStep, ExpirerStep, DispatcherStep, ListForReconcile,
         ListExpiredPending, ListDueCallbackDispatch, Select, ReconcileItem, ReconcileSkip,
         ExpireItem, PostAccepted, PostFailed, rowVars
  <1>1. ASSUME NEW B, Select(w, B) PROVE Hands(q)'
    <2>1. pc'[w] = InBatch /\ \A b \in Actors \ {w} :
                pc'[b] = pc[b] /\ cur'[b] = cur[b] /\ act'[b] = act[b]
      BY <1>0, <1>1 DEF IInv, TypeOK, ActorsOK, Select
    <2>2. Hand(w, q)'
      BY <1>0, <2>1, Control DEF Hand
    <2> QED  BY <1>0, <2>1, <2>2, HandsStill
  <1>2. ASSUME NEW p \in Payments, NEW r, NEW e, Hold(w, p, r, e),
               p = q /\ w \in Expirers \cup Reconcilers => row[q].status \in OpenStatus
        PROVE  Hands(q)'
    <2>1. pc'[w] = Updating /\ cur'[w] = p /\ \A b \in Actors \ {w} :
                pc'[b] = pc[b] /\ cur'[b] = cur[b] /\ act'[b] = act[b]
      BY <1>0, <1>2 DEF IInv, TypeOK, ActorsOK, Hold
    <2>2. Hand(w, q)'
      BY <1>0, <1>2, <2>1 DEF Hand
    <2> QED  BY <1>0, <2>1, <2>2, HandsStill
  <1>3. ASSUME HasItem(w, q), w \in Expirers \cup Reconcilers
        PROVE  row[q].status \in OpenStatus
    <2>1. Alike(row[q], snap[w][q]) /\ snap[w][q].status \in OpenStatus
      BY <1>3, ItemLikeRow, ItemFacts
    <2>2. row[q] \in Row
      BY <1>3, ItemLikeRow
    <2> QED  BY <2>1, <2>2 DEF Alike, OutcomeOf, OpenStatus, Row, Status
  <1>4. ASSUME NEW p \in Payments, NextItem(w, p) PROVE Hands(q)'
    <2>1. pc'[w] \in {InBatch, Idle} /\ act'[w] = "none" /\ \A b \in Actors \ {w} :
                pc'[b] = pc[b] /\ cur'[b] = cur[b] /\ act'[b] = act[b]
      BY <1>0, <1>4 DEF IInv, TypeOK, ActorsOK, NextItem
    <2>2. Hand(w, q)'
      BY <1>0, <2>1, FreeHand, Control
    <2> QED  BY <1>0, <2>1, <2>2, HandsStill
  <1>5. CASE w \in Reconcilers /\ ReconcilerStep(w)
    BY <1>1, <1>2, <1>3, <1>4, <1>5
    DEF ReconcilerStep, ListForReconcile, ReconcileItem, ReconcileSkip
  <1>6. CASE w \in Expirers /\ ExpirerStep(w)
    BY <1>1, <1>2, <1>3, <1>6 DEF ExpirerStep, ListExpiredPending, ExpireItem
  <1>7. CASE w \in Dispatchers /\ DispatcherStep(w)
    BY <1>1, <1>2, <1>7, ActorsAssumption
    DEF DispatcherStep, ListDueCallbackDispatch, PostAccepted, PostFailed
  <1> QED  BY <1>5, <1>6, <1>7

\* After an UPDATE, whatever came of it, the actor has nothing in hand; if the
\* payment is the one written, nobody else had it in hand before.
LEMMA WriteHands ==
  ASSUME IInv, NEW q \in Payments, Apart(q), Hands(q), NEW a \in Actors,
         WriteBack(a) \/ WriteFails(a)
  PROVE  Hands(q)'
  <1>1. pc[a] = Updating /\ cur[a] \in Payments /\ snap[a][cur[a]] # NoRow
    BY UpdateFacts DEF WriteBack, Write, WriteChangesNothing, WriteFails
  <1>2. \E outcome \in Outcomes :
            IF a \in Requests THEN Answer(a, cur[a], outcome) ELSE NextItem(a, cur[a])
    BY DEF WriteBack, Write, Replied, WriteChangesNothing, WriteFails, Outcomes
  <1>3. pc'[a] \in Outcomes \cup {InBatch, Idle} /\ act'[a] = "none"
        /\ \A b \in Actors \ {a} : pc'[b] = pc[b] /\ cur'[b] = cur[b] /\ act'[b] = act[b]
    BY <1>2 DEF IInv, TypeOK, ActorsOK, Answer, NextItem
  <1>4. Hand(a, q)'
    BY <1>3, FreeHand, Control
  <1>5. CASE cur[a] = q
    BY <1>1, <1>3, <1>4, <1>5, HeldByOne, HandsStill
  <1>6. CASE cur[a] # q
    <2>1. row'[q] = row[q]
      BY <1>1, <1>6
      DEF WriteBack, Write, WriteChangesNothing, WriteFails, rowVars, IInv, TypeOK, TablesOK
    <2> QED  BY <1>3, <1>4, <2>1, HandsStill
  <1> QED  BY <1>5, <1>6

\* Every other step leaves statuses alone and takes nothing in hand.
LEMMA StepHands ==
  ASSUME IInv, NEW q \in Payments, Apart(q), SerialInv(q), Hands(q), [Next]_vars
  PROVE  Hands(q)'
  <1>1. ASSUME UNCHANGED <<pc, cur, act>>, Exists(q) => row'[q].status = row[q].status
        PROVE  Hands(q)'
    <2> SUFFICES ASSUME NEW a \in Actors PROVE Hand(a, q)'
      BY DEF Hands
    <2>1. Hand(a, q) /\ (pc[a] = Updating /\ cur[a] = q => row'[q].status = row[q].status)
      BY <1>1, UpdateFacts DEF Hands, Exists
    <2> QED  BY <1>1, <2>1 DEF Hand
  <1>2. CASE UNCHANGED vars
    BY <1>1, <1>2 DEF vars, rowVars, actorVars
  <1>3. CASE EnvironmentStep
    <2>1. UNCHANGED <<pc, cur, act>>
      BY <1>3 DEF EnvironmentStep, ProviderStep, RetryIntervalPasses, PendingTimeoutPasses,
                  actorVars
    <2>2. Exists(q) => row'[q].status = row[q].status
      BY <1>3 DEF EnvironmentStep, ProviderStep, RetryIntervalPasses, PendingTimeoutPasses,
                  rowVars, Exists, IInv, TypeOK, TablesOK, Row
    <2> QED  BY <1>1, <2>1, <2>2
  <1>4. ASSUME NEW p \in Payments, CreatePayment(p) PROVE Hands(q)'
    BY <1>1, <1>4 DEF CreatePayment, actorVars, Exists, IInv, TypeOK, TablesOK
  <1>5. ASSUME NEW w \in Workers, WorkerDies(w) PROVE Hands(q)'
    <2>1. w \in Actors /\ pc'[w] = Idle /\ act'[w] = "none" /\ row' = row
          /\ \A b \in Actors \ {w} : pc'[b] = pc[b] /\ cur'[b] = cur[b] /\ act'[b] = act[b]
      BY <1>5, ActorSets DEF WorkerDies, rowVars, IInv, TypeOK, ActorsOK
    <2>2. Hand(w, q)'
      BY <2>1, FreeHand, Control
    <2> QED  BY <2>1, <2>2, HandsStill
  <1> QED
    BY <1>2, <1>3, <1>4, <1>5, HandlerHands, WorkerHands, WriteHands, ActorSets DEF Next

-------------------------------------------------------------------------------
(* A new status and its notice are one write.                              *)

Fresh(s) == s.delivery = "pending" /\ s.attempts = 0 /\ s.nextAt = "due"

\* Replacing row r by s queues what is new.
QueuesNew(r, s) == s.status # r.status => Fresh(s)

\* No entity is in processing: nothing the code writes is.
NotProcessing(r) == r # NoRow => r.status # "processing"

NewIsQueued(q) ==
    /\ NotProcessing(row[q])
    /\ \A a \in Actors : NotProcessing(snap[a][q])
    /\ \A a \in Actors : pc[a] = Updating /\ cur[a] = q => QueuesNew(row[q], snap[a][q])

\* markForCallbackDelivery queues afresh.
LEMMA MarkedFresh ==
  ASSUME NEW r \in Row, NEW s \in TerminalStatus
  PROVE  LET m == markForCallbackDelivery(SetStatus(r, s)) IN Fresh(m) /\ m.status = s
  BY DEF markForCallbackDelivery, SetDelivery, SetStatus, Fresh, Row, TerminalStatus

\* Rows that are alike have the same status: there is one open one.
LEMMA AlikeSameStatus ==
  ASSUME NEW r \in Row, NEW s \in Row, RowConsistent(r), RowConsistent(s),
         Alike(r, s), r.status # "processing", s.status # "processing"
  PROVE  s.status = r.status
  BY DEF Alike, OutcomeOf, RowConsistent, OpenStatus, TerminalStatus

\* Who is about to write keeps its entity, and the row its status; nothing new
\* is held.
LEMMA QueuedStill ==
  ASSUME NEW q \in Payments, NewIsQueued(q), NotProcessing(row'[q]),
         \A a \in Actors : snap'[a][q] \in {snap[a][q], row[q], NoRow},
         \A a \in Actors : pc'[a] = Updating /\ cur'[a] = q =>
            /\ pc[a] = Updating /\ cur[a] = q
            /\ snap'[a][q] = snap[a][q] /\ row'[q].status = row[q].status
  PROVE  NewIsQueued(q)'
  <1>1. \A a \in Actors : NotProcessing(snap'[a][q])
    BY DEF NewIsQueued, NotProcessing
  <1>2. \A a \in Actors : pc'[a] = Updating /\ cur'[a] = q => QueuesNew(row'[q], snap'[a][q])
    BY DEF NewIsQueued, QueuesNew
  <1> QED  BY <1>1, <1>2 DEF NewIsQueued, NotProcessing, QueuesNew, Fresh

\* An actor takes an entity in hand.
LEMMA QueuedHold ==
  ASSUME IInv, NEW q \in Payments, NewIsQueued(q),
         NEW a \in Actors, NEW p \in Payments, NEW r, NEW e, Hold(a, p, r, e), row' = row,
         p = q => r.status # "processing" /\ QueuesNew(row[q], r)
  PROVE  NewIsQueued(q)'
  <1>1. \A b \in Actors : snap'[b][q] = IF b = a /\ q = p THEN r ELSE snap[b][q]
    BY DEF IInv, TypeOK, ActorsOK, Hold
  <1>2. /\ pc'[a] = Updating /\ cur'[a] = p
        /\ \A b \in Actors \ {a} : pc'[b] = pc[b] /\ cur'[b] = cur[b]
    BY HeldOnly
  <1>3. \A b \in Actors : NotProcessing(snap'[b][q])
    BY <1>1 DEF NewIsQueued, NotProcessing
  <1>4. ASSUME NEW b \in Actors, pc'[b] = Updating, cur'[b] = q
        PROVE  QueuesNew(row'[q], snap'[b][q])
    <2>1. CASE b = a
      BY <1>1, <1>2, <1>4, <2>1
    <2>2. CASE b # a
      BY <1>1, <1>2, <1>4, <2>2 DEF NewIsQueued
    <2> QED  BY <2>1, <2>2
  <1> QED  BY <1>3, <1>4 DEF NewIsQueued, NotProcessing, QueuesNew, Fresh

\* An actor lets go of what it holds.
LEMMA QueuedDrop ==
  ASSUME NEW q \in Payments, NewIsQueued(q), NEW a \in Actors, Drops(a), row' = row
  PROVE  NewIsQueued(q)'
  <1>1. \A b \in Actors : snap'[b][q] \in {snap[b][q], NoRow}
    BY DEF Drops
  <1>2. \A b \in Actors : pc'[b] = Updating =>
            pc[b] = Updating /\ cur'[b] = cur[b] /\ snap'[b] = snap[b]
    BY DEF Drops
  <1> QED  BY <1>1, <1>2, QueuedStill DEF NewIsQueued

\* Handlers compute what they write from the row as it is.
LEMMA QueuedHandler ==
  ASSUME IInv, NEW q \in Payments, NewIsQueued(q), NEW a \in Requests, HandlerStep(a)
  PROVE  NewIsQueued(q)'
  <1>0. a \in Actors /\ row' = row
    BY ActorSets DEF HandlerStep, CancelPayment, CallbackReject, CallbackReceive, ReadFails,
                     rowVars
  <1>1. ASSUME NEW p, NEW outcome \in Outcomes, Answer(a, p, outcome) PROVE NewIsQueued(q)'
    BY <1>0, <1>1, AnswerDrops, QueuedDrop
  <1>2. ASSUME NEW p \in Payments, CancelPayment(a, p) PROVE NewIsQueued(q)'
    <2>1. CASE Exists(p) /\ Hold(a, p, Canceled(row[p]), "payment_canceled")
      <3>1. Canceled(row[p]).status = "canceled" /\ Fresh(Canceled(row[p]))
        BY <2>1, StoredRow, MarkedFresh DEF Canceled, TerminalStatus
      <3> QED  BY <1>0, <2>1, <3>1, QueuedHold DEF QueuesNew
    <2> QED  BY <1>1, <1>2, <2>1 DEF CancelPayment, Outcomes
  <1>3. ASSUME NEW p \in Payments, NEW e \in facts[p] \cup {"other"}, CallbackReceive(a, p, e)
        PROVE  NewIsQueued(q)'
    <2>1. CASE Exists(p) /\ Hold(a, p, CallbackApplied(row[p], CallbackStatus(e)),
                                 "provider_callback")
      <3> DEFINE new == CallbackStatus(e)
                 c == CallbackApplied(row[p], new)
      <3>1. e \in {"completed", "paid", "failed", "expired", "canceled", "other"}
        BY FactsAssumption DEF IInv, TypeOK, WorldOK
      <3>2. new \in TerminalStatus \cup {"none"}
        BY <3>1 DEF CallbackStatus, TerminalStatus
      <3>3. row[p] \in Row /\ RowConsistent(row[p])
            /\ (p = q => row[q].status # "processing")
        BY <2>1, StoredRow DEF NewIsQueued, NotProcessing, Exists
      <3>4. c = row[p] \/ (c.status \in TerminalStatus /\ Fresh(c))
        BY <3>2, <3>3, MarkedFresh DEF CallbackApplied, terminalStatus
      <3>5. p = q => c.status # "processing" /\ QueuesNew(row[q], c)
        BY <3>3, <3>4 DEF QueuesNew, TerminalStatus
      <3> QED  BY <1>0, <2>1, <3>5, QueuedHold
    <2> QED  BY <1>1, <1>3, <2>1 DEF CallbackReceive, Reject, Outcomes
  <1>4. CASE CallbackReject(a) \/ ReadFails(a)
    BY <1>1, <1>4 DEF CallbackReject, ReadFails, Reject, Outcomes
  <1> QED  BY <1>2, <1>3, <1>4 DEF HandlerStep

\* The jobs compute it from an entity that has the row's status still.
LEMMA QueuedWorker ==
  ASSUME IInv, NEW q \in Payments, SerialInv(q), NewIsQueued(q), NEW w \in Workers,
         \/ w \in Reconcilers /\ ReconcilerStep(w)
         \/ w \in Expirers /\ ExpirerStep(w)
         \/ w \in Dispatchers /\ DispatcherStep(w)
  PROVE  NewIsQueued(q)'
  <1>0. w \in Actors /\ row' = row
    BY ActorSets DEF ReconcilerStep, ExpirerStep, DispatcherStep, ListForReconcile,
         ListExpiredPending, ListDueCallbackDispatch, Select, ReconcileItem, ReconcileSkip,
         ExpireItem, PostAccepted, PostFailed, rowVars
  <1>1. ASSUME NEW B, Select(w, B) PROVE NewIsQueued(q)'
    <2>1. \A b \in Actors : snap'[b][q] \in {snap[b][q], row[q], NoRow}
      BY <1>0, <1>1 DEF IInv, TypeOK, ActorsOK, Select
    <2>2. \A b \in Actors : pc'[b] = Updating =>
            pc[b] = Updating /\ cur'[b] = cur[b] /\ snap'[b] = snap[b]
      BY <1>0, <1>1, Control DEF IInv, TypeOK, ActorsOK, Select
    <2> QED  BY <1>0, <2>1, <2>2, QueuedStill DEF NewIsQueued
  <1>2. ASSUME HasItem(w, q)
        PROVE  /\ snap[w][q] \in Row /\ RowConsistent(snap[w][q])
               /\ snap[w][q].status # "processing" /\ row[q].status = snap[w][q].status
    <2>1. Alike(row[q], snap[w][q]) /\ row[q] \in Row /\ RowConsistent(row[q])
          /\ snap[w][q] \in Row /\ RowConsistent(snap[w][q])
      BY <1>2, ItemLikeRow
    <2>2. row[q].status # "processing" /\ snap[w][q].status # "processing"
      BY <1>0, <2>1, <1>2, NoRowAssumption DEF NewIsQueued, NotProcessing, HasItem
    <2> QED  BY <2>1, <2>2, AlikeSameStatus
  <1>3. ASSUME NEW p \in Payments, ReconcileItem(w, p), w \in Reconcilers PROVE NewIsQueued(q)'
    <2> DEFINE new == ProviderStatus(p)
    <2>1. HasItem(w, p) /\ new # snap[w][p].status
          /\ Hold(w, p, Reconciled(snap[w][p], new), "payment_reconciled")
      BY <1>3 DEF ReconcileItem
    <2>2. new \in {"expired", "paid", "pending"}
      BY DEF ProviderStatus
    <2> HIDE DEF new
    <2>3. CASE p = q
      <3>1. snap[w][p] \in Row /\ snap[w][p].status # "processing"
            /\ snap[w][p].status \in OpenStatus
        BY <1>2, <1>3, <2>1, <2>3, ItemFacts
      <3>2. new \in {"expired", "paid"}
        BY <2>1, <2>2, <3>1 DEF OpenStatus
      <3>3. Reconciled(snap[w][p], new).status = new /\ Fresh(Reconciled(snap[w][p], new))
        BY <3>1, <3>2, MarkedFresh DEF Reconciled, terminalStatus, TerminalStatus
      <3> QED  BY <1>0, <2>1, <3>2, <3>3, QueuedHold DEF QueuesNew
    <2>4. CASE p # q
      BY <1>0, <2>1, <2>4, QueuedHold
    <2> QED  BY <2>3, <2>4
  <1>4. ASSUME NEW p \in Payments, ReconcileSkip(w, p) PROVE NewIsQueued(q)'
    <2>1. Drops(w)
      BY <1>4, NextItemDrops, Control DEF ReconcileSkip, HasItem
    <2> QED  BY <1>0, <2>1, QueuedDrop
  <1>5. ASSUME NEW p \in Payments, ExpireItem(w, p) PROVE NewIsQueued(q)'
    <2>1. HasItem(w, p) /\ Hold(w, p, Expired(snap[w][p]), "payment_expired")
      BY <1>5 DEF ExpireItem
    <2>2. Expired(snap[w][p]).status = "expired" /\ Fresh(Expired(snap[w][p]))
      BY <2>1, ItemFacts, MarkedFresh DEF Expired, TerminalStatus
    <2> QED  BY <1>0, <2>1, <2>2, QueuedHold DEF QueuesNew
  <1>6. ASSUME NEW p \in Payments, PostAccepted(w, p), w \in Dispatchers PROVE NewIsQueued(q)'
    <2>1. HasItem(w, p) /\ Hold(w, p, Dispatched(snap[w][p]), "callback_dispatched")
      BY <1>6 DEF PostAccepted
    <2>2. p = q => Dispatched(snap[w][p]).status = snap[w][p].status
      BY <1>2, <1>6, <2>1, ItemFacts, DispatchedConsistent
    <2> QED  BY <1>0, <1>2, <2>1, <2>2, QueuedHold DEF QueuesNew
  <1>7. ASSUME NEW p \in Payments, PostFailed(w, p), w \in Dispatchers PROVE NewIsQueued(q)'
    <2>1. HasItem(w, p) /\ Hold(w, p, DispatchFailed(snap[w][p]), "callback_dispatch_failed")
      BY <1>7 DEF PostFailed
    <2>2. p = q => DispatchFailed(snap[w][p]).status = snap[w][p].status
      BY <1>2, <1>7, <2>1, ItemFacts, DispatchFailedConsistent
    <2> QED  BY <1>0, <1>2, <2>1, <2>2, QueuedHold DEF QueuesNew
  <1>8. CASE w \in Reconcilers /\ ReconcilerStep(w)
    BY <1>1, <1>3, <1>4, <1>8 DEF ReconcilerStep, ListForReconcile
  <1>9. CASE w \in Expirers /\ ExpirerStep(w)
    BY <1>1, <1>5, <1>9 DEF ExpirerStep, ListExpiredPending
  <1>10. CASE w \in Dispatchers /\ DispatcherStep(w)
    BY <1>1, <1>6, <1>7, <1>10 DEF DispatcherStep, ListDueCallbackDispatch
  <1> QED  BY <1>8, <1>9, <1>10

\* An UPDATE, whatever comes of it: who else is about to write holds another payment.
LEMMA QueuedWrite ==
  ASSUME IInv, NEW q \in Payments, Apart(q), NewIsQueued(q), NEW a \in Actors,
         WriteBack(a) \/ WriteFails(a)
  PROVE  NewIsQueued(q)'
  <1>1. pc[a] = Updating /\ cur[a] \in Payments /\ snap[a][cur[a]] # NoRow
    BY UpdateFacts DEF WriteBack, Write, WriteChangesNothing, WriteFails
  <1>2. Drops(a)
    BY DoneDrops
  <1>3. row' = row \/ row' = [row EXCEPT ![cur[a]] = snap[a][cur[a]]]
    BY DEF WriteBack, Write, Written, WriteChangesNothing, WriteFails, rowVars
  <1>4. NotProcessing(row'[q])
    BY <1>1, <1>3 DEF NewIsQueued, IInv, TypeOK, TablesOK
  <1>5. \A b \in Actors : snap'[b][q] \in {snap[b][q], NoRow}
    BY <1>2 DEF Drops
  <1>6. ASSUME NEW b \in Actors, pc'[b] = Updating, cur'[b] = q
        PROVE  /\ pc[b] = Updating /\ cur[b] = q
               /\ snap'[b][q] = snap[b][q] /\ row'[q].status = row[q].status
    <2>1. b # a /\ pc[b] = Updating /\ cur[b] = q /\ snap'[b] = snap[b]
      BY <1>2, <1>6 DEF Drops
    <2>2. snap[b][q] # NoRow
      BY <2>1, UpdateFacts
    <2>3. cur[a] # q
      BY <1>1, <2>1, <2>2, HeldByOne
    <2> QED  BY <1>1, <1>3, <2>1, <2>3 DEF IInv, TypeOK, TablesOK
  <1> QED  BY <1>4, <1>5, <1>6, QueuedStill

\* Every step.
LEMMA QueuedStep ==
  ASSUME IInv, NEW q \in Payments, Apart(q), SerialInv(q), NewIsQueued(q), [Next]_vars
  PROVE  NewIsQueued(q)'
  <1>1. ASSUME UNCHANGED <<pc, cur, snap>>, Exists(q) => row'[q].status = row[q].status,
               NotProcessing(row'[q])
        PROVE  NewIsQueued(q)'
    <2>1. \A a \in Actors : pc[a] = Updating /\ cur[a] = q => row'[q].status = row[q].status
      BY <1>1, UpdateFacts DEF Exists
    <2> QED  BY <1>1, <2>1, QueuedStill
  <1>2. CASE UNCHANGED vars
    BY <1>1, <1>2 DEF vars, rowVars, actorVars, NewIsQueued
  <1>3. CASE EnvironmentStep
    <2>1. UNCHANGED <<pc, cur, snap>>
      BY <1>3 DEF EnvironmentStep, ProviderStep, RetryIntervalPasses, PendingTimeoutPasses,
                  actorVars
    <2>2. /\ row'[q].status = row[q].status
          /\ row[q] = NoRow => row'[q] = NoRow
      BY <1>3 DEF EnvironmentStep, ProviderStep, RetryIntervalPasses, PendingTimeoutPasses,
                  rowVars, Exists, IInv, TypeOK, TablesOK, Row
    <2> QED  BY <1>1, <2>1, <2>2 DEF NewIsQueued, NotProcessing
  <1>4. ASSUME NEW p \in Payments, CreatePayment(p) PROVE NewIsQueued(q)'
    <2>1. /\ UNCHANGED <<pc, cur, snap>> /\ ~Exists(p)
          /\ row'[q] = IF q = p THEN InitialRow ELSE row[q]
      BY <1>4 DEF CreatePayment, actorVars, IInv, TypeOK, TablesOK
    <2> QED  BY <1>1, <2>1 DEF NewIsQueued, NotProcessing, InitialRow
  <1>5. ASSUME NEW w \in Workers, WorkerDies(w) PROVE NewIsQueued(q)'
    <2>1. w \in Actors /\ row' = row /\ Drops(w)
      BY <1>5, ActorSets, Control
      DEF WorkerDies, rowVars, IInv, TypeOK, ActorsOK, Drops, Nothing
    <2> QED  BY <2>1, QueuedDrop
  <1> QED
    BY <1>2, <1>3, <1>4, <1>5, QueuedHandler, QueuedWorker, QueuedWrite, ActorSets DEF Next

-------------------------------------------------------------------------------
(* What follows.                                                           *)

\* The invariant of a payment whose operations do not overlap.
PaymentInv(q) == Apart(q) /\ SerialInv(q) /\ Hands(q) /\ NewIsQueued(q)

\* It holds at first.
LEMMA InitPayment ==
  ASSUME Init, NEW q \in Payments
  PROVE  PaymentInv(q)
  <1>1. Hands(q) /\ NewIsQueued(q)
    BY Control DEF Init, Hands, Hand, NewIsQueued, NotProcessing, Nothing
  <1> QED  BY <1>1, InitSerial DEF PaymentInv

\* Every step after which operations on the payment still do not overlap keeps it.
LEMMA StepPayment ==
  ASSUME IInv, NEW q \in Payments, PaymentInv(q), [Next /\ Apart(q)']_vars
  PROVE  PaymentInv(q)' /\ LedgerStep(q)
  <1>1. Apart(q)'
    BY DEF vars, actorVars, PaymentInv, Apart
  <1> QED  BY <1>1, StepSerial, StepHands, QueuedStep DEF PaymentInv

\* Each payment whose operations do not overlap keeps its ledger, whatever overlaps
\* on the others: an outcome, once there, stays one; it changes together with its
\* notice and only to an outcome that may follow it; no notice is closed as
\* delivered that the caller did not get.  Faults and crashes do not matter.
THEOREM PaymentKeepsItsLedger == \A p \in Payments : SpecApart(p) => Ledger(p)!Spec
  <1> SUFFICES ASSUME NEW p \in Payments PROVE SpecApart(p) => Ledger(p)!Spec
    OBVIOUS
  <1>1. Init => PaymentInv(p) /\ Ledger(p)!Init
    BY InitPayment, InitSerial
  <1>2. IInv /\ PaymentInv(p) /\ [Next /\ Apart(p)']_vars =>
            PaymentInv(p)' /\ [Ledger(p)!Next]_(Ledger(p)!vars)
    BY StepPayment DEF LedgerStep
  <1>3. SpecApart(p) => Spec
    <2>1. [Next /\ Apart(p)']_vars => [Next]_vars
      OBVIOUS
    <2> QED  BY <2>1, PTL DEF SpecApart, Spec
  <1> QED  BY Invariant, <1>1, <1>2, <1>3, PTL DEF SpecApart, Ledger!Spec

ApartInv == \A p \in Payments : PaymentInv(p)

ApartNext == Next /\ \A p \in Payments : Apart(p)'

\* A service whose operations overlap on no payment is one of the service's behaviours.
LEMMA ApartIsSpec == ApartSpec => Spec
  <1>1. [ApartNext]_vars => [Next]_vars
    BY DEF ApartNext
  <1> QED  BY <1>1, PTL DEF ApartSpec, Spec, ApartNext

\* Its invariant.
LEMMA ApartInvariant == ApartSpec => [](IInv /\ ApartInv) /\ [][ApartNext]_vars
  <1>1. Init => ApartInv
    BY InitPayment DEF ApartInv
  <1>2. IInv /\ ApartInv /\ [ApartNext]_vars => ApartInv'
    BY StepPayment DEF ApartInv, ApartNext
  <1> QED  BY Invariant, <1>1, <1>2, ApartIsSpec, PTL DEF ApartSpec, ApartNext

\* What one step keeps of a payment.
LEMMA StepKeepsPayment ==
  ASSUME IInv, ApartInv, [ApartNext]_vars, NEW q \in Payments
  PROVE  PaymentInv(q) /\ LedgerStep(q) /\ [Next]_vars
  BY StepPayment DEF ApartInv, ApartNext

\* Handlers and jobs whose operations overlap on no payment keep the ledger of
\* every payment, however they overlap on different ones and whatever batches the
\* jobs hold meanwhile.
THEOREM ApartServiceKeepsTheLedger == ApartSpec => ImplementsLedger
  <1>1. Init => \A p \in Payments : Ledger(p)!Init
    BY InitSerial
  <1>2. IInv /\ ApartInv /\ [ApartNext]_vars =>
            \A p \in Payments : [Ledger(p)!Next]_(Ledger(p)!vars)
    BY StepKeepsPayment DEF LedgerStep
  <1> QED  BY ApartInvariant, <1>1, <1>2, PTL DEF ApartSpec, ImplementsLedger

\* A step of the ledger leaves an outcome an outcome.
LEMMA LedgerKeepsOutcome ==
  ASSUME IInv, IInv', NEW q \in Payments, LedgerStep(q),
         Exists(q), row[q].status \in TerminalStatus
  PROVE  row'[q].status \in TerminalStatus
  <1>1. Outcome(row[q]) \in TerminalStatus
    BY StoredRow, LedgerFields, OutcomeIsStatus
  <1>2. Outcome(row[q])' \in TerminalStatus
    BY <1>1 DEF LedgerStep, Ledger!Next, Ledger!vars, Ledger!Register, Ledger!Resolve,
                Ledger!Tell, Ledger!Close, Ledger!Outcomes, TerminalStatus
  <1>3. row'[q] \in Row \cup {NoRow} /\ Outcome(row'[q]) \in TerminalStatus
    BY <1>2 DEF Outcome, IInv, TypeOK, TablesOK
  <1> QED  BY <1>3 DEF Outcome, TerminalStatus

\* An outcome never gives way to an open status, if operations overlap on no
\* payment: the ledger has no such step.
THEOREM OutcomesRemain == ApartSpec => OutcomesStay
  <1>1. IInv /\ IInv' /\ ApartInv /\ [ApartNext]_vars =>
            \A p \in Payments : Exists(p) /\ row[p].status \in TerminalStatus
                               => row'[p].status \in TerminalStatus
    BY StepKeepsPayment, LedgerKeepsOutcome
  <1> QED  BY ApartInvariant, <1>1, PTL DEF OutcomesStay

\* Without payments there is nothing to cancel.
LEMMA NothingToCancel ==
  Payments = {} => (Spec => [](\A r \in Requests : act[r] # "payment_canceled"))
  <1> DEFINE NoneInHand == \A r \in Requests : act[r] # "payment_canceled"
  <1> SUFFICES ASSUME Payments = {} PROVE Spec => []NoneInHand
    OBVIOUS
  <1>1. Init => NoneInHand
    BY ActorSets DEF Init
  <1>2. ASSUME IInv, NoneInHand, [Next]_vars PROVE NoneInHand'
    <2>1. \A a \in Actors : pc[a] # Updating
      BY <1>2, UpdateFacts
    <2>2. \A r \in Requests, o \in Outcomes : \A p :
            Answer(r, p, o) => \A a \in Requests : act'[a] \in {act[a], "none"}
      BY <1>2, ActorSets DEF Answer, IInv, TypeOK, ActorsOK
    <2>3. \A r \in Requests : HandlerStep(r) => NoneInHand'
      BY <1>2, <2>2 DEF HandlerStep, CallbackReject, Reject, ReadFails, Outcomes
    <2>4. \A w \in Workers : WorkerDies(w) => NoneInHand'
      BY <1>2, ActorSets DEF WorkerDies, IInv, TypeOK, ActorsOK
    <2>5. \/ act' = act
          \/ \E r \in Requests : HandlerStep(r)
          \/ \E w \in Workers : WorkerDies(w)
      BY <1>2, <2>1 DEF Next, vars, actorVars, EnvironmentStep, ReconcilerStep, ExpirerStep,
         DispatcherStep, ListForReconcile, ListExpiredPending, ListDueCallbackDispatch, Select,
         WriteBack, Write, WriteChangesNothing, WriteFails
    <2> QED  BY <1>2, <2>3, <2>4, <2>5
  <1>3. IInv /\ NoneInHand /\ [Next]_vars => NoneInHand'
    BY <1>2
  <1> QED  BY Invariant, <1>1, <1>3, PTL DEF Spec

\* No cancel is written over a paid row, if operations overlap on no payment.
THEOREM CancelsSparePaid == ApartSpec => CancelSparesPaid
  <1>1. ASSUME IInv, ApartInv, NEW p \in Payments, NEW r \in Requests,
               act[r] = "payment_canceled"
        PROVE  row[cur[r]].status # "paid"
    <2>1. r \in Actors /\ pc[r] = Updating
      BY <1>1, ActorSets DEF ApartInv, PaymentInv, Hands, Hand
    <2>2. cur[r] \in Payments
      BY <1>1, <2>1, UpdateFacts
    <2> QED  BY <1>1, <2>1, <2>2 DEF ApartInv, PaymentInv, Hands, Hand
  <1>2. CASE Payments = {}
    <2>1. (\A r \in Requests : act[r] # "payment_canceled") => \A r \in Requests :
            act[r] = "payment_canceled" /\ pc'[r] = "ok" => row[cur[r]].status # "paid"
      OBVIOUS
    <2> QED  BY <1>2, NothingToCancel, ApartIsSpec, <2>1, PTL DEF CancelSparesPaid
  <1>3. CASE Payments # {}
    <2>1. IInv /\ ApartInv => \A r \in Requests :
            act[r] = "payment_canceled" /\ pc'[r] = "ok" => row[cur[r]].status # "paid"
      BY <1>1, <1>3
    <2> QED  BY ApartInvariant, <2>1, PTL DEF CancelSparesPaid
  <1> QED  BY <1>2, <1>3

\* The expire and reconcile jobs write over open rows only, if operations overlap on
\* no payment.
THEOREM SweepsSpareWhatIsSettled == ApartSpec => SweepsSpareOutcomes
  <1>1. ASSUME IInv, ApartInv, NEW w \in Expirers \cup Reconcilers, pc[w] = Updating
        PROVE  row[cur[w]].status \in OpenStatus
    <2>1. w \in Actors /\ cur[w] \in Payments
      BY <1>1, ActorSets, UpdateFacts
    <2> QED  BY <1>1, <2>1 DEF ApartInv, PaymentInv, Hands, Hand
  <1>2. IInv /\ ApartInv => \A w \in Expirers \cup Reconcilers :
            pc[w] = Updating /\ row'[cur[w]] # row[cur[w]] => row[cur[w]].status \in OpenStatus
    BY <1>1
  <1> QED  BY ApartInvariant, <1>2, PTL DEF SweepsSpareOutcomes

\* What changes the status of a stored row is an UPDATE of it.
LEMMA StatusChangesByWrite ==
  ASSUME IInv, [Next]_vars, NEW q \in Payments, Exists(q), row'[q].status # row[q].status
  PROVE  \E a \in Actors : Write(a) /\ cur[a] = q /\ row'[q] = snap[a][q]
  <1>1. ~EnvironmentStep
    BY DEF EnvironmentStep, ProviderStep, RetryIntervalPasses, PendingTimeoutPasses,
           rowVars, Exists, IInv, TypeOK, TablesOK, Row
  <1>2. \A p \in Payments : ~CreatePayment(p)
    BY DEF CreatePayment, Exists, IInv, TypeOK, TablesOK
  <1>3. row' = row \/ \E a \in Actors : Write(a)
    BY <1>1, <1>2 DEF Next, vars, rowVars, HandlerStep, CancelPayment, CallbackReject,
       CallbackReceive, ReadFails, ReconcilerStep, ExpirerStep, DispatcherStep,
       ListForReconcile, ListExpiredPending, ListDueCallbackDispatch, Select, ReconcileItem,
       ReconcileSkip, ExpireItem, PostAccepted, PostFailed, WriteBack, WriteChangesNothing,
       WriteFails, WorkerDies
  <1>4. PICK a \in Actors : Write(a)
    BY <1>3
  <1>5. row' = [row EXCEPT ![cur[a]] = snap[a][cur[a]]]
        /\ row \in [Payments -> Row \cup {NoRow}]
    BY <1>4 DEF Write, Written, IInv, TypeOK, TablesOK
  <1> QED  BY <1>4, <1>5

\* A row whose status changes is queued for the caller by the same write, with the
\* whole retry budget, if operations overlap on no payment: what the handlers and
\* jobs write has the row's status, or is queued afresh (markForCallbackDelivery).
THEOREM NewOutcomesAreQueued == ApartSpec => NewOutcomeIsQueued
  <1>1. ASSUME IInv, ApartInv, [ApartNext]_vars, NEW p \in Payments,
               Exists(p), row'[p].status # row[p].status
        PROVE  Fresh(row'[p])
    <2>1. [Next]_vars /\ NewIsQueued(p)
      BY <1>1, StepKeepsPayment DEF PaymentInv
    <2>2. PICK a \in Actors : Write(a) /\ cur[a] = p /\ row'[p] = snap[a][p]
      BY <1>1, <2>1, StatusChangesByWrite
    <2>3. pc[a] = Updating
      BY <2>2 DEF Write
    <2> QED  BY <1>1, <2>1, <2>2, <2>3 DEF NewIsQueued, QueuesNew
  <1>2. IInv /\ ApartInv /\ [ApartNext]_vars =>
            \A p \in Payments :
                Exists(p) /\ row'[p].status # row[p].status =>
                    row'[p].delivery = "pending" /\ row'[p].attempts = 0 /\ row'[p].nextAt = "due"
    BY <1>1 DEF Fresh
  <1> QED  BY ApartInvariant, <1>2, PTL DEF NewOutcomeIsQueued

-------------------------------------------------------------------------------
(* One operation at a time.                                                *)

\* At most one actor is at work.
Alone == \A a, b \in Actors : Busy(a) /\ Busy(b) => a = b

\* If at most one operation may run and one may start, none runs.
LEMMA NoneAtWork ==
  ASSUME MaxInFlight = 1, MayStart
  PROVE  \A a \in Actors : ~Busy(a)
  <1> DEFINE S == {a \in Actors : pc[a] \in {InBatch, Updating}}
  <1>1. IsFiniteSet(S) /\ Cardinality(S) \in Nat
    BY ActorsFinite, FS_Subset, FS_CardinalityType
  <1>2. Cardinality(S) = 0
    BY <1>1 DEF MayStart
  <1>3. S = {}
    BY <1>1, <1>2, FS_EmptySet
  <1> QED  BY <1>3 DEF Busy

\* Only actor a moves, from work or with leave to start.
LEMMA AloneKept ==
  ASSUME MaxInFlight = 1, Alone, NEW a \in Actors,
         \A b \in Actors \ {a} : pc'[b] = pc[b],
         pc'[a] \in {InBatch, Updating} => MayStart \/ Busy(a)
  PROVE  Alone'
  <1>1. Busy(a)' => \A b \in Actors \ {a} : ~Busy(b)
    BY NoneAtWork DEF Busy, Alone
  <1>2. \A b \in Actors \ {a} : Busy(b)' => Busy(b)
    BY DEF Busy
  <1> QED  BY <1>1, <1>2 DEF Alone

\* Every operation waits for the one before to end.
LEMMA StepAlone ==
  ASSUME MaxInFlight = 1, IInv, Alone, [Next]_vars
  PROVE  Alone'
  <1>1. ASSUME pc' = pc PROVE Alone'
    BY <1>1 DEF Alone, Busy
  <1>2. ASSUME NEW a \in Actors, NEW outcome \in Outcomes, NEW p, Answer(a, p, outcome)
        PROVE  Alone'
    <2>1. pc'[a] = outcome /\ \A b \in Actors \ {a} : pc'[b] = pc[b]
      BY <1>2 DEF Answer, IInv, TypeOK, ActorsOK
    <2> QED  BY <2>1, AloneKept, Control
  <1>3. ASSUME NEW a \in Actors, NEW p \in Payments, NEW r, NEW e, Hold(a, p, r, e),
               MayStart \/ Busy(a)
        PROVE  Alone'
    BY <1>3, HeldOnly, AloneKept
  <1>4. ASSUME NEW w \in Actors, NEW p \in Payments, NextItem(w, p), Busy(w)
        PROVE  Alone'
    <2>1. \A b \in Actors \ {w} : pc'[b] = pc[b]
      BY <1>4 DEF NextItem, IInv, TypeOK, ActorsOK
    <2> QED  BY <1>4, <2>1, AloneKept
  <1>5. ASSUME NEW w \in Actors, NEW B, Select(w, B) PROVE Alone'
    <2>1. MayStart /\ \A b \in Actors \ {w} : pc'[b] = pc[b]
      BY <1>5 DEF Select, IInv, TypeOK, ActorsOK
    <2> QED  BY <2>1, AloneKept
  <1>6. ASSUME NEW r \in Requests, HandlerStep(r) PROVE Alone'
    <2>1. r \in Actors
      BY ActorSets
    <2>2. CASE \E p \in Payments : CancelPayment(r, p)
      BY <1>2, <1>3, <2>1, <2>2 DEF CancelPayment, Outcomes
    <2>3. CASE \E p \in Payments : \E e \in facts[p] \cup {"other"} : CallbackReceive(r, p, e)
      BY <1>2, <1>3, <2>1, <2>3 DEF CallbackReceive, Reject, Outcomes
    <2>4. CASE CallbackReject(r) \/ ReadFails(r)
      BY <1>2, <2>1, <2>4 DEF CallbackReject, Reject, ReadFails, Outcomes
    <2> QED  BY <1>6, <2>2, <2>3, <2>4 DEF HandlerStep
  <1>7. ASSUME NEW w \in Workers, \/ ReconcilerStep(w) \/ ExpirerStep(w) \/ DispatcherStep(w)
        PROVE  Alone'
    <2>1. w \in Actors /\ \A p \in Payments : HasItem(w, p) => Busy(w)
      BY ActorSets DEF HasItem, Busy
    <2>2. CASE ReconcilerStep(w)
      BY <1>3, <1>4, <1>5, <2>1, <2>2
      DEF ReconcilerStep, ListForReconcile, ReconcileItem, ReconcileSkip
    <2>3. CASE ExpirerStep(w)
      BY <1>3, <1>5, <2>1, <2>3 DEF ExpirerStep, ListExpiredPending, ExpireItem
    <2>4. CASE DispatcherStep(w)
      BY <1>3, <1>5, <2>1, <2>4
      DEF DispatcherStep, ListDueCallbackDispatch, PostAccepted, PostFailed
    <2> QED  BY <1>7, <2>2, <2>3, <2>4
  <1>8. ASSUME NEW a \in Actors, WriteBack(a) \/ WriteFails(a) PROVE Alone'
    <2>1. Busy(a) /\ cur[a] \in Payments
      BY <1>8, UpdateFacts DEF WriteBack, Write, WriteChangesNothing, WriteFails, Busy
    <2>2. \E outcome \in Outcomes :
            IF a \in Requests THEN Answer(a, cur[a], outcome) ELSE NextItem(a, cur[a])
      BY <1>8 DEF WriteBack, Write, Replied, WriteChangesNothing, WriteFails, Outcomes
    <2> QED  BY <1>2, <1>4, <2>1, <2>2
  <1>9. ASSUME NEW w \in Workers, WorkerDies(w) PROVE Alone'
    <2>1. w \in Actors /\ pc'[w] = Idle /\ \A b \in Actors \ {w} : pc'[b] = pc[b]
      BY <1>9, ActorSets DEF WorkerDies, IInv, TypeOK, ActorsOK
    <2> QED  BY <2>1, AloneKept, Control
  <1>10. EnvironmentStep \/ (\E p \in Payments : CreatePayment(p)) \/ UNCHANGED vars => pc' = pc
    BY DEF EnvironmentStep, ProviderStep, RetryIntervalPasses, PendingTimeoutPasses,
           CreatePayment, actorVars, vars
  <1> QED  BY <1>1, <1>6, <1>7, <1>8, <1>9, <1>10, ActorSets DEF Next

\* If operations run one at a time they overlap on no payment: who holds a payment
\* is at work.
THEOREM SerialIsApart == MaxInFlight = 1 => (Spec => ApartSpec)
  <1> DEFINE AllApart == \A p \in Payments : Apart(p)
  <1> SUFFICES ASSUME MaxInFlight = 1 PROVE Spec => ApartSpec
    OBVIOUS
  <1>1. Init => Alone
    BY Control DEF Init, Alone, Busy
  <1>2. IInv /\ Alone /\ [Next]_vars => Alone'
    BY StepAlone
  <1>3. IInv /\ Alone => AllApart
    BY RestHoldsNothing DEF Alone, Apart
  <1>4. AllApart' /\ [Next]_vars => [Next /\ \A p \in Payments : Apart(p)']_vars
    OBVIOUS
  <1> HIDE DEF AllApart
  <1> QED  BY Invariant, <1>1, <1>2, <1>3, <1>4, PTL DEF Spec, ApartSpec

\* So a service that runs one operation at a time keeps the ledger of every payment
\* and all it promises of writes.
THEOREM SerialServiceKeepsTheLedger ==
    MaxInFlight = 1 =>
        (Spec => /\ ImplementsLedger /\ OutcomesStay /\ NewOutcomeIsQueued
                 /\ CancelSparesPaid /\ SweepsSpareOutcomes)
  BY SerialIsApart, ApartServiceKeepsTheLedger, OutcomesRemain, NewOutcomesAreQueued,
     CancelsSparePaid, SweepsSpareWhatIsSettled
===============================================================================
