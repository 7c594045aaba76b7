--------------------------- MODULE JobScheduleProofs ---------------------------
(* The jobs against the clock, for every number of payments, batch size,   *)
(* interval and bound: what a LIMIT may cost a payment at the end of the   *)
(* order, and what it may not.                                             *)
EXTENDS JobSchedule, FiniteSetTheorems, TLAPS

(* Arithmetic.                                                             *)

\* A product grows with its second factor.
LEMMA ProductGrows ==
  ASSUME NEW a \in Nat, NEW b \in Nat, NEW c \in Nat, b <= c
  PROVE  a * b \in Nat /\ a * b <= a * c
  BY SMT

\* One more times a factor.
LEMMA ProductOfNext ==
  ASSUME NEW a \in Nat, NEW b \in Nat
  PROVE  a * (b + 1) = a * b + a
  BY SMT

\* Failures added to failures, times a batch size, pay for as many more runs.
LEMMA ProductOfSum ==
  ASSUME NEW a \in Nat, NEW b \in Nat, NEW c \in Nat
  PROVE  a * (b + c) = a * b + a * c /\ a * c \in Nat
  BY SMT

\* A batch size is at least one.
LEMMA ProductAtLeast ==
  ASSUME NEW a \in Nat \ {0}, NEW b \in Nat
  PROVE  a * b >= b
  BY SMT

\* How many full batches a number of payments and failures pays for.
LEMMA FullBatches ==
  ASSUME NEW b \in Nat \ {0}, NEW n \in Nat, NEW k \in Nat, NEW f \in Nat,
         b * k <= n + b * f
  PROVE  n \div b \in Nat /\ k <= f + n \div b
  <1> DEFINE d == n \div b
  <1>1. d \in Nat /\ n < b * (d + 1)
    <2>1. d \in Nat
      BY SMT
    <2>2. n < b * (d + 1)
      BY SMT
    <2> QED  BY <2>1, <2>2
  <1> HIDE DEF d
  <1>2. b * k < b * (f + (d + 1))
    <2>1. b * (f + (d + 1)) = b * f + b * (d + 1)
      BY <1>1, ProductOfSum
    <2>2. b * k \in Nat /\ b * f \in Nat /\ b * (d + 1) \in Nat
      BY <1>1, ProductGrows
    <2> QED  BY <1>1, <2>1, <2>2
  <1>3. ~(f + (d + 1) <= k)
    <2>1. SUFFICES ASSUME f + (d + 1) <= k  PROVE FALSE
      OBVIOUS
    <2>2. b * (f + (d + 1)) <= b * k
      BY <1>1, <2>1, ProductGrows
    <2>3. b * k \in Int /\ b * (f + (d + 1)) \in Int
      BY <1>1, ProductGrows
    <2> QED  BY <1>2, <2>2, <2>3
  <1>4. k <= f + d
    BY <1>1, <1>3
  <1> QED  BY <1>1, <1>4 DEF d

-------------------------------------------------------------------------------
(* The rewritings of a row.                                                *)

\* The retry budget is at least one attempt, whatever the setting.
LEMMA BudgetPositive == Budget \in Nat /\ Budget >= 1
  BY MaxAttemptsAssumption DEF Budget

\* Setting the delivery columns leaves a row of the table's type and status.
LEMMA DeliverySet ==
  ASSUME NEW r \in Row, NEW n \in Nat,
         NEW v \in {"none", "pending", "success", "failed"},
         NEW t \in {"null", "due", "later"}
  PROVE  LET m == SetDelivery(r, n, v, t)
         IN  /\ m \in Row /\ m.status = r.status /\ m.attempts = n
             /\ m.delivery = v /\ m.nextAt = t
  BY DEF Row, SetDelivery

\* DeliverySet for a delivery that is given up.
LEMMA GivenUpSet ==
  ASSUME NEW r \in Row, NEW n \in Nat
  PROVE  /\ SetDelivery(r, n, "failed", "null") \in Row
         /\ SetDelivery(r, n, "failed", "null").status = r.status
         /\ SetDelivery(r, n, "failed", "null").attempts = n
         /\ SetDelivery(r, n, "failed", "null").delivery = "failed"
         /\ SetDelivery(r, n, "failed", "null").nextAt = "null"
  BY DeliverySet

\* DeliverySet for a delivery that is tried again later.
LEMMA PutOffSet ==
  ASSUME NEW r \in Row, NEW n \in Nat
  PROVE  /\ SetDelivery(r, n, "pending", "later") \in Row
         /\ SetDelivery(r, n, "pending", "later").status = r.status
         /\ SetDelivery(r, n, "pending", "later").attempts = n
         /\ SetDelivery(r, n, "pending", "later").delivery = "pending"
         /\ SetDelivery(r, n, "pending", "later").nextAt = "later"
  BY DeliverySet

\* An outcome set and queued gives a consistent row, whatever it was before.
LEMMA OutcomeQueued ==
  ASSUME NEW r \in Row, NEW s \in TerminalStatus
  PROVE  LET m == markForCallbackDelivery(SetStatus(r, s))
         IN  /\ m \in Row /\ RowConsistent(m) /\ m.status = s
             /\ m.delivery = "pending" /\ m.nextAt = "due"
  <1> DEFINE q == SetStatus(r, s)
             m == markForCallbackDelivery(q)
  <1>1. s \in Status
    BY DEF TerminalStatus, Status
  <1>2. q \in Row /\ q.status = s
    BY <1>1 DEF SetStatus, Row
  <1> HIDE DEF q
  <1>3. /\ m \in Row /\ m.status = s /\ m.delivery = "pending"
        /\ m.nextAt = "due" /\ m.attempts = 0
    BY <1>2 DEF markForCallbackDelivery, SetDelivery, Row
  <1> HIDE DEF m
  <1>4. RowConsistent(m)
    BY <1>3, BudgetPositive DEF RowConsistent
  <1>5. /\ m \in Row /\ RowConsistent(m) /\ m.status = s
        /\ m.delivery = "pending" /\ m.nextAt = "due"
    BY <1>3, <1>4
  <1> QED  BY <1>5 DEF m, q

\* A webhook leaves the row as it is or queues a new outcome
\* (HandleProviderCallback).
LEMMA CallbackKeeps ==
  ASSUME NEW r \in Row, RowConsistent(r), NEW s \in {"none", "paid", "expired"}
  PROVE  LET m == CallbackApplied(r, s)
         IN  /\ m \in Row /\ RowConsistent(m)
             /\ m # r => m.status = s /\ s \in TerminalStatus
  <1>1. CASE s = "none" \/ s = r.status
    BY <1>1 DEF CallbackApplied
  <1>2. CASE ~(s = "none" \/ s = r.status)
    <2>1. s \in TerminalStatus
      BY <1>2 DEF TerminalStatus
    <2>2. CallbackApplied(r, s) = markForCallbackDelivery(SetStatus(r, s))
      BY <1>2, <2>1 DEF CallbackApplied, terminalStatus
    <2> QED  BY <2>1, <2>2, OutcomeQueued
  <1> QED  BY <1>1, <1>2

\* An answer from Stripe rewrites an open row consistently
\* (RunReconcileBatch).
LEMMA ReconciledKeeps ==
  ASSUME NEW r \in Row, RowConsistent(r), r.status \in OpenStatus,
         NEW s \in {"pending", "paid", "expired"}
  PROVE  LET m == Reconciled(r, s)
         IN  m \in Row /\ RowConsistent(m) /\ m.status = s
  <1>1. CASE s # "pending"
    <2>1. s \in TerminalStatus
      BY <1>1 DEF TerminalStatus
    <2>2. Reconciled(r, s) = markForCallbackDelivery(SetStatus(r, s))
      BY <2>1 DEF Reconciled, terminalStatus
    <2> QED  BY <2>1, <2>2, OutcomeQueued
  <1>2. CASE s = "pending"
    <2> DEFINE m == SetStatus(r, s)
    <2>1. s \in Status /\ s \notin TerminalStatus /\ s \in OpenStatus
      BY <1>2 DEF TerminalStatus, Status, OpenStatus
    <2>2. Reconciled(r, s) = m
      BY <2>1 DEF Reconciled, terminalStatus
    <2>3. /\ m \in Row /\ m.status = s /\ m.delivery = r.delivery
          /\ m.attempts = r.attempts /\ m.nextAt = r.nextAt
      BY <2>1 DEF SetStatus, Row
    <2> HIDE DEF m
    <2>4. RowConsistent(m)
      BY <2>1, <2>3 DEF RowConsistent, TerminalStatus, OpenStatus
    <2> QED  BY <2>2, <2>3, <2>4
  <1> QED  BY <1>1, <1>2

\* A pending timeout queues "expired" (RunExpirePendingBatch).
LEMMA ExpiredKeeps ==
  ASSUME NEW r \in Row
  PROVE  LET m == Expired(r)
         IN  m \in Row /\ RowConsistent(m) /\ m.status = "expired"
  <1>1. "expired" \in TerminalStatus
    BY DEF TerminalStatus
  <1> QED  BY <1>1, OutcomeQueued DEF Expired

\* A delivery made keeps the status and takes the row out of the queue
\* (dispatchCallback).
LEMMA DispatchedKeeps ==
  ASSUME NEW r \in Row, RowConsistent(r), r.delivery = "pending"
  PROVE  LET m == Dispatched(r)
         IN  /\ m \in Row /\ RowConsistent(m) /\ m.status = r.status
             /\ m.delivery = "success"
  <1> DEFINE m == Dispatched(r)
  <1>1. /\ m \in Row /\ m.status = r.status /\ m.delivery = "success"
        /\ m.nextAt = "null" /\ m.attempts = r.attempts
    BY DEF Dispatched, SetDelivery, Row
  <1> HIDE DEF m
  <1>2. RowConsistent(m)
    BY <1>1, BudgetPositive DEF RowConsistent
  <1> QED  BY <1>1, <1>2 DEF m

\* A failed one keeps the status; the row is given up, or queued a retry
\* interval ahead (recordDispatchFailure).
LEMMA DispatchFailedKeeps ==
  ASSUME NEW r \in Row, RowConsistent(r), r.delivery = "pending"
  PROVE  LET m == DispatchFailed(r)
         IN  /\ m \in Row /\ RowConsistent(m) /\ m.status = r.status /\ m # r
             /\ m.delivery = "pending" => m.nextAt = "later"
  <1>1. PICK m : m = DispatchFailed(r)
    OBVIOUS
  <1>2. PICK n : n = r.attempts + 1
    OBVIOUS
  <1>3. r.attempts \in Nat /\ n \in Nat /\ n <= Budget /\ n # r.attempts
    BY <1>2, BudgetPositive DEF Row, RowConsistent
  <1>4. m = IF n >= Budget THEN SetDelivery(r, n, "failed", "null")
                           ELSE SetDelivery(r, n, "pending", "later")
    BY <1>1, <1>2 DEF DispatchFailed
  <1>5. /\ m \in Row /\ m.status = r.status /\ m.attempts = n
        /\ \/ n = Budget /\ m.delivery = "failed" /\ m.nextAt = "null"
           \/ n < Budget /\ m.delivery = "pending" /\ m.nextAt = "later"
    <2>1. CASE n >= Budget
      BY <2>1, <1>3, <1>4, GivenUpSet, BudgetPositive
    <2>2. CASE ~(n >= Budget)
      BY <2>2, <1>3, <1>4, PutOffSet, BudgetPositive
    <2> QED  BY <2>1, <2>2
  <1>6. RowConsistent(m) /\ m # r
    BY <1>3, <1>5, BudgetPositive DEF RowConsistent
  <1> QED  BY <1>1, <1>5, <1>6

-------------------------------------------------------------------------------
(* The batches.                                                            *)

\* Every interval is positive.
LEMMA IntervalPositive == \A j \in Jobs : Interval(j) \in Nat \ {0}
  <1>1. /\ ReconcileInterval \in Nat \ {0} /\ ExpireInterval \in Nat \ {0}
        /\ DispatchInterval \in Nat \ {0}
    BY IntervalsAssumption
  <1> QED  BY <1>1 DEF Jobs, Interval

\* A batch is a finite part of what its query found.
LEMMA BatchInside ==
  ASSUME NEW found \in SUBSET Payments, NEW at, NEW B \in First(found, at)
  PROVE  /\ B \subseteq found /\ IsFiniteSet(found) /\ IsFiniteSet(B)
         /\ \A D \in SUBSET B : IsFiniteSet(D) /\ Cardinality(D) \in Nat
  <1>1. B \subseteq found
    BY DEF First
  <1>2. IsFiniteSet(found)
    BY BoundsAssumption, FS_Subset
  <1>3. IsFiniteSet(B)
    BY <1>1, <1>2, FS_Subset
  <1>4. ASSUME NEW D \in SUBSET B
        PROVE  IsFiniteSet(D) /\ Cardinality(D) \in Nat
    BY <1>3, FS_Subset, FS_CardinalityType
  <1> QED  BY <1>1, <1>2, <1>3, <1>4

\* A batch with room for every payment is all its query found.
LEMMA WholeBatch ==
  ASSUME NEW found \in SUBSET Payments, NEW at, NEW B \in First(found, at),
         BatchSize \in Nat, BatchHoldsAll
  PROVE  B = found
  <1>1. /\ Cardinality(found) \in Nat /\ Cardinality(Payments) \in Nat
        /\ Cardinality(found) <= Cardinality(Payments)
    BY BoundsAssumption, FS_Subset, FS_CardinalityType
  <1>2. Cardinality(found) <= BatchSize
    BY <1>1 DEF BatchHoldsAll
  <1>3. Cardinality(B) = Cardinality(found)
    BY <1>1, <1>2 DEF First
  <1> QED  BY <1>3, BatchInside, FS_Subset

\* A batch that leaves a row out is full of rows that come before it.
LEMMA FullBatch ==
  ASSUME NEW found \in SUBSET Payments, NEW at, NEW B \in First(found, at),
         BatchSize \in Nat, NEW p \in found \ B
  PROVE  Cardinality(B) = BatchSize /\ \A q \in B : at[q] <= at[p]
  <1>1. Cardinality(B) # Cardinality(found)
    BY BatchInside, FS_Subset
  <1>2. Cardinality(B) = BatchSize
    BY <1>1 DEF First
  <1>3. \A q \in B : at[q] <= at[p]
    BY DEF First
  <1> QED  BY <1>2, <1>3

\* The queries look among the payments.
LEMMA QueriesFind ==
  Stale \in SUBSET Payments /\ Overdue \in SUBSET Payments /\ Due \in SUBSET Payments
  BY DEF Stale, Overdue, Due

\* The items of a job's batch can be counted.
LEMMA BatchCounted ==
  ASSUME NEW B,
         \/ B \in ListForReconcile
         \/ B \in ListExpiredPending
         \/ B \in ListDueCallbackDispatch
  PROVE  IsFiniteSet(B) /\ \A D \in SUBSET B : IsFiniteSet(D) /\ Cardinality(D) \in Nat
  <1>1. PICK found, at : found \in SUBSET Payments /\ B \in First(found, at)
    BY QueriesFind DEF ListForReconcile, ListExpiredPending, ListDueCallbackDispatch
  <1> QED  BY <1>1, BatchInside

-------------------------------------------------------------------------------
(* What an UPDATE of several rows leaves.                                  *)

\* The type invariant, with the jobs of which ran speaks.
TypeInv == TypeOK /\ ran \in [Jobs -> Int]

\* A row whose outcome is to be delivered.
Queued(p) == Exists(p) /\ row[p].delivery = "pending"

\* The rows in C were written, each with a consistent entity.
Saved(C) ==
    /\ C \subseteq Payments
    /\ row' \in [Payments -> Row \cup {NoRow}]
    /\ created' \in [Payments -> 0..now]
    /\ updated' \in [Payments -> 0..now]
    /\ nextAt' \in [Payments -> 0..now + RetryInterval]
    /\ \A p \in Payments \ C : /\ row'[p] = row[p] /\ created'[p] = created[p]
                               /\ updated'[p] = updated[p] /\ nextAt'[p] = nextAt[p]
    /\ \A p \in C :
         /\ Exists(p) /\ row'[p] \in Row /\ RowConsistent(row'[p])
         /\ created'[p] = IF row'[p].status \in OpenStatus THEN created[p] ELSE 0
         /\ updated'[p] = IF row'[p].status \in OpenStatus THEN now ELSE 0
         /\ row'[p] = row[p] => nextAt'[p] = nextAt[p]
         /\ \/ /\ nextAt'[p] = nextAt[p]
               /\ row'[p].delivery = "pending" => row'[p] = row[p]
            \/ nextAt'[p] = now /\ row'[p].nextAt # "later"
            \/ nextAt'[p] = now + RetryInterval

\* StoreAll with consistent entities saves them.
LEMMA StoredIsSaved ==
  ASSUME TypeInv, NEW C \in SUBSET Payments, NEW new, StoreAll(C, new),
         \A p \in C : Exists(p) /\ new[p] \in Row /\ RowConsistent(new[p])
  PROVE  Saved(C) /\ \A p \in C : row'[p] = new[p]
  <1>1. /\ row \in [Payments -> Row \cup {NoRow}] /\ now \in Nat
        /\ created \in [Payments -> 0..now] /\ updated \in [Payments -> 0..now]
        /\ nextAt \in [Payments -> 0..now + RetryInterval]
        /\ RetryInterval \in Nat \ {0}
    BY IntervalsAssumption, BoundsAssumption DEF TypeInv, TypeOK
  <1>2. /\ row' = [p \in Payments |-> IF p \in C THEN new[p] ELSE row[p]]
        /\ created' = [p \in Payments |->
             IF p \in C /\ new[p].status \notin OpenStatus THEN 0 ELSE created[p]]
        /\ updated' = [p \in Payments |->
             IF p \in C /\ new[p].status \notin OpenStatus THEN 0
             ELSE IF p \in C THEN now ELSE updated[p]]
        /\ nextAt' = [p \in Payments |->
             IF ~(p \in C /\ new[p].delivery = "pending" /\ new[p] # row[p]) THEN nextAt[p]
             ELSE IF new[p].nextAt = "later" THEN now + RetryInterval ELSE now]
    BY DEF StoreAll
  <1>3. /\ row' \in [Payments -> Row \cup {NoRow}]
        /\ \A p \in C : row'[p] = new[p]
    BY <1>1, <1>2
  <1>4. /\ created' \in [Payments -> 0..now]
        /\ updated' \in [Payments -> 0..now]
    BY <1>1, <1>2
  <1>5. nextAt' \in [Payments -> 0..now + RetryInterval]
    BY <1>1, <1>2
  <1>6. \A p \in Payments \ C :
          /\ row'[p] = row[p] /\ created'[p] = created[p]
          /\ updated'[p] = updated[p] /\ nextAt'[p] = nextAt[p]
    BY <1>2
  <1>7. \A p \in C :
          /\ Exists(p) /\ row'[p] \in Row /\ RowConsistent(row'[p])
          /\ created'[p] = IF row'[p].status \in OpenStatus THEN created[p] ELSE 0
          /\ updated'[p] = IF row'[p].status \in OpenStatus THEN now ELSE 0
    BY <1>2, <1>3
  <1>8. \A p \in C : row'[p] = row[p] => nextAt'[p] = nextAt[p]
    BY <1>2, <1>3
  <1>9. \A p \in C :
          \/ /\ nextAt'[p] = nextAt[p]
             /\ row'[p].delivery = "pending" => row'[p] = row[p]
          \/ nextAt'[p] = now /\ row'[p].nextAt # "later"
          \/ nextAt'[p] = now + RetryInterval
    BY <1>2, <1>3
  <1> QED  BY <1>3, <1>4, <1>5, <1>6, <1>7, <1>8, <1>9 DEF Saved

\* Writes keep the type invariant, given the rest of the step's bookkeeping.
LEMMA SavedTypes ==
  ASSUME TypeInv, NEW C, Saved(C), UNCHANGED <<BatchSize, now, session>>,
         unnoticed' \in [Payments -> Nat], passed' \in [Payments -> Nat],
         faults' \in 0..MaxFaults, ran' \in [Jobs -> Int],
         \A j \in Jobs : ran'[j] \in now - Interval(j) .. now,
         asked' \subseteq Payments,
         \A p \in asked' : IsOpen(p)'
  PROVE  TypeInv'
  <1>1. \A p \in Payments :
          Exists(p)' => created'[p] <= updated'[p] /\ RowConsistent(row'[p])
    <2> TAKE p \in Payments
    <2>1. CASE p \notin C
      BY <2>1 DEF Saved, TypeInv, TypeOK, Exists
    <2>2. CASE p \in C
      BY <2>2 DEF Saved, TypeInv, TypeOK, Exists
    <2> QED  BY <2>1, <2>2
  <1> QED  BY <1>1 DEF Saved, TypeInv, TypeOK

-------------------------------------------------------------------------------
(* What each operation writes.                                             *)

\* What the proofs need of the types.
LEMMA RowTypes ==
  ASSUME TypeInv
  PROVE  /\ BatchSize \in Nat \ {0} /\ now \in Nat /\ faults \in Nat
         /\ created \in [Payments -> Nat] /\ nextAt \in [Payments -> Nat]
         /\ updated \in [Payments -> Nat]
         /\ unnoticed \in [Payments -> Nat] /\ passed \in [Payments -> Nat]
         /\ ran \in [Jobs -> Int]
         /\ row \in [Payments -> Row \cup {NoRow}]
         /\ \A p \in Payments : Exists(p) => row[p] \in Row /\ RowConsistent(row[p])
  <1>1. /\ BatchSize \in Nat \ {0} /\ now \in Nat /\ faults \in Nat
        /\ ran \in [Jobs -> Int]
    BY BatchSizesAssumption, BoundsAssumption DEF TypeInv, TypeOK
  <1>2. created \in [Payments -> Nat] /\ updated \in [Payments -> Nat]
    BY <1>1 DEF TypeInv, TypeOK
  <1>3. nextAt \in [Payments -> Nat]
    BY <1>1, IntervalsAssumption DEF TypeInv, TypeOK
  <1>4. /\ row \in [Payments -> Row \cup {NoRow}]
        /\ \A p \in Payments : Exists(p) => row[p] \in Row /\ RowConsistent(row[p])
    BY DEF TypeInv, TypeOK, Exists
  <1>5. unnoticed \in [Payments -> Nat] /\ passed \in [Payments -> Nat]
    BY DEF TypeInv, TypeOK
  <1> QED  BY <1>1, <1>2, <1>3, <1>4, <1>5

\* A webhook writes its row: as it was, or with the outcome of its session.
LEMMA WebhookWrites ==
  ASSUME TypeInv, NEW p \in Payments, NEW s \in SessionEndings \cup {"none"},
         HandleProviderCallback(p, s)
  PROVE  /\ Saved({p})
         /\ row'[p] # row[p] =>
              row'[p].status = s /\ s \in TerminalStatus /\ s = session[p]
         /\ \/ row'[p] = row[p] /\ UNCHANGED <<asked, unnoticed, passed>>
            \/ /\ row'[p] # row[p]
               /\ asked' = asked \ {p}
               /\ unnoticed' = Forget(unnoticed, {p})
               /\ passed' = Forget(passed, {p})
  <1>1. PICK new : new = [q \in {p} |-> CallbackApplied(row[q], s)]
    OBVIOUS
  <1>2. /\ Exists(p) /\ StoreAll({p}, new) /\ (s = "none" \/ s = session[p])
        /\ IF new[p] = row[p] THEN UNCHANGED <<asked, unnoticed, passed>>
           ELSE /\ asked' = asked \ {p}
                /\ unnoticed' = Forget(unnoticed, {p})
                /\ passed' = Forget(passed, {p})
    BY <1>1 DEF HandleProviderCallback
  <1>3. new[p] = CallbackApplied(row[p], s) /\ s \in {"none", "paid", "expired"}
    BY <1>1, BoundsAssumption
  <1>4. row[p] \in Row /\ RowConsistent(row[p])
    BY <1>2, RowTypes
  <1>5. /\ new[p] \in Row /\ RowConsistent(new[p])
        /\ new[p] # row[p] => new[p].status = s /\ s \in TerminalStatus
    BY <1>3, <1>4, CallbackKeeps
  <1>6. Saved({p}) /\ row'[p] = new[p]
    <2>1. {p} \in SUBSET Payments
      OBVIOUS
    <2>2. \A q \in {p} : Exists(q) /\ new[q] \in Row /\ RowConsistent(new[q])
      BY <1>2, <1>5
    <2> QED  BY <1>2, <2>1, <2>2, StoredIsSaved
  <1> QED  BY <1>2, <1>5, <1>6 DEF TerminalStatus

\* The rows a reconcile run writes: Stripe answered, and with something new.
Answered(B, F) == {p \in B \ F : ProviderStatus(p) # row[p].status}

\* A reconcile run writes the open rows of which Stripe says something else.
LEMMA ReconcileWrites ==
  ASSUME TypeInv, NEW B \in ListForReconcile, NEW F \in SUBSET B,
         RunReconcileBatch(B, F), NEW C,
         C = Answered(B, F)
  PROVE  /\ Saved(C) /\ B \subseteq Stale
         /\ \A p \in C : /\ IsOpen(p) /\ row'[p].status = ProviderStatus(p)
                         /\ row'[p] # row[p]
         /\ asked' = (asked \cup (B \ F)) \ C
         /\ unnoticed' = Unnoticed(C)
         /\ passed' = Forget(passed, C)
  <1>1. PICK new : new = [p \in C |-> Reconciled(row[p], ProviderStatus(p))]
    OBVIOUS
  <1>2. /\ StoreAll(C, new)
        /\ asked' = (asked \cup (B \ F)) \ C
        /\ unnoticed' = Unnoticed(C)
        /\ passed' = Forget(passed, C)
    BY <1>1 DEF RunReconcileBatch, Answered
  <1>3. B \subseteq Stale /\ Stale \subseteq Payments
    BY DEF ListForReconcile, First, Stale
  <1>4. ASSUME NEW p \in C
        PROVE  /\ Exists(p) /\ IsOpen(p)
               /\ new[p] \in Row /\ RowConsistent(new[p])
               /\ new[p].status = ProviderStatus(p) /\ new[p] # row[p]
    <2>1. p \in Payments /\ IsOpen(p) /\ Exists(p) /\ ProviderStatus(p) # row[p].status
      BY <1>3 DEF Answered, Stale, IsOpen
    <2>2. ProviderStatus(p) \in {"pending", "paid", "expired"}
      BY <2>1 DEF ProviderStatus, TypeInv, TypeOK
    <2>3. row[p] \in Row /\ RowConsistent(row[p]) /\ row[p].status \in OpenStatus
      BY <2>1, RowTypes DEF IsOpen
    <2>4. new[p] = Reconciled(row[p], ProviderStatus(p))
      BY <1>1
    <2>5. /\ new[p] \in Row /\ RowConsistent(new[p])
          /\ new[p].status = ProviderStatus(p)
      BY <2>2, <2>3, <2>4, ReconciledKeeps
    <2> QED  BY <2>1, <2>5
  <1>5. Saved(C) /\ \A p \in C : row'[p] = new[p]
    <2>1. C \in SUBSET Payments
      BY <1>3 DEF Answered
    <2> QED  BY <1>2, <1>4, <2>1, StoredIsSaved
  <1> QED  BY <1>2, <1>3, <1>4, <1>5

\* An expire run writes "expired" to the overdue rows it does not fail on.
LEMMA ExpireWrites ==
  ASSUME TypeInv, NEW B \in ListExpiredPending, NEW F \in SUBSET B,
         RunExpirePendingBatch(B, F)
  PROVE  /\ Saved(B \ F) /\ B \subseteq Overdue
         /\ \A p \in B \ F : /\ IsOpen(p) /\ row'[p].status = "expired"
                             /\ row'[p] # row[p]
  <1>1. PICK new : new = [p \in B \ F |-> Expired(row[p])]
    OBVIOUS
  <1>2. StoreAll(B \ F, new)
    BY <1>1 DEF RunExpirePendingBatch
  <1>3. B \subseteq Overdue /\ Overdue \subseteq Payments
    BY DEF ListExpiredPending, First, Overdue
  <1>4. ASSUME NEW p \in B \ F
        PROVE  /\ Exists(p) /\ IsOpen(p)
               /\ new[p] \in Row /\ RowConsistent(new[p])
               /\ new[p].status = "expired" /\ new[p] # row[p]
    <2>1. p \in Payments /\ IsOpen(p) /\ Exists(p)
      BY <1>3 DEF Overdue, IsOpen
    <2>2. row[p] \in Row /\ row[p].status \in OpenStatus
      BY <2>1, RowTypes DEF IsOpen
    <2>3. new[p] = Expired(row[p])
      BY <1>1
    <2>4. new[p] \in Row /\ RowConsistent(new[p]) /\ new[p].status = "expired"
      BY <2>2, <2>3, ExpiredKeeps
    <2> QED  BY <2>1, <2>2, <2>4 DEF OpenStatus
  <1>5. Saved(B \ F) /\ \A p \in B \ F : row'[p] = new[p]
    <2>1. B \ F \in SUBSET Payments
      BY <1>3
    <2> QED  BY <1>2, <1>4, <2>1, StoredIsSaved
  <1> QED  BY <1>3, <1>4, <1>5

\* Failures of a batch are counted.
LEMMA FaultsCounted ==
  ASSUME TypeInv, NEW F, Cardinality(F) \in Nat, Failing(F)
  PROVE  faults' \in 0..MaxFaults /\ faults' = faults + Cardinality(F)
  BY BoundsAssumption DEF Failing, TypeInv, TypeOK

\* A dispatch run takes its rows out of the queue or puts them off; their
\* status stays.
LEMMA DispatchWrites ==
  ASSUME TypeInv, NEW B \in ListDueCallbackDispatch, NEW F \in SUBSET B,
         NEW A \in SUBSET (B \ F), RunDispatchCallbacksBatch(B, A, F)
  PROVE  /\ Saved(B \ F) /\ B \subseteq Due
         /\ \A p \in B \ F : /\ row'[p].status = row[p].status
                             /\ Queued(p)' => nextAt'[p] = now + RetryInterval
         /\ Cardinality(F) \in Nat /\ faults' = faults + Cardinality(F)
         /\ faults' \in 0..MaxFaults
  <1>1. PICK new : new = [p \in B \ F |-> IF p \in A THEN Dispatched(row[p])
                                          ELSE DispatchFailed(row[p])]
    OBVIOUS
  <1>2. StoreAll(B \ F, new)
    BY <1>1 DEF RunDispatchCallbacksBatch
  <1>3. B \subseteq Due /\ Due \subseteq Payments
    BY DEF ListDueCallbackDispatch, First, Due
  <1>4. ASSUME NEW p \in B \ F
        PROVE  /\ Exists(p) /\ new[p] \in Row /\ RowConsistent(new[p])
               /\ new[p].status = row[p].status
               /\ new[p].delivery = "pending" => new[p] # row[p] /\ new[p].nextAt = "later"
    <2>1. p \in Payments /\ Exists(p) /\ row[p].delivery = "pending"
      BY <1>3 DEF Due
    <2>2. row[p] \in Row /\ RowConsistent(row[p])
      BY <2>1, RowTypes
    <2>3. new[p] = IF p \in A THEN Dispatched(row[p]) ELSE DispatchFailed(row[p])
      BY <1>1
    <2>4. CASE p \in A
      BY <2>1, <2>2, <2>3, <2>4, DispatchedKeeps
    <2>5. CASE p \notin A
      BY <2>1, <2>2, <2>3, <2>5, DispatchFailedKeeps
    <2> QED  BY <2>4, <2>5
  <1>5. Saved(B \ F) /\ \A p \in B \ F : row'[p] = new[p]
    <2>1. B \ F \in SUBSET Payments
      BY <1>3
    <2> QED  BY <1>2, <1>4, <2>1, StoredIsSaved
  <1>6. ASSUME NEW p \in B \ F, Queued(p)'
        PROVE  nextAt'[p] = now + RetryInterval
    <2>1. row'[p] # row[p] /\ row'[p].nextAt = "later"  /\ row'[p].delivery = "pending"
      BY <1>4, <1>5, <1>6 DEF Queued
    <2> QED  BY <1>5, <2>1 DEF Saved
  <1>7. /\ Cardinality(F) \in Nat /\ faults' = faults + Cardinality(F)
        /\ faults' \in 0..MaxFaults
    <2>1. Cardinality(F) \in Nat
      BY BatchCounted
    <2> QED  BY <2>1, FaultsCounted DEF RunDispatchCallbacksBatch
  <1> QED  BY <1>3, <1>4, <1>5, <1>6, <1>7

-------------------------------------------------------------------------------
(* Types.                                                                  *)

\* A job that starts has just run.
LEMMA JobStarts ==
  ASSUME TypeInv, NEW j \in Jobs, Starts(j)
  PROVE  /\ now = ran[j] + Interval(j) /\ ran[j] < now
         /\ ran' \in [Jobs -> Int] /\ ran'[j] = now
         /\ \A i \in Jobs \ {j} : ran'[i] = ran[i]
         /\ \A i \in Jobs : ran'[i] \in now - Interval(i) .. now
  <1>1. now \in Nat /\ ran \in [Jobs -> Int]
    BY RowTypes
  <1>2. now = ran[j] + Interval(j) /\ ran' = [ran EXCEPT ![j] = now]
    BY DEF Starts
  <1>3. ran[j] < now
    BY <1>1, <1>2, IntervalPositive
  <1>4. /\ ran' \in [Jobs -> Int] /\ ran'[j] = now
        /\ \A i \in Jobs \ {j} : ran'[i] = ran[i]
    BY <1>1, <1>2
  <1>5. ASSUME NEW i \in Jobs
        PROVE  ran'[i] \in now - Interval(i) .. now
    <2>1. CASE i = j
      BY <1>1, <1>4, <2>1, IntervalPositive
    <2>2. CASE i # j
      BY <1>4, <2>2 DEF TypeInv, TypeOK
    <2> QED  BY <2>1, <2>2
  <1> QED  BY <1>2, <1>3, <1>4, <1>5

\* In a first state nothing has happened, and each job ran within its interval.
LEMMA InitialTypes == ASSUME Init  PROVE TypeInv
  <1>1. /\ ran \in [Jobs -> Int]
        /\ \A j \in Jobs : ran[j] \in 1 - Interval(j) .. 0
    <2>1. PICK r \in 1 - ReconcileInterval .. 0, e \in 1 - ExpireInterval .. 0,
               d \in 1 - DispatchInterval .. 0 :
                 ran = [reconcile |-> r, expire |-> e, dispatch |-> d]
      BY DEF Init
    <2>2. /\ ReconcileInterval \in Nat /\ ExpireInterval \in Nat
          /\ DispatchInterval \in Nat
      BY IntervalsAssumption
    <2>3. r \in Int /\ e \in Int /\ d \in Int
      BY <2>2
    <2>4. ran = [j \in Jobs |-> IF j = "reconcile" THEN r
                                ELSE IF j = "expire" THEN e ELSE d]
      BY <2>1 DEF Jobs
    <2> QED  BY <2>2, <2>3, <2>4 DEF Jobs, Interval
  <1>2. \A j \in Jobs : ran[j] \in 0 - Interval(j) .. 0
    BY <1>1, IntervalPositive
  <1>3. RetryInterval \in Nat /\ MaxFaults \in Nat /\ Horizon \in Nat
    BY IntervalsAssumption, BoundsAssumption
  <1>4. /\ created \in [Payments -> 0..now] /\ updated \in [Payments -> 0..now]
        /\ nextAt \in [Payments -> 0..now + RetryInterval]
    BY <1>3 DEF Init
  <1>5. \A p \in Payments : ~Exists(p)
    BY DEF Init, Exists
  <1>6. /\ BatchSize \in BatchSizes /\ now \in 0..Horizon
        /\ row \in [Payments -> Row \cup {NoRow}]
        /\ session \in [Payments -> {"open", "paid", "expired"}]
        /\ asked \subseteq {p \in Payments : IsOpen(p)}
        /\ unnoticed \in [Payments -> Nat] /\ passed \in [Payments -> Nat]
        /\ faults \in 0..MaxFaults /\ now = 0
    BY <1>3 DEF Init
  <1> QED  BY <1>1, <1>2, <1>4, <1>5, <1>6 DEF TypeInv, TypeOK

\* Time passes and no job misses its tick.
LEMMA TickTypes == ASSUME TypeInv, Tick  PROVE TypeInv'
  <1>1. /\ now \in Nat /\ now' = now + 1 /\ now' \in 0..Horizon
        /\ Horizon \in Nat /\ RetryInterval \in Nat
    BY BoundsAssumption, IntervalsAssumption DEF Tick, TypeInv, TypeOK
  <1>2. /\ created' \in [Payments -> 0..now'] /\ updated' \in [Payments -> 0..now']
        /\ nextAt' \in [Payments -> 0..now' + RetryInterval]
    <2>1. 0..now \subseteq 0..now' /\ 0..now + RetryInterval \subseteq 0..now' + RetryInterval
      BY <1>1
    <2> QED  BY <2>1 DEF Tick, TypeInv, TypeOK
  <1>3. ASSUME NEW j \in Jobs
        PROVE  ran'[j] \in now' - Interval(j) .. now'
    <2>1. Interval(j) \in Nat /\ ran[j] \in Int /\ ran' = ran
      BY IntervalPositive DEF Tick, TypeInv
    <2>2. ran[j] <= now /\ now + 1 <= ran[j] + Interval(j)
      BY <1>1, <2>1 DEF Tick, TypeInv, TypeOK
    <2> QED  BY <1>1, <2>1, <2>2
  <1>4. \A j \in Jobs : Interval(j)' = Interval(j)
    BY DEF Interval
  <1>5. /\ asked' \subseteq {p \in Payments : IsOpen(p)'}
        /\ \A p \in Payments :
             Exists(p)' => created'[p] <= updated'[p] /\ RowConsistent(row'[p])
    BY DEF Tick, TypeInv, TypeOK, IsOpen, Exists
  <1> QED  BY <1>1, <1>2, <1>3, <1>4, <1>5 DEF Tick, TypeInv, TypeOK

\* A new row is consistent and as old as its last change.
LEMMA CreateTypes ==
  ASSUME TypeInv, NEW p \in Payments, CreatePayment(p)
  PROVE  /\ TypeInv' /\ row'[p] = InitialRow /\ ~Exists(p)
         /\ created'[p] = now /\ updated'[p] = now
         /\ \A q \in Payments \ {p} : /\ row'[q] = row[q] /\ created'[q] = created[q]
                                      /\ updated'[q] = updated[q]
  <1>1. InitialRow \in Row /\ RowConsistent(InitialRow)
    BY BudgetPositive DEF InitialRow, Row, RowConsistent, Status, OpenStatus, TerminalStatus
  <1>2. /\ row' \in [Payments -> Row \cup {NoRow}] /\ row'[p] = InitialRow
        /\ \A q \in Payments \ {p} : row'[q] = row[q]
    BY <1>1 DEF CreatePayment, TypeInv, TypeOK
  <1>3. /\ now \in 0..now
        /\ created' \in [Payments -> 0..now] /\ created'[p] = now
        /\ updated' \in [Payments -> 0..now] /\ updated'[p] = now
        /\ \A q \in Payments \ {p} : created'[q] = created[q] /\ updated'[q] = updated[q]
    BY RowTypes DEF CreatePayment, TypeInv, TypeOK
  <1>4. /\ ~Exists(p) /\ p \notin asked
        /\ UNCHANGED <<BatchSize, now, nextAt, ran, session, asked, unnoticed, passed, faults>>
    BY DEF CreatePayment, TypeInv, TypeOK, IsOpen
  <1>5. asked' \subseteq {q \in Payments : IsOpen(q)'}
    BY <1>2, <1>4 DEF TypeInv, TypeOK, IsOpen, Exists
  <1>6. ASSUME NEW q \in Payments, Exists(q)'
        PROVE  created'[q] <= updated'[q] /\ RowConsistent(row'[q])
    <2>1. CASE q = p
      BY <2>1, <1>1, <1>2, <1>3, RowTypes
    <2>2. CASE q # p
      BY <2>2, <1>2, <1>3, <1>6 DEF TypeInv, TypeOK, Exists
    <2> QED  BY <2>1, <2>2
  <1>7. \A j \in Jobs : Interval(j)' = Interval(j)
    BY DEF Interval
  <1>8. TypeInv'
    BY <1>2, <1>3, <1>4, <1>5, <1>6, <1>7 DEF TypeInv, TypeOK
  <1> QED  BY <1>2, <1>3, <1>4, <1>8

\* A session ends on Stripe's side only.
LEMMA SessionTypes ==
  ASSUME TypeInv, NEW p \in Payments, NEW s \in SessionEndings, SessionEnds(p, s)
  PROVE  TypeInv'
  <1>1. session' \in [Payments -> {"open", "paid", "expired"}]
    BY BoundsAssumption DEF SessionEnds, TypeInv, TypeOK
  <1>2. \A j \in Jobs : Interval(j)' = Interval(j)
    BY DEF Interval
  <1> QED  BY <1>1, <1>2 DEF SessionEnds, TypeInv, TypeOK, IsOpen, Exists

\* A webhook keeps the types.
LEMMA WebhookTypes ==
  ASSUME TypeInv, NEW p \in Payments, NEW s \in SessionEndings \cup {"none"},
         HandleProviderCallback(p, s)
  PROVE  TypeInv'
  <1>1. UNCHANGED <<BatchSize, now, ran, session, faults>>
    BY DEF HandleProviderCallback
  <1>2. unnoticed' \in [Payments -> Nat] /\ passed' \in [Payments -> Nat]
    <2>1. unnoticed \in [Payments -> Nat] /\ passed \in [Payments -> Nat]
      BY RowTypes
    <2>2. \/ unnoticed' = unnoticed /\ passed' = passed
          \/ unnoticed' = Forget(unnoticed, {p}) /\ passed' = Forget(passed, {p})
      BY WebhookWrites
    <2> QED  BY <2>1, <2>2 DEF Forget
  <1>3. asked' \subseteq asked /\ (p \in asked' => row'[p] = row[p])
    BY WebhookWrites
  <1>4. \A q \in asked' : IsOpen(q)'
    <2> TAKE q \in asked'
    <2>1. q \in Payments /\ IsOpen(q)
      BY <1>3 DEF TypeInv, TypeOK
    <2>2. row'[q] = row[q]
      BY <1>3, <2>1, WebhookWrites DEF Saved
    <2> QED  BY <2>1, <2>2 DEF IsOpen, Exists
  <1>5. asked' \subseteq Payments
    BY <1>3 DEF TypeInv, TypeOK
  <1> QED  BY <1>1, <1>2, <1>4, <1>5, WebhookWrites, SavedTypes DEF TypeInv, TypeOK

\* A reconcile run keeps the types: it has asked about rows that are open.
LEMMA ReconcileTypes ==
  ASSUME TypeInv, NEW B \in ListForReconcile, NEW F \in SUBSET B,
         RunReconcileBatch(B, F)
  PROVE  TypeInv'
  <1>1. PICK C : C = Answered(B, F)
    OBVIOUS
  <1>2. /\ Saved(C) /\ B \subseteq Stale
        /\ asked' = (asked \cup (B \ F)) \ C
        /\ unnoticed' = Unnoticed(C)
        /\ passed' = Forget(passed, C)
    BY <1>1, ReconcileWrites
  <1>3. unnoticed' \in [Payments -> Nat] /\ passed' \in [Payments -> Nat]
    BY <1>2, RowTypes DEF Forget, Unnoticed
  <1>4. asked' \subseteq Payments /\ \A p \in asked' : IsOpen(p)'
    BY <1>2 DEF Saved, Stale, IsOpen, Exists, TypeInv, TypeOK
  <1>5. faults' \in 0..MaxFaults
    <2>1. Cardinality(F) \in Nat
      BY BatchCounted
    <2> QED  BY <2>1, FaultsCounted DEF RunReconcileBatch
  <1>6. /\ ran' \in [Jobs -> Int]
        /\ \A i \in Jobs : ran'[i] \in now - Interval(i) .. now
    BY JobStarts DEF RunReconcileBatch, Jobs
  <1>7. UNCHANGED <<BatchSize, now, session>>
    BY DEF RunReconcileBatch
  <1> QED  BY <1>2, <1>3, <1>4, <1>5, <1>6, <1>7, SavedTypes

\* An expire run keeps the types.
LEMMA ExpireTypes ==
  ASSUME TypeInv, NEW B \in ListExpiredPending, NEW F \in SUBSET B,
         RunExpirePendingBatch(B, F)
  PROVE  TypeInv'
  <1>1. /\ asked' = asked \ (B \ F)
        /\ unnoticed' = Forget(unnoticed, B \ F)
        /\ passed' = Forget(passed, B \ F)
        /\ UNCHANGED <<BatchSize, now, session>>
    BY DEF RunExpirePendingBatch
  <1>2. unnoticed' \in [Payments -> Nat] /\ passed' \in [Payments -> Nat]
    BY <1>1, RowTypes DEF Forget
  <1>3. asked' \subseteq Payments /\ \A p \in asked' : IsOpen(p)'
    BY <1>1, ExpireWrites DEF Saved, IsOpen, Exists, TypeInv, TypeOK
  <1>4. faults' \in 0..MaxFaults
    <2>1. Cardinality(F) \in Nat
      BY BatchCounted
    <2> QED  BY <2>1, FaultsCounted DEF RunExpirePendingBatch
  <1>5. /\ ran' \in [Jobs -> Int]
        /\ \A i \in Jobs : ran'[i] \in now - Interval(i) .. now
    BY JobStarts DEF RunExpirePendingBatch, Jobs
  <1>6. Saved(B \ F)
    BY ExpireWrites
  <1> QED  BY <1>1, <1>2, <1>3, <1>4, <1>5, <1>6, SavedTypes

\* A dispatch run keeps the types: no open row is in its batch.
LEMMA DispatchTypes ==
  ASSUME TypeInv, NEW B \in ListDueCallbackDispatch, NEW F \in SUBSET B,
         NEW A \in SUBSET (B \ F), RunDispatchCallbacksBatch(B, A, F)
  PROVE  TypeInv'
  <1>1. /\ passed' = PassedOver(B)
        /\ UNCHANGED <<BatchSize, now, session, asked, unnoticed>>
    BY DEF RunDispatchCallbacksBatch
  <1>2. unnoticed' \in [Payments -> Nat] /\ passed' \in [Payments -> Nat]
    BY <1>1, RowTypes DEF PassedOver
  <1>3. Saved(B \ F) /\ \A p \in B \ F : row'[p].status = row[p].status
    BY DispatchWrites
  <1>4. asked' \subseteq Payments /\ \A p \in asked' : IsOpen(p)'
    <2>1. asked' = asked /\ asked \subseteq Payments
      BY <1>1 DEF TypeInv, TypeOK
    <2>2. ASSUME NEW p \in asked'  PROVE IsOpen(p)'
      <3>1. p \in Payments /\ IsOpen(p)
        BY <2>1 DEF TypeInv, TypeOK
      <3>2. CASE p \in B \ F
        BY <3>1, <3>2, <1>3, NoRowAssumption DEF Saved, IsOpen, Exists
      <3>3. CASE p \notin B \ F
        BY <3>1, <3>3, <1>3 DEF Saved, IsOpen, Exists
      <3> QED  BY <3>2, <3>3
    <2> QED  BY <2>1, <2>2
  <1>5. /\ ran' \in [Jobs -> Int]
        /\ \A i \in Jobs : ran'[i] \in now - Interval(i) .. now
    BY JobStarts DEF RunDispatchCallbacksBatch, Jobs
  <1>6. faults' \in 0..MaxFaults
    BY DispatchWrites
  <1> QED  BY <1>1, <1>2, <1>3, <1>4, <1>5, <1>6, SavedTypes

\* A run that ends at its SELECT writes no row, and is one failure.
LEMMA ListFailsTypes ==
  ASSUME TypeInv, NEW j \in Jobs, ListFails(j)
  PROVE  /\ TypeInv' /\ faults' = faults + 1
         /\ UNCHANGED <<BatchSize, now, row, created, updated, nextAt, session, asked>>
  <1>1. /\ faults' = faults + 1
        /\ UNCHANGED <<BatchSize, now, row, created, updated, nextAt, session, asked>>
    BY DEF ListFails
  <1>2. unnoticed' \in [Payments -> Nat] /\ passed' \in [Payments -> Nat]
    BY RowTypes DEF ListFails, Unnoticed, PassedOver
  <1>3. faults' \in 0..MaxFaults
    BY BoundsAssumption DEF ListFails, TypeInv, TypeOK
  <1>4. /\ ran' \in [Jobs -> Int]
        /\ \A i \in Jobs : ran'[i] \in now - Interval(i) .. now
    BY JobStarts DEF ListFails
  <1>5. \A i \in Jobs : Interval(i)' = Interval(i)
    BY DEF Interval
  <1>6. TypeInv'
    BY <1>1, <1>2, <1>3, <1>4, <1>5 DEF TypeInv, TypeOK, IsOpen, Exists
  <1> QED  BY <1>1, <1>6

\* To write no row is to save the empty set of rows.
LEMMA NothingSaved ==
  ASSUME TypeInv, NEW j \in Jobs, ListFails(j)
  PROVE  Saved({})
  BY ListFailsTypes DEF Saved, TypeInv, TypeOK

\* Every step keeps the types.
LEMMA StepTypes == ASSUME TypeInv, [Next]_vars  PROVE TypeInv'
  <1>1. CASE Tick
    BY <1>1, TickTypes
  <1>2. ASSUME NEW p \in Payments, CreatePayment(p)  PROVE TypeInv'
    BY <1>2, CreateTypes
  <1>3. ASSUME NEW p \in Payments, NEW s \in SessionEndings, SessionEnds(p, s)
        PROVE TypeInv'
    BY <1>3, SessionTypes
  <1>4. ASSUME NEW p \in Payments, NEW s \in SessionEndings \cup {"none"},
               HandleProviderCallback(p, s)
        PROVE TypeInv'
    BY <1>4, WebhookTypes
  <1>5. ASSUME NEW B \in ListForReconcile, NEW F \in SUBSET B, RunReconcileBatch(B, F)
        PROVE TypeInv'
    BY <1>5, ReconcileTypes
  <1>6. ASSUME NEW B \in ListExpiredPending, NEW F \in SUBSET B,
               RunExpirePendingBatch(B, F)
        PROVE TypeInv'
    BY <1>6, ExpireTypes
  <1>7. ASSUME NEW B \in ListDueCallbackDispatch, NEW F \in SUBSET B,
               NEW A \in SUBSET (B \ F), RunDispatchCallbacksBatch(B, A, F)
        PROVE TypeInv'
    BY <1>7, DispatchTypes
  <1>8. CASE UNCHANGED vars
    <2>1. \A j \in Jobs : Interval(j)' = Interval(j)
      BY DEF Interval
    <2> QED  BY <1>8, <2>1 DEF vars, TypeInv, TypeOK, IsOpen, Exists
  <1>9. ASSUME NEW j \in Jobs, ListFails(j)  PROVE TypeInv'
    BY <1>9, ListFailsTypes
  <1> QED  BY <1>1, <1>2, <1>3, <1>4, <1>5, <1>6, <1>7, <1>8, <1>9 DEF Next

\* The type invariant of the schedule, for every setting: rows stay consistent
\* under batches of every size, no instant lies ahead of what the code writes,
\* and no job misses a tick.
THEOREM ScheduleTypes == Spec => []TypeOK
  <1>1. Init => TypeInv
    BY InitialTypes
  <1>2. TypeInv /\ [Next]_vars => TypeInv'
    BY StepTypes
  <1>3. TypeInv => TypeOK
    BY DEF TypeInv
  <1> QED  BY <1>1, <1>2, <1>3, PTL DEF Spec

-------------------------------------------------------------------------------
(* A payment whose webhook was lost.                                       *)

\* A row that is open after a write was open before it, is as old as it was,
\* and is as young as the write.
LEMMA SavedOpen ==
  ASSUME TypeInv, NEW C, Saved(C), NEW p \in Payments, IsOpen(p)'
  PROVE  /\ created'[p] = created[p] /\ Exists(p)
         /\ p \in C => updated'[p] = now
         /\ p \notin C => IsOpen(p) /\ updated'[p] = updated[p]
  BY DEF Saved, IsOpen, Exists

\* A row in the queue has its outcome: it is not open.
LEMMA QueuedIsClosed ==
  ASSUME TypeInv, NEW p \in Payments, Queued(p)
  PROVE  row[p].status \notin OpenStatus
  <1>1. RowConsistent(row[p])
    BY RowTypes DEF Queued
  <1> QED  BY <1>1 DEF Queued, RowConsistent, TerminalStatus, OpenStatus

\* PaidIsNoticed is inductive: only a reconcile run counts, and the run that
\* counts a payment whose row it found has failed on it.
LEMMA StepNoticed ==
  ASSUME TypeInv, PaidIsNoticed, [Next]_vars
  PROVE  PaidIsNoticed'
  <1> SUFFICES ASSUME BatchHoldsAll', NEW p \in Payments
               PROVE  unnoticed'[p] <= faults'
    BY DEF PaidIsNoticed
  <1>1. BatchSize' = BatchSize
    BY DEF Next, vars, Tick, CreatePayment, SessionEnds, HandleProviderCallback,
           RunReconcileBatch, RunExpirePendingBatch, RunDispatchCallbacksBatch, ListFails
  <1>2. BatchHoldsAll /\ unnoticed[p] <= faults
    BY <1>1 DEF BatchHoldsAll, PaidIsNoticed
  <1>3. /\ unnoticed \in [Payments -> Nat] /\ faults \in Nat /\ BatchSize \in Nat
        /\ unnoticed[p] \in Nat
    BY RowTypes
  <1>4. CASE UNCHANGED <<unnoticed, faults>>
    BY <1>2, <1>4
  <1>5. ASSUME NEW q \in Payments, NEW s \in SessionEndings \cup {"none"},
               HandleProviderCallback(q, s)
        PROVE  unnoticed'[p] <= faults'
    <2>1. faults' = faults
      BY <1>5 DEF HandleProviderCallback
    <2>2. unnoticed' = unnoticed \/ unnoticed' = Forget(unnoticed, {q})
      BY <1>5, WebhookWrites
    <2> QED  BY <1>2, <1>3, <2>1, <2>2 DEF Forget
  <1>6. ASSUME NEW B \in ListForReconcile, NEW F \in SUBSET B, RunReconcileBatch(B, F)
        PROVE  unnoticed'[p] <= faults'
    <2>1. PICK C : C = Answered(B, F)
      OBVIOUS
    <2>2. unnoticed'[p] = IF p \in C THEN 0
                          ELSE IF p \in Stale /\ session[p] = "paid"
                               THEN unnoticed[p] + 1 ELSE unnoticed[p]
      BY <1>6, <2>1, ReconcileWrites DEF Unnoticed
    <2>3. Cardinality(F) \in Nat /\ IsFiniteSet(F)
      BY BatchCounted
    <2>4. faults' = faults + Cardinality(F)
      BY <1>6, <2>3, FaultsCounted DEF RunReconcileBatch
    <2>5. CASE p \notin C /\ p \in Stale /\ session[p] = "paid"
      <3>1. p \in B
        <4>1. PICK found, at : found = Stale /\ at = updated
          OBVIOUS
        <4>2. B \in First(found, at) /\ found \in SUBSET Payments
          BY <4>1, QueriesFind DEF ListForReconcile
        <4>3. B = found
          BY <1>2, <1>3, <4>2, WholeBatch
        <4> QED  BY <2>5, <4>1, <4>3
      <3>2. ProviderStatus(p) # row[p].status
        BY <2>5 DEF ProviderStatus, Stale, IsOpen, OpenStatus
      <3>3. p \in F
        BY <2>1, <2>5, <3>1, <3>2 DEF Answered
      <3>4. Cardinality(F) # 0
        BY <2>3, <3>3, FS_EmptySet
      <3> QED  BY <1>2, <1>3, <2>2, <2>3, <2>4, <2>5, <3>4
    <2>6. CASE ~(p \notin C /\ p \in Stale /\ session[p] = "paid")
      BY <1>2, <1>3, <2>2, <2>3, <2>4, <2>6
    <2> QED  BY <2>5, <2>6
  <1>7. ASSUME NEW B \in ListExpiredPending, NEW F \in SUBSET B,
               RunExpirePendingBatch(B, F)
        PROVE  unnoticed'[p] <= faults'
    <2>1. Cardinality(F) \in Nat
      BY BatchCounted
    <2>2. faults' = faults + Cardinality(F) /\ unnoticed' = Forget(unnoticed, B \ F)
      BY <1>7, <2>1, FaultsCounted DEF RunExpirePendingBatch
    <2> QED  BY <1>2, <1>3, <2>1, <2>2 DEF Forget
  <1>8. ASSUME NEW B \in ListDueCallbackDispatch, NEW F \in SUBSET B,
               NEW A \in SUBSET (B \ F), RunDispatchCallbacksBatch(B, A, F)
        PROVE  unnoticed'[p] <= faults'
    <2>1. Cardinality(F) \in Nat /\ faults' = faults + Cardinality(F)
      BY <1>8, DispatchWrites
    <2>2. unnoticed' = unnoticed
      BY <1>8 DEF RunDispatchCallbacksBatch
    <2> QED  BY <1>2, <1>3, <2>1, <2>2
  <1>9. ASSUME NEW j \in Jobs, ListFails(j)  PROVE unnoticed'[p] <= faults'
    <2>1. unnoticed'[p] = unnoticed[p] \/ unnoticed'[p] = unnoticed[p] + 1
      BY <1>9 DEF ListFails, Unnoticed
    <2>2. faults' = faults + 1
      BY <1>9, ListFailsTypes
    <2> QED  BY <1>2, <1>3, <2>1, <2>2
  <1> QED
    BY <1>4, <1>5, <1>6, <1>7, <1>8, <1>9
    DEF Next, vars, Tick, CreatePayment, SessionEnds

\* A lost webhook of a payment costs one interval of the reconcile job, and one
\* more per failed call, wherever batches hold all that is open.
THEOREM PaidGetsNoticed == Spec => []PaidIsNoticed
  <1>1. Init => TypeInv /\ PaidIsNoticed
    BY InitialTypes DEF Init, PaidIsNoticed
  <1>2. TypeInv /\ PaidIsNoticed /\ [Next]_vars => TypeInv' /\ PaidIsNoticed'
    BY StepTypes, StepNoticed
  <1> QED  BY <1>1, <1>2, PTL DEF Spec

\* An open row nobody touched about which Stripe was not asked is not stale
\* for longer, at the last reconcile run, than the failures so far account for.
ReconcileAsks ==
    BatchHoldsAll =>
        \A p \in Payments :
            IsOpen(p) /\ updated[p] = created[p] /\ p \notin asked
            => ran["reconcile"] < created[p] + StaleAfter + ReconcileInterval * faults

\* Room for failures is room for more of them.
LEMMA MoreRoom ==
  ASSUME NEW f \in Nat, NEW g \in Nat, f <= g
  PROVE  /\ ReconcileInterval * f \in Nat /\ ReconcileInterval * g \in Nat
         /\ ReconcileInterval * f <= ReconcileInterval * g
         /\ f < g => ReconcileInterval * f + ReconcileInterval <= ReconcileInterval * g
  <1>1. ReconcileInterval \in Nat
    BY IntervalsAssumption
  <1>2. f < g => f + 1 <= g /\ ReconcileInterval * (f + 1) <= ReconcileInterval * g
    BY <1>1, ProductGrows
  <1> QED  BY <1>1, <1>2, ProductGrows, ProductOfNext

\* No step takes a failure back.
LEMMA FaultsGrow ==
  ASSUME TypeInv, [Next]_vars
  PROVE  faults' \in Nat /\ faults <= faults'
  <1>1. faults \in Nat
    BY RowTypes
  <1>2. CASE faults' = faults
    BY <1>1, <1>2
  <1>3. ASSUME NEW B \in ListForReconcile, NEW F \in SUBSET B, RunReconcileBatch(B, F)
        PROVE  faults' \in Nat /\ faults <= faults'
    <2>1. Cardinality(F) \in Nat
      BY BatchCounted
    <2>2. faults' = faults + Cardinality(F)
      BY <1>3, <2>1, FaultsCounted DEF RunReconcileBatch
    <2> QED  BY <1>1, <2>1, <2>2
  <1>4. ASSUME NEW B \in ListExpiredPending, NEW F \in SUBSET B,
               RunExpirePendingBatch(B, F)
        PROVE  faults' \in Nat /\ faults <= faults'
    <2>1. Cardinality(F) \in Nat
      BY BatchCounted
    <2>2. faults' = faults + Cardinality(F)
      BY <1>4, <2>1, FaultsCounted DEF RunExpirePendingBatch
    <2> QED  BY <1>1, <2>1, <2>2
  <1>5. ASSUME NEW B \in ListDueCallbackDispatch, NEW F \in SUBSET B,
               NEW A \in SUBSET (B \ F), RunDispatchCallbacksBatch(B, A, F)
        PROVE  faults' \in Nat /\ faults <= faults'
    <2>1. Cardinality(F) \in Nat /\ faults' = faults + Cardinality(F)
      BY <1>5, DispatchWrites
    <2> QED  BY <1>1, <2>1
  <1>6. ASSUME NEW j \in Jobs, ListFails(j)  PROVE faults' \in Nat /\ faults <= faults'
    <2>1. faults' = faults + 1
      BY <1>6 DEF ListFails
    <2> QED  BY <1>1, <2>1
  <1> QED
    BY <1>2, <1>3, <1>4, <1>5, <1>6
    DEF Next, vars, Tick, CreatePayment, SessionEnds, HandleProviderCallback

\* ReconcileAsks is inductive: a row that was written is as young as the write,
\* and a run that finds a row stale asks about it or has a failure to show.
LEMMA StepAsks ==
  ASSUME TypeInv, ReconcileAsks, [Next]_vars
  PROVE  ReconcileAsks'
  <1> DEFINE Within(p) == ran["reconcile"] < created[p] + StaleAfter + ReconcileInterval * faults
  <1> SUFFICES ASSUME BatchHoldsAll', NEW p \in Payments, IsOpen(p)',
                      updated'[p] = created'[p], p \notin asked'
               PROVE  Within(p)'
    BY DEF ReconcileAsks
  <1>1. BatchSize' = BatchSize
    BY DEF Next, vars, Tick, CreatePayment, SessionEnds, HandleProviderCallback,
           RunReconcileBatch, RunExpirePendingBatch, RunDispatchCallbacksBatch, ListFails
  <1>2. /\ BatchHoldsAll
        /\ IsOpen(p) /\ updated[p] = created[p] /\ p \notin asked => Within(p)
    BY <1>1 DEF BatchHoldsAll, ReconcileAsks
  <1>3. /\ now \in Nat /\ StaleAfter \in Nat \ {0} /\ BatchSize \in Nat
        /\ created[p] \in Nat /\ ran["reconcile"] \in Int
        /\ ran["reconcile"] <= now
    BY RowTypes, IntervalsAssumption DEF TypeInv, TypeOK, Jobs
  <1>4. /\ created'[p] \in Nat /\ ran'["reconcile"] \in Int
        /\ ReconcileInterval * faults \in Nat /\ ReconcileInterval * faults' \in Nat
        /\ ReconcileInterval * faults <= ReconcileInterval * faults'
        /\ faults < faults' =>
             ReconcileInterval * faults + ReconcileInterval <= ReconcileInterval * faults'
    <2>1. faults \in Nat /\ faults' \in Nat /\ faults <= faults'
      BY RowTypes, FaultsGrow
    <2>2. TypeInv'
      BY StepTypes
    <2>3. created'[p] \in Nat /\ ran'["reconcile"] \in Int
      BY <2>2, BoundsAssumption DEF TypeInv, TypeOK, Jobs
    <2> QED  BY <2>1, <2>3, MoreRoom
  \* A row as young as this instant is not stale yet.
  <1>5. ASSUME created'[p] = now, ran'["reconcile"] <= now  PROVE Within(p)'
    BY <1>3, <1>4, <1>5
  \* A row that is as it was, when the reconcile job did not run.
  <1>6. ASSUME IsOpen(p), updated[p] = created[p], created'[p] = created[p],
               p \notin asked, ran'["reconcile"] = ran["reconcile"]
        PROVE  Within(p)'
    BY <1>2, <1>3, <1>4, <1>6
  \* A row that is as it was, when the run that should have asked has failed.
  <1>7. ASSUME IsOpen(p), updated[p] = created[p], created'[p] = created[p],
               p \notin asked, Starts("reconcile"), faults < faults'
        PROVE  Within(p)'
    <2>1. ran'["reconcile"] = now /\ now = ran["reconcile"] + ReconcileInterval
      BY <1>7, JobStarts DEF Jobs, Interval
    <2>2. ReconcileInterval \in Nat
      BY IntervalsAssumption
    <2> QED  BY <1>2, <1>3, <1>4, <1>7, <2>1, <2>2
  <1>8. CASE UNCHANGED <<row, created, updated, ran, asked>>
    BY <1>6, <1>8 DEF IsOpen, Exists
  <1>9. ASSUME NEW q \in Payments, CreatePayment(q)  PROVE Within(p)'
    <2>1. ran' = ran /\ asked' = asked
      BY <1>9 DEF CreatePayment
    <2>2. CASE p = q
      BY <1>3, <1>5, <1>9, <2>1, <2>2, CreateTypes
    <2>3. CASE p # q
      BY <1>6, <1>9, <2>1, <2>3, CreateTypes DEF IsOpen, Exists
    <2> QED  BY <2>2, <2>3
  \* What the four writing steps have in common.
  <1>10. ASSUME NEW C, Saved(C), ran'["reconcile"] <= now
         PROVE  \/ Within(p)'
                \/ /\ p \notin C /\ IsOpen(p) /\ updated[p] = created[p]
                   /\ created'[p] = created[p]
    <2>1. /\ created'[p] = created[p]
          /\ p \in C => updated'[p] = now
          /\ p \notin C => IsOpen(p) /\ updated'[p] = updated[p]
      BY <1>10, SavedOpen
    <2> QED  BY <1>5, <1>10, <2>1
  <1>11. ASSUME NEW q \in Payments, NEW s \in SessionEndings \cup {"none"},
                HandleProviderCallback(q, s)
         PROVE  Within(p)'
    <2>1. ran' = ran
      BY <1>11 DEF HandleProviderCallback
    <2>2. \/ Within(p)'
          \/ /\ p \notin {q} /\ IsOpen(p) /\ updated[p] = created[p]
             /\ created'[p] = created[p]
      BY <1>3, <1>10, <1>11, <2>1, WebhookWrites
    <2>3. p # q => p \notin asked
      BY <1>11, WebhookWrites
    <2> QED  BY <1>6, <2>1, <2>2, <2>3
  <1>12. ASSUME NEW B \in ListForReconcile, NEW F \in SUBSET B, RunReconcileBatch(B, F)
         PROVE  Within(p)'
    <2>1. PICK C : C = Answered(B, F)
      OBVIOUS
    <2>2. Saved(C) /\ asked' = (asked \cup (B \ F)) \ C
      BY <1>12, <2>1, ReconcileWrites
    <2>3. ran'["reconcile"] = now /\ Starts("reconcile")
      BY <1>12, JobStarts DEF RunReconcileBatch, Jobs
    <2>4. \/ Within(p)'
          \/ /\ p \notin C /\ IsOpen(p) /\ updated[p] = created[p]
             /\ created'[p] = created[p]
      BY <1>3, <1>10, <2>2, <2>3
    <2>5. ASSUME p \notin C, IsOpen(p), updated[p] = created[p],
                 created'[p] = created[p]
          PROVE  Within(p)'
      <3>1. p \notin asked /\ p \notin B \ F
        BY <2>2, <2>5
      <3>2. CASE p \notin Stale
        <4>1. now < created[p] + StaleAfter
          BY <1>3, <2>5, <3>2 DEF Stale
        <4> QED  BY <1>3, <1>4, <2>3, <2>5, <4>1
      <3>3. CASE p \in Stale
        <4>1. PICK found, at : found = Stale /\ at = updated
          OBVIOUS
        <4>2. B \in First(found, at) /\ found \in SUBSET Payments
          BY <4>1, QueriesFind DEF ListForReconcile
        <4>3. B = found
          BY <1>2, <1>3, <4>2, WholeBatch
        <4>4. p \in F
          BY <3>1, <3>3, <4>1, <4>3
        <4>5. /\ Cardinality(F) \in Nat /\ Cardinality(F) # 0
              /\ faults' = faults + Cardinality(F)
          <5>1. Cardinality(F) \in Nat /\ IsFiniteSet(F)
            BY BatchCounted
          <5> QED  BY <1>12, <4>4, <5>1, FS_EmptySet, FaultsCounted DEF RunReconcileBatch
        <4>6. faults < faults'
          BY <4>5, RowTypes
        <4> QED  BY <1>7, <2>3, <2>5, <3>1, <4>6
      <3> QED  BY <3>2, <3>3
    <2> QED  BY <2>4, <2>5
  <1>13. ASSUME NEW B \in ListExpiredPending, NEW F \in SUBSET B,
                RunExpirePendingBatch(B, F)
         PROVE  Within(p)'
    <2>1. ran'["reconcile"] = ran["reconcile"] /\ asked' = asked \ (B \ F)
      BY <1>13, JobStarts DEF RunExpirePendingBatch, Jobs
    <2>2. \/ Within(p)'
          \/ /\ p \notin B \ F /\ IsOpen(p) /\ updated[p] = created[p]
             /\ created'[p] = created[p]
      BY <1>3, <1>10, <1>13, <2>1, ExpireWrites
    <2> QED  BY <1>6, <2>1, <2>2
  <1>14. ASSUME NEW B \in ListDueCallbackDispatch, NEW F \in SUBSET B,
                NEW A \in SUBSET (B \ F), RunDispatchCallbacksBatch(B, A, F)
         PROVE  Within(p)'
    <2>1. ran'["reconcile"] = ran["reconcile"] /\ asked' = asked
      BY <1>14, JobStarts DEF RunDispatchCallbacksBatch, Jobs
    <2>2. \/ Within(p)'
          \/ /\ IsOpen(p) /\ updated[p] = created[p]
             /\ created'[p] = created[p]
      BY <1>3, <1>10, <1>14, <2>1, DispatchWrites
    <2> QED  BY <1>6, <2>1, <2>2
  <1>15. ASSUME NEW j \in Jobs, ListFails(j)  PROVE Within(p)'
    <2>1. UNCHANGED <<row, created, updated, asked>> /\ faults' = faults + 1
      BY <1>15, ListFailsTypes
    <2>2. /\ IsOpen(p) /\ updated[p] = created[p] /\ created'[p] = created[p]
          /\ p \notin asked
      BY <2>1 DEF IsOpen, Exists
    <2>3. CASE j = "reconcile"
      BY <1>7, <1>15, <2>1, <2>2, <2>3, RowTypes DEF ListFails
    <2>4. CASE j # "reconcile"
      <3>1. ran'["reconcile"] = ran["reconcile"]
        BY <1>15, <2>4, JobStarts DEF ListFails, Jobs
      <3> QED  BY <1>6, <2>2, <3>1
    <2> QED  BY <2>3, <2>4
  <1> QED
    BY <1>8, <1>9, <1>11, <1>12, <1>13, <1>14, <1>15 DEF Next, vars, Tick, SessionEnds

\* A row becomes "expired" by a webhook of its session, or by the expire job
\* when the reconcile job has asked; the pending timeout has room for the runs
\* that failed.
LEMMA ExpiredWasAsked ==
  ASSUME TypeInv, ReconcileAsks, [Next]_vars,
         NEW p \in Payments, BatchHoldsAll,
         StaleAfter + ReconcileInterval * (1 + faults) <= PendingTimeout,
         IsOpen(p), updated[p] = created[p],
         row'[p].status = "expired", session[p] # "expired"
  PROVE  p \in asked
  <1>1. row'[p] # row[p] /\ Exists(p)
    BY DEF IsOpen, OpenStatus
  <1>2. CASE UNCHANGED row
    BY <1>1, <1>2
  <1>3. ASSUME NEW q \in Payments, CreatePayment(q)  PROVE p \in asked
    BY <1>1, <1>3, CreateTypes
  <1>4. ASSUME NEW q \in Payments, NEW s \in SessionEndings \cup {"none"},
               HandleProviderCallback(q, s)
        PROVE  p \in asked
    <2>1. p = q
      BY <1>1, <1>4, WebhookWrites DEF Saved
    <2> QED  BY <1>1, <1>4, <2>1, WebhookWrites
  <1>5. ASSUME NEW B \in ListForReconcile, NEW F \in SUBSET B, RunReconcileBatch(B, F)
        PROVE  p \in asked
    <2>1. PICK C : C = Answered(B, F)
      OBVIOUS
    <2>2. p \in C
      BY <1>1, <1>5, <2>1, ReconcileWrites DEF Saved
    <2>3. row'[p].status = ProviderStatus(p)
      BY <1>5, <2>1, <2>2, ReconcileWrites
    <2> QED  BY <2>3 DEF ProviderStatus
  <1>6. ASSUME NEW B \in ListExpiredPending, NEW F \in SUBSET B,
               RunExpirePendingBatch(B, F)
        PROVE  p \in asked
    <2>1. p \in Overdue
      BY <1>1, <1>6, ExpireWrites DEF Saved
    <2>2. created[p] + PendingTimeout <= now
      BY <2>1 DEF Overdue
    <2>3. /\ ran["reconcile"] \in now - ReconcileInterval .. now
          /\ "reconcile" \in Jobs
      BY DEF TypeInv, TypeOK, Jobs, Interval
    <2>4. /\ now \in Nat /\ created[p] \in Nat /\ ran["reconcile"] \in Int
          /\ StaleAfter \in Nat /\ ReconcileInterval \in Nat /\ PendingTimeout \in Nat
          /\ faults \in Nat
      BY <2>3, RowTypes, IntervalsAssumption
    <2>5. /\ ReconcileInterval * (1 + faults) = ReconcileInterval * faults + ReconcileInterval
          /\ ReconcileInterval * faults \in Nat
      BY <2>4, ProductOfNext, ProductGrows
    <2>6. ~(ran["reconcile"] < created[p] + StaleAfter + ReconcileInterval * faults)
      BY <2>2, <2>3, <2>4, <2>5
    <2> QED  BY <2>6 DEF ReconcileAsks
  <1>7. ASSUME NEW B \in ListDueCallbackDispatch, NEW F \in SUBSET B,
               NEW A \in SUBSET (B \ F), RunDispatchCallbacksBatch(B, A, F)
        PROVE  p \in asked
    BY <1>1, <1>7, DispatchWrites DEF Saved, IsOpen, OpenStatus
  <1>8. ASSUME NEW j \in Jobs, ListFails(j)  PROVE p \in asked
    BY <1>1, <1>8, ListFailsTypes
  <1> QED
    BY <1>2, <1>3, <1>4, <1>5, <1>6, <1>7, <1>8 DEF Next, vars, Tick, SessionEnds

\* While the pending timeout leaves room for a reconcile run and for one more
\* per failure so far, no payment that nobody touched is expired by the clock
\* before Stripe was asked about it.
THEOREM ExpiredWereAsked == Spec => AskedBeforeExpired
  <1>1. Init => TypeInv /\ ReconcileAsks
    BY InitialTypes DEF Init, ReconcileAsks, IsOpen, Exists
  <1>2. TypeInv /\ ReconcileAsks /\ [Next]_vars => TypeInv' /\ ReconcileAsks'
    BY StepTypes, StepAsks
  <1>3. TypeInv /\ ReconcileAsks /\ [Next]_vars =>
        [\A p \in Payments :
           /\ BatchHoldsAll
           /\ StaleAfter + ReconcileInterval * (1 + faults) <= PendingTimeout
           /\ IsOpen(p) /\ updated[p] = created[p]
           /\ row'[p].status = "expired" /\ session[p] # "expired"
           => p \in asked]_vars
    BY ExpiredWasAsked
  <1> QED  BY <1>1, <1>2, <1>3, PTL DEF Spec, AskedBeforeExpired

-------------------------------------------------------------------------------
(* A payment that is overdue.                                              *)

\* Payments left out of one are fewer than payments.
LEMMA OthersCounted ==
  ASSUME NEW p \in Payments, NEW O \in SUBSET (Payments \ {p})
  PROVE  /\ IsFiniteSet(O) /\ Cardinality(O) \in Nat
         /\ Cardinality(Payments) - 1 \in Nat
         /\ Cardinality(O) <= Cardinality(Payments) - 1
  <1>1. IsFiniteSet(Payments) /\ Cardinality(Payments) \in Nat
    BY BoundsAssumption, FS_CardinalityType
  <1>2. /\ IsFiniteSet(Payments \ {p})
        /\ Cardinality(Payments \ {p}) = Cardinality(Payments) - 1
    BY <1>1, FS_RemoveElement
  <1> QED  BY <1>1, <1>2, FS_Subset, FS_CardinalityType

\* A batch of b payments of O, of which those in F stay, leaves so many fewer.
LEMMA BatchTaken ==
  ASSUME NEW p \in Payments, NEW O \in SUBSET (Payments \ {p}),
         NEW B \in SUBSET O, NEW F \in SUBSET B, NEW R \in SUBSET (O \ (B \ F))
  PROVE  Cardinality(R) <= Cardinality(O) - Cardinality(B) + Cardinality(F)
  <1>1. IsFiniteSet(O) /\ Cardinality(O) \in Nat
    BY OthersCounted
  <1>2. IsFiniteSet(B) /\ IsFiniteSet(F) /\ IsFiniteSet(B \ F)
    BY <1>1, FS_Subset
  <1>3. Cardinality(B \ F) = Cardinality(B) - Cardinality(F)
    <2>1. B \cap F = F
      OBVIOUS
    <2>2. Cardinality(B \ F) = Cardinality(B) - Cardinality(B \cap F)
      BY <1>2, FS_Difference
    <2> QED  BY <2>1, <2>2
  <1>4. /\ IsFiniteSet(O \ (B \ F))
        /\ Cardinality(O \ (B \ F)) = Cardinality(O) - Cardinality(B \ F)
    <2>1. O \cap (B \ F) = B \ F
      OBVIOUS
    <2>2. /\ IsFiniteSet(O \ (B \ F))
          /\ Cardinality(O \ (B \ F)) = Cardinality(O) - Cardinality(O \cap (B \ F))
      BY <1>1, <1>2, FS_Difference
    <2> QED  BY <2>1, <2>2
  <1>5. Cardinality(R) <= Cardinality(O \ (B \ F))
    BY <1>4, FS_Subset
  <1>6. /\ Cardinality(B) \in Nat /\ Cardinality(F) \in Nat /\ Cardinality(R) \in Nat
    BY <1>2, <1>4, FS_Subset, FS_CardinalityType
  <1> QED  BY <1>1, <1>3, <1>4, <1>5, <1>6

\* The payments the expire job would take before p, were they overdue.
OlderOpen(p) == {q \in Payments \ {p} : IsOpen(q) /\ created[q] <= created[p]}

\* The runs that found p overdue and left it open, k of them: each was full of
\* older payments, which are closed now, or has failed on as many as are not.
ExpireTurn(p) ==
    \E k \in Nat :
        /\ ran["expire"] < created[p] + PendingTimeout + ExpireInterval * k
        /\ BatchSize * k + Cardinality(OlderOpen(p))
             <= Cardinality(Payments) - 1 + BatchSize * faults

ExpireTurns == \A p \in Payments : IsOpen(p) => ExpireTurn(p)

\* No run has found the payment overdue yet.
LEMMA FirstTurn ==
  ASSUME NEW p \in Payments, NEW O \in SUBSET (Payments \ {p}),
         NEW r \in Int, NEW c \in Nat, NEW b \in Nat, NEW f \in Nat,
         r < c + PendingTimeout
  PROVE  \E k \in Nat : /\ r < c + PendingTimeout + ExpireInterval * k
                        /\ b * k + Cardinality(O) <= Cardinality(Payments) - 1 + b * f
  <1>1. /\ PendingTimeout \in Nat /\ ExpireInterval \in Nat
        /\ ExpireInterval * 0 = 0 /\ b * 0 = 0 /\ b * f \in Nat
    BY IntervalsAssumption, ProductGrows
  <1>2. /\ r < c + PendingTimeout + ExpireInterval * 0
        /\ b * 0 + Cardinality(O) <= Cardinality(Payments) - 1 + b * f
    BY <1>1, OthersCounted
  <1> QED  BY <1>2

\* The bound survives the closing of others and further failures.
LEMMA KeptTurn ==
  ASSUME NEW p \in Payments, NEW O \in SUBSET (Payments \ {p}), NEW R \in SUBSET O,
         NEW b \in Nat, NEW k \in Nat, NEW f \in Nat, NEW g \in Nat, f <= g,
         b * k + Cardinality(O) <= Cardinality(Payments) - 1 + b * f
  PROVE  b * k + Cardinality(R) <= Cardinality(Payments) - 1 + b * g
  <1>1. b * f <= b * g /\ b * f \in Nat /\ b * g \in Nat /\ b * k \in Nat
    BY ProductGrows
  <1>2. /\ Cardinality(O) \in Nat /\ Cardinality(R) \in Nat
        /\ Cardinality(Payments) - 1 \in Nat
        /\ Cardinality(R) <= Cardinality(O)
    <2>1. R \in SUBSET (Payments \ {p})
      OBVIOUS
    <2> QED  BY <2>1, OthersCounted, FS_Subset
  <1> QED  BY <1>1, <1>2

\* A run that fails on the payment is paid for by the failure.
LEMMA FailedTurn ==
  ASSUME NEW p \in Payments, NEW O \in SUBSET (Payments \ {p}), NEW R \in SUBSET O,
         NEW b \in Nat, NEW k \in Nat, NEW f \in Nat, NEW n \in Nat \ {0},
         b * k + Cardinality(O) <= Cardinality(Payments) - 1 + b * f
  PROVE  b * (k + 1) + Cardinality(R) <= Cardinality(Payments) - 1 + b * (f + n)
  <1>1. /\ b * (k + 1) = b * k + b /\ b * (f + n) = b * f + b * n
        /\ b * k \in Nat /\ b * f \in Nat /\ b * n \in Nat
    BY ProductOfNext, ProductOfSum, ProductGrows
  <1>2. b <= b * n
    <2>1. b * 1 = b /\ b * 1 <= b * n
      BY ProductGrows
    <2> QED  BY <2>1
  <1>3. /\ Cardinality(O) \in Nat /\ Cardinality(R) \in Nat
        /\ Cardinality(Payments) - 1 \in Nat
        /\ Cardinality(R) <= Cardinality(O)
    <2>1. R \in SUBSET (Payments \ {p})
      OBVIOUS
    <2> QED  BY <2>1, OthersCounted, FS_Subset
  <1> QED  BY <1>1, <1>2, <1>3

\* A run that is full of others is paid for by those it closes, and by its
\* failures.
LEMMA FullTurn ==
  ASSUME NEW p \in Payments, NEW O \in SUBSET (Payments \ {p}),
         NEW B \in SUBSET O, NEW F \in SUBSET B, NEW R \in SUBSET (O \ (B \ F)),
         NEW b \in Nat \ {0}, Cardinality(B) = b, NEW k \in Nat, NEW f \in Nat,
         b * k + Cardinality(O) <= Cardinality(Payments) - 1 + b * f
  PROVE  b * (k + 1) + Cardinality(R)
           <= Cardinality(Payments) - 1 + b * (f + Cardinality(F))
  <1> DEFINE n == Cardinality(F)
  <1>1. R \in SUBSET (Payments \ {p}) /\ F \in SUBSET (Payments \ {p})
    OBVIOUS
  <1>2. /\ n \in Nat /\ Cardinality(R) \in Nat /\ Cardinality(O) \in Nat
        /\ Cardinality(Payments) - 1 \in Nat
    BY <1>1, OthersCounted
  <1>3. Cardinality(R) <= Cardinality(O) - b + n
    BY BatchTaken
  <1> HIDE DEF n
  <1>4. /\ b * (k + 1) = b * k + b /\ b * (f + n) = b * f + b * n
        /\ b * k \in Nat /\ b * f \in Nat /\ b * n \in Nat /\ n <= b * n
    BY <1>2, ProductOfNext, ProductOfSum, ProductGrows, ProductAtLeast
  <1>5. b * (k + 1) + Cardinality(R) <= Cardinality(Payments) - 1 + b * (f + n)
    BY <1>2, <1>3, <1>4
  <1> QED  BY <1>5 DEF n

\* Writes that open no row leave no more payments ahead of an open one.
LEMMA SavedOlder ==
  ASSUME TypeInv, NEW C, Saved(C), \A q \in C : IsOpen(q)' => IsOpen(q),
         NEW p \in Payments, IsOpen(p)'
  PROVE  /\ IsOpen(p) /\ created'[p] = created[p]
         /\ OlderOpen(p)' \subseteq OlderOpen(p) \ {q \in C : ~IsOpen(q)'}
  <1>1. \A q \in Payments : IsOpen(q)' => IsOpen(q) /\ created'[q] = created[q]
    BY SavedOpen
  <1> QED  BY <1>1 DEF OlderOpen

\* The turn of a payment stays counted while its rows and the job's runs stay.
LEMMA TurnKept ==
  ASSUME TypeInv, TypeInv', NEW p \in Payments, ExpireTurn(p),
         created'[p] = created[p], OlderOpen(p)' \subseteq OlderOpen(p),
         ran'["expire"] = ran["expire"], BatchSize' = BatchSize, faults <= faults'
  PROVE  ExpireTurn(p)'
  <1>1. PICK k \in Nat :
          /\ ran["expire"] < created[p] + PendingTimeout + ExpireInterval * k
          /\ BatchSize * k + Cardinality(OlderOpen(p))
               <= Cardinality(Payments) - 1 + BatchSize * faults
    BY DEF ExpireTurn
  <1>2. PICK O, R : O = OlderOpen(p) /\ R = OlderOpen(p)'
    OBVIOUS
  <1>3. O \in SUBSET (Payments \ {p}) /\ R \in SUBSET O
    BY <1>2 DEF OlderOpen
  <1>4. PICK b, f, g : b = BatchSize /\ f = faults /\ g = faults'
    OBVIOUS
  <1>5. b \in Nat /\ f \in Nat /\ g \in Nat /\ f <= g
    BY <1>4, RowTypes, BoundsAssumption DEF TypeInv, TypeOK
  <1>6. b * k + Cardinality(R) <= Cardinality(Payments) - 1 + b * g
    BY <1>1, <1>2, <1>3, <1>4, <1>5, KeptTurn
  <1>7. /\ ran'["expire"] < created'[p] + PendingTimeout + ExpireInterval * k
        /\ BatchSize' * k + Cardinality(OlderOpen(p)')
             <= Cardinality(Payments) - 1 + BatchSize' * faults'
    BY <1>1, <1>2, <1>4, <1>6
  <1> QED  BY <1>7 DEF ExpireTurn

\* A payment that was not overdue at the last run has all its turns to come.
LEMMA TurnStarts ==
  ASSUME TypeInv', NEW p \in Payments,
         ran'["expire"] < created'[p] + PendingTimeout
  PROVE  ExpireTurn(p)'
  <1>1. PICK O, r, c, b, f : /\ O = OlderOpen(p)' /\ r = ran'["expire"]
                             /\ c = created'[p] /\ b = BatchSize' /\ f = faults'
    OBVIOUS
  <1>2. O \in SUBSET (Payments \ {p})
    BY <1>1 DEF OlderOpen
  <1>3. r \in Int /\ c \in Nat /\ b \in Nat /\ f \in Nat
    <2>1. /\ now' \in Nat /\ BatchSize' \in Nat /\ faults' \in Nat
      BY BatchSizesAssumption, BoundsAssumption DEF TypeInv, TypeOK
    <2> QED  BY <1>1, <2>1 DEF TypeInv, TypeOK, Jobs
  <1>4. \E k \in Nat : /\ r < c + PendingTimeout + ExpireInterval * k
                       /\ b * k + Cardinality(O) <= Cardinality(Payments) - 1 + b * f
    BY <1>1, <1>2, <1>3, FirstTurn
  <1> QED  BY <1>1, <1>4 DEF ExpireTurn

\* A step that writes rows, opens none and leaves the expire job's clock alone
\* leaves every payment its turns.
LEMMA TurnsSaved ==
  ASSUME TypeInv, TypeInv', ExpireTurns, NEW C, Saved(C),
         \A q \in C : IsOpen(q)' => IsOpen(q),
         ran'["expire"] = ran["expire"], BatchSize' = BatchSize, faults <= faults'
  PROVE  ExpireTurns'
  <1> SUFFICES ASSUME NEW p \in Payments, IsOpen(p)'
               PROVE  ExpireTurn(p)'
    BY DEF ExpireTurns
  <1>1. IsOpen(p) /\ created'[p] = created[p] /\ OlderOpen(p)' \subseteq OlderOpen(p)
    BY SavedOlder
  <1> QED  BY <1>1, TurnKept DEF ExpireTurns

\* A new payment is ahead only of those created in the same tick, which are
\* not overdue.
LEMMA TurnsCreate ==
  ASSUME TypeInv, TypeInv', ExpireTurns, NEW q \in Payments, CreatePayment(q)
  PROVE  ExpireTurns'
  <1> SUFFICES ASSUME NEW p \in Payments, IsOpen(p)'
               PROVE  ExpireTurn(p)'
    BY DEF ExpireTurns
  <1>1. /\ ran' = ran /\ BatchSize' = BatchSize /\ faults' = faults
    BY DEF CreatePayment
  <1>2. /\ ran["expire"] \in Int /\ ran["expire"] <= now /\ now \in Nat
        /\ PendingTimeout \in Nat \ {0} /\ faults \in Nat
        /\ created[p] \in Nat /\ created[p] <= now
    BY RowTypes, IntervalsAssumption DEF TypeInv, TypeOK, Jobs
  <1>3. /\ created'[q] = now
        /\ \A i \in Payments \ {q} : row'[i] = row[i] /\ created'[i] = created[i]
    BY CreateTypes
  <1>4. CASE created'[p] = now
    <2>1. ran'["expire"] < created'[p] + PendingTimeout
      BY <1>1, <1>2, <1>4
    <2> QED  BY <2>1, TurnStarts
  <1>5. CASE created'[p] # now
    <2>1. p # q /\ IsOpen(p) /\ created'[p] = created[p] /\ created[p] < now
      BY <1>2, <1>3, <1>5 DEF IsOpen, Exists
    <2>2. OlderOpen(p)' \subseteq OlderOpen(p)
      <3> SUFFICES ASSUME NEW i \in OlderOpen(p)'  PROVE i \in OlderOpen(p)
        OBVIOUS
      <3>1. i \in Payments \ {p} /\ IsOpen(i)' /\ created'[i] <= created'[p]
        BY DEF OlderOpen
      <3>2. i # q
        BY <1>2, <1>3, <2>1, <3>1
      <3> QED  BY <1>3, <2>1, <3>1, <3>2 DEF OlderOpen, IsOpen, Exists
    <2>3. ExpireTurn(p)
      BY <2>1 DEF ExpireTurns
    <2> QED  BY <1>1, <1>2, <2>1, <2>2, <2>3, TurnKept
  <1> QED  BY <1>4, <1>5

\* A run of the expire job gives one turn to every overdue payment it leaves
\* open.
LEMMA TurnsExpire ==
  ASSUME TypeInv, TypeInv', ExpireTurns,
         NEW B \in ListExpiredPending, NEW F \in SUBSET B, RunExpirePendingBatch(B, F)
  PROVE  ExpireTurns'
  <1> SUFFICES ASSUME NEW p \in Payments, IsOpen(p)'
               PROVE  ExpireTurn(p)'
    BY DEF ExpireTurns
  <1>1. /\ ran'["expire"] = now /\ now = ran["expire"] + ExpireInterval
        /\ BatchSize' = BatchSize
    BY JobStarts DEF RunExpirePendingBatch, Jobs, Interval
  <1>2. /\ Cardinality(F) \in Nat /\ IsFiniteSet(F)
        /\ faults' = faults + Cardinality(F)
    BY BatchCounted, FaultsCounted DEF RunExpirePendingBatch
  <1>3. /\ Saved(B \ F) /\ B \subseteq Overdue
        /\ \A q \in B \ F : IsOpen(q) /\ ~IsOpen(q)'
    BY ExpireWrites DEF IsOpen, OpenStatus
  <1>4. /\ IsOpen(p) /\ created'[p] = created[p] /\ p \notin B \ F
        /\ OlderOpen(p)' \subseteq OlderOpen(p) \ (B \ F)
    <2>1. /\ IsOpen(p) /\ created'[p] = created[p]
          /\ OlderOpen(p)' \subseteq OlderOpen(p) \ {q \in B \ F : ~IsOpen(q)'}
      BY <1>3, SavedOlder
    <2> QED  BY <1>3, <2>1
  <1>5. /\ now \in Nat /\ BatchSize \in Nat \ {0} /\ faults \in Nat
        /\ created[p] \in Nat /\ ran["expire"] \in Int
        /\ PendingTimeout \in Nat \ {0} /\ ExpireInterval \in Nat \ {0}
    BY RowTypes, IntervalsAssumption DEF Jobs
  <1>6. CASE now < created[p] + PendingTimeout
    BY <1>1, <1>4, <1>6, TurnStarts
  <1>7. CASE ~(now < created[p] + PendingTimeout)
    <2>1. p \in Overdue
      BY <1>4, <1>5, <1>7 DEF Overdue
    <2>2. PICK k \in Nat :
            /\ ran["expire"] < created[p] + PendingTimeout + ExpireInterval * k
            /\ BatchSize * k + Cardinality(OlderOpen(p))
                 <= Cardinality(Payments) - 1 + BatchSize * faults
      BY <1>4 DEF ExpireTurns, ExpireTurn
    <2>3. PICK O, R, b, f : O = OlderOpen(p) /\ R = OlderOpen(p)' /\ b = BatchSize /\ f = faults
      OBVIOUS
    <2>4. O \in SUBSET (Payments \ {p}) /\ R \in SUBSET (O \ (B \ F)) /\ R \in SUBSET O
      BY <1>4, <2>3 DEF OlderOpen
    <2>5. b \in Nat \ {0} /\ f \in Nat
      BY <1>5, <2>3
    <2>6. b * k + Cardinality(O) <= Cardinality(Payments) - 1 + b * f
      BY <2>2, <2>3
    <2>7. b * (k + 1) + Cardinality(R) <= Cardinality(Payments) - 1 + b * (f + Cardinality(F))
      <3>1. CASE p \in F
        <4>1. Cardinality(F) \in Nat \ {0}
          BY <1>2, <3>1, FS_EmptySet
        <4> QED  BY <2>4, <2>5, <2>6, <4>1, FailedTurn
      <3>2. CASE p \notin F
        <4>1. p \in Overdue \ B
          BY <1>4, <2>1, <3>2
        <4>2. PICK found, at : found = Overdue /\ at = created
          OBVIOUS
        <4>3. B \in First(found, at) /\ found \in SUBSET Payments /\ p \in found \ B
          BY <4>1, <4>2, QueriesFind DEF ListExpiredPending
        <4>4. Cardinality(B) = b /\ \A q \in B : created[q] <= created[p]
          BY <1>5, <2>3, <4>2, <4>3, FullBatch
        <4>5. B \in SUBSET O
          BY <1>3, <2>3, <4>1, <4>4 DEF OlderOpen, Overdue
        <4> QED  BY <2>4, <2>5, <2>6, <4>4, <4>5, FullTurn
      <3> QED  BY <3>1, <3>2
    <2>8. now < created[p] + PendingTimeout + ExpireInterval * (k + 1)
      <3>1. /\ ExpireInterval * (k + 1) = ExpireInterval * k + ExpireInterval
            /\ ExpireInterval * k \in Nat
        BY <1>5, ProductOfNext, ProductGrows
      <3> QED  BY <1>1, <1>5, <2>2, <3>1
    <2>9. /\ ran'["expire"] < created'[p] + PendingTimeout + ExpireInterval * (k + 1)
          /\ BatchSize' * (k + 1) + Cardinality(OlderOpen(p)')
               <= Cardinality(Payments) - 1 + BatchSize' * faults'
      BY <1>1, <1>2, <1>4, <2>3, <2>7, <2>8
    <2> QED  BY <2>9 DEF ExpireTurn
  <1> QED  BY <1>6, <1>7

\* A run of the expire job that ends at its SELECT is paid for by that failure.
LEMMA TurnsListFails ==
  ASSUME TypeInv, TypeInv', ExpireTurns, ListFails("expire")
  PROVE  ExpireTurns'
  <1> SUFFICES ASSUME NEW p \in Payments, IsOpen(p)'
               PROVE  ExpireTurn(p)'
    BY DEF ExpireTurns
  <1>1. UNCHANGED <<BatchSize, now, row, created>> /\ faults' = faults + 1
    BY ListFailsTypes DEF Jobs
  <1>2. ran'["expire"] = now /\ now = ran["expire"] + ExpireInterval
    BY JobStarts DEF ListFails, Jobs, Interval
  <1>3. ExpireTurn(p) /\ OlderOpen(p)' = OlderOpen(p)
    BY <1>1 DEF ExpireTurns, OlderOpen, IsOpen, Exists
  <1>4. PICK k \in Nat :
          /\ ran["expire"] < created[p] + PendingTimeout + ExpireInterval * k
          /\ BatchSize * k + Cardinality(OlderOpen(p))
               <= Cardinality(Payments) - 1 + BatchSize * faults
    BY <1>3 DEF ExpireTurn
  <1>5. PICK O, b, f : O = OlderOpen(p) /\ b = BatchSize /\ f = faults
    OBVIOUS
  <1>6. O \in SUBSET (Payments \ {p}) /\ O \in SUBSET O
    BY <1>5 DEF OlderOpen
  <1>7. /\ b \in Nat /\ f \in Nat /\ ran["expire"] \in Int /\ created[p] \in Nat
        /\ PendingTimeout \in Nat /\ ExpireInterval \in Nat
    BY <1>5, RowTypes, IntervalsAssumption DEF Jobs
  <1>8. b * k + Cardinality(O) <= Cardinality(Payments) - 1 + b * f
    BY <1>4, <1>5
  <1>9. b * (k + 1) + Cardinality(O) <= Cardinality(Payments) - 1 + b * (f + 1)
    <2>1. 1 \in Nat \ {0}
      OBVIOUS
    <2> QED  BY <1>6, <1>7, <1>8, <2>1, FailedTurn
  <1>10. now < created[p] + PendingTimeout + ExpireInterval * (k + 1)
    <2>1. /\ ExpireInterval * (k + 1) = ExpireInterval * k + ExpireInterval
          /\ ExpireInterval * k \in Nat
      BY <1>7, ProductOfNext, ProductGrows
    <2> QED  BY <1>2, <1>4, <1>7, <2>1
  <1>11. /\ ran'["expire"] < created'[p] + PendingTimeout + ExpireInterval * (k + 1)
         /\ BatchSize' * (k + 1) + Cardinality(OlderOpen(p)')
              <= Cardinality(Payments) - 1 + BatchSize' * faults'
    BY <1>1, <1>2, <1>3, <1>5, <1>9, <1>10
  <1> QED  BY <1>11 DEF ExpireTurn

\* ExpireTurns is inductive.
LEMMA StepTurns ==
  ASSUME TypeInv, ExpireTurns, [Next]_vars
  PROVE  ExpireTurns'
  <1>1. TypeInv'
    BY StepTypes
  <1>2. faults \in Nat
    BY RowTypes
  <1>3. CASE UNCHANGED <<BatchSize, row, created, ran, faults>>
    <2>1. \A p \in Payments : (IsOpen(p)' <=> IsOpen(p)) /\ created'[p] = created[p]
      BY <1>3 DEF IsOpen, Exists
    <2>2. \A p \in Payments : OlderOpen(p)' = OlderOpen(p)
      BY <2>1 DEF OlderOpen
    <2>3. ASSUME NEW p \in Payments, IsOpen(p)'  PROVE ExpireTurn(p)'
      BY <1>1, <1>2, <1>3, <2>1, <2>2, <2>3, TurnKept DEF ExpireTurns
    <2> QED  BY <2>3 DEF ExpireTurns
  <1>4. ASSUME NEW q \in Payments, CreatePayment(q)  PROVE ExpireTurns'
    BY <1>1, <1>4, TurnsCreate
  <1>5. ASSUME NEW q \in Payments, NEW s \in SessionEndings \cup {"none"},
               HandleProviderCallback(q, s)
        PROVE  ExpireTurns'
    <2>1. /\ BatchSize' = BatchSize /\ ran' = ran /\ faults' = faults
      BY <1>5 DEF HandleProviderCallback
    <2>2. IsOpen(q)' => IsOpen(q)
      BY <1>5, WebhookWrites DEF Saved, IsOpen, Exists, OpenStatus, TerminalStatus
    <2>3. Saved({q}) /\ \A p \in {q} : IsOpen(p)' => IsOpen(p)
      BY <1>5, <2>2, WebhookWrites
    <2> QED  BY <1>1, <1>2, <2>1, <2>3, TurnsSaved
  <1>6. ASSUME NEW B \in ListForReconcile, NEW F \in SUBSET B, RunReconcileBatch(B, F)
        PROVE  ExpireTurns'
    <2>1. PICK C : C = Answered(B, F)
      OBVIOUS
    <2>2. Saved(C) /\ \A q \in C : IsOpen(q)
      BY <1>6, <2>1, ReconcileWrites
    <2>3. BatchSize' = BatchSize /\ ran'["expire"] = ran["expire"]
      BY <1>6, JobStarts DEF RunReconcileBatch, Jobs
    <2>4. faults <= faults'
      BY <1>2, <1>6, BatchCounted, FaultsCounted DEF RunReconcileBatch
    <2> QED  BY <1>1, <2>2, <2>3, <2>4, TurnsSaved
  <1>7. ASSUME NEW B \in ListExpiredPending, NEW F \in SUBSET B,
               RunExpirePendingBatch(B, F)
        PROVE  ExpireTurns'
    BY <1>1, <1>7, TurnsExpire
  <1>8. ASSUME NEW B \in ListDueCallbackDispatch, NEW F \in SUBSET B,
               NEW A \in SUBSET (B \ F), RunDispatchCallbacksBatch(B, A, F)
        PROVE  ExpireTurns'
    <2>1. BatchSize' = BatchSize /\ ran'["expire"] = ran["expire"]
      BY <1>8, JobStarts DEF RunDispatchCallbacksBatch, Jobs
    <2>2. Saved(B \ F) /\ \A q \in B \ F : row'[q].status = row[q].status
      BY <1>8, DispatchWrites
    <2>3. \A q \in B \ F : IsOpen(q)' => IsOpen(q)
      BY <2>2 DEF Saved, IsOpen
    <2>4. faults <= faults'
      BY FaultsGrow
    <2> QED  BY <1>1, <2>1, <2>2, <2>3, <2>4, TurnsSaved
  <1>9. ASSUME NEW j \in Jobs, ListFails(j)  PROVE ExpireTurns'
    <2>1. UNCHANGED <<BatchSize, row, created>> /\ faults' = faults + 1
      BY <1>9, ListFailsTypes
    <2>2. CASE j = "expire"
      BY <1>1, <1>9, <2>1, <2>2, TurnsListFails
    <2>3. CASE j # "expire"
      <3>1. ran'["expire"] = ran["expire"]
        BY <1>9, <2>3, JobStarts DEF ListFails, Jobs
      <3>2. Saved({})
        BY <1>9, NothingSaved
      <3> QED  BY <1>1, <1>2, <2>1, <3>1, <3>2, TurnsSaved
    <2> QED  BY <2>2, <2>3
  <1> QED
    BY <1>3, <1>4, <1>5, <1>6, <1>7, <1>8, <1>9 DEF Next, vars, Tick, SessionEnds

\* So many turns cost so many ticks.
LEMMA TurnsBoundOpen ==
  ASSUME TypeInv, ExpireTurns
  PROVE  OpenIsBounded
  <1> SUFFICES ASSUME NEW p \in Payments, IsOpen(p)
               PROVE  now <= created[p] + PendingTimeout
                        + ExpireInterval * (1 + faults + (Cardinality(Payments) - 1) \div BatchSize)
    BY DEF OpenIsBounded
  <1>1. PICK k \in Nat :
          /\ ran["expire"] < created[p] + PendingTimeout + ExpireInterval * k
          /\ BatchSize * k + Cardinality(OlderOpen(p))
               <= Cardinality(Payments) - 1 + BatchSize * faults
    BY DEF ExpireTurns, ExpireTurn
  <1>2. PICK b, f, n, O : /\ b = BatchSize /\ f = faults /\ n = Cardinality(Payments) - 1
                          /\ O = OlderOpen(p)
    OBVIOUS
  <1>3. O \in SUBSET (Payments \ {p})
    BY <1>2 DEF OlderOpen
  <1>4. /\ b \in Nat \ {0} /\ f \in Nat /\ n \in Nat /\ Cardinality(O) \in Nat
        /\ b * k \in Nat /\ b * f \in Nat
    <2>1. b \in Nat \ {0} /\ f \in Nat
      BY <1>2, RowTypes
    <2>2. n \in Nat /\ Cardinality(O) \in Nat
      BY <1>2, <1>3, OthersCounted
    <2> QED  BY <2>1, <2>2, ProductGrows
  <1>5. b * k <= n + b * f
    <2>1. b * k + Cardinality(O) <= n + b * f
      BY <1>1, <1>2
    <2> QED  BY <1>4, <2>1
  <1>6. PICK d : d = n \div b
    OBVIOUS
  <1>7. d \in Nat /\ k <= f + d
    BY <1>4, <1>5, <1>6, FullBatches
  <1>8. /\ ran["expire"] \in Int /\ now \in Nat /\ created[p] \in Nat
        /\ PendingTimeout \in Nat /\ ExpireInterval \in Nat
        /\ now <= ran["expire"] + ExpireInterval
    <2>1. ran["expire"] \in now - ExpireInterval .. now
      BY DEF TypeInv, TypeOK, Jobs, Interval
    <2>2. /\ now \in Nat /\ created[p] \in Nat /\ ran["expire"] \in Int
          /\ PendingTimeout \in Nat /\ ExpireInterval \in Nat
      BY RowTypes, IntervalsAssumption DEF Jobs
    <2> QED  BY <2>1, <2>2
  <1>9. /\ ExpireInterval * (k + 1) = ExpireInterval * k + ExpireInterval
        /\ ExpireInterval * (k + 1) <= ExpireInterval * (1 + f + d)
        /\ ExpireInterval * k \in Nat /\ ExpireInterval * (1 + f + d) \in Nat
    <2>1. k + 1 \in Nat /\ 1 + f + d \in Nat /\ k + 1 <= 1 + f + d
      BY <1>4, <1>7
    <2>2. ExpireInterval * (k + 1) <= ExpireInterval * (1 + f + d)
      BY <1>8, <2>1, ProductGrows
    <2>3. ExpireInterval * k \in Nat /\ ExpireInterval * (1 + f + d) \in Nat
      BY <1>8, <2>1, ProductGrows
    <2> QED  BY <1>8, <2>2, <2>3, ProductOfNext
  <1>10. now <= created[p] + PendingTimeout + ExpireInterval * (1 + f + d)
    BY <1>1, <1>8, <1>9
  <1> QED  BY <1>2, <1>6, <1>10

\* No payment is open longer than the pending timeout and as many runs of the
\* expire job as full batches are needed for all payments, one more per
\* failure.
THEOREM OpenStaysBounded == Spec => []OpenIsBounded
  <1>1. Init => TypeInv /\ ExpireTurns
    BY InitialTypes DEF Init, ExpireTurns, IsOpen, Exists
  <1>2. TypeInv /\ ExpireTurns /\ [Next]_vars => TypeInv' /\ ExpireTurns'
    BY StepTypes, StepTurns
  <1>3. TypeInv /\ ExpireTurns => OpenIsBounded
    BY TurnsBoundOpen
  <1> QED  BY <1>1, <1>2, <1>3, PTL DEF Spec

-------------------------------------------------------------------------------
(* A delivery that is due.                                                 *)

\* The deliveries the dispatch job would make before that of p.
QueuedBefore(p) == {q \in Payments \ {p} : Queued(q) /\ nextAt[q] <= nextAt[p]}

\* The runs that left the due delivery of p out were full of deliveries that
\* came before it, of which only those a run failed on are before it still, or
\* had no batch at all; only in the tick it became due may one be queued beside
\* it again, and that tick has one run.
DispatchTurn(p) ==
    /\ nextAt[p] > now => passed[p] = 0
    /\ nextAt[p] = now => passed[p] = 0 \/ (passed[p] = 1 /\ ran["dispatch"] = now)
    /\ BatchSize * passed[p] + Cardinality(QueuedBefore(p))
         <= Cardinality(Payments) - 1 + BatchSize * (1 + faults)

DispatchTurns == \A p \in Payments : Queued(p) => DispatchTurn(p)

\* At most one run has left the delivery out.
LEMMA FirstPass ==
  ASSUME NEW p \in Payments, NEW O \in SUBSET (Payments \ {p}),
         NEW b \in Nat, NEW n \in {0, 1}, NEW f \in Nat
  PROVE  b * n + Cardinality(O) <= Cardinality(Payments) - 1 + b * (1 + f)
  <1>1. b * 0 = 0 /\ b * 1 = b
    OBVIOUS
  <1>2. b * n \in Nat /\ b * n <= b
    BY <1>1
  <1>3. b * (1 + f) \in Nat /\ b <= b * (1 + f)
    <2>1. 1 \in Nat /\ 1 + f \in Nat /\ 1 <= 1 + f
      OBVIOUS
    <2> QED  BY <1>1, <2>1, ProductGrows
  <1> QED  BY <1>2, <1>3, OthersCounted

\* A delivery that at most one run of this very tick has left out.
LEMMA PassStarts ==
  ASSUME TypeInv', NEW p \in Payments,
         nextAt'[p] > now' => passed'[p] = 0,
         \/ passed'[p] = 0
         \/ passed'[p] = 1 /\ (nextAt'[p] = now' => ran'["dispatch"] = now')
  PROVE  DispatchTurn(p)'
  <1>1. PICK O, b, n, f : /\ O = QueuedBefore(p)' /\ b = BatchSize' /\ n = passed'[p]
                          /\ f = faults'
    OBVIOUS
  <1>2. O \in SUBSET (Payments \ {p}) /\ n \in {0, 1}
    BY <1>1 DEF QueuedBefore
  <1>3. b \in Nat /\ f \in Nat
    BY <1>1, BatchSizesAssumption, BoundsAssumption DEF TypeInv, TypeOK
  <1>4. b * n + Cardinality(O) <= Cardinality(Payments) - 1 + b * (1 + f)
    BY <1>2, <1>3, FirstPass
  <1> QED  BY <1>1, <1>4 DEF DispatchTurn

\* A delivery no run has left out since, and that no other has come before.
LEMMA PassKept ==
  ASSUME TypeInv, TypeInv', NEW p \in Payments, DispatchTurn(p),
         nextAt'[p] = nextAt[p], passed'[p] = passed[p],
         QueuedBefore(p)' \subseteq QueuedBefore(p),
         BatchSize' = BatchSize, faults <= faults',
         \/ now' = now /\ ran'["dispatch"] = ran["dispatch"]
         \/ now' = now + 1
  PROVE  DispatchTurn(p)'
  <1>1. PICK O, R, b, n, f, g : /\ O = QueuedBefore(p) /\ R = QueuedBefore(p)'
                                /\ b = BatchSize /\ n = passed[p]
                                /\ f = 1 + faults /\ g = 1 + faults'
    OBVIOUS
  <1>2. O \in SUBSET (Payments \ {p}) /\ R \in SUBSET O
    BY <1>1 DEF QueuedBefore
  <1>3. /\ b \in Nat /\ n \in Nat /\ now \in Nat /\ nextAt[p] \in Nat
        /\ f \in Nat /\ g \in Nat /\ f <= g
    <2>1. faults \in Nat /\ faults' \in Nat
      BY BoundsAssumption DEF TypeInv, TypeOK
    <2> QED  BY <1>1, <2>1, RowTypes
  <1>4. b * n + Cardinality(O) <= Cardinality(Payments) - 1 + b * f
    BY <1>1 DEF DispatchTurn
  <1>5. b * n + Cardinality(R) <= Cardinality(Payments) - 1 + b * g
    BY <1>2, <1>3, <1>4, KeptTurn
  <1>6. /\ nextAt[p] > now => passed[p] = 0
        /\ nextAt[p] = now => passed[p] = 0 \/ (passed[p] = 1 /\ ran["dispatch"] = now)
    BY DEF DispatchTurn
  <1>7. /\ nextAt'[p] > now' => passed'[p] = 0
        /\ nextAt'[p] = now' =>
             passed'[p] = 0 \/ (passed'[p] = 1 /\ ran'["dispatch"] = now')
    BY <1>3, <1>6
  <1> QED  BY <1>1, <1>5, <1>7 DEF DispatchTurn

\* Outcomes are queued at the end of the order, or start their own turn.
LEMMA TurnsQueued ==
  ASSUME TypeInv, TypeInv', DispatchTurns, NEW C, Saved(C),
         \A q \in C : row'[q] # row[q],
         passed' = Forget(passed, C),
         UNCHANGED <<now, BatchSize>>, ran'["dispatch"] = ran["dispatch"],
         faults <= faults'
  PROVE  DispatchTurns'
  <1> SUFFICES ASSUME NEW p \in Payments, Queued(p)'
               PROVE  DispatchTurn(p)'
    BY DEF DispatchTurns
  <1>1. CASE p \in C
    <2>1. passed'[p] = 0
      BY <1>1 DEF Forget
    <2> QED  BY <2>1, PassStarts
  <1>2. CASE p \notin C
    <2>1. Queued(p) /\ nextAt'[p] = nextAt[p] /\ passed'[p] = passed[p]
      BY <1>2 DEF Saved, Queued, Exists, Forget
    <2>2. DispatchTurn(p)
      BY <2>1 DEF DispatchTurns
    <2>3. now \in Nat /\ nextAt[p] \in Nat /\ passed[p] \in Nat
      BY RowTypes
    <2>4. CASE nextAt[p] >= now
      BY <2>1, <2>2, <2>3, <2>4, PassStarts DEF DispatchTurn
    <2>5. CASE nextAt[p] < now
      <3>1. QueuedBefore(p)' \subseteq QueuedBefore(p)
        <4> SUFFICES ASSUME NEW q \in QueuedBefore(p)'  PROVE q \in QueuedBefore(p)
          OBVIOUS
        <4>1. q \in Payments \ {p} /\ Queued(q)' /\ nextAt'[q] <= nextAt'[p]
          BY DEF QueuedBefore
        <4>2. q \notin C
          <5>1. SUFFICES ASSUME q \in C  PROVE FALSE
            OBVIOUS
          <5>2. row'[q].delivery = "pending" /\ row'[q] # row[q]
            BY <4>1, <5>1 DEF Queued
          <5>3. nextAt'[q] = now \/ nextAt'[q] = now + RetryInterval
            BY <5>1, <5>2 DEF Saved
          <5> QED  BY <2>1, <2>3, <2>5, <4>1, <5>3, IntervalsAssumption
        <4> QED  BY <2>1, <4>1, <4>2 DEF Saved, QueuedBefore, Queued, Exists
      <3> QED  BY <2>1, <2>2, <3>1, PassKept
    <2> QED  BY <2>3, <2>4, <2>5
  <1> QED  BY <1>1, <1>2

\* What a run of the dispatch job makes of a due delivery it leaves out, when it
\* leaves R of the deliveries before it: the run is paid for, or this is the tick
\* in which the delivery became due.
LEMMA PassedOnce ==
  ASSUME TypeInv, TypeInv', NEW p \in Payments, Queued(p), DispatchTurn(p),
         Starts("dispatch"), UNCHANGED <<now, BatchSize>>, nextAt'[p] = nextAt[p],
         passed'[p] = IF p \in Due THEN passed[p] + 1 ELSE passed[p],
         nextAt[p] < now =>
           BatchSize * (passed[p] + 1) + Cardinality(QueuedBefore(p)')
             <= Cardinality(Payments) - 1 + BatchSize * (1 + faults')
  PROVE  DispatchTurn(p)'
  <1>1. ran'["dispatch"] = now /\ ran["dispatch"] < now
    BY JobStarts DEF Jobs
  <1>2. /\ now \in Nat /\ nextAt[p] \in Nat /\ passed[p] \in Nat
        /\ ran["dispatch"] \in Int
    BY RowTypes DEF Jobs
  <1>3. CASE nextAt[p] > now
    <2>1. p \notin Due /\ passed[p] = 0
      BY <1>2, <1>3 DEF Due, DispatchTurn
    <2> QED  BY <2>1, PassStarts
  <1>4. CASE nextAt[p] = now
    <2>1. passed[p] = 0
      BY <1>1, <1>2, <1>4 DEF DispatchTurn
    <2>2. passed'[p] = 0 \/ passed'[p] = 1
      BY <2>1
    <2> QED  BY <1>1, <1>2, <1>4, <2>2, PassStarts
  <1>5. CASE nextAt[p] < now
    <2>1. passed'[p] = passed[p] + 1
      BY <1>2, <1>5 DEF Due, Queued
    <2>2. /\ BatchSize' * passed'[p] + Cardinality(QueuedBefore(p)')
               <= Cardinality(Payments) - 1 + BatchSize' * (1 + faults')
          /\ nextAt'[p] < now'
      BY <1>5, <2>1
    <2> QED  BY <1>2, <2>2 DEF DispatchTurn
  <1> QED  BY <1>2, <1>3, <1>4, <1>5

\* A run of the dispatch job gives one turn to every due delivery it leaves
\* out.
LEMMA TurnsDispatch ==
  ASSUME TypeInv, TypeInv', DispatchTurns,
         NEW B \in ListDueCallbackDispatch, NEW F \in SUBSET B,
         NEW A \in SUBSET (B \ F), RunDispatchCallbacksBatch(B, A, F)
  PROVE  DispatchTurns'
  <1> SUFFICES ASSUME NEW p \in Payments, Queued(p)'
               PROVE  DispatchTurn(p)'
    BY DEF DispatchTurns
  <1>1. /\ Starts("dispatch") /\ BatchSize' = BatchSize /\ now' = now
        /\ passed'[p] = IF p \in B THEN 0
                        ELSE IF p \in Due THEN passed[p] + 1 ELSE passed[p]
    BY DEF RunDispatchCallbacksBatch, PassedOver
  <1>2. /\ Saved(B \ F) /\ B \subseteq Due
        /\ \A q \in B \ F : Queued(q)' => nextAt'[q] = now + RetryInterval
        /\ Cardinality(F) \in Nat /\ faults' = faults + Cardinality(F)
    BY DispatchWrites
  <1>3. /\ now \in Nat /\ nextAt[p] \in Nat /\ passed[p] \in Nat /\ faults \in Nat
        /\ BatchSize \in Nat \ {0} /\ RetryInterval \in Nat \ {0}
    BY RowTypes, IntervalsAssumption
  <1>4. CASE p \in B
    BY <1>1, <1>4, PassStarts
  <1>5. CASE p \notin B
    <2>1. Queued(p) /\ nextAt'[p] = nextAt[p]
      BY <1>2, <1>5 DEF Saved, Queued, Exists
    <2>2. DispatchTurn(p)
      BY <2>1 DEF DispatchTurns
    <2>3. ASSUME nextAt[p] < now
          PROVE  BatchSize * (passed[p] + 1) + Cardinality(QueuedBefore(p)')
                   <= Cardinality(Payments) - 1 + BatchSize * (1 + faults')
      <3>1. p \in Due \ B
        BY <1>3, <1>5, <2>1, <2>3 DEF Due, Queued
      <3>2. PICK found, at : found = Due /\ at = nextAt
        OBVIOUS
      <3>3. B \in First(found, at) /\ found \in SUBSET Payments /\ p \in found \ B
        BY <3>1, <3>2, QueriesFind DEF ListDueCallbackDispatch
      <3>4. Cardinality(B) = BatchSize /\ \A q \in B : nextAt[q] <= nextAt[p]
        BY <1>3, <3>2, <3>3, FullBatch
      <3>5. PICK O, R, b, n, f : /\ O = QueuedBefore(p) /\ R = QueuedBefore(p)'
                                 /\ b = BatchSize /\ n = passed[p] /\ f = 1 + faults
        OBVIOUS
      <3>6. O \in SUBSET (Payments \ {p}) /\ B \in SUBSET O
        BY <1>2, <1>5, <3>4, <3>5 DEF QueuedBefore, Due, Queued
      <3>7. R \in SUBSET (O \ (B \ F))
        <4> SUFFICES ASSUME NEW q \in QueuedBefore(p)'
                     PROVE  q \in QueuedBefore(p) /\ q \notin B \ F
          BY <3>5
        <4>1. q \in Payments \ {p} /\ Queued(q)' /\ nextAt'[q] <= nextAt'[p]
          BY DEF QueuedBefore
        <4>2. q \notin B \ F
          BY <1>2, <1>3, <2>1, <2>3, <4>1
        <4> QED  BY <1>2, <2>1, <4>1, <4>2 DEF Saved, QueuedBefore, Queued, Exists
      <3>8. b * n + Cardinality(O) <= Cardinality(Payments) - 1 + b * f
        BY <2>2, <3>5 DEF DispatchTurn
      <3>9. b \in Nat \ {0} /\ n \in Nat /\ f \in Nat /\ Cardinality(B) = b
        BY <1>3, <3>4, <3>5
      <3>10. b * (n + 1) + Cardinality(R)
               <= Cardinality(Payments) - 1 + b * (f + Cardinality(F))
        BY <3>6, <3>7, <3>8, <3>9, FullTurn
      <3>11. f + Cardinality(F) = 1 + faults'
        BY <1>2, <1>3, <3>5
      <3> QED  BY <3>5, <3>10, <3>11
    <2> QED  BY <1>1, <1>5, <2>1, <2>2, <2>3, PassedOnce
  <1> QED  BY <1>4, <1>5

\* A run of the dispatch job that ends at its SELECT is paid for by that failure.
LEMMA PassesListFails ==
  ASSUME TypeInv, TypeInv', DispatchTurns, ListFails("dispatch")
  PROVE  DispatchTurns'
  <1> SUFFICES ASSUME NEW p \in Payments, Queued(p)'
               PROVE  DispatchTurn(p)'
    BY DEF DispatchTurns
  <1>1. UNCHANGED <<BatchSize, now, row, nextAt>> /\ faults' = faults + 1
    BY ListFailsTypes DEF Jobs
  <1>2. /\ Starts("dispatch")
        /\ passed'[p] = IF p \in Due THEN passed[p] + 1 ELSE passed[p]
    BY DEF ListFails, PassedOver
  <1>3. Queued(p) /\ QueuedBefore(p)' = QueuedBefore(p)
    BY <1>1 DEF QueuedBefore, Queued, Exists
  <1>4. DispatchTurn(p)
    BY <1>3 DEF DispatchTurns
  <1>5. BatchSize * (passed[p] + 1) + Cardinality(QueuedBefore(p)')
          <= Cardinality(Payments) - 1 + BatchSize * (1 + faults')
    <2>1. PICK O, b, n, f : /\ O = QueuedBefore(p) /\ b = BatchSize /\ n = passed[p]
                            /\ f = 1 + faults
      OBVIOUS
    <2>2. O \in SUBSET (Payments \ {p}) /\ O \in SUBSET O
      BY <2>1 DEF QueuedBefore
    <2>3. b \in Nat /\ n \in Nat /\ f \in Nat /\ 1 \in Nat \ {0} /\ f + 1 = 1 + faults'
      BY <1>1, <2>1, RowTypes
    <2>4. b * n + Cardinality(O) <= Cardinality(Payments) - 1 + b * f
      BY <1>4, <2>1 DEF DispatchTurn
    <2>5. b * (n + 1) + Cardinality(O) <= Cardinality(Payments) - 1 + b * (f + 1)
      BY <2>2, <2>3, <2>4, FailedTurn
    <2> QED  BY <1>3, <2>1, <2>3, <2>5
  <1> QED  BY <1>1, <1>2, <1>3, <1>4, <1>5, PassedOnce

\* DispatchTurns is inductive.
LEMMA StepPasses ==
  ASSUME TypeInv, DispatchTurns, [Next]_vars
  PROVE  DispatchTurns'
  <1>1. TypeInv' /\ faults <= faults'
    BY StepTypes, FaultsGrow
  \* Steps that leave the queue and the runs over it alone.
  <1>2. ASSUME \A q \in Payments : Queued(q)' => Queued(q),
               UNCHANGED <<nextAt, passed, BatchSize, ran>>,
               now' = now \/ now' = now + 1
        PROVE  DispatchTurns'
    <2> SUFFICES ASSUME NEW p \in Payments, Queued(p)'
                 PROVE  DispatchTurn(p)'
      BY DEF DispatchTurns
    <2>1. QueuedBefore(p)' \subseteq QueuedBefore(p)
      BY <1>2 DEF QueuedBefore
    <2>2. DispatchTurn(p)
      BY <1>2 DEF DispatchTurns
    <2> QED  BY <1>1, <1>2, <2>1, <2>2, PassKept
  <1>3. CASE Tick \/ UNCHANGED vars
    <2>1. \A q \in Payments : Queued(q)' => Queued(q)
      BY <1>3 DEF Tick, vars, Queued, Exists
    <2> QED  BY <1>2, <1>3, <2>1 DEF Tick, vars
  <1>4. ASSUME NEW q \in Payments, CreatePayment(q)  PROVE DispatchTurns'
    <2>1. \A p \in Payments : Queued(p)' => Queued(p)
      BY <1>4, CreateTypes DEF Queued, Exists, InitialRow
    <2> QED  BY <1>2, <1>4, <2>1 DEF CreatePayment
  <1>5. ASSUME NEW q \in Payments, NEW s \in SessionEndings, SessionEnds(q, s)
        PROVE  DispatchTurns'
    <2>1. \A p \in Payments : Queued(p)' => Queued(p)
      BY <1>5 DEF SessionEnds, Queued, Exists
    <2> QED  BY <1>2, <1>5, <2>1 DEF SessionEnds
  <1>6. ASSUME NEW q \in Payments, NEW s \in SessionEndings \cup {"none"},
               HandleProviderCallback(q, s)
        PROVE  DispatchTurns'
    <2>1. UNCHANGED <<now, BatchSize, ran>> /\ Saved({q})
      BY <1>6, WebhookWrites DEF HandleProviderCallback
    <2>2. CASE row'[q] # row[q]
      <3>1. passed' = Forget(passed, {q})
        BY <1>6, <2>2, WebhookWrites
      <3> QED  BY <1>1, <2>1, <2>2, <3>1, TurnsQueued
    <2>3. CASE row'[q] = row[q]
      <3>1. passed' = passed
        BY <1>6, <2>3, WebhookWrites
      <3>2. \A p \in Payments : row'[p] = row[p] /\ nextAt'[p] = nextAt[p]
        BY <2>1, <2>3 DEF Saved
      <3>3. nextAt' = nextAt
        <4>1. /\ nextAt \in [Payments -> Nat]
              /\ nextAt' = [p \in Payments |-> nextAt'[p]]
          BY <2>1, RowTypes DEF Saved
        <4> QED  BY <3>2, <4>1
      <3>4. \A p \in Payments : Queued(p)' => Queued(p)
        BY <3>2 DEF Queued, Exists
      <3> QED  BY <1>2, <2>1, <3>1, <3>3, <3>4
    <2> QED  BY <2>2, <2>3
  <1>7. ASSUME NEW B \in ListForReconcile, NEW F \in SUBSET B, RunReconcileBatch(B, F)
        PROVE  DispatchTurns'
    <2>1. PICK C : C = Answered(B, F)
      OBVIOUS
    <2>2. Saved(C) /\ (\A q \in C : row'[q] # row[q]) /\ passed' = Forget(passed, C)
      BY <1>7, <2>1, ReconcileWrites
    <2>3. UNCHANGED <<now, BatchSize>> /\ ran'["dispatch"] = ran["dispatch"]
      BY <1>7, JobStarts DEF RunReconcileBatch, Jobs
    <2> QED  BY <1>1, <2>2, <2>3, TurnsQueued
  <1>8. ASSUME NEW B \in ListExpiredPending, NEW F \in SUBSET B,
               RunExpirePendingBatch(B, F)
        PROVE  DispatchTurns'
    <2>1. Saved(B \ F) /\ \A q \in B \ F : row'[q] # row[q]
      BY <1>8, ExpireWrites
    <2>2. /\ UNCHANGED <<now, BatchSize>> /\ ran'["dispatch"] = ran["dispatch"]
          /\ passed' = Forget(passed, B \ F)
      BY <1>8, JobStarts DEF RunExpirePendingBatch, Jobs
    <2> QED  BY <1>1, <2>1, <2>2, TurnsQueued
  <1>9. ASSUME NEW B \in ListDueCallbackDispatch, NEW F \in SUBSET B,
               NEW A \in SUBSET (B \ F), RunDispatchCallbacksBatch(B, A, F)
        PROVE  DispatchTurns'
    BY <1>1, <1>9, TurnsDispatch
  <1>10. ASSUME NEW j \in Jobs, ListFails(j)  PROVE DispatchTurns'
    <2>1. CASE j = "dispatch"
      BY <1>1, <1>10, <2>1, PassesListFails
    <2>2. CASE j # "dispatch"
      <3>1. Saved({}) /\ UNCHANGED <<now, BatchSize>>
        BY <1>10, NothingSaved, ListFailsTypes
      <3>2. ran'["dispatch"] = ran["dispatch"]
        BY <1>10, <2>2, JobStarts DEF ListFails, Jobs
      <3>3. passed' = Forget(passed, {})
        BY <1>10, <2>2, RowTypes DEF ListFails, Forget
      <3> QED  BY <1>1, <3>1, <3>2, <3>3, TurnsQueued
    <2> QED  BY <2>1, <2>2
  <1> QED  BY <1>3, <1>4, <1>5, <1>6, <1>7, <1>8, <1>9, <1>10 DEF Next

\* A due delivery is left out by no more runs than full batches of all other
\* payments make, one, and one more per failure.
THEOREM DueGetTheirTurn == Spec => []DueInTurn
  <1>1. Init => TypeInv /\ DispatchTurns
    BY InitialTypes DEF Init, DispatchTurns, Queued, Exists
  <1>2. TypeInv /\ DispatchTurns /\ [Next]_vars => TypeInv' /\ DispatchTurns'
    BY StepTypes, StepPasses
  <1>3. TypeInv /\ DispatchTurns => DueInTurn
    <2> SUFFICES ASSUME TypeInv, DispatchTurns, NEW p \in Due
                 PROVE  passed[p] * BatchSize
                          <= Cardinality(Payments) - 1 + BatchSize * (1 + faults)
      BY DEF DueInTurn
    <2>1. p \in Payments /\ Queued(p)
      BY DEF Due, Queued
    <2>2. PICK O, b, n, f : /\ O = QueuedBefore(p) /\ b = BatchSize /\ n = passed[p]
                            /\ f = 1 + faults
      OBVIOUS
    <2>3. O \in SUBSET (Payments \ {p})
      BY <2>2 DEF QueuedBefore
    <2>4. /\ b \in Nat /\ n \in Nat /\ f \in Nat /\ Cardinality(O) \in Nat
          /\ Cardinality(Payments) - 1 \in Nat
      BY <2>1, <2>2, <2>3, RowTypes, OthersCounted
    <2>5. b * n + Cardinality(O) <= Cardinality(Payments) - 1 + b * f
      BY <2>1, <2>2 DEF DispatchTurns, DispatchTurn
    <2>6. n * b = b * n /\ b * n \in Nat /\ b * f \in Nat
      BY <2>4, ProductGrows
    <2>7. n * b <= Cardinality(Payments) - 1 + b * f
      BY <2>4, <2>5, <2>6
    <2> QED  BY <2>2, <2>7
  <1> QED  BY <1>1, <1>2, <1>3, PTL DEF Spec
===============================================================================
