------------------------------ MODULE PaymentRow ------------------------------
(***************************************************************************)
(* The payments row as the service code rewrites it: the statuses, the     *)
(* bookkeeping of the delivery to the caller, and one operator per         *)
(* rewriting, each a function from the entity that was read to the entity  *)
(* that Update writes back.                                                *)
(*                                                                         *)
(* Columns no rewriting branches on (amounts, URLs, references, metadata,  *)
(* last error, provider ids) are left out.  Instants are abstracted to     *)
(* what the dispatch query tells apart: callback_delivery_next_at is NULL  *)
(* ("null"), not after now ("due"), or a retry interval ahead ("later").   *)
(***************************************************************************)
EXTENDS Integers

CONSTANT MaxAttempts    \* PAYMENTS_CALLBACK_MAX_ATTEMPTS, any int32

ASSUME MaxAttemptsAssumption == MaxAttempts \in Int

\* recordDispatchFailure: a limit that is zero or negative means one attempt.
Budget == IF MaxAttempts <= 0 THEN 1 ELSE MaxAttempts

Status == {"created", "pending", "processing",
           "paid", "failed", "canceled", "expired"}

\* The statuses the expire and reconcile queries look for: status IN (2, 3).
OpenStatus == {"pending", "processing"}

TerminalStatus == {"paid", "failed", "canceled", "expired"}

Row == [status   : Status,
        delivery : {"none", "pending", "success", "failed"},
        attempts : Nat,
        nextAt   : {"null", "due", "later"}]

-------------------------------------------------------------------------------
\* The delivery columns: attempts made, where the delivery stands, when next.
SetDelivery(r, n, delivery, nextAt) ==
    [r EXCEPT !.attempts = n, !.delivery = delivery, !.nextAt = nextAt]

SetStatus(r, s) == [r EXCEPT !.status = s]

(* Mutants: rewritings with one plausible slip each.                       *)

\* Forgets to reset the attempts left over from an earlier outcome.
KeepsAttempts(r) == SetDelivery(r, r.attempts, "pending", "due")

\* Writes the status a webhook asks for without queueing it for the caller.
CallbackUnqueued(r, new) == IF new = "none" THEN r ELSE SetStatus(r, new)

\* Writes the status Stripe reports without queueing it for the caller.
ReconciledUnqueued(r, new) == SetStatus(r, new)

\* Gives up one attempt early.
GivesUpEarly(r) ==
    IF r.attempts + 2 >= Budget
    THEN SetDelivery(r, r.attempts + 1, "failed", "null")
    ELSE SetDelivery(r, r.attempts + 1, "pending", "later")

-------------------------------------------------------------------------------
\* The row CreatePayment inserts: Stripe reports every new payment as pending.
InitialRow ==
    [status |-> "pending", delivery |-> "none", attempts |-> 0, nextAt |-> "null"]

terminalStatus(s) == s \in TerminalStatus

\* Queue the current status for the caller with a fresh retry budget.
markForCallbackDelivery(r) == SetDelivery(r, 0, "pending", "due")

\* CancelPayment, after its guard.
Canceled(r) == markForCallbackDelivery(SetStatus(r, "canceled"))

\* HandleProviderCallback: new is "none" for an event type it does not know.
\* The outcome is queued only when the status changed from what was read.
CallbackApplied(r, new) ==
    IF new = "none" \/ new = r.status THEN r
    ELSE IF terminalStatus(new) THEN markForCallbackDelivery(SetStatus(r, new))
    ELSE SetStatus(r, new)

\* RunReconcileBatch, for an answer that differs from the row's status.
Reconciled(r, new) ==
    IF terminalStatus(new) THEN markForCallbackDelivery(SetStatus(r, new))
                           ELSE SetStatus(r, new)

\* RunExpirePendingBatch.
Expired(r) == markForCallbackDelivery(SetStatus(r, "expired"))

\* dispatchCallback, when the caller answered 2xx.
Dispatched(r) == SetDelivery(r, r.attempts, "success", "null")

\* recordDispatchFailure.
DispatchFailed(r) ==
    IF r.attempts + 1 >= Budget
    THEN SetDelivery(r, r.attempts + 1, "failed", "null")
    ELSE SetDelivery(r, r.attempts + 1, "pending", "later")

-------------------------------------------------------------------------------
\* What every stored row satisfies: it is either open, with no delivery to
\* make, or terminal, with its delivery queued, made or given up; it has a
\* next attempt exactly when it is queued, and it is given up exactly when
\* the retry budget is spent.
RowConsistent(r) ==
    /\ r.status \in OpenStatus \cup TerminalStatus
    /\ r.status \in TerminalStatus <=> r.delivery # "none"
    /\ r.delivery = "pending" <=> r.nextAt # "null"
    /\ r.delivery = "none" => r.attempts = 0
    /\ r.attempts <= Budget
    /\ r.attempts = Budget <=> r.delivery = "failed"
===============================================================================
