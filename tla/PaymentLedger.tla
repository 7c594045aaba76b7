----------------------------- MODULE PaymentLedger -----------------------------
(***************************************************************************)
(* What the service promises about a payment, apart from reads, writes,    *)
(* retries and jobs: it is registered open; once it has an outcome it      *)
(* never is open again; a new outcome and the notice of it to the caller   *)
(* are one change; and a notice is closed as delivered only when the       *)
(* caller was told that very outcome.                                      *)
(***************************************************************************)
VARIABLES
    outcome,    \* "absent", "open", or one of Outcomes
    notice,     \* of the outcome, to the caller
    told        \* the outcomes the caller was told

vars == <<outcome, notice, told>>

Outcomes == {"paid", "failed", "canceled", "expired"}

Init == outcome = "absent" /\ notice = "none" /\ told = {}

Register ==
    /\ outcome = "absent"
    /\ outcome' = "open" /\ notice' = "none"
    /\ UNCHANGED told

\* The outcomes that may follow outcome o.  A session that was paid, or whose
\* payment failed, does not expire; only a cancel may be repeated.
Follows(o) == {s \in Outcomes : /\ s = o => o = "canceled"
                                /\ s = "expired" => o \notin {"paid", "failed"}}

\* A new outcome, and the caller is to be told.
Resolve(s) ==
    /\ outcome # "absent"
    /\ s \in Follows(outcome)
    /\ outcome' = s /\ notice' = "pending"
    /\ UNCHANGED told

\* The caller is told, and may not have understood.
Tell ==
    /\ notice = "pending"
    /\ told' = told \cup {outcome}
    /\ UNCHANGED <<outcome, notice>>

\* The notice is delivered, or given up.
Close(end) ==
    /\ notice = "pending"
    /\ end = "success" => outcome \in told
    /\ notice' = end
    /\ UNCHANGED <<outcome, told>>

Next ==
    \/ Register
    \/ \E s \in Outcomes : Resolve(s)
    \/ Tell
    \/ \E end \in {"success", "failed"} : Close(end)

Spec == Init /\ [][Next]_vars
===============================================================================
