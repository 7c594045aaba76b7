----------------------------- MODULE WebhookIntake -----------------------------
(***************************************************************************)
(* A webhook on its way: Stripe signs an event, a gateway forwards it raw  *)
(* or wrapped over HTTP, or over gRPC, at once or late, and the service    *)
(* binds it, verifies payload and signature, and applies it.  Stripe signs *)
(* and sends again until it is answered 2xx.                               *)
(*                                                                         *)
(* One event of one payment; what it does to the payment's row is          *)
(* PaymentService's and StripeCheckout's subject.                          *)
(***************************************************************************)
EXTENDS Integers, FiniteSets

CONSTANTS
    Tolerance,      \* SignatureToleranceSeconds
    Skews,          \* Stripe's clock, as far as it is ahead of the service's
    MaxInFlight     \* bound: copies on their way

ASSUME ToleranceAssumption == Tolerance \in Nat \ {0}
ASSUME SkewsAssumption == Skews \subseteq Int
ASSUME MaxInFlightAssumption == MaxInFlight \in Nat \ {0}

\* What the gateway does with an event.  "both" is a wrapped one that keeps the
\* header.
Routes == {"raw", "wrapped", "both", "grpc"}

None == "none"

\* A copy: its route, whether the gateway has touched the payload (parsed it and
\* printed it again), and its signature's age, as the service's clock sees it.
MaxAge == Tolerance + 1
MinAge == -MaxAge
Copy == [route : Routes, altered : BOOLEAN, age : MinAge..MaxAge]

VARIABLES
    skew,
    copies,     \* on their way
    applied,    \* the payment's row has the event
    recorded,   \* payment_callbacks: "processed" or not
    acked,      \* Stripe was answered 2xx
    last        \* the copy handled last, and the answer

webhookVars == <<skew, copies, applied, recorded, acked, last>>

Nothing == [copy |-> [route |-> None, altered |-> FALSE, age |-> 0], code |-> 0]

WebhookInit ==
    /\ skew \in Skews
    /\ copies = {}
    /\ applied = FALSE /\ recorded = FALSE /\ acked = FALSE
    /\ last = Nothing

Clip(a) == IF a > MaxAge THEN MaxAge ELSE IF a < MinAge THEN MinAge ELSE a

-------------------------------------------------------------------------------
(* Stripe and the gateway.                                                 *)

\* The event is signed and sent, for the first time or again.
SendCopy(route, altered) ==
    /\ ~acked
    /\ Cardinality(copies) < MaxInFlight
    /\ copies' = copies \cup {[route |-> route, altered |-> altered, age |-> Clip(-skew)]}
    /\ UNCHANGED <<skew, applied, recorded, acked, last>>

\* A second passes for the copies the gateway holds.
Tick ==
    /\ copies' = {[c EXCEPT !.age = Clip(@ + 1)] : c \in copies}
    /\ UNCHANGED <<skew, applied, recorded, acked, last>>

-------------------------------------------------------------------------------
(* The service.                                                            *)

\* The message a copy arrives as: BuildForwardPayload wraps.
Event(c) == IF c.altered THEN "event printed again" ELSE "event"
Body(c) == IF c.route \in {"wrapped", "both"}
           THEN [payload |-> Event(c), signature |-> "signature"]
           ELSE [payload |-> None, signature |-> None]
Header(c) == IF c.route = "wrapped" THEN None ELSE "signature"

\* Mutant: only the payload is taken out of a wrapped body.
BoundHeaderOnly(c) ==
    IF c.route = "grpc" THEN [payload |-> Event(c), signature |-> "signature"]
    ELSE [payload |-> IF Body(c).payload # None THEN Body(c).payload ELSE Event(c),
          signature |-> Header(c)]

\* NewHandleProviderCallbackRequestFromContext: what a wrapped body says comes
\* before the raw body and the header.
BoundCallback(c) ==
    IF c.route = "grpc" THEN [payload |-> Event(c), signature |-> "signature"]
    ELSE [payload |-> IF Body(c).payload # None THEN Body(c).payload ELSE Event(c),
          signature |-> IF Body(c).signature # None THEN Body(c).signature ELSE Header(c)]

\* Mutant: the tolerance itself is too much.
VerifiedStrictly(c) ==
    /\ BoundCallback(c) = [payload |-> "event", signature |-> "signature"]
    /\ c.age < Tolerance /\ -c.age < Tolerance

\* Validate and verifyStripeSignature: the HMAC of this very text, and a stamp
\* that is neither old nor ahead of its time.
Verified(c) ==
    /\ BoundCallback(c) = [payload |-> "event", signature |-> "signature"]
    /\ c.age <= Tolerance /\ -c.age <= Tolerance

\* A copy is answered; a 2xx may get lost on its way back.
Reply(c, code) ==
    /\ last' = [copy |-> c, code |-> code]
    /\ acked' \in IF code = 200 THEN {acked, TRUE} ELSE {acked}

Take(c) == c \in copies /\ copies' = copies \ {c} /\ UNCHANGED skew

\* The copy is refused, and recorded as such.
Reject(c) ==
    /\ Take(c)
    /\ ~Verified(c)
    /\ Reply(c, 400)
    /\ UNCHANGED <<applied, recorded>>

\* Mutant: an UPDATE that fails is no error.
UpdateFailsQuietly(c) ==
    /\ Take(c)
    /\ Verified(c)
    /\ applied' \in {applied, TRUE}
    /\ recorded' = TRUE
    /\ Reply(c, 200)

\* UPDATE, its event (whose error is ignored), and the callback's record.
Handle(c) ==
    /\ Take(c)
    /\ Verified(c)
    /\ applied' = TRUE
    /\ recorded' = TRUE
    /\ Reply(c, 200)

\* SELECT or UPDATE fails, or the callback's INSERT after an UPDATE that stays.
\* (A copy answered with payment not found, see NotFoundMeansAbsent of PaymentService,
\* is one more that Stripe sends again.)
HandleFails(c) ==
    /\ Take(c)
    /\ Verified(c)
    /\ applied' \in {applied, TRUE}
    /\ Reply(c, 500)
    /\ UNCHANGED recorded

\* The gateway loses a copy.
Lose(c) ==
    /\ Take(c)
    /\ UNCHANGED <<applied, recorded, acked, last>>

WebhookNext ==
    \/ \E route \in Routes, altered \in BOOLEAN : SendCopy(route, altered)
    \/ Tick
    \/ \E c \in copies : Reject(c)
    \/ \E c \in copies : Handle(c)
    \/ \E c \in copies : HandleFails(c)
    \/ \E c \in copies : Lose(c)

WebhookSpec == WebhookInit /\ [][WebhookNext]_webhookVars

\* Stripe keeps sending; the gateway holds no copy for ever and does not alter
\* every one; and if again and again a copy is there in time, the database is
\* there with one of them.
WebhookFairness ==
    /\ SF_webhookVars(\E route \in Routes : SendCopy(route, FALSE))
    /\ WF_webhookVars(\E c \in copies : Reject(c) \/ Handle(c) \/ HandleFails(c) \/ Lose(c))
    /\ SF_webhookVars(\E c \in copies : Handle(c))

WebhookFairSpec == WebhookSpec /\ WebhookFairness

-------------------------------------------------------------------------------
\* Types; a record is never without its UPDATE.
WebhookTypeOK ==
    /\ skew \in Skews
    /\ copies \subseteq Copy /\ Cardinality(copies) <= MaxInFlight
    /\ applied \in BOOLEAN /\ recorded \in BOOLEAN /\ acked \in BOOLEAN
    /\ last = Nothing \/ (last.copy \in Copy /\ last.code \in {200, 400, 500})
    /\ recorded => applied

\* Whatever way a copy came: it is refused if, and only if, somebody touched its
\* payload or its stamp is too far off (the two ways to bind it and the unwrapping
\* of BuildForwardPayload end in the same text and signature).
RouteDoesNotMatter ==
    last # Nothing =>
        (last.code = 400 <=> \/ last.copy.altered
                             \/ last.copy.age \notin -Tolerance..Tolerance)

\* If Stripe's clock is no further off than the tolerance, an event arrives in
\* the end, though the gateway holds, alters and loses copies and 2xx answers
\* get lost: every new copy has a new stamp.
EventArrives == skew \in -Tolerance..Tolerance => <>(applied /\ recorded)
===============================================================================
