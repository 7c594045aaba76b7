----------------------------- MODULE CreatePayment -----------------------------
(***************************************************************************)
(* PaymentService.CreatePayment, step by step: SELECT by the idempotency   *)
(* key, one or three POSTs to Stripe, INSERT under the unique index on     *)
(* (caller_service, request_id).  PaymentService has the INSERT only.      *)
(*                                                                         *)
(* Every call is a goroutine of some API process.  A caller that got no    *)
(* payment may try again with the same key: that is another call.  The     *)
(* requests carry no Idempotency-Key to Stripe, so every POST creates an   *)
(* object of its own.                                                      *)
(***************************************************************************)
EXTENDS Naturals, FiniteSets

CONSTANTS
    Calls,          \* calls of the API
    Keys,           \* idempotency keys <<caller_service, request_id>>
    MaxInFlight,    \* bound: calls that overlap (1: they never do)
    MaxFaults,      \* bound: failed statements, lost replies and crashes
    NoCall, NoKey

ASSUME CallsFinite == IsFiniteSet(Calls)
ASSUME MaxInFlightAssumption == MaxInFlight \in Nat \ {0}
ASSUME MaxFaultsAssumption == MaxFaults \in Nat
ASSUME NoCallAssumption == NoCall \notin Calls
ASSUME NoKeyAssumption == NoKey \notin Keys

VARIABLES
    table,      \* payments, by unique index: the call whose row it is, or NoCall
    objects,    \* Stripe: the objects a call has created there
    pc,         \* where a call is, then what it answered
    key,        \* the key of a call
    method,     \* payment_method of a call
    reply,      \* the payment a call was answered with, or NoCall
    faults      \* faults so far

vars == <<table, objects, pc, key, method, reply, faults>>

Methods == {"hosted_card", "payment_link"}
Objects == {"product", "price", "checkout"}

\* A call is new, is talking to Stripe, is about to INSERT, or has answered:
\* 201 with a payment, 409, or 500 (for the caller the same as no answer).
InFlight == {"stripe", "insert"}
Answers == {"payment", "conflict", "error"}

Init ==
    /\ table = [k \in Keys |-> NoCall]
    /\ objects = [c \in Calls |-> {}]
    /\ pc = [c \in Calls |-> "new"]
    /\ key = [c \in Calls |-> NoKey]
    /\ method = [c \in Calls |-> "none"]
    /\ reply = [c \in Calls |-> NoCall]
    /\ faults = 0

Fault == faults < MaxFaults /\ faults' = faults + 1

GoTo(c, step) == pc' = [pc EXCEPT ![c] = step]

Taken(k) == table[k] # NoCall

-------------------------------------------------------------------------------
\* The request arrives for key k with payment method m.
Arrives(c, k, m) ==
    /\ pc[c] = "new"
    /\ Cardinality({d \in Calls : pc[d] \in InFlight}) < MaxInFlight
    /\ key' = [key EXCEPT ![c] = k]
    /\ method' = [method EXCEPT ![c] = m]

\* FindByCallerRequestID: an existing payment is the answer, whatever else
\* the request says.
Find(c, k, m) ==
    /\ Arrives(c, k, m)
    /\ IF Taken(k)
       THEN GoTo(c, "payment") /\ reply' = [reply EXCEPT ![c] = table[k]]
       ELSE GoTo(c, "stripe") /\ UNCHANGED reply
    /\ UNCHANGED <<table, objects, faults>>

\* The SELECT fails.
FindFails(c, k, m) ==
    /\ Arrives(c, k, m)
    /\ Fault
    /\ GoTo(c, "error")
    /\ UNCHANGED <<table, objects, reply>>

\* The object the next POST asks for: a checkout session at once, or a
\* product, then a price, then the payment link.
NextObject(c) ==
    IF method[c] = "payment_link" /\ "product" \notin objects[c] THEN "product"
    ELSE IF method[c] = "payment_link" /\ "price" \notin objects[c] THEN "price"
    ELSE "checkout"

Made(c, o) == objects' = [objects EXCEPT ![c] = @ \cup {o}]

\* Mutant: the payment link itself is never requested.
PostNoLink(c) ==
    /\ pc[c] = "stripe"
    /\ Made(c, NextObject(c))
    /\ IF NextObject(c) = "product" THEN UNCHANGED pc ELSE GoTo(c, "insert")
    /\ UNCHANGED <<table, key, method, reply, faults>>

\* One POST; the last one made the thing to pay with.
Post(c) ==
    /\ pc[c] = "stripe"
    /\ Made(c, NextObject(c))
    /\ IF NextObject(c) = "checkout" THEN GoTo(c, "insert") ELSE UNCHANGED pc
    /\ UNCHANGED <<table, key, method, reply, faults>>

\* A POST is refused, or times out after Stripe did what it was asked, or the
\* process dies: nothing is undone.
PostFails(c) ==
    /\ pc[c] = "stripe"
    /\ Fault
    /\ Made(c, NextObject(c)) \/ UNCHANGED objects
    /\ GoTo(c, "error")
    /\ UNCHANGED <<table, key, method, reply>>

\* Mutant: INSERT ... ON DUPLICATE KEY UPDATE.
Upsert(c) ==
    /\ pc[c] = "insert"
    /\ table' = [table EXCEPT ![key[c]] = c]
    /\ reply' = [reply EXCEPT ![c] = c]
    /\ GoTo(c, "payment")
    /\ UNCHANGED <<objects, key, method, faults>>

\* INSERT INTO payments, and its event, whose error is ignored.
Insert(c) ==
    /\ pc[c] = "insert"
    /\ ~Taken(key[c])
    /\ table' = [table EXCEPT ![key[c]] = c]
    /\ reply' = [reply EXCEPT ![c] = c]
    /\ GoTo(c, "payment")
    /\ UNCHANGED <<objects, key, method, faults>>

\* Mutant: the duplicate is swallowed, and nothing is answered with 201.
DuplicateSwallowed(c) ==
    /\ pc[c] = "insert"
    /\ Taken(key[c])
    /\ GoTo(c, "payment")
    /\ UNCHANGED <<table, objects, key, method, reply, faults>>

\* Error 1062: ErrPaymentAlreadyExists.
InsertDuplicate(c) ==
    /\ pc[c] = "insert"
    /\ Taken(key[c])
    /\ GoTo(c, "conflict")
    /\ UNCHANGED <<table, objects, key, method, reply, faults>>

\* The INSERT fails, or its result is lost (LastInsertId), or the process
\* dies before it or after it.
InsertFails(c) ==
    /\ pc[c] = "insert"
    /\ Fault
    /\ \/ ~Taken(key[c]) /\ table' = [table EXCEPT ![key[c]] = c]
       \/ UNCHANGED table
    /\ GoTo(c, "error")
    /\ UNCHANGED <<objects, key, method, reply>>

Next ==
    \/ \E c \in Calls, k \in Keys, m \in Methods : Find(c, k, m)
    \/ \E c \in Calls, k \in Keys, m \in Methods : FindFails(c, k, m)
    \/ \E c \in Calls : Post(c)
    \/ \E c \in Calls : PostFails(c)
    \/ \E c \in Calls : Insert(c)
    \/ \E c \in Calls : InsertDuplicate(c)
    \/ \E c \in Calls : InsertFails(c)

Spec == Init /\ [][Next]_vars

\* Calls for key k do not overlap: at most one is in flight.
Apart(k) ==
    \A c, d \in Calls :
        key[c] = k /\ key[d] = k /\ pc[c] \in InFlight /\ pc[d] \in InFlight => c = d

\* The behaviours in which calls overlap for no key.
ApartSpec == Init /\ [][Next /\ \A k \in Keys : Apart(k)']_vars

-------------------------------------------------------------------------------
\* Types of all variables; a call has a key and a method once it arrived, and
\* a payment to show when, and only when, it answers with one.
TypeOK ==
    /\ table \in [Keys -> Calls \cup {NoCall}]
    /\ objects \in [Calls -> SUBSET Objects]
    /\ pc \in [Calls -> {"new"} \cup InFlight \cup Answers]
    /\ key \in [Calls -> Keys \cup {NoKey}]
    /\ method \in [Calls -> Methods \cup {"none"}]
    /\ reply \in [Calls -> Calls \cup {NoCall}]
    /\ faults \in 0..MaxFaults
    /\ \A c \in Calls : /\ pc[c] # "new" => key[c] \in Keys /\ method[c] \in Methods
                        /\ pc[c] = "payment" <=> reply[c] # NoCall

\* Idempotency (README: "Idempotency via mandatory request_id +
\* caller_service"): two calls with the same key that are answered with a
\* payment are answered with the same one, however they overlap and whatever
\* failed before.
SameAnswer ==
    \A c, d \in Calls :
        reply[c] # NoCall /\ reply[d] # NoCall /\ key[c] = key[d] => reply[c] = reply[d]

\* A payment a caller is given can be paid: it is stored under the caller's
\* own key, and the very call that stored it made a checkout session or
\* payment link for it at Stripe, even when another call got there first.
AnsweredPaymentIsPayable ==
    \A c \in Calls :
        reply[c] # NoCall => /\ table[key[c]] = reply[c]
                             /\ key[reply[c]] = key[c]
                             /\ "checkout" \in objects[reply[c]]

\* A conflict is never a false alarm: the key does have a payment, so that a
\* third call would be given it.
ConflictMeansStored == \A c \in Calls : pc[c] = "conflict" => Taken(key[c])

\* A duplicate is answered with the payment and not with 409 (README: "request_id
\* ... is used for idempotency").  Two calls that overlap break it; under
\* ApartSpec it holds.
DuplicatesGetThePayment == \A c \in Calls : pc[c] # "conflict"

\* One key is one checkout: the customer cannot pay twice for one request.  An
\* INSERT that fails after Stripe's reply, or an overlap, breaks it; under
\* ApartSpec and without faults it holds.
OneCheckoutPerKey ==
    \A c, d \in Calls :
        /\ key[c] = key[d]
        /\ "checkout" \in objects[c] \cap objects[d]
        => c = d

\* Find, Stripe, INSERT together implement the one-step CreateOnce.
Abstract == INSTANCE CreateOnce WITH payment <- table
ImplementsCreateOnce == Abstract!Spec
===============================================================================
