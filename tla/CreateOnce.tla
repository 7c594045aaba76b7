------------------------------ MODULE CreateOnce ------------------------------
(***************************************************************************)
(* What CreatePayment promises, apart from how: a key (caller_service,     *)
(* request_id) gets one payment, for good, and a call that is answered     *)
(* with a payment is answered with the payment of its key.                 *)
(*                                                                         *)
(* A payment is named by the call that created it.  Nothing is promised to *)
(* a call that gets an error.                                              *)
(***************************************************************************)
CONSTANTS Calls, Keys, NoCall

VARIABLES
    payment,    \* the payment of a key, or NoCall
    reply       \* the payment a call was answered with, or NoCall

vars == <<payment, reply>>

Init ==
    /\ payment = [k \in Keys |-> NoCall]
    /\ reply = [c \in Calls |-> NoCall]

\* The key is free: call c creates its payment.
Register(k, c) ==
    /\ payment[k] = NoCall
    /\ payment' = [payment EXCEPT ![k] = c]
    /\ reply' \in {reply, [reply EXCEPT ![c] = c]}

\* The key has a payment: call c is answered with it.
Repeat(k, c) ==
    /\ payment[k] # NoCall
    /\ reply[c] = NoCall
    /\ reply' = [reply EXCEPT ![c] = payment[k]]
    /\ UNCHANGED payment

Next == \E k \in Keys, c \in Calls : Register(k, c) \/ Repeat(k, c)

Spec == Init /\ [][Next]_vars
===============================================================================
