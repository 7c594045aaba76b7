----------------------------- MODULE RequestIntake -----------------------------
(***************************************************************************)
(* The way of an API request to the service and back, over HTTP (echo) or  *)
(* gRPC: request id, authentication, binding, Validate, PaymentService,    *)
(* and the error it ends with.  The two ways are written twice in the code *)
(* and have to agree.                                                      *)
(*                                                                         *)
(* A caller sends one request and, until it has the answer it wants, sends *)
(* it again, with a request id header of its own each time and over either *)
(* transport.  Attempts that overlap are CreatePayment's subject, and      *)
(* webhooks are WebhookIntake's.                                           *)
(***************************************************************************)
EXTENDS Integers, Sequences, Functions

CONSTANTS
    MaxAttempts,    \* bound: times the caller sends the request
    HeaderIds,      \* ids a caller puts into the header
    Requests        \* requests of this instance

(***************************************************************************)
(* Texts: a word with or without spaces around it.                         *)
(***************************************************************************)
Words == {"", "text", "month", "MONTH", "hour"} \cup HeaderIds
Text == [word : Words, padded : BOOLEAN]

Empty == [word |-> "", padded |-> FALSE]
TrimSpace(t) == [t EXCEPT !.padded = FALSE]
ToLower(t) == [t EXCEPT !.word = IF @ = "MONTH" THEN "month" ELSE @]
IsBlank(t) == TrimSpace(t) = Empty

\* Requests, by operation.  sound stands for the fields of a CreatePaymentRequest
\* that are read alike everywhere: resource, amount, currency, payment method and
\* type, callback URL.
CreateRequest ==
    [op : {"create"}, request_id : Text, caller_service : Text, sound : BOOLEAN,
     provider : {"unspecified", "stripe", "other"},
     recurring : BOOLEAN, interval : Text, count : Int]
ListRequest ==
    [op : {"list"}, limit : Int, offset : Int, has_status : BOOLEAN,
     status : {"paid", "unknown"}, provider : {"unspecified", "stripe", "other"}]
IdRequest == [op : {"get", "cancel"}, id : Nat]

ASSUME MaxAttemptsAssumption == MaxAttempts \in Nat
ASSUME RequestsAssumption == Requests \subseteq CreateRequest \cup ListRequest \cup IdRequest

Transports == {"http", "grpc"}
NoPayment == [key |-> <<>>, terms |-> <<>>]

VARIABLES
    sent,       \* the request as the caller wrote it
    via,        \* the transport of this attempt
    stage,      \* where the attempt is, or "idle"
    req,        \* the request as it is now known
    header,     \* X-Request-ID of this attempt
    payments,   \* payments stored: key and terms
    answers     \* what the attempts so far came to

attemptVars == <<via, stage, req, header>>
vars == <<sent, attemptVars, payments, answers>>

Init ==
    /\ sent \in Requests
    /\ via = "http" /\ stage = "idle" /\ req = sent /\ header = Empty
    /\ payments = {} /\ answers = <<>>

-------------------------------------------------------------------------------
(* What the service makes of a request.                                    *)

\* Mutant: as it came.
KeyAsGiven(r) == <<r.caller_service, r.request_id>>

Key(r) == <<TrimSpace(r.caller_service), TrimSpace(r.request_id)>>

\* normalizeOptionalString(ToLower(TrimSpace(...))), normalizeOptionalInt32.
Terms(r) ==
    <<r.recurring, ToLower(TrimSpace(r.interval)), IF r.count > 0 THEN r.count ELSE 0>>

\* What PaymentService may come to besides doing as it is told.
ServiceErrors ==
    [create |-> {"already exists", "failure", "panic"},
     get    |-> {"not found", "failure", "panic"},
     list   |-> {"failure", "panic"},
     cancel |-> {"not found", "invalid status", "failure", "panic"}]

-------------------------------------------------------------------------------
(* The answer.                                                             *)

\* Mutant: ErrPaymentAlreadyExists is forgotten.
HTTPCodeNoConflict(op, outcome) ==
    CASE outcome \in {"no request id", "unreadable", "refused"} -> "400"
      [] outcome = "done" -> IF op = "create" THEN "201" ELSE "200"
      [] op = "create" /\ outcome \in {"invalid request", "invalid status", "unsupported provider"} -> "400"
      [] op \in {"get", "cancel"} /\ outcome = "not found" -> "404"
      [] op = "cancel" /\ outcome = "invalid status" -> "400"
      [] OTHER -> "500"

\* A refusal before the service, a result, one of the controller's errors.Is
\* cases, or anything else ...
HTTPCode(op, outcome) ==
    CASE outcome \in {"no request id", "unreadable", "refused"} -> "400"
      [] outcome = "done" -> IF op = "create" THEN "201" ELSE "200"
      [] op = "create" /\ outcome \in {"invalid request", "invalid status", "unsupported provider"} -> "400"
      [] op = "create" /\ outcome = "already exists" -> "409"
      [] op \in {"get", "cancel"} /\ outcome = "not found" -> "404"
      [] op = "cancel" /\ outcome = "invalid status" -> "400"
      [] OTHER -> "500"

\* ... and the same of the gRPC server.
GRPCCode(op, outcome) ==
    CASE outcome \in {"no request id", "unreadable", "refused"} -> "InvalidArgument"
      [] outcome = "done" -> "OK"
      [] op = "create" /\ outcome \in {"invalid request", "invalid status", "unsupported provider"} ->
            "InvalidArgument"
      [] op = "create" /\ outcome = "already exists" -> "AlreadyExists"
      [] op \in {"get", "cancel"} /\ outcome = "not found" -> "NotFound"
      [] op = "cancel" /\ outcome = "invalid status" -> "InvalidArgument"
      [] OTHER -> "Internal"

Code(t, op, outcome) == IF t = "http" THEN HTTPCode(op, outcome) ELSE GRPCCode(op, outcome)

\* Codes that say the same.
SameCode ==
    {<<"200", "OK">>, <<"201", "OK">>, <<"400", "InvalidArgument">>, <<"404", "NotFound">>,
     <<"409", "AlreadyExists">>, <<"500", "Internal">>}

Answer(outcome, payment) ==
    /\ stage' = "idle"
    /\ answers' = Append(answers, [via |-> via, outcome |-> outcome, payment |-> payment,
                                   code |-> Code(via, sent.op, outcome)])
    /\ UNCHANGED <<sent, via, req, header>>

-------------------------------------------------------------------------------
(* The stages.                                                             *)

\* The caller sends the request, the first time or again.
Send(t, id) ==
    /\ stage = "idle" /\ Len(answers) < MaxAttempts
    /\ via' = t /\ req' = sent /\ header' = id
    /\ stage' = "request id"
    /\ UNCHANGED <<sent, payments, answers>>

\* Mutant: the interceptor is not installed.
RequestIDOptional ==
    /\ stage = "request id"
    /\ stage' = "bind"
    /\ UNCHANGED <<sent, via, req, header, payments, answers>>

\* requireRequestID, RequestIDInterceptor.  (The caller's API key, which is
\* checked next, is good.)
RequireRequestID ==
    /\ stage = "request id"
    /\ ~IsBlank(header)
    /\ stage' = "bind"
    /\ UNCHANGED <<sent, via, req, header, payments, answers>>

NoRequestID ==
    /\ stage = "request id"
    /\ IsBlank(header)
    /\ Answer("no request id", NoPayment)
    /\ UNCHANGED payments

\* NewCreatePaymentRequestFromContext: trimmed, the interval in lower case, and
\* the header for a request without a request_id.
Bound(r) ==
    [r EXCEPT !.request_id = IF IsBlank(@) THEN TrimSpace(header) ELSE TrimSpace(@),
              !.caller_service = TrimSpace(@),
              !.interval = ToLower(TrimSpace(@))]

Bind ==
    /\ stage = "bind"
    /\ req' = IF via = "http" /\ req.op = "create" THEN Bound(req) ELSE req
    /\ stage' = "validate"
    /\ UNCHANGED <<sent, via, header, payments, answers>>

\* A body that is no JSON, or an id, limit, status ... that is no number.
BindFails ==
    /\ stage = "bind" /\ via = "http"
    /\ Answer("unreadable", NoPayment)
    /\ UNCHANGED payments

\* Validate, which both transports call.
Valid(r) ==
    CASE r.op = "create" ->
            /\ ~IsBlank(r.request_id) /\ ~IsBlank(r.caller_service) /\ r.sound
            /\ r.provider \in {"unspecified", "stripe"}
            /\ r.recurring => r.interval = [word |-> "month", padded |-> FALSE] /\ r.count > 0
      [] r.op = "list" ->
            /\ r.limit \in 0..500 /\ r.offset >= 0
            /\ r.has_status => r.status # "unknown"
            /\ r.provider # "other"
      [] OTHER -> r.id # 0

Validate ==
    /\ stage = "validate"
    /\ Valid(req)
    /\ stage' = "serve"
    /\ UNCHANGED <<sent, via, req, header, payments, answers>>

Refuse ==
    /\ stage = "validate"
    /\ ~Valid(req)
    /\ Answer("refused", NoPayment)
    /\ UNCHANGED payments

\* CreatePayment: its own check, the payment there is, or a new one.
CreatePayment ==
    /\ stage = "serve" /\ req.op = "create"
    /\ IF IsBlank(Key(req)[1]) \/ IsBlank(Key(req)[2])
       THEN Answer("invalid request", NoPayment) /\ UNCHANGED payments
       ELSE IF \E p \in payments : p.key = Key(req)
       THEN (\E p \in payments : p.key = Key(req) /\ Answer("done", p)) /\ UNCHANGED payments
       ELSE IF req.provider = "other"
       THEN Answer("unsupported provider", NoPayment) /\ UNCHANGED payments
       ELSE LET p == [key |-> Key(req), terms |-> Terms(req)]
            IN  payments' = payments \cup {p} /\ Answer("done", p)

\* GetPayment, ListPayments or CancelPayment.
Perform ==
    /\ stage = "serve" /\ req.op # "create"
    /\ Answer("done", NoPayment)
    /\ UNCHANGED payments

\* One of the service's errors, or a panic, that Recover turns into an answer.
ServiceFails(e) ==
    /\ stage = "serve"
    /\ e \in ServiceErrors[req.op]
    /\ Answer(e, NoPayment)
    /\ UNCHANGED payments

Next ==
    \/ \E t \in Transports, id \in [word : HeaderIds \cup {""}, padded : BOOLEAN] : Send(t, id)
    \/ RequireRequestID \/ NoRequestID
    \/ Bind \/ BindFails
    \/ Validate \/ Refuse
    \/ CreatePayment \/ Perform
    \/ \E e \in UNION {ServiceErrors[op] : op \in DOMAIN ServiceErrors} : ServiceFails(e)

Spec == Init /\ [][Next]_vars

-------------------------------------------------------------------------------
\* Types; only requests with a request id header get past the first stage.
TypeOK ==
    /\ sent \in Requests /\ req.op = sent.op
    /\ via \in Transports
    /\ stage \in {"idle", "request id", "bind", "validate", "serve"}
    /\ stage \in {"bind", "validate", "serve"} => ~IsBlank(header)
    /\ \A p, q \in payments : p.key = q.key => p = q
    /\ Len(answers) <= MaxAttempts
    /\ \A a \in Range(answers) :
          a.via \in Transports /\ a.payment \in payments \cup {NoPayment}

\* The caller wrote what the two transports read alike: its own request_id, and
\* an interval as gRPC wants it.
ReadAlike(r) == r.op = "create" => ~IsBlank(r.request_id) /\ r.interval = ToLower(TrimSpace(r.interval))

\* What the service makes of a request is reported by codes that say the same
\* over HTTP and over gRPC; HTTP refuses no request that gRPC admits, and where
\* the caller wrote it as both read it, gRPC none that HTTP admits (README: "HTTP
\* and gRPC call the same underlying service methods").
SameAnswer ==
    \A a, b \in Range(answers) :
        /\ a.via = "http" /\ b.via = "grpc"
        /\ {a.outcome, b.outcome} \cap {"no request id", "unreadable"} = {}
        => /\ a.outcome = b.outcome => <<a.code, b.code>> \in SameCode
           /\ a.outcome = "refused" => b.outcome = "refused"
           /\ b.outcome = "refused" /\ ReadAlike(sent) => a.outcome = "refused"

\* Whoever sends its request again gets the payment it has, over whichever
\* transport and however the texts are padded: the idempotency key and the terms
\* do not depend on the way a request came.
ResendGetsThePayment ==
    ReadAlike(sent) => \A p, q \in payments : p = q

\* A payment is stored under the request_id its caller wrote (README: "request_id
\* is required in CreatePaymentRequest and is used for idempotency").  HTTP takes
\* the header for it, and a caller that sends the same body again with a new
\* X-Request-ID gets another payment.
KeyedByRequestId ==
    \A p, q \in payments : p.key = q.key
===============================================================================
