------------------------------ MODULE IntakeProofs ------------------------------
(***************************************************************************)
(* What comes in from outside: API requests (RequestIntake) and webhooks   *)
(* (WebhookIntake).                                                        *)
(*                                                                         *)
(* HTTP and gRPC agree, for every request, every request id header and     *)
(* every number of attempts.  What a transport makes of a request is a function of what the caller    *)
(* wrote: Admits says which requests it lets through to the service, and   *)
(* the code of an answer follows from the operation and the outcome.  The  *)
(* invariant ties every answer, and every payment, to these.               *)
(*                                                                         *)
(* A webhook is verified if nobody touched it and its stamp is in time,    *)
(* whichever way it came, for every tolerance, every two clocks and every  *)
(* number of copies on their way.                                          *)
(***************************************************************************)
EXTENDS RequestIntake, WebhookIntake, SequenceTheorems, FiniteSetTheorems, TLAPS

-------------------------------------------------------------------------------
(* Texts and requests.                                                     *)

Month == [word |-> "month", padded |-> FALSE]

\* Trimming takes the spaces away, and lower case is of a word's letters.
LEMMA TextParts ==
  ASSUME NEW t \in Text
  PROVE  /\ TrimSpace(t) = [word |-> t.word, padded |-> FALSE]
         /\ ToLower(t) = [word |-> IF t.word = "MONTH" THEN "month" ELSE t.word,
                          padded |-> t.padded]
  <1>1. PICK w, b, no : t = [word |-> w, padded |-> b] /\ no = FALSE
    BY DEF Text
  <1>2. [t EXCEPT !.padded = no] = [word |-> w, padded |-> no]
    BY <1>1
  <1>3. [t EXCEPT !.word = IF w = "MONTH" THEN "month" ELSE w]
          = [word |-> IF w = "MONTH" THEN "month" ELSE w, padded |-> b]
    BY <1>1
  <1>4. TrimSpace(t) = [t EXCEPT !.padded = no]
    BY <1>1 DEF TrimSpace
  <1> QED  BY <1>1, <1>2, <1>3, <1>4 DEF ToLower

\* Trimming and lower case are done once and for all, and leave a blank text
\* blank and any other not.
LEMMA TextsSettle ==
  ASSUME NEW t \in Text
  PROVE  /\ TrimSpace(t) \in Text
         /\ TrimSpace(TrimSpace(t)) = TrimSpace(t)
         /\ IsBlank(TrimSpace(t)) <=> IsBlank(t)
         /\ ToLower(TrimSpace(t)) \in Text
         /\ ToLower(TrimSpace(ToLower(TrimSpace(t)))) = ToLower(TrimSpace(t))
  <1>1. TrimSpace(t) = [word |-> t.word, padded |-> FALSE]
    BY TextParts
  <1>2. ASSUME NEW w \in Words
        PROVE  /\ TrimSpace([word |-> w, padded |-> FALSE]) = [word |-> w, padded |-> FALSE]
               /\ ToLower([word |-> w, padded |-> FALSE])
                    = [word |-> IF w = "MONTH" THEN "month" ELSE w, padded |-> FALSE]
    <2>1. [word |-> w, padded |-> FALSE] \in Text
      BY DEF Text
    <2> QED  BY TextParts, <2>1
  <1>3. /\ t.word \in Words /\ "month" \in Words
        /\ [word |-> t.word, padded |-> FALSE] \in Text
        /\ [word |-> "month", padded |-> FALSE] \in Text
    BY DEF Text, Words
  <1>4. CASE t.word = "MONTH"
    <2>1. ToLower(TrimSpace(t)) = [word |-> "month", padded |-> FALSE]
      BY <1>1, <1>2, <1>3, <1>4
    <2>2. /\ TrimSpace([word |-> "month", padded |-> FALSE]) = [word |-> "month", padded |-> FALSE]
          /\ ToLower([word |-> "month", padded |-> FALSE]) = [word |-> "month", padded |-> FALSE]
      BY <1>2, <1>3
    <2> QED  BY <1>1, <1>2, <1>3, <2>1, <2>2 DEF IsBlank
  <1>5. CASE t.word # "MONTH"
    <2>1. ToLower(TrimSpace(t)) = [word |-> t.word, padded |-> FALSE]
      BY <1>1, <1>2, <1>3, <1>5
    <2> QED  BY <1>1, <1>2, <1>3, <2>1 DEF IsBlank
  <1> QED  BY <1>4, <1>5

\* A request is what its operation says.
LEMMA RequestsByOp ==
  ASSUME NEW r \in Requests
  PROVE  /\ r.op \in {"create", "list", "get", "cancel"}
         /\ r.op = "create" => r \in CreateRequest
         /\ r.op = "list" => r \in ListRequest
  BY RequestsAssumption DEF CreateRequest, ListRequest, IdRequest

\* What binding over HTTP makes of a request to create a payment.
LEMMA BoundFields ==
  ASSUME NEW r \in CreateRequest
  PROVE  /\ Bound(r).op = r.op
         /\ Bound(r).request_id =
              IF IsBlank(r.request_id) THEN TrimSpace(header) ELSE TrimSpace(r.request_id)
         /\ Bound(r).caller_service = TrimSpace(r.caller_service)
         /\ Bound(r).interval = ToLower(TrimSpace(r.interval))
         /\ Bound(r).sound = r.sound /\ Bound(r).provider = r.provider
         /\ Bound(r).recurring = r.recurring /\ Bound(r).count = r.count
  BY DEF Bound, CreateRequest

\* The requests a transport lets through to the service.
Admits(t, r) ==
    IF t = "http" /\ r.op = "create"
    THEN /\ ~IsBlank(r.caller_service) /\ r.sound
         /\ r.provider \in {"unspecified", "stripe"}
         /\ r.recurring => (ToLower(TrimSpace(r.interval)) = Month /\ r.count > 0)
    ELSE Valid(r)

\* HTTP lets through what gRPC does.
LEMMA HTTPAdmitsMore ==
  ASSUME NEW r \in Requests, Admits("grpc", r)
  PROVE  Admits("http", r)
  <1>1. Valid(r)
    BY DEF Admits
  <1>2. CASE r.op = "create"
    <2>1. r \in CreateRequest
      BY <1>2, RequestsByOp
    <2>2. /\ ~IsBlank(r.caller_service) /\ r.sound
          /\ r.provider \in {"unspecified", "stripe"}
          /\ r.recurring => (r.interval = Month /\ r.count > 0)
      BY <1>1, <1>2 DEF Valid, Month
    <2>3. ToLower(TrimSpace(Month)) = Month
      <3>1. Month \in Text
        BY DEF Month, Text, Words
      <3>2. /\ Month.word = "month"
            /\ TrimSpace(Month) = Month
        BY <3>1, TextParts DEF Month
      <3> QED  BY <3>1, <3>2, TextParts DEF Month
    <2> QED  BY <1>2, <2>2, <2>3 DEF Admits
  <1>3. CASE r.op # "create"
    BY <1>1, <1>3 DEF Admits
  <1> QED  BY <1>2, <1>3

\* And no more than that, if the caller wrote it as both read it.
LEMMA AlikeAdmitted ==
  ASSUME NEW r \in Requests, ReadAlike(r), Admits("http", r)
  PROVE  Admits("grpc", r)
  <1>1. CASE r.op = "create"
    <2>1. /\ ~IsBlank(r.request_id) /\ r.interval = ToLower(TrimSpace(r.interval))
      BY <1>1 DEF ReadAlike
    <2>2. /\ ~IsBlank(r.caller_service) /\ r.sound
          /\ r.provider \in {"unspecified", "stripe"}
          /\ r.recurring => (ToLower(TrimSpace(r.interval)) = Month /\ r.count > 0)
      BY <1>1 DEF Admits
    <2>3. Valid(r)
      BY <1>1, <2>1, <2>2 DEF Valid, Month
    <2> QED  BY <2>3 DEF Admits
  <1>2. CASE r.op # "create"
    BY <1>2 DEF Admits
  <1> QED  BY <1>1, <1>2

-------------------------------------------------------------------------------
(* Codes.                                                                  *)

\* The two ways to report an outcome say the same, whatever the outcome.
LEMMA CodesAgree ==
  ASSUME NEW op \in {"create", "list", "get", "cancel"}, NEW o
  PROVE  <<Code("http", op, o), Code("grpc", op, o)>> \in SameCode
  <1>1. Code("http", op, o) = HTTPCode(op, o) /\ Code("grpc", op, o) = GRPCCode(op, o)
    BY DEF Code
  <1>2. CASE o \in {"no request id", "unreadable", "refused", "done"}
    BY <1>1, <1>2 DEF HTTPCode, GRPCCode, SameCode
  <1>3. CASE o \notin {"no request id", "unreadable", "refused", "done"}
    <2>1. CASE op = "create"
      BY <1>1, <1>3, <2>1 DEF HTTPCode, GRPCCode, SameCode
    <2>2. CASE op = "list"
      BY <1>1, <1>3, <2>2 DEF HTTPCode, GRPCCode, SameCode
    <2>3. CASE op = "get"
      BY <1>1, <1>3, <2>3 DEF HTTPCode, GRPCCode, SameCode
    <2>4. CASE op = "cancel"
      BY <1>1, <1>3, <2>4 DEF HTTPCode, GRPCCode, SameCode
    <2> QED  BY <2>1, <2>2, <2>3, <2>4
  <1> QED  BY <1>2, <1>3

-------------------------------------------------------------------------------
(* The invariant.                                                          *)

\* An attempt that is past its transport knows the request as that transport
\* reads it, and is served only what Validate lets through.
AttemptOK ==
    /\ header \in Text
    /\ stage # "idle" => Len(answers) < MaxAttempts
    /\ stage \in {"request id", "bind"} => req = sent
    /\ stage \in {"validate", "serve"} =>
          req = IF via = "http" /\ sent.op = "create" THEN Bound(sent) ELSE sent
    /\ stage = "serve" => Valid(req)

Served(outcome) == outcome \notin {"no request id", "unreadable", "refused"}

\* A request was refused over a transport that does not admit it, and served
\* over one that does.
AnswerOK(a) ==
    /\ a.via \in Transports
    /\ a.code = Code(a.via, sent.op, a.outcome)
    /\ a.outcome = "refused" => ~Admits(a.via, sent)
    /\ Served(a.outcome) => Admits(a.via, sent)

AnswersOK ==
    /\ answers \in Seq(Range(answers))
    /\ \A a \in Range(answers) : AnswerOK(a)

\* A request that is read alike is stored under one key, with one set of terms.
PaymentsOK ==
    /\ sent.op # "create" => payments = {}
    /\ sent.op = "create" /\ ReadAlike(sent) =>
          \A p \in payments : p = [key |-> Key(sent), terms |-> Terms(sent)]

IntakeInv == TypeOK /\ AttemptOK /\ AnswersOK /\ PaymentsOK

\* One answer more.
LEMMA OneMore ==
  ASSUME NEW s, s \in Seq(Range(s)), NEW e
  PROVE  /\ Append(s, e) \in Seq(Range(Append(s, e)))
         /\ Range(Append(s, e)) = Range(s) \cup {e}
         /\ Len(s) \in Nat /\ Len(Append(s, e)) = Len(s) + 1
  <1>1. PICK S : S = Range(s) \cup {e}
    OBVIOUS
  <1>2. s \in Seq(S) /\ e \in S
    <2>1. Range(s) \subseteq S /\ Len(s) \in Nat
      BY <1>1
    <2>2. \A i \in 1 .. Len(s) : s[i] \in S
      BY <2>1
    <2>3. s = [i \in 1 .. Len(s) |-> s[i]]
      OBVIOUS
    <2> QED  BY <1>1, <2>1, <2>2, <2>3
  <1>3. /\ Append(s, e) \in Seq(S) /\ Len(Append(s, e)) = Len(s) + 1 /\ Len(s) \in Nat
        /\ \A i \in 1 .. Len(s) : Append(s, e)[i] = s[i]
        /\ Append(s, e)[Len(s) + 1] = e
    BY <1>2
  <1>4. DOMAIN s = 1 .. Len(s) /\ DOMAIN Append(s, e) = 1 .. Len(s) + 1
    BY <1>2, <1>3
  <1>5. ASSUME NEW x \in Range(Append(s, e))  PROVE  x \in S
    BY <1>3, <1>4, <1>5 DEF Range
  <1>6. ASSUME NEW x \in S  PROVE  x \in Range(Append(s, e))
    <2>1. CASE x = e
      <3>1. Len(s) + 1 \in 1 .. Len(s) + 1
        BY <1>3
      <3> QED  BY <1>3, <1>4, <2>1, <3>1 DEF Range
    <2>2. CASE x # e
      <3>1. PICK i \in 1 .. Len(s) : s[i] = x
        BY <1>1, <1>4, <2>2 DEF Range
      <3>2. i \in 1 .. Len(s) + 1
        BY <1>3
      <3> QED  BY <1>3, <1>4, <3>1, <3>2 DEF Range
    <2> QED  BY <2>1, <2>2
  <1>7. Range(Append(s, e)) = S
    BY <1>5, <1>6
  <1> QED  BY <1>1, <1>3, <1>7

\* Validate lets through what the transport admits.
LEMMA ValidIsAdmitted ==
  ASSUME IntakeInv, stage \in {"validate", "serve"}
  PROVE  Valid(req) <=> Admits(via, sent)
  <1>1. /\ sent \in Requests /\ via \in {"http", "grpc"} /\ header \in Text /\ ~IsBlank(header)
        /\ req = IF via = "http" /\ sent.op = "create" THEN Bound(sent) ELSE sent
    BY DEF IntakeInv, TypeOK, AttemptOK, Transports
  <1>2. CASE via = "http" /\ sent.op = "create"
    <2>1. sent \in CreateRequest /\ req = Bound(sent)
      BY <1>1, <1>2, RequestsByOp
    <2>2. sent.request_id \in Text /\ sent.caller_service \in Text
      BY <2>1 DEF CreateRequest
    <2>3. ~IsBlank(req.request_id)
      BY <1>1, <2>1, <2>2, BoundFields, TextsSettle
    <2>4. IsBlank(req.caller_service) <=> IsBlank(sent.caller_service)
      BY <2>1, <2>2, BoundFields, TextsSettle
    <2>5. /\ req.op = "create" /\ req.interval = ToLower(TrimSpace(sent.interval))
          /\ req.sound = sent.sound /\ req.provider = sent.provider
          /\ req.recurring = sent.recurring /\ req.count = sent.count
      BY <1>2, <2>1, BoundFields
    <2> QED  BY <1>2, <2>3, <2>4, <2>5 DEF Valid, Admits, Month
  <1>3. CASE ~(via = "http" /\ sent.op = "create")
    BY <1>1, <1>3 DEF Admits
  <1> QED  BY <1>2, <1>3

\* The key and the terms a request is stored with are those of what its caller
\* wrote.
LEMMA StoredAsWritten ==
  ASSUME IntakeInv, stage = "serve", sent.op = "create", ReadAlike(sent)
  PROVE  Key(req) = Key(sent) /\ Terms(req) = Terms(sent)
  <1>1. /\ sent \in CreateRequest
        /\ req = IF via = "http" THEN Bound(sent) ELSE sent
    BY RequestsByOp DEF IntakeInv, TypeOK, AttemptOK
  <1>2. CASE via = "http"
    <2>1. req = Bound(sent) /\ ~IsBlank(sent.request_id)
      BY <1>1, <1>2 DEF ReadAlike
    <2>2. /\ sent.request_id \in Text /\ sent.caller_service \in Text /\ sent.interval \in Text
      BY <1>1 DEF CreateRequest
    <2>3. /\ req.request_id = TrimSpace(sent.request_id)
          /\ req.caller_service = TrimSpace(sent.caller_service)
          /\ req.interval = ToLower(TrimSpace(sent.interval))
          /\ req.recurring = sent.recurring /\ req.count = sent.count
      BY <1>1, <2>1, BoundFields
    <2>4. /\ TrimSpace(req.request_id) = TrimSpace(sent.request_id)
          /\ TrimSpace(req.caller_service) = TrimSpace(sent.caller_service)
          /\ ToLower(TrimSpace(req.interval)) = ToLower(TrimSpace(sent.interval))
      BY <2>2, <2>3, TextsSettle
    <2> QED  BY <2>3, <2>4 DEF Key, Terms
  <1>3. CASE via # "http"
    BY <1>1, <1>3
  <1> QED  BY <1>2, <1>3

-------------------------------------------------------------------------------
(* The steps.                                                              *)

\* An answer keeps the invariant, if it is right about the request and about the
\* payments.
LEMMA AnswerKeeps ==
  ASSUME IntakeInv, NEW o, NEW x, Answer(o, x), stage # "idle",
         payments \subseteq payments', x \in payments' \cup {NoPayment},
         \A p, q \in payments' : p.key = q.key => p = q, PaymentsOK',
         o = "refused" => ~Admits(via, sent), Served(o) => Admits(via, sent)
  PROVE  IntakeInv'
  <1>1. PICK e : e = [via |-> via, outcome |-> o, payment |-> x, code |-> Code(via, sent.op, o)]
    OBVIOUS
  <1>2. /\ answers' = Append(answers, e) /\ stage' = "idle"
        /\ sent' = sent /\ via' = via /\ req' = req /\ header' = header
    BY <1>1 DEF Answer
  <1>3. /\ e.via = via /\ e.outcome = o /\ e.payment = x /\ e.code = Code(via, sent.op, o)
    BY <1>1
  <1>4. TypeOK /\ AttemptOK /\ AnswersOK
    BY DEF IntakeInv
  <1>5. /\ answers' \in Seq(Range(answers')) /\ Range(answers') = Range(answers) \cup {e}
        /\ Len(answers) \in Nat /\ Len(answers') = Len(answers) + 1
    <2>1. answers \in Seq(Range(answers))
      BY <1>4 DEF AnswersOK
    <2> QED  BY <1>2, <2>1, OneMore
  <1>6. Len(answers') <= MaxAttempts
    <2>1. Len(answers) < MaxAttempts
      BY <1>4 DEF AttemptOK
    <2>2. PICK n, m : n = Len(answers) /\ m = Len(answers')
      OBVIOUS
    <2>3. n \in Nat /\ m = n + 1 /\ n < MaxAttempts
      BY <1>5, <2>1, <2>2
    <2> QED  BY <2>2, <2>3, MaxAttemptsAssumption
  <1>7. TypeOK'
    <2>1. \A a \in Range(answers') :
            a.via \in Transports /\ a.payment \in payments' \cup {NoPayment}
      BY <1>3, <1>4, <1>5 DEF TypeOK
    <2> QED  BY <1>2, <1>4, <1>6, <2>1 DEF TypeOK
  <1>8. AttemptOK'
    BY <1>2, <1>4 DEF AttemptOK
  <1>9. AnswersOK'
    <2>1. AnswerOK(e)
      BY <1>3, <1>4 DEF AnswerOK, TypeOK
    <2>2. \A a \in Range(answers') : AnswerOK(a)
      BY <1>4, <1>5, <2>1 DEF AnswersOK
    <2>3. \A a : AnswerOK(a) => (AnswerOK(a))'
      BY <1>2 DEF AnswerOK
    <2> QED  BY <1>5, <2>2, <2>3 DEF AnswersOK
  <1> QED  BY <1>7, <1>8, <1>9 DEF IntakeInv

\* So does one that stores nothing.
LEMMA QuietAnswerKeeps ==
  ASSUME IntakeInv, NEW o, NEW x, Answer(o, x), stage # "idle", payments' = payments,
         x \in payments \cup {NoPayment},
         o = "refused" => ~Admits(via, sent), Served(o) => Admits(via, sent)
  PROVE  IntakeInv'
  <1>1. sent' = sent
    BY DEF Answer
  <1>2. PaymentsOK'
    BY <1>1 DEF IntakeInv, PaymentsOK
  <1>3. \A p, q \in payments' : p.key = q.key => p = q
    BY DEF IntakeInv, TypeOK
  <1> QED  BY <1>2, <1>3, AnswerKeeps

\* The caller sends the request, and the transport looks at its header.
LEMMA SendKeeps ==
  ASSUME IntakeInv, NEW t \in Transports,
         NEW id \in [word : HeaderIds \cup {""}, padded : BOOLEAN], Send(t, id)
  PROVE  IntakeInv'
  <1>1. /\ stage = "idle" /\ Len(answers) < MaxAttempts
        /\ via' = t /\ req' = sent /\ header' = id /\ stage' = "request id"
        /\ sent' = sent /\ payments' = payments /\ answers' = answers
    BY DEF Send
  <1>2. id \in Text
    BY DEF Text, Words
  <1>3. TypeOK'
    BY <1>1 DEF IntakeInv, TypeOK
  <1>4. AttemptOK'
    BY <1>1, <1>2 DEF AttemptOK
  <1> QED
    BY <1>1, <1>3, <1>4 DEF IntakeInv, AnswersOK, AnswerOK, PaymentsOK

\* Binding leaves the request as its transport reads it.
LEMMA BindKeeps ==
  ASSUME IntakeInv, Bind
  PROVE  IntakeInv'
  <1>1. /\ stage = "bind" /\ stage' = "validate"
        /\ req' = (IF via = "http" /\ req.op = "create" THEN Bound(req) ELSE req)
        /\ sent' = sent /\ via' = via /\ header' = header
        /\ payments' = payments /\ answers' = answers
    BY DEF Bind
  <1>2. req = sent /\ sent \in Requests
    BY <1>1 DEF IntakeInv, AttemptOK, TypeOK
  <1>3. req' = (IF via' = "http" /\ sent'.op = "create" THEN (Bound(sent))' ELSE sent')
    BY <1>1, <1>2 DEF Bound
  <1>4. req'.op = sent.op
    <2>1. sent.op = "create" => Bound(sent).op = sent.op
      BY <1>2, RequestsByOp, BoundFields
    <2> QED  BY <1>1, <1>2, <2>1
  <1>5. TypeOK'
    BY <1>1, <1>4 DEF IntakeInv, TypeOK
  <1>6. AttemptOK'
    <2>1. header' \in Text /\ Len(answers') < MaxAttempts
      BY <1>1 DEF IntakeInv, AttemptOK
    <2> QED  BY <1>1, <1>3, <2>1 DEF AttemptOK
  <1> QED
    BY <1>1, <1>5, <1>6 DEF IntakeInv, AnswersOK, AnswerOK, PaymentsOK

\* A stage that lets the request through and changes nothing else.
LEMMA PassKeeps ==
  ASSUME IntakeInv, RequireRequestID \/ Validate
  PROVE  IntakeInv'
  <1>1. /\ sent' = sent /\ via' = via /\ req' = req /\ header' = header
        /\ payments' = payments /\ answers' = answers
    BY DEF RequireRequestID, Validate
  <1>2. \/ stage = "request id" /\ stage' = "bind" /\ ~IsBlank(header)
        \/ stage = "validate" /\ stage' = "serve" /\ Valid(req)
    BY DEF RequireRequestID, Validate
  <1>3. TypeOK'
    BY <1>1, <1>2 DEF IntakeInv, TypeOK
  <1>4. AttemptOK'
    <2>1. AttemptOK
      BY DEF IntakeInv
    <2>2. (Bound(sent))' = Bound(sent) /\ (Valid(req))' = Valid(req)
      BY <1>1 DEF Bound, Valid
    <2>3. stage' = "serve" => Valid(req)
      BY <1>2
    <2>4. stage' = "bind" => req = sent
      BY <1>2, <2>1 DEF AttemptOK
    <2>5. stage' = "serve" => req = IF via = "http" /\ sent.op = "create" THEN Bound(sent) ELSE sent
      BY <1>2, <2>1 DEF AttemptOK
    <2>6. header \in Text /\ Len(answers) < MaxAttempts /\ stage' \in {"bind", "serve"}
      BY <1>2, <2>1 DEF AttemptOK
    <2> QED  BY <1>1, <2>2, <2>3, <2>4, <2>5, <2>6 DEF AttemptOK
  <1> QED
    BY <1>1, <1>3, <1>4 DEF IntakeInv, AnswersOK, AnswerOK, PaymentsOK

\* A request the transport turns away.
LEMMA TurnedAwayKeeps ==
  ASSUME IntakeInv, NoRequestID \/ BindFails \/ Refuse
  PROVE  IntakeInv'
  <1>1. CASE NoRequestID
    <2>1. /\ Answer("no request id", NoPayment) /\ payments' = payments /\ stage # "idle"
          /\ ~Served("no request id")
      BY <1>1 DEF NoRequestID, Served
    <2> QED  BY <2>1, QuietAnswerKeeps
  <1>2. CASE BindFails
    <2>1. /\ Answer("unreadable", NoPayment) /\ payments' = payments /\ stage # "idle"
          /\ ~Served("unreadable")
      BY <1>2 DEF BindFails, Served
    <2> QED  BY <2>1, QuietAnswerKeeps
  <1>3. CASE Refuse
    <2>1. /\ Answer("refused", NoPayment) /\ payments' = payments /\ stage # "idle"
          /\ ~Served("refused") /\ ~Valid(req) /\ stage = "validate"
      BY <1>3 DEF Refuse, Served
    <2>2. ~Admits(via, sent)
      BY <2>1, ValidIsAdmitted
    <2> QED  BY <2>1, <2>2, QuietAnswerKeeps
  <1> QED  BY <1>1, <1>2, <1>3

\* A request that is served is admitted.
LEMMA ServedIsAdmitted ==
  ASSUME IntakeInv, stage = "serve"
  PROVE  Admits(via, sent)
  BY ValidIsAdmitted DEF IntakeInv, AttemptOK

\* The service stores a payment for a new key, under the key and terms its
\* caller wrote, and answers with it.
LEMMA CreateKeeps ==
  ASSUME IntakeInv, CreatePayment
  PROVE  IntakeInv'
  <1>1. stage = "serve" /\ req.op = "create" /\ Admits(via, sent)
    BY ServedIsAdmitted DEF CreatePayment
  <1>2. CASE \/ Answer("invalid request", NoPayment) /\ payments' = payments
             \/ Answer("unsupported provider", NoPayment) /\ payments' = payments
    BY <1>1, <1>2, QuietAnswerKeeps
  <1>3. ASSUME NEW p \in payments, Answer("done", p), payments' = payments
        PROVE  IntakeInv'
    BY <1>1, <1>3, QuietAnswerKeeps
  <1>4. ASSUME NEW p, p = [key |-> Key(req), terms |-> Terms(req)],
               \A q \in payments : q.key # Key(req),
               payments' = payments \cup {p}, Answer("done", p)
        PROVE  IntakeInv'
    <2>1. sent' = sent /\ sent.op = "create"
      BY <1>1, <1>4 DEF Answer, IntakeInv, TypeOK
    <2>2. p.key = Key(req)
      BY <1>4
    <2>3. \A q, r \in payments' : q.key = r.key => q = r
      BY <1>4, <2>2 DEF IntakeInv, TypeOK
    <2>4. PaymentsOK'
      <3>1. ASSUME ReadAlike(sent)
            PROVE  p = [key |-> Key(sent), terms |-> Terms(sent)]
        BY <1>1, <1>4, <2>1, <3>1, StoredAsWritten
      <3>2. ReadAlike(sent)' <=> ReadAlike(sent)
        BY <2>1 DEF ReadAlike
      <3> QED  BY <1>4, <2>1, <3>1, <3>2 DEF IntakeInv, PaymentsOK
    <2>5. payments \subseteq payments' /\ p \in payments' \cup {NoPayment} /\ stage # "idle"
      BY <1>1, <1>4
    <2> QED  BY <1>1, <1>4, <2>3, <2>4, <2>5, AnswerKeeps
  <1>5. \/ Answer("invalid request", NoPayment) /\ payments' = payments
        \/ Answer("unsupported provider", NoPayment) /\ payments' = payments
        \/ \E p \in payments : Answer("done", p) /\ payments' = payments
        \/ \E p : /\ p = [key |-> Key(req), terms |-> Terms(req)]
                  /\ \A q \in payments : q.key # Key(req)
                  /\ payments' = payments \cup {p} /\ Answer("done", p)
    BY DEF CreatePayment
  <1> QED  BY <1>2, <1>3, <1>4, <1>5

\* Whatever else the service does, or fails to do, it stores nothing.
LEMMA PerformKeeps ==
  ASSUME IntakeInv, \/ Perform
                    \/ \E op \in DOMAIN ServiceErrors : \E e \in ServiceErrors[op] : ServiceFails(e)
  PROVE  IntakeInv'
  <1>1. stage = "serve"
    BY DEF Perform, ServiceFails
  <1>2. Admits(via, sent) /\ stage # "idle"
    BY <1>1, ServedIsAdmitted
  <1>3. CASE Perform
    BY <1>2, <1>3, QuietAnswerKeeps DEF Perform
  <1>4. ASSUME NEW op \in DOMAIN ServiceErrors, NEW e \in ServiceErrors[op], ServiceFails(e)
        PROVE  IntakeInv'
    <2>1. Answer(e, NoPayment) /\ payments' = payments
      BY <1>4 DEF ServiceFails
    <2>2. e # "refused"
      <3>1. /\ DOMAIN ServiceErrors = {"create", "get", "list", "cancel"}
            /\ ServiceErrors["create"] = {"already exists", "failure", "panic"}
            /\ ServiceErrors["get"] = {"not found", "failure", "panic"}
            /\ ServiceErrors["list"] = {"failure", "panic"}
            /\ ServiceErrors["cancel"] = {"not found", "invalid status", "failure", "panic"}
        BY DEF ServiceErrors
      <3> QED  BY <1>4, <3>1
    <2> QED  BY <1>2, <2>1, <2>2, QuietAnswerKeeps
  <1> QED  BY <1>3, <1>4

\* Nothing happens.
LEMMA IntakeStutter ==
  ASSUME IntakeInv, UNCHANGED vars
  PROVE  IntakeInv'
  <1>1. /\ sent' = sent /\ via' = via /\ stage' = stage /\ req' = req /\ header' = header
        /\ payments' = payments /\ answers' = answers
    BY DEF vars, attemptVars
  <1>2. TypeOK'
    BY <1>1 DEF IntakeInv, TypeOK
  <1>3. AttemptOK'
    BY <1>1 DEF IntakeInv, AttemptOK, Bound, Valid
  <1> QED
    BY <1>1, <1>2, <1>3 DEF IntakeInv, AnswersOK, AnswerOK, PaymentsOK

\* Before the first attempt.
LEMMA IntakeInit ==
  ASSUME Init
  PROVE  IntakeInv
  <1>1. /\ sent \in Requests /\ via = "http" /\ stage = "idle" /\ req = sent /\ header = Empty
        /\ payments = {} /\ answers = <<>>
    BY DEF Init
  <1>2. Range(answers) = {} /\ answers \in Seq(Range(answers)) /\ Len(answers) = 0
    BY <1>1 DEF Range
  <1>3. TypeOK
    BY <1>1, <1>2, MaxAttemptsAssumption DEF TypeOK, Transports
  <1>4. AttemptOK
    BY <1>1 DEF AttemptOK, Empty, Text, Words
  <1> QED  BY <1>1, <1>2, <1>3, <1>4 DEF IntakeInv, AnswersOK, PaymentsOK

\* Every step of an attempt.
LEMMA IntakeStep ==
  ASSUME IntakeInv, [Next]_vars
  PROVE  IntakeInv'
  <1>1. CASE \E t \in Transports, id \in [word : HeaderIds \cup {""}, padded : BOOLEAN] : Send(t, id)
    BY <1>1, SendKeeps
  <1>2. CASE RequireRequestID \/ Validate
    BY <1>2, PassKeeps
  <1>3. CASE NoRequestID \/ BindFails \/ Refuse
    BY <1>3, TurnedAwayKeeps
  <1>4. CASE Bind
    BY <1>4, BindKeeps
  <1>5. CASE CreatePayment
    BY <1>5, CreateKeeps
  <1>6. CASE \/ Perform
             \/ \E op \in DOMAIN ServiceErrors : \E e \in ServiceErrors[op] : ServiceFails(e)
    BY <1>6, PerformKeeps
  <1>7. CASE UNCHANGED vars
    BY <1>7, IntakeStutter
  <1>8. (\E e \in UNION {ServiceErrors[op] : op \in DOMAIN ServiceErrors} : ServiceFails(e))
          => \E op \in DOMAIN ServiceErrors : \E e \in ServiceErrors[op] : ServiceFails(e)
    OBVIOUS
  <1> QED  BY <1>1, <1>2, <1>3, <1>4, <1>5, <1>6, <1>7, <1>8 DEF Next

\* Every answer and every payment stays right about the request.
LEMMA IntakeInvariant == Spec => []IntakeInv
  <1>1. Init => IntakeInv
    BY IntakeInit
  <1>2. IntakeInv /\ [Next]_vars => IntakeInv'
    BY IntakeStep
  <1> QED  BY <1>1, <1>2, PTL DEF Spec

-------------------------------------------------------------------------------
(* The theorems.                                                           *)

\* Every variable keeps its type; only requests with a request id header get past
\* the first stage, and no key has two payments (requireRequestID,
\* RequestIDInterceptor, CreatePayment).
THEOREM IntakeTypes == Spec => []TypeOK
  <1>1. IntakeInv => TypeOK
    BY DEF IntakeInv
  <1> QED  BY <1>1, IntakeInvariant, PTL

\* Over HTTP and over gRPC an outcome is reported by codes that say the same;
\* HTTP refuses no request that gRPC admits, nor gRPC one that HTTP admits, if the
\* caller wrote it as both read it (the controller and the gRPC server).
THEOREM TransportsAgree == Spec => []SameAnswer
  <1>1. IntakeInv => SameAnswer
    <2> SUFFICES ASSUME IntakeInv, NEW a \in Range(answers), NEW b \in Range(answers),
                        a.via = "http", b.via = "grpc",
                        {a.outcome, b.outcome} \cap {"no request id", "unreadable"} = {}
                 PROVE  /\ a.outcome = b.outcome => <<a.code, b.code>> \in SameCode
                        /\ a.outcome = "refused" => b.outcome = "refused"
                        /\ b.outcome = "refused" /\ ReadAlike(sent) => a.outcome = "refused"
      BY DEF SameAnswer
    <2>1. sent \in Requests /\ AnswerOK(a) /\ AnswerOK(b)
      BY DEF IntakeInv, TypeOK, AnswersOK
    <2>2. a.outcome = b.outcome => <<a.code, b.code>> \in SameCode
      BY <2>1, RequestsByOp, CodesAgree DEF AnswerOK
    <2>3. /\ Served(a.outcome) <=> a.outcome # "refused"
          /\ Served(b.outcome) <=> b.outcome # "refused"
      BY DEF Served
    <2>4. /\ a.outcome = "refused" <=> ~Admits("http", sent)
          /\ b.outcome = "refused" <=> ~Admits("grpc", sent)
      BY <2>1, <2>3 DEF AnswerOK
    <2> QED  BY <2>1, <2>2, <2>4, HTTPAdmitsMore, AlikeAdmitted
  <1> QED  BY <1>1, IntakeInvariant, PTL

\* A caller that sends its request again gets the payment it has, over whichever
\* transport and however its texts are padded (CreatePayment: the idempotency key).
THEOREM ResendsGetThePayment == Spec => []ResendGetsThePayment
  <1>1. IntakeInv => ResendGetsThePayment
    BY DEF IntakeInv, PaymentsOK, ResendGetsThePayment
  <1> QED  BY <1>1, IntakeInvariant, PTL

-------------------------------------------------------------------------------
(* Webhooks.                                                               *)

\* Clipping gives an age of those told apart.
LEMMA ClipBounds ==
  ASSUME NEW a \in Int
  PROVE  Clip(a) \in MinAge..MaxAge
  BY ToleranceAssumption DEF Clip, MinAge, MaxAge

\* What arrives of a copy is what Stripe sent, by whichever way, unless somebody
\* printed it again.
LEMMA RoutesEndAlike ==
  ASSUME NEW c \in Copy
  PROVE  BoundCallback(c) = [payload |-> Event(c), signature |-> "signature"]
  <1>1. c.route \in {"raw", "wrapped", "both", "grpc"}
    BY DEF Copy, Routes
  <1>2. Event(c) # None
    BY DEF Event, None
  <1>3. CASE c.route = "grpc"
    BY <1>3 DEF BoundCallback
  <1>4. CASE c.route = "raw"
    BY <1>4 DEF BoundCallback, Body, Header, None
  <1>5. CASE c.route \in {"wrapped", "both"}
    BY <1>2, <1>5 DEF BoundCallback, Body, Header, None
  <1> QED  BY <1>1, <1>3, <1>4, <1>5

\* What it takes to be verified.
LEMMA VerifiedMeans ==
  ASSUME NEW c \in Copy
  PROVE  Verified(c) <=> ~c.altered /\ c.age \in -Tolerance..Tolerance
  <1>1. c.altered \in BOOLEAN /\ c.age \in Int
    BY ToleranceAssumption DEF Copy, MinAge, MaxAge
  <1>2. Event(c) = "event" <=> ~c.altered
    BY <1>1 DEF Event
  <1>3. BoundCallback(c) = [payload |-> "event", signature |-> "signature"] <=> ~c.altered
    BY <1>2, RoutesEndAlike
  <1>4. (c.age <= Tolerance /\ -c.age <= Tolerance) <=> c.age \in -Tolerance..Tolerance
    BY <1>1, ToleranceAssumption
  <1> QED  BY <1>3, <1>4 DEF Verified

\* An answer of 2xx is given of an event that is in the row and on record.
AckMeansRecorded == acked => applied /\ recorded

\* The inductive invariant.
WebhookInv ==
    /\ WebhookTypeOK
    /\ IsFiniteSet(copies)
    /\ RouteDoesNotMatter
    /\ AckMeansRecorded

\* A copy is sent.
LEMMA SendCopyKeeps ==
  ASSUME WebhookInv, NEW route \in Routes, NEW altered \in BOOLEAN, SendCopy(route, altered)
  PROVE  WebhookInv'
  <1> DEFINE c == [route |-> route, altered |-> altered, age |-> Clip(-skew)]
  <1>1. c \in Copy
    <2>1. -skew \in Int
      BY SkewsAssumption DEF WebhookInv, WebhookTypeOK
    <2> QED  BY <2>1, ClipBounds DEF Copy
  <1>2. copies' = copies \cup {c}
    BY DEF SendCopy
  <1>3. /\ IsFiniteSet(copies') /\ Cardinality(copies) \in Nat
        /\ Cardinality(copies') = IF c \in copies THEN Cardinality(copies)
                                  ELSE Cardinality(copies) + 1
    BY <1>2, FS_AddElement, FS_CardinalityType DEF WebhookInv
  <1>4. Cardinality(copies') <= MaxInFlight
    BY <1>3, MaxInFlightAssumption DEF SendCopy
  <1> QED  BY <1>1, <1>2, <1>3, <1>4
           DEF WebhookInv, WebhookTypeOK, RouteDoesNotMatter, AckMeansRecorded, SendCopy

\* Time passes: copies that differed may come to be the same, so that there are
\* no more of them.
LEMMA TickKeeps ==
  ASSUME WebhookInv, Tick
  PROVE  WebhookInv'
  <1> DEFINE f == [c \in copies |-> [c EXCEPT !.age = Clip(@ + 1)]]
  <1>1. ASSUME NEW c \in copies PROVE f[c] \in Copy
    <2>1. c \in Copy /\ c.age + 1 \in Int
      BY ToleranceAssumption DEF WebhookInv, WebhookTypeOK, Copy, MinAge, MaxAge
    <2>2. Clip(c.age + 1) \in MinAge..MaxAge
      BY <2>1, ClipBounds
    <2> QED  BY <2>1, <2>2 DEF Copy
  <1>2. copies' = {f[c] : c \in copies}
    BY DEF Tick
  <1>3. f \in Surjection(copies, copies')
    BY <1>2 DEF Surjection
  <1>4. /\ IsFiniteSet(copies') /\ Cardinality(copies') <= Cardinality(copies)
        /\ Cardinality(copies) \in Nat /\ Cardinality(copies') \in Nat
    <2> HIDE DEF f
    <2> QED  BY <1>3, FS_Surjection, FS_CardinalityType DEF WebhookInv
  <1>5. Cardinality(copies') <= MaxInFlight
    BY <1>4, MaxInFlightAssumption DEF WebhookInv, WebhookTypeOK
  <1>6. copies' \subseteq Copy
    BY <1>1, <1>2
  <1> QED  BY <1>4, <1>5, <1>6
           DEF WebhookInv, WebhookTypeOK, RouteDoesNotMatter, AckMeansRecorded, Tick

\* A copy that is taken is one less on its way.
LEMMA TakeKeepsCopies ==
  ASSUME WebhookInv, NEW c, Take(c)
  PROVE  /\ c \in Copy /\ copies' \subseteq Copy /\ IsFiniteSet(copies')
         /\ Cardinality(copies') <= MaxInFlight /\ skew' \in Skews
  <1>1. c \in copies /\ copies' = copies \ {c}
    BY DEF Take
  <1>2. IsFiniteSet(copies') /\ Cardinality(copies') = Cardinality(copies) - 1
    BY <1>1, FS_RemoveElement DEF WebhookInv
  <1>3. Cardinality(copies) \in Nat /\ Cardinality(copies) <= MaxInFlight
    BY FS_CardinalityType DEF WebhookInv, WebhookTypeOK
  <1>4. Cardinality(copies') <= MaxInFlight
    BY <1>2, <1>3, MaxInFlightAssumption
  <1> QED  BY <1>1, <1>2, <1>4 DEF Take, WebhookInv, WebhookTypeOK

\* A copy is answered: with 400 if, and only if, it was not verified.
LEMMA AnswerOfCopy ==
  ASSUME WebhookInv, NEW c, Take(c), NEW code \in {200, 400, 500}, Reply(c, code),
         code = 400 <=> ~Verified(c)
  PROVE  /\ last' # Nothing' /\ last'.copy \in Copy /\ last'.code \in {200, 400, 500}
         /\ RouteDoesNotMatter'
  <1>1. c \in Copy /\ last' = [copy |-> c, code |-> code]
    BY TakeKeepsCopies DEF Reply
  <1>2. code # 0
    OBVIOUS
  <1>3. last' # Nothing
    BY <1>1, <1>2 DEF Nothing
  <1>4. code = 400 <=> (c.altered \/ c.age \notin -Tolerance..Tolerance)
    BY <1>1, VerifiedMeans DEF Copy
  <1> QED  BY <1>1, <1>3, <1>4 DEF RouteDoesNotMatter, Nothing

\* A copy is refused.
LEMMA RejectKeeps ==
  ASSUME WebhookInv, NEW c, Reject(c)
  PROVE  WebhookInv'
  <1>1. Take(c) /\ ~Verified(c) /\ Reply(c, 400) /\ acked' = acked
    BY DEF Reject, Reply
  <1> QED  BY <1>1, TakeKeepsCopies, AnswerOfCopy
           DEF WebhookInv, WebhookTypeOK, AckMeansRecorded, Reject

\* A copy is applied and recorded, and answered.
LEMMA HandleKeeps ==
  ASSUME WebhookInv, NEW c, Handle(c)
  PROVE  WebhookInv'
  <1>1. Take(c) /\ Verified(c) /\ Reply(c, 200) /\ acked' \in BOOLEAN
    BY DEF Handle, Reply, WebhookInv, WebhookTypeOK
  <1> QED  BY <1>1, TakeKeepsCopies, AnswerOfCopy
           DEF WebhookInv, WebhookTypeOK, AckMeansRecorded, Handle

\* The database fails with a copy.
LEMMA HandleFailsKeeps ==
  ASSUME WebhookInv, NEW c, HandleFails(c)
  PROVE  WebhookInv'
  <1>1. Take(c) /\ Verified(c) /\ Reply(c, 500) /\ acked' = acked
    BY DEF HandleFails, Reply
  <1>2. applied \in BOOLEAN /\ (applied' = applied \/ applied' = TRUE)
    BY Zenon DEF HandleFails, WebhookInv, WebhookTypeOK
  <1>3. recorded' = recorded /\ recorded \in BOOLEAN /\ (recorded => applied)
        /\ acked \in BOOLEAN /\ (acked => recorded)
    BY DEF HandleFails, WebhookInv, WebhookTypeOK, AckMeansRecorded
  <1>4. /\ copies' \subseteq Copy /\ IsFiniteSet(copies')
        /\ Cardinality(copies') <= MaxInFlight /\ skew' \in Skews
        /\ last'.copy \in Copy /\ last'.code \in {200, 400, 500}
        /\ RouteDoesNotMatter'
    BY <1>1, TakeKeepsCopies, AnswerOfCopy
  <1>5. /\ applied' \in BOOLEAN /\ recorded' \in BOOLEAN /\ acked' \in BOOLEAN
        /\ recorded' => applied'
        /\ acked' => applied' /\ recorded'
    BY <1>1, <1>2, <1>3, Zenon
  <1> QED  BY <1>4, <1>5, Zenon DEF WebhookInv, WebhookTypeOK, AckMeansRecorded

\* Every step keeps the invariant.
LEMMA WebhookStep == WebhookInv /\ [WebhookNext]_webhookVars => WebhookInv'
  <1> SUFFICES ASSUME WebhookInv, [WebhookNext]_webhookVars PROVE WebhookInv'
    OBVIOUS
  <1>1. CASE \E route \in Routes, altered \in BOOLEAN : SendCopy(route, altered)
    BY <1>1, SendCopyKeeps
  <1>2. CASE Tick
    BY <1>2, TickKeeps
  <1>3. CASE \E c \in copies : Reject(c)
    BY <1>3, RejectKeeps
  <1>4. CASE \E c \in copies : Handle(c)
    BY <1>4, HandleKeeps
  <1>5. CASE \E c \in copies : HandleFails(c)
    BY <1>5, HandleFailsKeeps
  <1>6. CASE \E c \in copies : Lose(c)
    BY <1>6, TakeKeepsCopies
       DEF Lose, WebhookInv, WebhookTypeOK, RouteDoesNotMatter, AckMeansRecorded
  <1>7. CASE UNCHANGED webhookVars
    BY <1>7 DEF webhookVars, WebhookInv, WebhookTypeOK, RouteDoesNotMatter, AckMeansRecorded
  <1> QED  BY <1>1, <1>2, <1>3, <1>4, <1>5, <1>6, <1>7 DEF WebhookNext

\* What is true of a webhook on its way, at all times.
LEMMA WebhookInvariant == WebhookSpec => []WebhookInv
  <1>1. WebhookInit => WebhookInv
    <2> SUFFICES ASSUME WebhookInit PROVE WebhookInv
      OBVIOUS
    <2>1. copies = {} /\ IsFiniteSet(copies) /\ Cardinality(copies) = 0
      BY FS_EmptySet DEF WebhookInit
    <2>2. Cardinality(copies) <= MaxInFlight
      BY <2>1, MaxInFlightAssumption
    <2>3. /\ skew \in Skews /\ last = Nothing
          /\ applied = FALSE /\ recorded = FALSE /\ acked = FALSE
      BY DEF WebhookInit
    <2> QED  BY <2>1, <2>2, <2>3, Zenon
             DEF WebhookInv, WebhookTypeOK, RouteDoesNotMatter, AckMeansRecorded
  <1> QED  BY <1>1, WebhookStep, PTL DEF WebhookSpec

\* Every variable keeps its type, however far apart the clocks and however many
\* the copies; no event is on record whose UPDATE did not happen
\* (HandleProviderCallback).
THEOREM WebhookTypes == WebhookSpec => []WebhookTypeOK
  <1>1. WebhookInv => WebhookTypeOK
    BY DEF WebhookInv
  <1> QED  BY <1>1, WebhookInvariant, PTL

\* Whichever way a copy of an event came, raw, wrapped, wrapped with the header
\* kept, or over gRPC, it is refused if, and only if, its payload was touched or
\* its stamp is further off than the tolerance, for every tolerance
\* (NewHandleProviderCallbackRequestFromContext, verifyStripeSignature).
THEOREM RoutesDoNotMatter == WebhookSpec => []RouteDoesNotMatter
  <1>1. WebhookInv => RouteDoesNotMatter
    BY DEF WebhookInv
  <1> QED  BY <1>1, WebhookInvariant, PTL

\* Stripe, once it has a 2xx, may forget an event: the row has it and the
\* callback is on record, whatever failed, was lost or came late before
\* (HandleProviderCallback answers an error of UPDATE or INSERT with 500).
THEOREM AckedIsRecorded == WebhookSpec => []AckMeansRecorded
  <1>1. WebhookInv => AckMeansRecorded
    BY DEF WebhookInv
  <1> QED  BY <1>1, WebhookInvariant, PTL
===============================================================================
