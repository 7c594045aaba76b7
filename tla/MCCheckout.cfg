\* A card payment or a payment link with two visits; events in order and writers
\* one by one, or overlapping writers and events lost, repeated and in any order.
CONSTANTS
    Sessions = {s1, s2}
    Invoices = {i1}
    Handlers = {h1, h2}
    Reconcilers = {w1}
    MaxInFlight = 3
    MaxEvents = 3
    Methods = {"hosted_card", "payment_link"}
    Delayed = TRUE
    MaxAttempts = 1
    LinkId = LinkId
    NoSubscription = NoSubscription
    NoEntity = NoEntity
SPECIFICATION FairSpec
INVARIANTS
    TypeOK
    OpenRowKeepsItsId
    ReadingsAgree
    PaidIsBacked
PROPERTIES
    PaidDoesNotExpire
    PaidIsReconciled
CHECK_DEADLOCK FALSE
