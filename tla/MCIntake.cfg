\* Every request, sent up to two times over either transport.
CONSTANTS
    MaxAttempts = 2
    HeaderIds = {"id1", "id2"}
    Requests <- AllRequests
SPECIFICATION Spec
INVARIANTS
    TypeOK
    SameAnswer
    ResendGetsThePayment
CHECK_DEADLOCK FALSE
