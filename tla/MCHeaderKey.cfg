\* A create request without a request_id, sent twice.
CONSTANTS
    MaxAttempts = 2
    HeaderIds = {"id1", "id2"}
    Requests <- Creates
SPECIFICATION Spec
INVARIANTS
    KeyedByRequestId
CHECK_DEADLOCK FALSE
