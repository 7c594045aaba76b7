\* Two payments, alone in a batch or together: the three jobs against the clock.
CONSTANTS
    Payments = {p1, p2}
    BatchSizes = {1, 2}
    MaxAttempts = 3
    StaleAfter = 1
    PendingTimeout = 5
    RetryInterval = 1
    ReconcileInterval = 2
    ExpireInterval = 1
    DispatchInterval = 1
    Horizon = 8
    LastCreation = 1
    SessionEndings = {"paid", "expired"}
    MaxFaults = 1
    NoRow = NoRow
SPECIFICATION Spec
SYMMETRY Symmetry
INVARIANTS
    TypeOK
    PaidIsNoticed
    OpenIsBounded
    DueInTurn
PROPERTIES
    AskedBeforeExpired
CHECK_DEADLOCK FALSE
