\* Every actor at once on one payment: two requests and the three jobs.
CONSTANTS
    Payments = {p1}
    Requests = {r1, r2}
    Reconcilers = {c1}
    Expirers = {e1}
    Dispatchers = {d1}
    BatchSize = 1
    MaxAttempts = 1
    ProviderFacts = {"completed", "paid", "expired"}
    MaxInFlight = 5
    MaxFaults = 1
    NoRow = NoRow
    NoPayment = NoPayment
SPECIFICATION Spec
SYMMETRY Symmetry
INVARIANTS
    RowsSound
    InFlightSound
    OutcomesFounded
CHECK_DEADLOCK FALSE
