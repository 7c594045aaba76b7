\* Handlers and jobs that overlap on one payment, with liveness: two dispatchers
\* count attempts on copies of the row, and a webhook or a cancel interferes.
CONSTANTS
    Payments = {p1}
    Requests = {r1}
    Reconcilers = {}
    Expirers = {e1}
    Dispatchers = {d1, d2}
    BatchSize = 1
    MaxAttempts = 2
    ProviderFacts = {"completed"}
    MaxInFlight = 4
    MaxFaults = 1
    NoRow = NoRow
    NoPayment = NoPayment
SPECIFICATION FairSpec
INVARIANTS
    TypeOK
    RowsSound
    DeliveredMeansTold
    GivenUpMeansBudgetSpent
    OutcomesFounded
PROPERTIES
    ComesToRest
CHECK_DEADLOCK FALSE
