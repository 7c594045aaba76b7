\* Liveness of three payments that compete for batches of two.
CONSTANTS
    Payments = {p1, p2, p3}
    Requests = {}
    Reconcilers = {}
    Expirers = {e1}
    Dispatchers = {d1}
    BatchSize = 2
    MaxAttempts = 0
    ProviderFacts = {}
    MaxInFlight = 4
    MaxFaults = 1
    NoRow = NoRow
    NoPayment = NoPayment
SPECIFICATION FairSpec
PROPERTIES
    PendingResolves
    OutcomeSettles
CHECK_DEADLOCK FALSE
