\* Two webhooks one after the other about the same payment.
CONSTANTS
    Payments = {p1}
    Requests = {r1, r2}
    Reconcilers = {}
    Expirers = {}
    Dispatchers = {}
    BatchSize = 1
    MaxAttempts = 1
    ProviderFacts = {"completed"}
    MaxInFlight = 1
    MaxFaults = 0
    NoRow = NoRow
    NoPayment = NoPayment
SPECIFICATION Spec
PROPERTIES
    NotFoundMeansAbsent
CHECK_DEADLOCK FALSE
