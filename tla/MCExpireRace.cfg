\* The expire job and a webhook about the same payment.
CONSTANTS
    Payments = {p1}
    Requests = {r1}
    Reconcilers = {}
    Expirers = {e1}
    Dispatchers = {}
    BatchSize = 1
    MaxAttempts = 1
    ProviderFacts = {"completed"}
    MaxInFlight = 2
    MaxFaults = 0
    NoRow = NoRow
    NoPayment = NoPayment
SPECIFICATION Spec
PROPERTIES
    SweepsSpareOutcomes
CHECK_DEADLOCK FALSE
