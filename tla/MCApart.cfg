\* Two payments: operations overlap, but never on the same payment.
CONSTANTS
    Payments = {p1, p2}
    Requests = {r1, r2}
    Reconcilers = {c1}
    Expirers = {e1}
    Dispatchers = {d1}
    BatchSize = 2
    MaxAttempts = 1
    ProviderFacts = {"completed", "failed", "expired"}
    MaxInFlight = 2
    MaxFaults = 0
    NoRow = NoRow
    NoPayment = NoPayment
SPECIFICATION ApartSpec
SYMMETRY PaymentSymmetry
PROPERTIES
    NewOutcomeIsQueued
    ImplementsLedger
CHECK_DEADLOCK FALSE
