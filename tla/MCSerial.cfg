\* One payment whose operations never overlap, with a fault.
CONSTANTS
    Payments = {p1}
    Requests = {r1, r2, r3}
    Reconcilers = {c1}
    Expirers = {e1}
    Dispatchers = {d1}
    BatchSize = 1
    MaxAttempts = 1
    ProviderFacts = {"completed", "paid", "failed", "expired"}
    MaxInFlight = 1
    MaxFaults = 1
    NoRow = NoRow
    NoPayment = NoPayment
SPECIFICATION Spec
SYMMETRY Symmetry
PROPERTIES
    NewOutcomeIsQueued
    ImplementsLedger
CHECK_DEADLOCK FALSE
