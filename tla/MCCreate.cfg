\* Three overlapping calls on two keys, and two faults.
CONSTANTS
    Calls = {c1, c2, c3}
    Keys = {k1, k2}
    MaxInFlight = 3
    MaxFaults = 2
    NoCall = NoCall
    NoKey = NoKey
SPECIFICATION Spec
INVARIANTS
    TypeOK
    AnsweredPaymentIsPayable
PROPERTIES
    ImplementsCreateOnce
CHECK_DEADLOCK FALSE
