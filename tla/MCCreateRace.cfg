\* Two overlapping calls with the same key.
CONSTANTS
    Calls = {c1, c2}
    Keys = {k1}
    MaxInFlight = 2
    MaxFaults = 0
    NoCall = NoCall
    NoKey = NoKey
SPECIFICATION Spec
INVARIANTS
    DuplicatesGetThePayment
CHECK_DEADLOCK FALSE
