\* A call whose INSERT fails, and the retry.
CONSTANTS
    Calls = {c1, c2}
    Keys = {k1}
    MaxInFlight = 1
    MaxFaults = 1
    NoCall = NoCall
    NoKey = NoKey
SPECIFICATION Spec
INVARIANTS
    OneCheckoutPerKey
CHECK_DEADLOCK FALSE
