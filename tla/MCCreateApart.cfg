\* Calls that overlap, but for no key, and no fault.
CONSTANTS
    Calls = {c1, c2, c3, c4}
    Keys = {k1, k2}
    MaxInFlight = 4
    MaxFaults = 0
    NoCall = NoCall
    NoKey = NoKey
SPECIFICATION ApartSpec
INVARIANTS
    DuplicatesGetThePayment
    OneCheckoutPerKey
CHECK_DEADLOCK FALSE
