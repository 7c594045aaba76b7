\* Five payments, pages of up to three, with and without a filter.
CONSTANTS
    MaxId = 5
    Limits <- AskedLimits
    DefaultLimit = 2
    MaxLimit = 3
    Filters = {"any", "pending"}
SPECIFICATION Spec
INVARIANTS
    TypeOK
    MissesAreCovered
    RepeatsAreCovered
CHECK_DEADLOCK FALSE
