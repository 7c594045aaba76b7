\* A command run once or as a worker, batches of up to nine payments.
CONSTANTS
    MaxBatch = 9
SPECIFICATION FairSpec
INVARIANTS
    TypeOK
    LaterBatchesAreWhole
    NoBurst
PROPERTIES
    SignalStops
    TickRuns
CHECK_DEADLOCK FALSE
