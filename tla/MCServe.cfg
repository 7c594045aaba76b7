\* Three calls over either server, a signal at any time; no symmetry, as liveness
\* is checked.
CONSTANTS
    Calls = {c1, c2, c3}
    NoServer = NoServer
SPECIFICATION FairSpec
INVARIANTS
    TypeOK
    CleanStopAnswers
    OrphansAreLateHttp
PROPERTIES
    StopsOnSignal
CHECK_DEADLOCK FALSE
