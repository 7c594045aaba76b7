\* Up to two copies on their way, clocks up to more than the tolerance apart,
\* and fairness.
CONSTANTS
    Tolerance = 1
    Skews <- AnyClocks
    MaxInFlight = 2
SPECIFICATION WebhookFairSpec
INVARIANTS
    WebhookTypeOK
    RouteDoesNotMatter
PROPERTIES
    EventArrives
