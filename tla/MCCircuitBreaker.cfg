SPECIFICATION FairSpec
CONSTANTS
    Calls = {c1, c2, c3, c4}
    FailureThreshold = 2
    HalfOpenMaxCalls = 1
    MaxFailures = 4
    MaxOutages = 3
INVARIANTS
    ThresholdMatchesState
    HalfOpenAwaitsTrial
PROPERTIES
    Recovers
