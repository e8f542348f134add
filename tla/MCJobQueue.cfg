SPECIFICATION FairSpec
CONSTANTS
    Jobs = {j1, j2}
    Procs = {p1, p2}
    Slots = {1}
    Producer = producer
    Admins = {a1, a2}
    MaxAttempts <- TwoAttempts
    RetryLimit = 2
    Outcomes = {"ok", "lost"}
    LeaseOutlived = FALSE
    MaxFaults = 1
    MaxRetries = 2
    NoJob = NoJob
    NoProc = NoProc
INVARIANTS
    ClaimExclusive
    NeverStuckPending
    ReexecutionNeedsFault
PROPERTIES
    SettledStays
    EventuallySettled
CHECK_DEADLOCK FALSE
