SPECIFICATION PipelineSpec
CONSTANTS
    Jobs = {j1}
    Procs = {p1, p2}
    Slots = {1}
    Producer = producer
    Admins = {a1}
    MaxAttempts <- TwoAttempts
    RetryLimit = 1
    Outcomes = {"ok", "lost", "unacked"}
    LeaseOutlived = TRUE
    MaxFaults = 2
    MaxRetries = 1
    MaxGateFaults = 1
    NoJob = NoJob
    NoProc = NoProc
INVARIANTS
    LockedIffProcessing
    AttemptsBounded
    DoneMeansConfirmed
PROPERTIES
    ImplementsSendOnceEndToEnd
SYMMETRY Symmetry
CHECK_DEADLOCK FALSE
