SPECIFICATION Spec
CONSTANTS
    Jobs = {j1}
    Procs = {p1, p2}
    Slots = {1}
    Producer = producer
    Admins = {a1, a2}
    MaxAttempts <- TwoAttempts
    RetryLimit = 1
    Outcomes = {"ok", "lost", "unacked"}
    LeaseOutlived = TRUE
    MaxFaults = 2
    MaxRetries = 2
    NoJob = NoJob
    NoProc = NoProc
INVARIANT ExhaustedIsDeadLettered
CHECK_DEADLOCK FALSE
