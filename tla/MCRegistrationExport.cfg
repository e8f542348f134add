SPECIFICATION ExportSpec
CONSTANTS
    j1 = j1
    a1 = a1
    p1 = p1
    r1 = r1
    r2 = r2
    c1 = c1
    c2 = c2
    Jobs = {j1}
    Procs = {p1}
    Slots = {1}
    Producer = 0
    Admins = {a1}
    MaxAttempts <- AttemptsGiven
    RetryLimit = 1
    Outcomes = {"ok", "lost", "unacked"}
    LeaseOutlived = FALSE
    MaxFaults = 1
    MaxRetries = 1
    NoJob = NoJob
    NoProc = NoProc
    Regs = {r1, r2}
    Callers = {c1, c2}
    MayCancel <- CancelsGiven
    CallOutcomes = {"ok", "unacked"}
    MaxEdits = 1
    NoReg = NoReg
    MaxExportFaults = 1
    NoFile = NoFile
CHECK_DEADLOCK FALSE
INVARIANTS
    OneWinner
    RefusalsExplained
    DoneMeansExported
    DeadLetterNeedsFault
PROPERTIES
    ExportStays
    ExportIsOneMoment
