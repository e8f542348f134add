SPECIFICATION FairSpec
CONSTANTS
    Regs = {r1, r2}
    Execs = {e1, e2, e3}
    Outcomes = {"ok", "lost", "unacked"}
    MaxFaults = 2
    NoReg = NoReg
INVARIANTS
    GateExclusive
PROPERTIES
    SentStays
    ImplementsSendOnce
    FaultFreeSendingResolves
