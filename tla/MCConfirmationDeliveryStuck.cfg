SPECIFICATION FairSpec
CONSTANTS
    Regs = {r1}
    Execs = {e1, e2}
    Outcomes = {"ok"}
    MaxFaults = 1
    NoReg = NoReg
PROPERTY SendingResolves
