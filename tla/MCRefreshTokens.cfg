SPECIFICATION Spec
CONSTANTS
    Tokens = {t1, t2, t3, t4}
    Sessions = {s1, s2}
    Requests = {q1, q2}
    MaxFaults = 1
    NoToken = NoToken
    NoSession = NoSession
    NoTx = NoTx
SYMMETRY Interchangeable
INVARIANTS
    ExchangedOnce
    OneLivePerSession
    SessionKept
CHECK_DEADLOCK FALSE
