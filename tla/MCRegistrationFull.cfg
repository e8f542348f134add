SPECIFICATION Spec
CONSTANTS
    r1 = r1
    r2 = r2
    r3 = r3
    r4 = r4
    ann = ann
    bob = bob
    cyd = cyd
    Requests = {r1, r2, r3, r4}
    Emails = {ann, bob, cyd}
    EmailOf <- EmailsGiven
    Capacities = {1, 2}
    PoolSize = 2
    MaxEdits = 2
    NoTx = NoTx
CHECK_DEADLOCK FALSE
INVARIANT
    CapacityEnforced
