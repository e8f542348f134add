SPECIFICATION Spec
CONSTANTS
    Events = {e1}
    Listers = {l1}
    Writers = {w1}
    Execs = {x1, x2}
    TTL = 1
    QueryTimeout = 1
    MaxAttempts = 2
    MaxVersion = 2
    MaxFaults = 2
    NoPage = NoPage
    NoEvent = NoEvent
INVARIANTS
    ServedFresh
    StaleOnlyByOverlap
    DoneMeansPublished
PROPERTIES
    PublishedOnce
    PublishTakesEffect
    EventuallyCurrent
CHECK_DEADLOCK FALSE
