SPECIFICATION MCSpec
CHECK_DEADLOCK FALSE
CONSTANTS
    MaxRun = 1
    MaxEvent = 6
    MaxTask = 4
    MaxFaults = 0
    Workers = {w1}
    NoWorker = NoWorker
    ActTypes = {a}
    NoType = NoType
    Tenants = {t}
    LifetimeCap = FALSE
    AckUnrecorded = FALSE
    BasicTypes = {a}
    Families = {"any"}
    Decisions <- FanOutDecisions
INVARIANTS
    ActivityNotLost
