SPECIFICATION MCFairSpec
CHECK_DEADLOCK FALSE
CONSTANTS
    MaxRun = 1
    MaxEvent = 5
    MaxTask = 3
    MaxFaults = 1
    Workers = {w1, w2}
    NoWorker = NoWorker
    ActTypes = {a}
    NoType = NoType
    Tenants = {t}
    LifetimeCap = FALSE
    AckUnrecorded = TRUE
    BasicTypes = {a}
    Families = {"any"}
    Decisions <- BasicDecisions
PROPERTIES
    EventsDecided
