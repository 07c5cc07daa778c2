SPECIFICATION MCSpec
CHECK_DEADLOCK FALSE
CONSTANTS
    MaxRun = 2
    MaxEvent = 7
    MaxTask = 4
    MaxFaults = 1
    Workers = {w1, w2}
    NoWorker = NoWorker
    ActTypes = {a, b}
    NoType = NoType
    Tenants = {t}
    LifetimeCap = TRUE
    AckUnrecorded = FALSE
    BasicTypes = {a}
    Families = {"basic", "mixed", "loop"}
    Decisions <- AllDecisions
SYMMETRY WorkerSymmetry
INVARIANTS
    HistoryGapFree
    DecisionSawHistory
    AnsweredOnce
    NeverWedged
    ActivityNotLost
    TimerNotLost
    OneSuccessor
PROPERTIES
    HistoryFinal
