SPECIFICATION FairSpec
CHECK_DEADLOCK FALSE
CONSTANTS
    MaxLog = 4
    Trailing = 1
    MaxStops = 2
INVARIANTS
    ExactlyOnce
    Recoverable
PROPERTIES
    CatchesUp
