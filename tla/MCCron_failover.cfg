SPECIFICATION Spec
CHECK_DEADLOCK FALSE
CONSTANTS
    Crons = {c1}
    Periods = {2, 3}
    Horizon = 5
    MaxTerm = 2
    MaxLog = 2
    MaxFired = 2
INVARIANTS
    OncePerSlot
