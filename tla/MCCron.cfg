SPECIFICATION FairSpec
CHECK_DEADLOCK FALSE
CONSTANTS
    Crons = {c1}
    Periods = {1, 2}
    Horizon = 3
    MaxTerm = 2
    MaxLog = 2
    MaxFired = 2
INVARIANTS
    ArmedHasRow
    OncePerSlotOneLeader
    FiredOnTime
PROPERTIES
    SlotServed
