SPECIFICATION MCSpec
CHECK_DEADLOCK FALSE
CONSTANTS
    n1 = n1
    n2 = n2
    NoNode = NoNode
    Nodes = {n1, n2}
    Names = {"root", "w"}
    Lanes = {"a", "b"}
    Groups = {"g", "h"}
    Unnamed = ""
    GrantsInUse <- MCGrants
    TagsInUse = {{}}
    a1 = a1
    Admins = {a1}
    MaxAuthLog = 3
    GateNodes = {n1, n2}
    GateLanes = {"a", "b"}
    LaneConfigs <- MCConfigs
    Durations = {0, 1}
    MaxClock = 2
    s1 = s1
    s2 = s2
    Streams = {s1, s2}
    o1 = o1
    Setters = {o1}
    Messages <- MCMessages
    Requests <- MCRequests
    WorkerTokens = {1}
    RecvCap = 1
    MaxLeases = 2
    Holders = {a, b}
    Nobody = Nobody
    Ttls = {2}
    Horizon = 3
    MaxFence = 2
    MaxPending = 2
    MaxSkew = 1
    Families = {"auth", "stream", "gate", "lock"}
SYMMETRY HolderSymmetry
INVARIANTS
    MutualExclusion
    FenceOutranks
    StreamWithinGrants
    CreditBounds
    PauseDrains
    LimitTakesHold
    RotationSticks
    RevokesNamed
