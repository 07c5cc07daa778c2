SPECIFICATION MCSpec
CHECK_DEADLOCK FALSE
CONSTANTS
    Groups = {1, 2}
    Unit = 2
    Tier = 2
    Costs = {1, 2}
    MaxCharge = 3
    Kinds = {"wfq", "completion_aware", "strict_priority", "at_will"}
    Filters = {{1, 2}, {1}}
    MaxVt = 5
    Threshold = 2
    Window = 1
    Horizon = 3
    n1 = n1
    n2 = n2
    o1 = o1
    o2 = o2
    l1 = l1
    l2 = l2
    v1 = v1
    Nodes = {n1, n2}
    Operators = {o1, o2}
    Leasers = {l1, l2}
    BadKinds = {"broken"}
    MaxVersion = 2
    Lanes = {"a", "b"}
    Tenants = {"g", "h"}
    Viewers = {v1}
    RingCap = 3
    MaxRibbon = 2
    MaxServes = 5
    Families = {"rank", "install", "observe"}
    InstallKinds = {"wfq", "at_will"}
    InstallLog = 2
    InstallCalls = 3
    InstallVt = 2
SYMMETRY CallSymmetry
INVARIANTS
    WaitBounded
    QuarantineJustified
    NewLeaderPicksUp
    ViewerCatchesUp
