SPECIFICATION BatchFairSpec
CHECK_DEADLOCK FALSE
CONSTANTS
    k1 = k1
    Lanes = {"a"}
    Groups = {"g", "h"}
    MaxMsgId = 2
    MaxLease = 1
    MaxPublish = 2
    MaxEpoch = 2
    Horizon = 3
    Delays = {0, 1}
    Ttls = {0}
    AttemptLimits = {2}
    Tokens = {}
    NoToken = NoToken
    Minted = Minted
    TokenModes = {NoToken}
    DedupKeys = {k1}
    NoKey = NoKey
    Visibility = 1
    MaxLifetime = 0
    DedupWindow = 1
    IdleReap = 1
    Backoff = 1
    AdminOps = {"config", "reap"}
    MaxBatch = 2
    MaxCrashes = 1
INVARIANTS
    CountersExact
PROPERTIES
    AcceptsAsOne
    WaitsEnd
