SPECIFICATION MCSpec
CHECK_DEADLOCK FALSE
CONSTANTS
    k1 = k1
    t1 = t1
    Lanes = {"a"}
    Groups = {"g", "h"}
    MaxMsgId = 2
    MaxLease = 3
    MaxPublish = 2
    MaxEpoch = 2
    Horizon = 3
    Delays = {0, 1}
    Ttls = {0}
    AttemptLimits = {2}
    Tokens = {t1}
    NoToken = NoToken
    Minted = Minted
    TokenModes = {NoToken, Minted, t1}
    DedupKeys = {k1}
    NoKey = NoKey
    Visibility = 1
    MaxLifetime = 1
    DedupWindow = 1
    IdleReap = 1
    Backoff = 1
    AdminOps = {"redrive", "purge", "reap", "teardown"}
    Families = {"operators", "tokens", "dedup"}
    First = "g"
INVARIANTS
    LeasedReclaimable
    DelayedWakes
    TokenNeverDangles
    DedupWindowHeld
