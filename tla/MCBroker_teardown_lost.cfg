SPECIFICATION MCSpec
CHECK_DEADLOCK FALSE
CONSTANTS
    Lanes = {"a"}
    Groups = {"g"}
    MaxMsgId = 2
    MaxLease = 2
    MaxPublish = 2
    MaxEpoch = 0
    Horizon = 3
    Delays = {0}
    Ttls = {0}
    AttemptLimits = {2}
    Tokens = {}
    NoToken = NoToken
    Minted = Minted
    TokenModes = {NoToken}
    DedupKeys = {}
    NoKey = NoKey
    Visibility = 1
    MaxLifetime = 0
    DedupWindow = 1
    IdleReap = 0
    Backoff = 1
    AdminOps = {"teardown"}
    Families = {"operators"}
    First = "g"
INVARIANTS
    NoMessageLost
