SPECIFICATION MCSpec
CHECK_DEADLOCK FALSE
CONSTANTS
    Lanes = {"a"}
    Groups = {"g"}
    MaxMsgId = 3
    MaxLease = 3
    MaxPublish = 2
    MaxEpoch = 2
    Horizon = 4
    Delays = {0, 1}
    Ttls = {0, 2}
    AttemptLimits = {2}
    Tokens = {}
    NoToken = NoToken
    Minted = Minted
    TokenModes = {NoToken}
    DedupKeys = {}
    NoKey = NoKey
    Visibility = 1
    MaxLifetime = 2
    DedupWindow = 1
    IdleReap = 0
    Backoff = 1
    AdminOps = {"redrive", "purge", "pause", "config"}
    Families = {"queue", "caps"}
    First = "g"
INVARIANTS
    LeaseOwnsMessage
    NoMessageLost
    NoMessageForked
    TtlHonest
PROPERTIES
    DelayServed
