SPECIFICATION PathSpec
CONSTANTS
    None = None
    Route = "auto"
    Tier <- MCTier
    ModelOf <- MCModelOf
    Deployed <- MCDeployed
    Model = {"s", "m", "l", "x", "old"}
    Active = {"s", "m", "l", "x"}
    Caps <- MCCaps
    Window <- MCWindow
    OutputCap = 4
    Rules <- MCRules
    ReplaceRules = FALSE
    LongContext = 5
    DefaultBias = 0
    Mode = "on"
    RecentWindow = 2
    StallMin = 2
    Upstream <- MCUpstream
    TailTokens = 4
    Requests <- MCRequests
    Bindings <- MCBindings
    ApiOf <- MCApiOf
    Policy <- MCPolicy
    Epsilon = TRUE
    Artifact = {"a", "b"}
    StartActive = "a"
    StartCandidate = "b"
    StartKilled = FALSE
    FileOf <- MCFileOf
    Kib = 4
    TaskKey = {"t", "u"}
    BucketOf <- MCBucketOf
    Rollouts = {}
    StartRollout <- MCRollout
    Samples = {1}
    MaxObservations = 1
INVARIANTS
    AdmittedForIt
    AdvertisedIsKept
    AskedIsDelivered
    CallsReachCaller
    CompleteIsWhole
PROPERTY Settles
\* A request is over once it is answered or refused.
CHECK_DEADLOCK FALSE
