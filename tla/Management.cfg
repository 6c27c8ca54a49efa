SPECIFICATION Spec
CONSTANTS
    Artifact = {"a1", "a2"}
    StartActive = "a1"
    StartCandidate = "a2"
    StartKilled = FALSE
    None = "none"
    FileOf <- MCFileOf
    Kib = 1
    Task = {"t1"}
    BucketOf <- MCBucketOf
    Rollouts <- MCRollouts
    StartRollout <- MCStartRollout
    Samples = {1}
    MaxObservations = 2
    Key = {"k1"}
    KeyringDoc <- MCKeyringDoc
    StartKeyring <- MCStartKeyring
    Call = {"m1", "m2", "m3"}
    Required = 3
    QueueCapacity = 1
    MaxKeyringWrites = 2
    MaxRestarts = 1
INVARIANTS ActedIsAudited AuditTellsActive
PROPERTY KeyringTakesHold
CHECK_DEADLOCK FALSE
