SPECIFICATION ControlSpec
CONSTANTS
    Catalog = {"c1", "c2"}
    Route = {"r1", "r2"}
    ValidPairs <- MCValidPairs
    DeploymentsOf <- MCDeploymentsOf
    Speakable = {"c1", "c2", "c3"}
    Start <- MCStart
    FeedDoc <- MCFeedDoc
    Floor = 1
    FailurePolicy = "last_good"
    MaxWrites = 3
    MaxFeeds = 1
    MaxCalls = 1
    MaxControlRestarts = 1
INVARIANTS SnapshotsServiceable
PROPERTY ReloadWins
CHECK_DEADLOCK FALSE
