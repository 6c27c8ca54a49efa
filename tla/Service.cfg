SPECIFICATION ServiceSpec
CONSTANTS
    None = None
    Launches <- MCLaunches
    Turn = {"t1", "t2"}
    Record = {"r1", "r2"}
    TurnOf <- MCTurnOf
    Posts <- MCPosts
    Erasures <- MCErasures
    Client = {c1, c2}
    QueueCapacity = 1
    FileEvents = 2
    MaxPosts = 2
    MaxErasures = 1
    MaxFailures = 1
    MaxRestarts = 1
SYMMETRY Sym
INVARIANTS
    FallbacksEnd
    ErasedFeedbackIsGone
    RestartAgrees
    ShownIsCurrent
PROPERTIES
    DryRunForetells
\* A start may be refused.
CHECK_DEADLOCK FALSE
