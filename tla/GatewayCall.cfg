SPECIFICATION Spec
CONSTANTS
    Tier <- MCTier
    Fallbacks <- MCFallbacks
    ByError <- MCByError
    Deployments <- MCDeployments
    Facts <- MCFacts
    Explicit = "explicit"
    Apis = {"chat", "ollama"}
    Decisions <- MCDecisions
    Eligible = {"small", "medium", "large", "named"}
    Failures <- MCFailures
    MaxFallbackDepth = 2
    MaxRetries = 1
INVARIANTS
    SpendIsKept
    WithinEstimate
    NoSubstitution
    RecordTellsServed
PROPERTY
    CallEnds
CHECK_DEADLOCK FALSE
