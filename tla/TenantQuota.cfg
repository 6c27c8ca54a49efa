SPECIFICATION Spec
CONSTANTS
    Tenant = {"t1", "t2"}
    Call = {"c1", "c2", "c3"}
    TenantOf <- MCTenantOf
    Backends = {"memory", "redis"}
    LimitSets <- MCLimits
    Estimates = {2}
    Actual = {1, 3}
    Minute = 2
    Lease = 1
    MaxTime = 4
INVARIANTS
    TokensToldApart
    QuotaRecovers
PROPERTY
    KeepsPromise
CHECK_DEADLOCK FALSE
