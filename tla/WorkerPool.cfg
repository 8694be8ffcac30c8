SPECIFICATION FairSpec
CONSTANTS
    t1 = t1
    t2 = t2
    t3 = t3
    x = x
    y = y
    p = p
    q = q
    None = None
    Tasks = {t1, t2, t3}
    Workers = {w1, w2}
    Tenants = {x, y}
    Pools = {p, q}
    TenantOf <- MCTenantOf
    PoolOf <- MCPoolOf
    MaxAttempts <- MCMaxAttempts
    LeaseDuration = 2
    MaxQueued = 1
    MaxInFlightPerTenant = 1
    MaxInFlightByPool <- MCMaxInFlightByPool
INVARIANTS
    AttemptsAccounted
    QuotasHold
PROPERTIES
    SettledIsFinal
    EveryTaskSettles
