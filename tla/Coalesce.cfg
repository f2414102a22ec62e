CONSTANTS
    c1 = c1  c2 = c2
    k1 = k1  k2 = k2
    None = None
    Callers <- TwoCallers
    Keys <- TwoKeys
    Debouncers <- OneDebouncer
    TTL = 2
    LockDeadline = 2
SPECIFICATION CacheFairSpec
INVARIANTS
    LockExact
PROPERTIES
    KeepsContract
    RerunOnlyIfSwept
    WaiterReturns
