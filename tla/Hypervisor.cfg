CONSTANTS
    r1 = r1  r2 = r2  s = s
    k1 = k1
    None = None
    Callers <- TwoRunners
    Keys <- OneKey
    Debouncers = {}
    Speculator = s
    TTL = 1
    LockDeadline = 0
    MaxRetries = 2
    Threshold = 1
    Window = 0
    MaxCandidates = 1
    QueueMax = 1
    HitCap = 1
SPECIFICATION HvSpec
SYMMETRY RunnerSymmetry
INVARIANTS
    Admitted
    ServedFailuresAreSpeculated
