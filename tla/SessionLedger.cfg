CONSTANTS
    Surfaces = {1, 2}
    Ids = {1, 2}
    Evidence <- MCEvidence
    Reports <- MCReports
    Discoveries <- MCDiscoveries
    Scanners = {k1}
    Requests = {r1}
    Ages = {2}
    Parallel = {0}
    FirstNow = 2
    MaxNow = 3
    MaxSeq = 3
    Capacity = 2
    TailMax = 2
SPECIFICATION LedgerSpec
CHECK_DEADLOCK FALSE
INVARIANTS
    PlanFollowsHistory
    DiscoveredOnce
    FollowerComplete
PROPERTIES
    RequestAnswered
