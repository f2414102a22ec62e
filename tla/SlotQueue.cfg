CONSTANTS
    Callers = {1, 2, 3}
    Priorities = {0, 2}
    MaxConcurrent = 2
    Timeout = 3
    LastArrival = 2
    MaxKills = 1
SPECIFICATION FairSlotSpec
CHECK_DEADLOCK FALSE
INVARIANTS
    NoTicketLeak
    
PROPERTIES
    LimitsConcurrency
    
    WithSlotReturns
