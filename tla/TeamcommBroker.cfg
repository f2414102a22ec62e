CONSTANTS
    p1 = p1  p2 = p2
    Pids <- TwoPids
    Paths = {"a"}
    Ttls = {1}
    Limits = {0, 1}
    MaxSessions = 3
    MaxReservations = 2
    MaxMessages = 2
    MaxClock = 1
SPECIFICATION BrokerSpec
SYMMETRY BrokerSymmetry
INVARIANTS
    PidIndexExact
    ConflictsReported
    OfferedOnce
