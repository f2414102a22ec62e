CONSTANTS
    Conns = {"c1", "c2"}
    Surfaces = {"s1", "s2"}
    Filters = {"s1"}
    Capacities = {1, 3}
    ChunkSizes = {1}
    FromSeqs = {2}
    Lengths = {0, 2}
    MaxDrain = 2
    MaxSubscriptions = 2
    MaxSeq = 5
SPECIFICATION SurfaceSpec
CHECK_DEADLOCK FALSE
INVARIANTS
    EventsInOrder
    LossAnnounced
    DropCountBounds

    
