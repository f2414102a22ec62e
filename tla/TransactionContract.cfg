CONSTANTS
    Reservations = {"r1", "r2"}
    Capacity = 2
    MaxU64 = 3
    Consumers = {"c1", "c2"}
    MaxGeneration = 1
    MaxSends = 3
    Children = {"a", "b"}
    Coordinators = {"k"}
SPECIFICATION ContractSpec
CHECK_DEADLOCK FALSE
INVARIANTS
    WithinCapacity
    AttachedIsServed
    AtMostOnce
    SealedAsSeen
