CONSTANTS
    p1 = p1  p2 = p2  p3 = p3
    Procs <- ThreeProcs
    Inodes = {1, 2, 3}
SPECIFICATION ServeSpec
SYMMETRY ProcSymmetry
CHECK_DEADLOCK FALSE
INVARIANTS
    Advertised
    StoppedNotAdvertised
