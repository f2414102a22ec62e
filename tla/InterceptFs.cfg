SPECIFICATION FsSpec
CONSTANTS
    Paths = {p1, p2}
    Agents = {a1}
    Threads = {t1, t2}
    Serialize = FALSE
    None = None
SYMMETRY FsSymmetry
INVARIANTS
    
    ExistenceVisible
    
