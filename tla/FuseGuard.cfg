CONSTANTS
    Runs <- ThreeRuns
    Dirs <- TwoDirs
    Backing <- PairAndOne
    Timeout = 2
SPECIFICATION GuardSpec
INVARIANTS
    NoMarkerLeft
    
PROPERTIES
    TryMountReturns
