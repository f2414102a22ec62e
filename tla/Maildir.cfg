CONSTANTS
    t1 = t1  t2 = t2
    w1 = w1  w2 = w2  w3 = w3
    Tasks <- TwoTasks
    Workers <- ThreeWorkers
    Files = {1, 2, 3}
    MaxClaims <- ThreeAndOne
SPECIFICATION MailSpec
SYMMETRY MailSymmetry
CHECK_DEADLOCK FALSE

    
    
PROPERTIES
    DeliversAtLeastOnce
