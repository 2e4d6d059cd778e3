CONSTANTS
    n1 = n1
    n2 = n2
    n3 = n3
    r0 = r0
    r1 = r1
    r2 = r2
    Nodes = {n1, n2, n3}
    First = n1
    Requests = {r0, r1, r2}
    Old = r0
    Nil = Nil
    Early = {}
    Restarts = "never"
    SlowLookup = TRUE
    MissThresh = 2
    MaxRounds = 2
    MaxCrash = 1
    MaxLost = 1
SYMMETRY Symmetric
SPECIFICATION Spec
INVARIANTS
    TypeOK
    QuorumVisible
    

    
