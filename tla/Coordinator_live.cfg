CONSTANTS
    n1 = n1
    n2 = n2
    n3 = n3
    r0 = r0
    r1 = r1
    r2 = r2
    Nodes = {n1, n2, n3}
    First = n1
    Requests = {r1}
    Old = Nil
    Nil = Nil
    Early = {"write"}
    Restarts = "noticed"
    SlowLookup = FALSE
    MissThresh = 1
    MaxRounds = 1
    MaxCrash = 2
    MaxLost = 0
SPECIFICATION FairSpec
PROPERTIES
    ServesAgain
