SPECIFICATION FairSpec
CONSTANTS
    n1 = n1
    n2 = n2
    n3 = n3
    w1 = w1
    w2 = w2
    k1 = k1
    a = a
    b = b
    Nil = Nil
    P = n1
    Nodes <- TwoNodes
    Requests <- MCRequests
    Keys <- MCKeys
    Vals <- OneVal
    CoordSync = TRUE
    SlowSync = TRUE
    MaxCrash = 1
    MaxVer = 0
    MaxLate = 0
PROPERTY Answered
CHECK_DEADLOCK FALSE
