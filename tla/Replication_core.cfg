SPECIFICATION Spec
CONSTANTS
    n1 = n1
    n2 = n2
    n3 = n3
    w1 = w1
    w2 = w2
    k1 = k1
    a = a
    b = b
    Nil = Nil
    P = n1
    Nodes <- MCNodes
    Requests <- MCRequests
    Keys <- MCKeys
    Vals <- OneVal
    CoordSync = FALSE
    SlowSync = FALSE
    MaxCrash = 1
    MaxVer = 1
    MaxLate = 1
SYMMETRY MCSymmetry
INVARIANTS TypeOK   OnlyAcked
\* The clients have a fixed number of requests, and the system then rests.
CHECK_DEADLOCK FALSE
