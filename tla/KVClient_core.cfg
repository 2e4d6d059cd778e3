SPECIFICATION FairSpec
CONSTANTS
    n1 = n1
    n2 = n2
    r1 = r1
    r2 = r2
    a = a
    b = b
    Nil = Nil
    Nodes = {n1, n2}
    Rows = {r1, r2}
    Vals = {a, b}
    First = n1
    Homes <- MCHomes
    Stored <- MCStored
    Ops <- MCOps
    Conns <- MCConns
    Workers = {"w1", "w2"}
    Attempts = 2
    MaxMoves = 1
    MaxFaults = 1
INVARIANTS TypeOK PoolOfTarget OwnAnswers FailedMeansRefused
PROPERTIES ImplementsCalls CallsReturn
CHECK_DEADLOCK FALSE
