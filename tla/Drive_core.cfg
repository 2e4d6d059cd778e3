SPECIFICATION FairSpec
CONSTANTS
    Nil = Nil
    Workers = {"w1", "w2"}
    Objects <- MCObjects
    Root = "root"
    Lists <- MCLists
    Indexed = {}
    Cap <- MCCap
    Tree <- MCTree
    Names <- MCNames
    Sizes <- MCSizes
    Requests <- MCRequests
    Limit = 2
    Attempts = 2
    MaxFaults = 1
INVARIANTS  Whole UniqueNames UsedExact
PROPERTIES Answered
CHECK_DEADLOCK FALSE
