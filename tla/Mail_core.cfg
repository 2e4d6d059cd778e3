SPECIFICATION FairSpec
CONSTANTS
    Nil = Nil
    Workers = {"w1", "w2"}
    Lists <- MCLists
    Indexed <- MCIndexed
    Cap <- MCCap
    Folders <- MCFolders
    Copies <- MCCopies
    Uids <- MCUids
    Requests <- MCRequests
    Whole = {"a1"}
    Book = {"k0", "k1"}
    Watched = "v:inbox"
    Missing = {"v:peers"}
    Attempts = 2
    MaxFaults = 2
INVARIANTS NoOrphanCopy  Settled Openable
PROPERTIES Answered
CHECK_DEADLOCK FALSE
