SPECIFICATION FairSpec
CONSTANTS
    Nil = Nil
    Workers = {"w1", "w2", "w3"}
    N = 2
    Sids = {"s0", "s1", "s2", "s3"}
    Users = {"a", "b"}
    Scenarios <- MCScenarios
    OldSids = {"s0"}
    Accounts <- MCAccounts
    MayExpire = {"s0"}
INVARIANTS LogoutHolds RowLeft PasswordAgreed
PROPERTIES  Finished
CHECK_DEADLOCK FALSE
