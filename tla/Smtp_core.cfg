SPECIFICATION SmtpFairSpec
CONSTANTS
    None = None
    Jobs <- MCJobs
    Envs <- MCEnvs
    MaxMx = 3
    Found = {0, 4}
    Local = {"u"}
    Remote = {"x"}
    Msgs = {"m1", "m2"}
    MaxRcpts = 2
INVARIANTS Delivered250 OneCopy
 
CHECK_DEADLOCK FALSE
