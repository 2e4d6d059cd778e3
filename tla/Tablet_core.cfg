SPECIFICATION Spec
CONSTANTS
    r1 = r1
    r2 = r2
    c1 = c1
    v1 = v1
    v2 = v2
    Nil = Nil
    Rows <- MCRows
    Cols <- MCCols
    Vals <- MCVals
    Snapshots <- MCSnapshots
    Deltas <- MCDeltas
    CrashPoints <- AllButInstall
    FailPoints <- CheckpointFaults
    PowerLoss = FALSE
    MaxLsn = 3
    MaxVer = 2
INVARIANTS TypeOK Durable BloomCovers 
PROPERTY ImplementsMap
