SPECIFICATION Spec
CONSTANTS
    d1 = d1
    d2 = d2
    Doc = {d1, d3}
    DocLen <- MCDocLen
    CellBytes = 64
    MaxRecordLen = 1
    FileCap = 12
    MaxDocId = 2
    SyncErrorDropsWrites = FALSE
    AppendKinds = {"Blob"}
    MaxFaults = 1
    MaxLosses = 0
INVARIANTS
    TypeOK
    CleanMeansSaved
    VerifyPasses
    IndexConsistent
PROPERTY
    LiveBytesUntouched
