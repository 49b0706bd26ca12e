SPECIFICATION FairSpec
CONSTANTS
    d1 = d1
    d2 = d2
    Doc = {d1}
    DocLen <- MCDocLen
    CellBytes = 64
    MaxRecordLen = 1
    FileCap = 20
    MaxDocId = 1
    SyncErrorDropsWrites = FALSE
    AppendKinds = {"Blob"}
    MaxFaults = 3
    MaxLosses = 0
PROPERTY RetriedCommitSucceeds
