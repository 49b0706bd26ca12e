SPECIFICATION Spec
CONSTANTS
    d1 = d1
    d2 = d2
    Doc = {d1}
    DocLen <- MCDocLen
    CellBytes = 64
    MaxRecordLen = 2
    FileCap = 8
    MaxDocId = 1
    SyncErrorDropsWrites = TRUE
    AppendKinds = {"Blob"}
    MaxFaults = 1
    MaxLosses = 0
PROPERTY CommitIsDurable
