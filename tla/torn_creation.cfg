SPECIFICATION Spec
CONSTANTS
    d1 = d1
    d2 = d2
    Doc = {d1}
    DocLen <- MCDocLen
    CellBytes = 64
    MaxRecordLen = 2
    FileCap = 8
    MaxDocId = 1
    SyncErrorDropsWrites = FALSE
    AppendKinds = {"Blob"}
    MaxFaults = 0
    MaxLosses = 1
INVARIANT TornHeaderIsRecoverable
