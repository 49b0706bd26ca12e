SPECIFICATION RefinementSpec
CONSTANTS
    d1 = d1
    d2 = d2
    Doc = {d1, d2}
    DocLen <- MCDocLen
    CellBytes = 64
    MaxRecordLen = 2
    FileCap = 10
    MaxDocId = 1
    SyncErrorDropsWrites = FALSE
    AppendKinds = {"Blob"}
    MaxFaults = 1
    MaxLosses = 1
    NoDatabase = NoDatabase
    Rejected = Rejected
PROPERTY ImplementsDurableStore
