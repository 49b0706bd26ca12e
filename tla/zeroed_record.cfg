SPECIFICATION ClientSpec
CONSTANTS
    d1 = d1
    d2 = d2
    Doc = {d1}
    Refused = {null}
    DocLen <- MCDocLen
    CellBytes = 9
    MaxRecordLen = 6
    FileCap = 12
    MaxDocId = 1
    SyncErrorDropsWrites = FALSE
    AppendKinds = {"Blob"}
    MaxFaults = 0
    MaxLosses = 0
    MaxDamages = 2
INVARIANT VerifiedMeansIntact
