SPECIFICATION ClientSpec
CONSTANTS
    d1 = d1
    d2 = d2
    Doc = {d1, d2, d3}
    Refused = {null}
    DocLen <- MCDocLen
    CellBytes = 64
    MaxRecordLen = 1
    FileCap = 10
    MaxDocId = 2
    SyncErrorDropsWrites = FALSE
    AppendKinds = {"Blob"}
    MaxFaults = 1
    MaxLosses = 0
    MaxDamages = 0
INVARIANTS
    ReadsWhatWasInserted
    AckedIdsAreUnique
    ClientInv
