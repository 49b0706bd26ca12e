SPECIFICATION ClientSpec
CONSTANTS
    d1 = d1
    d2 = d2
    Doc = {d1, d2}
    Refused = {null}
    DocLen <- MCDocLen
    CellBytes = 64
    MaxRecordLen = 1
    FileCap = 10
    MaxDocId = 1
    SyncErrorDropsWrites = FALSE
    AppendKinds = {"Blob"}
    MaxFaults = 0
    MaxLosses = 1
    MaxDamages = 2
INVARIANTS
    NeverAnotherDocument
    VerifyFindsDamage
    DamageInv
