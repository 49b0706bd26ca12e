SPECIFICATION Spec
CONSTANTS
    d1 = d1
    d2 = d2
    Doc = {d1, d2}
    DocLen <- MCDocLen
    CellBytes = 64
    MaxRecordLen = 2
    FileCap = 10
    MaxDocId = 1
    SyncErrorDropsWrites = FALSE
    AppendKinds = {"Blob"}
    MaxFaults = 1
    MaxLosses = 2
INVARIANTS
    AlwaysRecoverable
    RecoveryInv
    CommitInv
    VerifyInv
    HeaderLossIsSurvived
PROPERTIES
    NeverRolledBack
    CommitIsDurable
