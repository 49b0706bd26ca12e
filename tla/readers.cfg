SPECIFICATION FairSpec
CONSTANTS
    d1 = d1
    Doc = {d1, d2}
    DocLen <- MCDocLen
    CellBytes = 64
    MaxRecordLen = 2
    FileCap = 12
    MaxDocId = 1
    Proc = {w1, w2, r}
    Writers = {w1, w2}
    MaxFaults = 1
    Orderly = TRUE
INVARIANTS
    TypeOK
    CommittedSurvives
    SnapshotsAreStable
    OpensAreFresh
    SharedInv
PROPERTIES
    FailsOnlyIfOvertaken
    ReaderGetsIn
