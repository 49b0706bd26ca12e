SPECIFICATION Spec
CONSTANTS
    d1 = d1
    Doc = {d1, d2}
    DocLen <- MCDocLen
    CellBytes = 64
    MaxRecordLen = 2
    FileCap = 12
    MaxDocId = 1
    Proc = {w1, r}
    Writers = {w1}
    MaxFaults = 0
    Orderly = FALSE
INVARIANT CommittedSurvives
