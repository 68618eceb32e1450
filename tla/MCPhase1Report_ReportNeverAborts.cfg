CONSTANTS
    QDCells <- MCQDs
    SizeCells <- MCSizes
    Cells <- MCCells
    Headers <- MCHeaders
    SubmitCols <- MCSubmitCols
    CompleteCols <- MCCompleteCols
    MaxRows = 3
    SaveMayRaise = FALSE
SPECIFICATION Spec
INVARIANTS
    ReportNeverAborts
CHECK_DEADLOCK FALSE
