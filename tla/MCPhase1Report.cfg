CONSTANTS
    QDCells <- MCQDs
    SizeCells <- MCSizes
    Cells <- MCCells
    Headers <- MCHeaders
    SubmitCols <- MCSubmitCols
    CompleteCols <- MCCompleteCols
    MaxRows = 3
    SaveMayRaise = TRUE
SPECIFICATION Spec
INVARIANTS
    BarsMatchSpec
    StagesMatchSpec
CHECK_DEADLOCK FALSE
