CONSTANTS
    X = "qd"
    Charts <- MCCharts
    Hue = "size"
    Hist = "hist"
    Headers <- MCHeaders
    Cells <- MCCells
    MaxRows = 3
SPECIFICATION Spec
INVARIANTS
    EveryRecordPlotted
CHECK_DEADLOCK FALSE
