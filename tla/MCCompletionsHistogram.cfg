CONSTANTS
    Cells <- MCCells
    MaxRows = 3
SPECIFICATION Spec
INVARIANTS
    AggregateMatchesSpec
CHECK_DEADLOCK FALSE
