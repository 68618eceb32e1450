CONSTANTS
    MaxCellLen = 4
    NumVals = {0, 10000}
SPECIFICATION Spec
INVARIANTS
    DecoderMatchesSpec
CHECK_DEADLOCK FALSE
