CONSTANTS
    Files <- MCFiles
    MaxFiles = 2
SPECIFICATION Spec
INVARIANTS
    OverallMatchesSpec
    SeriesMatchesSpec
CHECK_DEADLOCK FALSE
