CONSTANTS
    Keys <- MCKeys
    KeyGroup <- MCKeyGroup
    Vals <- MCVals
    Profiles <- MCProfiles
    MaxLines = 3
    MaxRuns = 4
    MaxCrashes = 2
SPECIFICATION Spec
INVARIANTS
    BackupHoldsOriginal
    ConfigLinesFromOriginal
    PatchedValuesNearest
CHECK_DEADLOCK FALSE
