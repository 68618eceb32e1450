CONSTANTS
    Keys <- MCKeys
    KeyGroup <- MCKeyGroup
    Vals <- MCVals
    Profiles <- MCProfiles
    MaxLines = 2
    MaxRuns = 3
    MaxCrashes = 1
SPECIFICATION Spec
INVARIANTS
    OriginalRecoverable
CHECK_DEADLOCK FALSE
