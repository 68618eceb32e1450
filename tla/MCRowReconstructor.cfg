CONSTANTS
    Headers <- MCHeaders
    LineAlphabet <- MCLineAlphabet
    MaxLineLen = 3
    MaxLines = 2
SPECIFICATION Spec
INVARIANTS
    TypeOK
    LinesConserved
    FrameMatchesHeader
CHECK_DEADLOCK FALSE
