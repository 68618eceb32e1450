CONSTANTS
    Headers <- MCNarrowHeaders
    LineAlphabet <- MCLineAlphabet
    MaxLineLen = 3
    MaxLines = 2
SPECIFICATION Spec
INVARIANT
    NoRowRaises
CHECK_DEADLOCK FALSE
