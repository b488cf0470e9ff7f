CONSTANTS
    Words <- MCWords
    HeaderInputs <- MCHeaderInputs
    StartInputs <- MCStartInputs
    InitInputs <- MCInitInputs
    MaxLines = 3
    MaxReceived = 1
SPECIFICATION Spec
INVARIANTS
    TypeOK
    HeaderLinesInvertIndex
    EnumerateHeaderYieldsValues
