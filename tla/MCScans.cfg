CONSTANTS
    NameLen = 3
    Tables <- MCTables
    Links <- MCLinks
    Recognitions <- MCRecognitions
SPECIFICATION Spec
INVARIANTS
    TypeOK
    MapsKeepTheirPlace
    LinkIsItsComponents
    NamesInBuffer
    RecognisedIfReachable
PROPERTY StepsBounded
CHECK_DEADLOCK FALSE
