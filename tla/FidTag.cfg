CONSTANTS
    HalfBase = 16
    DiscBlocks = 64
    Directories <- MCDirectories
SPECIFICATION Spec
INVARIANT TagSizeDetected
CHECK_DEADLOCK FALSE
