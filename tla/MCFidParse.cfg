CONSTANTS
    HalfBase = 16
    DiscBlocks = 64
    Directories <- MCDirectories
SPECIFICATION Spec
INVARIANTS
    TypeOK
    DirectoryListed
    SkipsNothing
    EntriesAreDescriptors
PROPERTY StepsBounded
CHECK_DEADLOCK FALSE
