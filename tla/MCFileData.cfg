CONSTANTS
    BlockSize = 4
    PartStart = 1
    FeLba = 0
    Media <- MCMedia
SPECIFICATION Spec
INVARIANTS
    TypeOK
    DataIsContents
    BufferBounded
    NoneIsJustified
    SlackFollowsFile
CHECK_DEADLOCK FALSE
