CONSTANTS
    BlockSize = 4
    PartStart = 1
    FeLba = 0
    Media <- MCMedia
SPECIFICATION Spec
INVARIANT SlackIsNotContent
CHECK_DEADLOCK FALSE
