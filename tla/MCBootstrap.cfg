CONSTANTS
    Candidates <- MCCandidates
    AnchorLba = 2
    TagLen = 1
    MaxU32 = 12
    Media <- MCMedia
SPECIFICATION Spec
INVARIANTS
    TypeOK
    HonestAnswer
    StateDescribesMedium
    NoFalseNegative
    AvdpRecheckUnreachable
PROPERTY Returns
CHECK_DEADLOCK FALSE
