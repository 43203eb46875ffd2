CONSTANTS
    Candidates <- MCCandidates
    AnchorLba = 2
    TagLen = 1
    MaxU32 = 12
    Media <- MCMedia
SPECIFICATION Spec
INVARIANT RootAddressNeverWraps
CHECK_DEADLOCK FALSE
