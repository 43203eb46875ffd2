CONSTANTS
    Candidates <- ACandidates
    AnchorLba = 2
    TagLen = 1
    MaxU32 = 10
    Media <- AMedia
SPECIFICATION ASpec
INVARIANTS
    ATypeOK
    AuditCoversBootstrap
    AuditStaysInBootstrap
    AuditNeverFails
CHECK_DEADLOCK FALSE
