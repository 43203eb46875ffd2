CONSTANTS
    Lba <- Three
    Root = 0
    Volumes <- MCVolumes
SPECIFICATION Spec
INVARIANTS
    TypeOK
    OkCoversTree
    DirectoriesAuditedOnce
    ErrIsUnreadableEntry
PROPERTIES
    Audits
    Advances
    Returns
CHECK_DEADLOCK FALSE
