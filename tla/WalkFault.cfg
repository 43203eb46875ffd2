CONSTANTS
    Lba <- Three
    Root = 0
    Volumes <- MCVolumes
SPECIFICATION Spec
INVARIANT FaultSurfaces
CHECK_DEADLOCK FALSE
