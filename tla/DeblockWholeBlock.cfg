\* Writes that end with a block.
CONSTANTS
    BlockSize = 2
    XferBlocks = 2
    DevBlocks = 4
    Uses <- OneUse
    Clobbers = FALSE
    Followed = TRUE
SPECIFICATION Spec
INVARIANT WriteIsSeen
CHECK_DEADLOCK FALSE
