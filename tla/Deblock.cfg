\* Access up to and past the end of a sound device, or to one that may fail.
CONSTANTS
    BlockSize = 2
    XferBlocks = 2
    DevBlocks = 4
    Uses <- BothUses
    Clobbers = TRUE
    Followed = FALSE
SPECIFICATION LiveSpec
INVARIANT CacheCoherent
PROPERTIES ImplementsByteFile IoReturns
CHECK_DEADLOCK FALSE
