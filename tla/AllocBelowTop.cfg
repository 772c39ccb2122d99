\* A region that ends below the last address, as /memory's does; callers may
\* also give back what is free already.
CONSTANTS
    AddrMod = 8
    SizeMod = 8
    Base = 2
    SpanSizes = {1, 2, 3, 4, 5}
    Limit = 7
    CarefulCallers = FALSE
    FixedReqs <- MCFixedReqs
    FreeReqs <- Spans
    SizeReqs = {1, 2, 3, 4, 5}
    Constraints <- MCConstraints
SPECIFICATION Spec
INVARIANTS TypeOK ListOK HonestRefusal LowestFit
PROPERTY ImplementsFreeSpace
CHECK_DEADLOCK FALSE
