\* Careless clients of a /memory node with one address and one size cell.
CONSTANTS
    AddrMod = 8
    SizeMod = 8
    CarefulCallers = FALSE
    FixedReqs <- MCFixedReqs
    FreeReqs <- MCFreeReqs
    SizeReqs = {1, 2}
    Constraints <- NoConstraints
    Region <- MCRegion
    Pool <- MCPool
    Aligns = {1, 2}
    PropMem = 30
SPECIFICATION NodeSpec
INVARIANTS NodeTypeOK PoolReserved SuccessIsPublished
CHECK_DEADLOCK FALSE
