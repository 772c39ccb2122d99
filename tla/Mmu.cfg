\* Three sections of two pages; regions in the first two.
CONSTANTS
    SectionPages = 2
    NSections = 3
    NFrames = 8
    Modes = {"io", "mem"}
    Limit = 4
    MapReqs <- MCMapReqs
    UnmapReqs <- MCUnmapReqs
    InitialTables <- MCTables
    MaxDamage = 2
    MaxFailures = 1
SPECIFICATION MmuSpec
INVARIANTS ListInOrder ListMatchesTables
PROPERTY ImplementsMapping
CHECK_DEADLOCK FALSE
