\* A disk at the end of a chain of nodes, an interposer, and every kind of mishap.
CONSTANTS
    None = None
    Root = "root"
    ParentOf <- MCParentOf
    Disks = {"disk"}
    Askers = {"bridge"}
    Interposers = {"filter"}
    Deblocker = "deblocker"
    DiskLabel = "disk-label"
    NewNode = "node"
    Paths <- MCPaths
    Mishaps = {"none", "missing", "chain", "memory", "interpose"}
    MaxInst = 12
    MaxCalls = 3
SPECIFICATION InstSpec
INVARIANTS UsedIsLive NothingLeft WellFormed SelfRestored
PROPERTIES CloseInOrder
CHECK_DEADLOCK FALSE
