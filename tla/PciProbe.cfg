\* Up to four devices and bridges, in any arrangement, behind a host bridge
\* whose pools lie below and above Low; one step fails, and one does damage.
CONSTANTS
    Top = 24
    Low = 4
    Granule = 4
    MemPool <- MCMemPool
    MaxBus = 2
    BarSizes = {1, 8}
    RomSizes = {0, 2}
    MaxDevices = 4
    MaxFailures = 1
    MaxDamage = 1
SPECIFICATION PciSpec
INVARIANTS NoConflict Reachable PoolIsFree NothingLost
CHECK_DEADLOCK FALSE
