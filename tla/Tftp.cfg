\* Two loads over a network that does as it likes, or over one that answers in
\* time and loses up to three packets.
CONSTANTS
    f = f
    g = g
    Files = {f, g}
    Blocks <- TwoFiles
    BlockMod = 8
    Loads = 2
    Networks <- BothNetworks
SPECIFICATION LiveSpec
INVARIANTS TypeOK StoredIsPrefix OneTransfer AckedIsStored EofIsComplete
PROPERTIES Terminates Delivers
CHECK_DEADLOCK FALSE
