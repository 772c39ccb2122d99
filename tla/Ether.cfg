\* Bursts of packets of two and three pages in a ring of seven: they fill it
\* exactly, leave too little room or come in while it is reset.  Errors of
\* transmission for each card; each can be opened twice.
CONSTANTS
    MaxHeard = 4
    MaxSends = 2
    RingPages = 7
    Sizes = {2, 3}
    NeOpens = 2
    NeErrors = 1
    DecOpens = 2
    DecErrors = 2
SPECIFICATION EtherLiveSpec
INVARIANT EtherTypeOK
PROPERTIES ImplementsEther SendReturns
CHECK_DEADLOCK FALSE
