\* Two opens and two calls; both servers speak DHCP, and answers come as they like.
CONSTANTS
    a = a
    b = b
    f = f
    r = r
    h = h
    Servers = {a, b}
    DhcpServers = {a, b}
    Silent = {b}
    NextServer <- MCNextServer
    Relay <- ThroughRouter
    PingTargets = {h}
    Protocols = {"bootp", "dhcp", "rarp"}
    UserArgs <- MCUserArgs
    BootpRetries = 2
    ArpRetries = 2
    LoadAfterPing = FALSE
    Opens = 2
    Calls = 2
SPECIFICATION LiveSpec
INVARIANTS TypeOK LeaseIsAgreed OneSource RightMac
PROPERTY Terminates
CHECK_DEADLOCK FALSE
