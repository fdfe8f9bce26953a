\* The two tunnels of README.md, at this repository's relay, without any fault.
\* The session stops at the second tunnel.
CONSTANTS
    N = 2
    Tcp = {2}
    Conns = {c1, c2}
    Items = {}
    Cap = 1
    AckEach = FALSE
    BaseDelay = 1000
    MaxAttempts = 0
    AttemptMax = 3
    Faults = {}
SPECIFICATION FairSpec
PROPERTY AllTunnelsEstablished
CHECK_DEADLOCK FALSE
