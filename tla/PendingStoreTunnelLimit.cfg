\* The documented per-tunnel limit, with room left globally.
CONSTANTS
    Requests = {r1, r2}
    Tunnels = {t1}
    Disconnected = {}
    Contested = {}
    MaxGlobal = 2
    MaxPerTunnel = 1
    Threads = 2
SPECIFICATION Spec
INVARIANT PerTunnelLimit
