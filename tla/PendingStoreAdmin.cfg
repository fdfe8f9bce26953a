\* The admin call closes the tunnel while its session does and the sweeper runs,
\* and another session may take its subdomain.
CONSTANTS
    Requests = {r1, r2}
    Tunnels = {t1}
    Disconnected = {t1}
    Contested = {t1}
    MaxGlobal = 2
    MaxPerTunnel = 1
    Threads = 2
SPECIFICATION Spec
SYMMETRY RequestSymmetry
INVARIANT OnePlace
PROPERTY SettledForGood
