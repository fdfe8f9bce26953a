\* One thread, so nothing interleaves with a registration or a cleanup: an admin
\* call and a client that comes back are enough.
CONSTANTS
    Sessions = {s1, s2}
    Subdomains = {d1}
    Keys = {k1}
    AdminCalls = {a1}
    MaxTunnels = 0
    MaxPerKey = 0
    Threads = 1
SPECIFICATION Spec
INVARIANTS
    TracksEveryActive
