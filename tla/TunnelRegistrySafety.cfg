\* Three sessions race for two threads and one tunnel slot.
CONSTANTS
    Sessions = {s1, s2, s3}
    Subdomains = {d1, d2, d3}
    Keys = {k1}
    AdminCalls = {a1}
    MaxTunnels = 1
    MaxPerKey = 1
    Threads = 2
SPECIFICATION Spec
SYMMETRY RegistrySymmetry
INVARIANTS
    TypeOK
    MapSound
    LostOnlyToRival
    LimitsOvershoot
