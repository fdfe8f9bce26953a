\* Three handlers race for two threads and one global slot; no admin call.
CONSTANTS
    Requests = {r1, r2, r3}
    Tunnels = {t1}
    Disconnected = {}
    Contested = {}
    MaxGlobal = 1
    MaxPerTunnel = 2
    Threads = 2
SPECIFICATION Spec
SYMMETRY RequestSymmetry
INVARIANTS
    TypeOK
    OnePlace
    AnswerJustified
    GlobalOvershoot
    GaugeCovers
