\* Two connections whose ids share a shard, one caller that may stop reading.
CONSTANTS
    Ids = {k1, k2}
    UpMax = 2
    DownMax = 1
    Cap = 1
    Threads = 2
    Others = {o1}
    OneShard = TRUE
    Slow = {k1}
    Quiet = {k2}
SPECIFICATION FairSpec
INVARIANTS
    TypeOK
    PrefixDelivered
    LeaksExplained
PROPERTIES
    ClientFailsWithCause
    RelayAbortsWithCause
    ThreadsComeBack
    CloseReachesService
\* Callers, service and client may all stop.
CHECK_DEADLOCK FALSE
