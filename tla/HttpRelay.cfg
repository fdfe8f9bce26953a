\* Limits in the order of their defaults, but for a collect limit configured above
\* the size of a frame: threshold <= frame < collect = client < relay.
\* An empty body, one below the threshold, one at the client's limit, one the
\* relay streams and the client refuses, and one over every limit.
CONSTANTS
    Requests = {r1, r2}
    Sizes = {0, 2, 4, 5, 6}
    Enabled = TRUE
    Threshold = 3
    ChunkSize = 2
    RelayMax = 5
    CollectMax = 4
    FrameMax = 3
    ClientMax = 4
    Cap = 2
SPECIFICATION FairSpec
INVARIANTS
    TypeOK
    StreamsAccounted
    BreaksWithCause
PROPERTIES
    BodiesRelayed
    SentBodyArrives
\* Every request ends.
CHECK_DEADLOCK FALSE
