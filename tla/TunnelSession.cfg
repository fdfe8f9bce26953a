\* Every fault at once: a session may end at each of its steps.
CONSTANTS
    Conns = {c1, c2}
    Requests = {r1}
    QueueCap = 1
    BaseDelay = 10000
    MaxAttempts = 3
    AttemptMax = 7
    Faults = {"connect", "refuse", "bind", "silent", "break", "drop", "bad", "stray", "huge"}
SPECIFICATION FairSpec
INVARIANTS
    TypeOK
    SleepsAsDocumented
    GivesUpAtLimit
PROPERTIES
    ShutdownObeyed
    GoneLinkEndsSession
    GracefulStopFreesName
