\* A connection may break, and the relay is reachable and willing otherwise.
CONSTANTS
    Conns = {c1, c2}
    Requests = {}
    QueueCap = 1
    BaseDelay = 1000
    MaxAttempts = 0
    AttemptMax = 7
    Faults = {"break"}
SPECIFICATION FairSpec
PROPERTY LostSessionReconnects
