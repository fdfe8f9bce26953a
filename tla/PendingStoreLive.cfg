\* Two handlers, the session and the sweeper on two threads, under fairness.
CONSTANTS
    Requests = {r1, r2}
    Tunnels = {t1}
    Disconnected = {}
    Contested = {}
    MaxGlobal = 2
    MaxPerTunnel = 1
    Threads = 2
SPECIFICATION FairSpec
PROPERTIES
    EveryRequestAnswered
    EveryWaiterReturns
