\* Two HTTP tunnels and a TCP tunnel at a relay that acknowledges each Connect.
CONSTANTS
    N = 3
    Tcp = {3}
    Conns = {c1, c2}
    Items = {x1}
    Cap = 2
    AckEach = TRUE
    BaseDelay = 1000
    MaxAttempts = 1
    AttemptMax = 3
    Faults = {"connect", "refuse", "break", "bad", "huge"}
SPECIFICATION FairSpec
INVARIANTS
    TypeOK
    RoutedHome
    RouteFound
    RoutesAccounted
PROPERTY ShutdownReleases
