\* Every kind of provider; the third call of connect is the attempt after one that was lost.
SPECIFICATION FairSpec
CONSTANTS
    Kinds = {"websocket", "http", "given"}
    Checking = TRUE
    MaxConnects = 3
    MaxUserConnects = 2
    MaxChecks = 1
    MaxFaults = 2
    MaxStops = 1
INVARIANTS
    TypeOK
    Watched
    CheckReportsOnce
PROPERTIES
    IsSession
    NoReconnectWhileStopping
    ConnectSettles
    StopEnds
    Reopens
CHECK_DEADLOCK FALSE
