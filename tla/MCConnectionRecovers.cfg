\* Violated: Recovers.
SPECIFICATION FairSpec
CONSTANTS
    Kinds = {"websocket"}
    Checking = TRUE
    MaxConnects = 3
    MaxUserConnects = 2
    MaxChecks = 1
    MaxFaults = 2
    MaxStops = 0
PROPERTIES
    Recovers
CHECK_DEADLOCK FALSE
