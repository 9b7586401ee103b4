\* Violated: StopIsLast.
SPECIFICATION Spec
CONSTANTS
    Kinds = {"websocket"}
    Checking = TRUE
    MaxConnects = 3
    MaxUserConnects = 2
    MaxChecks = 1
    MaxFaults = 2
    MaxStops = 1
PROPERTIES
    StopIsLast
CHECK_DEADLOCK FALSE
