SPECIFICATION HTTPFairSpec
CONSTANTS
    Modes = {TRUE, FALSE}
    MaxConns = 2
    CallCap = 1
    MaxReqs = 2
    Load <- Serial
    Pipelining = FALSE
PROPERTIES Delivered SerialCloseEnds
