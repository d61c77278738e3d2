SPECIFICATION HTTPFairSpec
CONSTANTS
    Modes = {FALSE}
    MaxConns = 2
    CallCap = 1
    MaxReqs = 2
    Load <- GetAndHead
    Pipelining = FALSE
PROPERTIES HeadHandled
