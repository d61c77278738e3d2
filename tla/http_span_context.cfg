SPECIFICATION HTTPFairSpec
CONSTANTS
    Modes = {TRUE}
    MaxConns = 2
    CallCap = 1
    MaxReqs = 2
    Load <- OnlyGet
    Pipelining = FALSE
INVARIANTS SpanFromOwnRequest
