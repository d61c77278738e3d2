SPECIFICATION HTTPFairSpec
CONSTANTS
    Modes = {TRUE, FALSE}
    MaxConns = 3
    CallCap = 2
    MaxReqs = 3
    Load <- Pipelined
    Pipelining = TRUE
INVARIANTS HTTPTypeOK AnswersInOrder AnswersWhole SpanPairing
PROPERTIES CloseEnds
