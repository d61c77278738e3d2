SPECIFICATION TCPFairSpec
CONSTANTS
    Modes = {TRUE, FALSE}
    MaxConns = 1
    CallCap = 1
    MaxBytes = 2
INVARIANTS TCPTypeOK UpstreamComplete DownstreamComplete
PROPERTIES CloseEnds
