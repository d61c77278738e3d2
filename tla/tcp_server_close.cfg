SPECIFICATION TCPFairSpec
CONSTANTS
    Modes = {TRUE}
    MaxConns = 1
    CallCap = 1
    MaxBytes = 1
PROPERTIES ServerCloseReachesClient
