SPECIFICATION FairSpec
CONSTANTS
    Modes = {TRUE, FALSE}
    MaxConns = 5
    CallCap = 2
INVARIANTS TypeOK NoOrphan Released Backlog
PROPERTIES ServedInOrder Terminates
