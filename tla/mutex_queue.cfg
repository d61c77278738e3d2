SPECIFICATION MutexQueueFairSpec
CONSTANTS
    Threads = {t1, t2, t3}
    MaxCalls = 2
INVARIANTS MutexQueueTypeOK HolderInFront
PROPERTIES ImplementsFIFOLock EveryLockReturns
CHECK_DEADLOCK FALSE
