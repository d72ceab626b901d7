CONSTANTS
    Threads = {t1}
    kInitRetryDelayMs = 1
    kMaxRetryDelayMs = 5
    MaxCalls = 2
    MaxTimers = 1
    MaxConns = 1
SPECIFICATION Spec
INVARIANT StartsWhenDisconnected
CHECK_DEADLOCK FALSE
