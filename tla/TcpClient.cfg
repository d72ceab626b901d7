CONSTANTS
    Threads = {t1}
    kInitRetryDelayMs = 1
    kMaxRetryDelayMs = 5
    MaxCalls = 3
    MaxTimers = 2
    MaxConns = 2
SPECIFICATION FairSpec
INVARIANTS SingleAttempt SocketsAreOwned RetryIsPending ClientAssertionsHold DeadClientUntouched DeadConnectorUnregistered OrphanEndsDisconnected
PROPERTIES StopSettles
CHECK_DEADLOCK FALSE
