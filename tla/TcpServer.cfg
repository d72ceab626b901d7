CONSTANTS
    NumThreads = 2
    MaxConns = 3
    MaxFds = 2
SPECIFICATION FairSpec
INVARIANTS DestructedDisconnected ServerAssertionsHold DeadServerWindow
PROPERTIES ClosedIsDestructed PeersAreAccepted
CHECK_DEADLOCK FALSE
