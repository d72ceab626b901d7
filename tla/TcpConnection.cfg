CONSTANTS
    Threads = {t1}
    LoopCalls = {"send", "shutdown", "forceClose", "forceCloseWithDelay", "startRead", "stopRead"}
    ThreadCalls = {"send", "shutdown", "forceClose", "startRead", "stopRead"}
    HighWaterMark = 2
    MaxBytes = 2
    MaxQueue = 1
SPECIFICATION FairSpec
INVARIANTS WritingIffPending BytesInOrder ClosedOnce DestroyedIsQuiet
PROPERTIES HalfCloseAfterOutput ClosingCompletes DownIsDestroyed
CHECK_DEADLOCK FALSE
