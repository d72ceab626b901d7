CONSTANTS
    Threads = {t1}
    LoopCalls = {"send"}
    ThreadCalls = {}
    HighWaterMark = 2
    MaxBytes = 2
    MaxQueue = 2
SPECIFICATION FairSpec
PROPERTY WriteCompleteMeansWritten
CHECK_DEADLOCK FALSE
