CONSTANTS
    Workers = {w1, w2}
    Producers = {p1, p2}
    Tasks = {a, b, c, d}
    NoTask = noTask
    MaxQueueSize = 2
SPECIFICATION FairSpec
INVARIANTS WakeupsCover
PROPERTIES QueuedTasksRun StopReturns CallersUnblock
CHECK_DEADLOCK FALSE
