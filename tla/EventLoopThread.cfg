CONSTANTS
    Threads = {owner, t1}
    Owner = owner
    Functors = {f1, f2, f3}
    Channels = {c1}
    WakeupChannel = wakeupChannel
    NoFunctor = noFunctor
    NoChannel = noChannel
SPECIFICATION ThreadFairSpec
INVARIANTS NoLostWakeup DeadLoopWindow ThreadLeavesObject
PROPERTIES ImplementsSerialExecutor EveryFunctorRuns StartLoopReturns DestructorReturns
CHECK_DEADLOCK FALSE
