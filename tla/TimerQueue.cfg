CONSTANTS
    Threads = {t1}
    Addresses = {p, q}
    NoTimer = noTimer
    MaxDelay = 2
    MaxCreated = 2
    MaxQueue = 2
SPECIFICATION FairSpec
INVARIANTS SetsAgree ArmedForEarliest CancelIsFinal
PROPERTIES TimersRun
