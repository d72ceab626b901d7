CONSTANTS
    Channels = {ch1, ch2, ch3}
    Fds = {0, 1}
    NoFd = noFd
    NoChannel = noChannel
SPECIFICATION Spec
INVARIANT InterestIsWatched
CHECK_DEADLOCK FALSE
