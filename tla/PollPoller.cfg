CONSTANTS
    Channels = {ch1, ch2, ch3}
    Fds = {0, 1}
    NoFd = noFd
    NoChannel = noChannel
SPECIFICATION Spec
INVARIANTS IndexConsistent
CHECK_DEADLOCK FALSE
