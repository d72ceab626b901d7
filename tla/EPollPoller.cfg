CONSTANTS
    Channels = {ch1, ch2, ch3}
    Fds = {0, 1}
    NoFd = noFd
    NoChannel = noChannel
    NotInEpoll = notInEpoll
SPECIFICATION Spec
INVARIANTS IndicesAgree ReportedChannelsLive
PROPERTIES ImplementsPoller
