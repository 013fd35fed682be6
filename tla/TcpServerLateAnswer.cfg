SPECIFICATION TcpSpec
CONSTANTS
    Events = {c1, c2}
    Fds = {f1}
    NoEvent = NoEvent
    NoFd = NoFd
    Slips = {}
    MaxMsgs = 1
    MaxData = 1
    LateAnswers = TRUE
CHECK_DEADLOCK FALSE
INVARIANT NoAssertFails
