SPECIFICATION FairTcpSpec
CONSTANTS
    Events = {c1, c2}
    Fds = {f1, f2}
    NoEvent = NoEvent
    NoFd = NoFd
    Slips = {}
    MaxMsgs = 2
    MaxData = 1
    LateAnswers = FALSE
INVARIANTS NoAssertEnds EventsReachOwner NoStrandedWrite SentInOrder
PROPERTY ResponseGoesOut
