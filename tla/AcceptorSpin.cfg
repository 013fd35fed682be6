SPECIFICATION FairSpec
CONSTANTS
    MaxFds = 3
    OtherFds = 0
    Backlog = 2
    Clients = 4
    Transient = FALSE
    Restarts = 0
PROPERTY AcceptCbReturns
CHECK_DEADLOCK FALSE
