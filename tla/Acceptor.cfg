SPECIFICATION FairSpec
CONSTANTS
    MaxFds = 3
    OtherFds = 3
    Backlog = 2
    Clients = 4
    Transient = TRUE
    Restarts = 1
INVARIANTS SpareInReserve
PROPERTY ClientsTaken
CHECK_DEADLOCK FALSE
