SPECIFICATION Spec
CONSTANTS
    Events = {e1, e2}
    Fds = {f1, f2}
    NoEvent = NoEvent
    NoFd = NoFd
    Slips = {}
CHECK_DEADLOCK FALSE
SYMMETRY Symmetry
INVARIANTS NoAssertFails KernelAgrees ActiveEventsAlive RemovedIsForgotten
