SPECIFICATION Spec
CONSTANTS
    Timers = {"short", "long", "every", "zero"}
    NoTimer = "none"
    Interval <- MCInterval
    Persistent = {"every"}
    Ms = 2
    PollTime = 4
    MaxTimer = 1
    MaxBusy = 1
    MaxAge = 13
INVARIANT Punctual
