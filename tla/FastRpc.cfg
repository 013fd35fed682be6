SPECIFICATION FairSpec
CONSTANTS
    Calls = {"first", "twin", "other"}
    NoCall = "none"
    Id <- MCId
    Sync = {"other"}
    Unknown = {"other"}
    Timeout = TRUE
    Reconnect = TRUE
    MaxLosses = 1
INVARIANTS ServedAtMostOnce DoneAtMostOnce NoOrphanCall
PROPERTIES MessageLeftAlone TimeoutEndsCall
CHECK_DEADLOCK FALSE
