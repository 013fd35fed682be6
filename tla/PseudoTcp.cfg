SPECIFICATION Spec
CONSTANTS
    Setups <- mc_Setups
    SndBuf = 4
    MaxWnd = 4
    MinMss = 1
    MssLevels <- mc_MssLevels
    MaxXmit = 2
    MaxXmitConnecting = 2
    AckWidth = 6
    SeqWidth = 64
    CwndCap = 6
INVARIANTS NoAssertFails SegmentsTileBuffer WindowHonoured
PROPERTIES RefinesByteStream GracefulCloseDelivers StreamsArrive CloseCompletes
CHECK_DEADLOCK FALSE
