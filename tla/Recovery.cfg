SPECIFICATION FairSpec
CONSTANTS
    MaxFaults = 3
    FrameCount <- TwoImageFrames
    Retries = 2
    Attempts = 2
    Chips <- AllBoards
INVARIANTS  PortRestored
PROPERTIES ImageLoaded RecoveryEnds
CHECK_DEADLOCK FALSE
