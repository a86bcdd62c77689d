SPECIFICATION FairSpec
CONSTANTS
    Blocks = 5
    Chunks = 2
    Window = 3
    HasPort = TRUE
    Settles = TRUE
    WriteFaults = 4
    Default = 115200
    Fast = 921600
    ReadyEvery = 2
    IdleLimit = 3
    MaxQueue = 3
    BaudFaults = 2
    Packets = 4
    Modulus = 3
    Retries = 4
    MaxStalls = 3
    YModemFaults = 3
INVARIANTS
    
    
    CurrentIsReal
    SuccessMeansReceived
PROPERTIES
    
    TransferEnds
CHECK_DEADLOCK FALSE
