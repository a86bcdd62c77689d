SPECIFICATION FairSpec
CONSTANTS
    p1 = p1
    p2 = p2
    Ports = {p1, p2}
    AnyPort = AnyPort
    NoPort = NoPort
    OldFile = OldFile
    NoFile = NoFile
    UsbRequests <- AllUsb
    ChunkSize = 4
    MaxSectors = 2
    DrainMax = 2
    FlashSectors = 4
    MaxUsbFaults = 3
    MaxPlugs = 2
    NandRequests <- AllNand
    Pages = 3
    Batch = 2
    Tries = 3
    MaxLosses = 4
    MaxDelays = 4
    Size = 4
    Chunk = 2
    Block = 4
    MaxRetries = 1
    MaxFaults = 3
    Fetchers = {f1, f2}
    Concurrent = FALSE
    MaxRelease = 3
    MaxNetFaults = 2
    Novatek = h1
    Other = h2
    NetRequests <- AllNet
    MaxEthFaults = 2
INVARIANTS
    OneBoardTouched
    UsbResultWhole
    UsbFailsOnlyWithCause
    SidecarTrue
    NandSuccess
    EccRestored
    DumpFaithful
    
    
    HostAsFound
    
PROPERTIES
    RepairKeeps
    EveryCommandEnds
CHECK_DEADLOCK FALSE
