CONSTANTS
    MaxFaults = 4
    MaxQueue = 3
    RamVerifyRetries = 1
    EnvAttempts = 3
    Pings = 2
    Requests <- AllRequests
SPECIFICATION Spec
INVARIANTS DoneMeansInstalled FactoryMacKept  FullBlocksFirst
PROPERTIES  ReflashEnds
