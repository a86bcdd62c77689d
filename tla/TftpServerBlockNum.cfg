CONSTANTS
    rom = rom
    uboot = uboot
    stray = stray
    loader = loader
    pack = pack
    pathloader = pathloader
    other = other
    NoFile = NoFile
    Clients = {rom, uboot}
    Names <- MCNames
    Files <- MCFiles
    Lookup <- MCLookup
    Size <- MCSize
    Option <- MCOption
    Request <- MCRequest
    DoneFile = pack
    DoneCount = 1
    DefaultBlock = 1
    MinBlock = 1
    MaxBlock = 2
    MaxBlockNum = 2
    MaxRetries = 1
    MaxTransfers = 2
    MaxLost = 1
    MaxDups = 1
SPECIFICATION Spec
CHECK_DEADLOCK FALSE
INVARIANT TimerRuns
