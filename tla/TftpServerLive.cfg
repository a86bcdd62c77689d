CONSTANTS
    rom = rom
    uboot = uboot
    stray = stray
    loader = loader
    pack = pack
    pathloader = pathloader
    other = other
    NoFile = NoFile
    Clients = {rom, uboot}
    Names <- MCNames
    Files <- MCFiles
    Lookup <- MCLookup
    Size <- MCSize
    Option <- MCOption
    Request <- MCRequest
    DoneFile = NoFile
    DoneCount = 1
    DefaultBlock = 1
    MinBlock = 1
    MaxBlock = 2
    MaxBlockNum = 3
    MaxRetries = 1
    MaxTransfers = 1
    MaxLost = 1
    MaxDups = 0
SPECIFICATION FairSpec
CHECK_DEADLOCK FALSE
PROPERTIES
    SlotFreed
    FetchEnds
