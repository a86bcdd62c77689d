SPECIFICATION Spec
CONSTANTS
    FlashSectors = 5
    SecPages = 2
    ImgSectors = 4
    LastPages = 1
    Image <- MCImage
    Data <- MCData
    FF = FF
    Junk = Junk
    Verify = TRUE
    MaxFaults = 2
    MaxRuns = 1
PROPERTY FinalAckChecksCrc
