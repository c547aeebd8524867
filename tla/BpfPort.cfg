SPECIFICATION FilterSpec
CONSTANTS
    Texts <- PortTexts
    Exprs = {}
    MaxJump = 255
    RecLimit = 30
    DigitLimit = 8
    MaxInsns = 4096
    Frames <- SomeFrames
INVARIANT AgreesWithTcpdump
