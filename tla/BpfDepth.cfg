SPECIFICATION FilterSpec
CONSTANTS
    Texts <- LargeTexts
    Exprs = {}
    MaxJump = 255
    RecLimit = 10
    DigitLimit = 8
    MaxInsns = 4096
    Frames = {}
INVARIANT TooLargeIsCompileError
