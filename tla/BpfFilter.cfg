SPECIFICATION FilterSpec
CONSTANTS
    Texts <- SomeTexts
    Exprs = {}
    MaxJump = 255
    RecLimit = 30
    DigitLimit = 8
    MaxInsns = 4096
    Frames <- SomeFrames
INVARIANTS
    TypeOK
    NoLiteralSplit
    ParseExact
    JumpsForward
    LabelsPlacedOnce
    ProgramSound
    FreshLoads
    ChainLimit
    StaysInProgram
    VerdictCorrect
