SPECIFICATION Spec
CONSTANTS
    LiveFrames <- SomeFrames
    Foreign <- SomeFiles
    MaxFrames = 2
    NsPerSec = 3
    SecLimit = 2
INVARIANTS
    ReplayFaithful
    CompleteWhenClosed
    OnlyEthernet
    ReplaysWellFormed
