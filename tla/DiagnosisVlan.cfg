SPECIFICATION Spec
CONSTANTS
    Frames <- SomeFrames
    Cuts = {0, 1, 4, 5, 7, 30}
    MaxFrames = 1
    MaxLayers = 6
INVARIANTS
    CutIsFlagged
