SPECIFICATION Spec
CONSTANTS
    Exprs <- Tall
    MaxJump = 16
    RecLimit = 80
    MaxInsns = 256
INVARIANT ReadyToAttach
