SPECIFICATION Spec

CONSTANTS
    Execs = {e1}
    Shells = {s1}
    Chunks <- SomeChunks
    Inputs = 2
    Buffer = 1
    Capacity = 1
    Terminal = 1
    NoCall = noCall

INVARIANTS
    TypeOK
    InOrder
    ExitComplete

CHECK_DEADLOCK FALSE
