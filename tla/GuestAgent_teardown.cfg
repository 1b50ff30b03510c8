SPECIFICATION Spec

CONSTANTS
    Execs = {}
    Shells = {s1}
    Chunks <- FewChunks
    Inputs = 1
    Buffer = 1
    Capacity = 1
    Terminal = 1
    NoCall = noCall

INVARIANTS
    ShellCleanedUp

CHECK_DEADLOCK FALSE
