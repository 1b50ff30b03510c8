SPECIFICATION FairSpec

CONSTANTS
    Execs = {e1}
    Shells = {s1}
    Chunks <- FewChunks
    Inputs = 2
    Buffer = 1
    Capacity = 1
    Terminal = 1
    NoCall = noCall

PROPERTIES
    Answered

CHECK_DEADLOCK FALSE
