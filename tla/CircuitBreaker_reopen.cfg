SPECIFICATION Spec

CONSTANTS
    Reporters = {f1}
    Readers = {s1}
    FailureThreshold = 5
    SuccessThreshold = 3
    OpenDuration = 30

INVARIANTS
    HalfOpenWaited
