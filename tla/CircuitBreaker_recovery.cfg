SPECIFICATION FairSpec

CONSTANTS
    Reporters = {f1, f2}
    Readers = {s1, s2}
    FailureThreshold = 2
    SuccessThreshold = 2
    OpenDuration = 2

INVARIANTS
    TypeOK
    ClosedBelowThreshold
PROPERTIES
    ClosesAfterProbes
    LegalTransitions
    Recovers
