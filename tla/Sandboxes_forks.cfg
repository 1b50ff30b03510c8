SPECIFICATION Spec

CONSTANTS
    Vms = {v1, v2, v3}
    Callers = {c1, c2}
    Threads = {t1, t2}
    MaxFaults = 2
    None = None

INVARIANTS
    TypeOK
    DamageBounded
    ForkReturnsOwn

SYMMETRY Symmetry

CHECK_DEADLOCK FALSE
