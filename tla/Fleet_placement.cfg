SPECIFICATION Spec

CONSTANTS
    Hosts = {h1, h2}
    Regions = {g1, g2}
    Requests = {r1, r2}
    Beats = {b1, b2}
    Admins = {a1}
    Capacity = 1
    Timeout = 0
    MaxOps = 3
    None = None

INVARIANTS
    TypeOK
    OvercommitIsBlind
    UnsampledIsPending
    RegionsAgree

SYMMETRY Symmetry

CHECK_DEADLOCK FALSE
