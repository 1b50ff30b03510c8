SPECIFICATION Spec

CONSTANTS
    Entries <- MCEntries3
    Templates = {d}
    DefaultTemplate = d
    TemplateOf <- MCOneTemplate
    Callers = {c1, c2}
    Workers = {w1}
    Loop = loop
    BaseTarget <- MCTarget1
    ScaleTargets = {0}
    NoEntry = noEntry
    NoTarget = noTarget
    StoreFaults = TRUE
    MaxCalls = 3
    MaxFaults = 1
    MaxCrashes = 1
    d = d
    x = x

INVARIANTS
    TypeOK
    OncePerCaller
    SavedNeverAhead
    OvershootBounded
    LeaksBounded
    BrokenOffersBounded
PROPERTIES
    ImplementsLedger

SYMMETRY CallerSymmetry

\* Entry ids are bounded: a run stops where a task finds no unused id.
CHECK_DEADLOCK FALSE
