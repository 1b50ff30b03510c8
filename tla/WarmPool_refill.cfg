SPECIFICATION FairSpec

CONSTANTS
    Entries <- MCEntries4
    Templates = {d, x}
    DefaultTemplate = d
    TemplateOf <- MCTwoTemplates
    Callers = {c1, c2}
    Workers = {w1}
    Loop = loop
    BaseTarget <- MCTarget1
    ScaleTargets = {0, 1}
    NoEntry = noEntry
    NoTarget = noTarget
    StoreFaults = FALSE
    MaxCalls = 2
    MaxFaults = 1
    MaxCrashes = 1
    d = d
    x = x

PROPERTIES
    RefilledEventually

\* Entry ids are bounded: a run stops where a task finds no unused id.
CHECK_DEADLOCK FALSE
