SPECIFICATION LibrarySpec

CONSTANTS
    Contents = {m1}
    Builders = {b1, b2}
    BuildFaults = 2
    Volumes = {v1, v2}
    Clerks = {k1, k2}
    Owners = {o1}
    DiskFaults = 2
    Snapshots = {s1}
    Accounts = {a1, a2, a3}
    Sharers = {u1, u2}
    Shares = 5
    Regions = {"r1"}
    Tenants = {"t1"}
    Points <- ShardPoints
    Hashes = {4, 6}
    Routers = {w1}
    Registrars = {g1, g2}
    ShardChanges = 3
    Versions = {f1, f2}
    MaxChunks = 3
    LineFaults = 2
    Kinds = {d1}
    Recorders = {q1, q2}
    Prewarmers = {p1, p2}
    MaxRecord = 1
    Window = 0
    PerRequest = 100
    LastTick = 1
    DemandOps = 4
    Hooks = {h1, h2}
    Events = {e1}
    WebhookFaults = 4
    AddressBits = 4

INVARIANTS
    LibraryTypeOK
    StorageSound
    AccessAgrees
    RouteAnswered
    TransferHonest
    PrewarmSound

PROPERTIES
    DeliveredAtLeastOnce

CHECK_DEADLOCK FALSE
