SPECIFICATION FairSpec

CONSTANTS
    Tasks = {q1, q2, q3}
    Threads = 2
    Migrations = {m1, m2}
    ShardCount = 2
    ShardOf <- MCShardOf
    Aging = {m1}
    Hosts = {h1}
    NoTask = noTask
    NoMigration = noMigration

INVARIANTS
    TypeOK
    LocksAccountedFor
    TerminalNeverSeen
    AnswerNotOlder
PROPERTIES
    LegalSteps
    Answered
