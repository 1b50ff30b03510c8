SPECIFICATION FairSpec

CONSTANTS
    Tasks = {q1}
    Threads = 2
    Migrations = {m1}
    ShardCount = 2
    ShardOf <- MCShardOf
    Aging = {m1}
    Hosts = {h1}
    NoTask = noTask
    NoMigration = noMigration

PROPERTIES
    RollbackAnswered
