---------------------------- MODULE MCMigration ----------------------------
(* Small instances of Migration. *)
EXTENDS Migration

\* Every migration has a shard to itself.
MCShardOf ==
    CHOOSE f \in [Migrations -> Shards] :
        \A m, n \in Migrations : m # n => f[m] # f[n]
=============================================================================
