----------------------------- MODULE Migration -----------------------------
(***************************************************************************)
(* Live migration: the orchestrator of migration.rs under the handlers of  *)
(* the scheduler's main.rs.                                                *)
(*                                                                         *)
(* Active migrations are records of a DashMap.  advance and rollback take  *)
(* a record with get_mut, which locks the record's shard for writing, and  *)
(* keep it to their end: across the sleep that stands for the work of a    *)
(* phase, and across promote_to_completed.  A task that sleeps gives its   *)
(* worker thread back and keeps the lock.  A task that waits for a shard   *)
(* lock keeps its thread: the lock is not an asynchronous one.             *)
(*                                                                         *)
(* promote_to_completed removes the record and so needs the lock of the    *)
(* shard that its caller holds; the lock is not reentrant.  A task that    *)
(* reaches it is "stuck" and has no next step, so that the completed       *)
(* migrations stay empty and no redirect is ever registered.               *)
(***************************************************************************)
EXTENDS Integers, FiniteSets

CONSTANTS
    Tasks,          \* tasks that serve requests
    Threads,        \* worker threads of the runtime
    Migrations,     \* migration ids
    ShardCount,     \* shards of the map
    ShardOf,        \* the shard an id hashes to
    Aging,          \* bound: the migrations that may get older than 60 s
    Hosts,          \* hosts that may be registered
    NoTask, NoMigration

ASSUME ThreadsAssumption == Threads \in Nat \ {0}
\* An iteration goes through the shards in this order.
Shards == 1..ShardCount

ASSUME ShardsAssumption ==
    /\ ShardCount \in Nat \ {0}
    /\ ShardOf \in [Migrations -> Shards]
ASSUME NamesAssumption ==
    NoTask \notin Tasks /\ NoMigration \notin Migrations

VARIABLES
    hosts,      \* the hosts in the registry
    active,     \* the records: "none" before the start, else the state
    expired,    \* migrations that started more than 60 s ago
    lock,       \* the task that holds a shard for writing
    task        \* what each task does, for which migration

vars == <<hosts, active, expired, lock, task>>

States == {"Pending", "Draining", "Snapshotting", "Transferring", "Resuming",
           "Complete", "RolledBack", "Failed"}

\* Mutant: the table forgets that a transferred snapshot is resumed.
NextStates_NoResume(s) ==
    CASE s = "Pending"      -> {"Draining"}
      [] s = "Draining"     -> {"Snapshotting", "RolledBack"}
      [] s = "Snapshotting" -> {"Transferring", "RolledBack", "Failed"}
      [] s = "Transferring" -> {"RolledBack", "Failed"}
      [] s = "Resuming"     -> {"Complete", "RolledBack", "Failed"}
      [] OTHER              -> {}

\* MigrationState::next_states
NextStates(s) ==
    CASE s = "Pending"      -> {"Draining"}
      [] s = "Draining"     -> {"Snapshotting", "RolledBack"}
      [] s = "Snapshotting" -> {"Transferring", "RolledBack", "Failed"}
      [] s = "Transferring" -> {"Resuming", "RolledBack", "Failed"}
      [] s = "Resuming"     -> {"Complete", "RolledBack", "Failed"}
      [] OTHER              -> {}

\* MigrationState::can_rollback
CanRollback(s) == s \in {"Draining", "Snapshotting", "Transferring", "Resuming"}

Terminal(s) == s \in {"Complete", "RolledBack", "Failed"}

\* MigrationRecord::transition: an illegal transition is an error that every
\* caller ignores.
Transition(s, new) == IF new \in NextStates(s) THEN new ELSE s

\* The phase advance enters from each state.
Phase(s) ==
    CASE s = "Pending"      -> "Draining"
      [] s = "Draining"     -> "Snapshotting"
      [] s = "Snapshotting" -> "Transferring"
      [] s = "Transferring" -> "Resuming"
      [] s = "Resuming"     -> "Complete"

-----------------------------------------------------------------------------
\* A task begins an operation on a migration.
Doing(label, m) == [pc |-> label, id |-> m, own |-> "none", shard |-> 1]

Idle == Doing("idle", NoMigration)

At(q, label) == task[q].pc = label
Answer(q) == task' = [task EXCEPT ![q] = Idle]

\* A task runs on a thread from its first step to its answer, except while it
\* sleeps.
OnThread(q) == ~At(q, "idle") /\ ~At(q, "sleep")

ThreadFree == Cardinality({q \in Tasks : OnThread(q)}) < Threads

\* An iteration keeps the shard it has read locked for reading until it has the next
\* one; it goes from the first shard on.
Iterated(s) == \E r \in Tasks : At(r, "list") /\ task[r].shard = s + 1

\* The lock a task needs next: insert and get_mut lock for writing, get for reading.
ReadFree(q) == lock[ShardOf[task[q].id]] = NoTask
ShardFree(q) == ReadFree(q) /\ ~Iterated(ShardOf[task[q].id])
Hold(q, owner) == lock' = [lock EXCEPT ![ShardOf[task[q].id]] = owner]

Init ==
    /\ hosts = {}
    /\ active = [m \in Migrations |-> "none"]
    /\ expired = {}
    /\ lock = [s \in Shards |-> NoTask]
    /\ task = [q \in Tasks |-> Idle]

-----------------------------------------------------------------------------
(* Requests arrive on a free thread *)

Request(q, label, m) ==
    /\ At(q, "idle") /\ ThreadFree
    /\ task' = [task EXCEPT ![q] = Doing(label, m)]
    /\ UNCHANGED <<hosts, active, expired, lock>>

\* start_migration: the source must be registered, and so must the target; a
\* request without a target gets some other host.  A refused request changes
\* nothing, and what the record says of its hosts is not looked at again before
\* a redirect.
StartMigration(q, m, source, target) ==
    /\ At(q, "idle") /\ ThreadFree
    /\ \A r \in Tasks : task[r].id # m
    /\ active[m] = "none"
    /\ source \in hosts /\ target \in hosts
    /\ task' = [task EXCEPT ![q] = Doing("insert", m)]
    /\ UNCHANGED <<hosts, active, expired, lock>>

\* POST advance, POST rollback and GET of a migration, known or not.
RequestAdvance(q, m) == Request(q, "advance", m)
RequestRollback(q, m) == Request(q, "rollback", m)
RequestRecord(q, m) == Request(q, "read", m)

\* GET of the active migrations.
RequestList(q) == Request(q, "list", NoMigration)

\* active.insert, and the handler goes on to advance.
InsertRecord(q) ==
    /\ At(q, "insert") /\ ShardFree(q)
    /\ active' = [active EXCEPT ![task[q].id] = "Pending"]
    /\ task' = [task EXCEPT ![q].pc = "advance"]
    /\ UNCHANGED <<hosts, expired, lock>>

-----------------------------------------------------------------------------
(* advance *)

\* get_mut finds no record: the answer is an error.
AdvanceUnknown(q) ==
    /\ At(q, "advance") /\ ShardFree(q)
    /\ active[task[q].id] = "none"
    /\ Answer(q)
    /\ UNCHANGED <<hosts, active, expired, lock>>

\* Mutant: a phase can be entered from any state, without looking at it.
AdvancePhase_Skips(q) ==
    LET m == task[q].id
    IN  /\ At(q, "advance") /\ ShardFree(q)
        /\ m \notin expired /\ active[m] \notin {"none", "Resuming"}
        /\ active' = [active EXCEPT ![m] = "Resuming"]
        /\ task' = [task EXCEPT ![q] =
                       [@ EXCEPT !.pc = "sleep", !.own = "Resuming"]]
        /\ Hold(q, q)
        /\ UNCHANGED <<hosts, expired>>

\* The record moves to the next phase and the task sleeps with the shard
\* locked.
AdvancePhase(q) ==
    LET m == task[q].id
    IN  /\ At(q, "advance") /\ ShardFree(q)
        /\ m \notin expired /\ active[m] \notin {"none", "Resuming"}
        /\ active' = [active EXCEPT ![m] = Transition(@, Phase(@))]
        /\ task' = [task EXCEPT ![q] =
                       [@ EXCEPT !.pc = "sleep", !.own = Phase(active[m])]]
        /\ Hold(q, q)
        /\ UNCHANGED <<hosts, expired>>

\* The last phase is over, or the migration is older than 60 s (whatever
\* timeout_secs the request asked for): the record becomes terminal, if it
\* may, and promote_to_completed waits for the lock its caller holds.
AdvanceToEnd(q) ==
    LET m == task[q].id
    IN  /\ At(q, "advance") /\ ShardFree(q)
        /\ \/ m \in expired /\ active[m] # "none"
              /\ active' = [active EXCEPT ![m] = Transition(@, "Failed")]
           \/ m \notin expired /\ active[m] = "Resuming"
              /\ active' = [active EXCEPT ![m] = Transition(@, Phase(@))]
        /\ task' = [task EXCEPT ![q].pc = "stuck"]
        /\ Hold(q, q)
        /\ UNCHANGED <<hosts, expired>>

\* Mutant: the lock is not given back.
Wake_KeepsLock(q) ==
    /\ At(q, "sleep") /\ ThreadFree
    /\ task' = [task EXCEPT ![q].pc = "read"]
    /\ UNCHANGED <<hosts, active, expired, lock>>

\* The sleep is over and a thread is free to go on: the lock is given back
\* and the handler reads the record for its answer.
Wake(q) ==
    /\ At(q, "sleep") /\ ThreadFree
    /\ task' = [task EXCEPT ![q].pc = "read"]
    /\ Hold(q, NoTask)
    /\ UNCHANGED <<hosts, active, expired>>

\* The client goes away during the sleep: the handler is dropped, the lock
\* with it, and the record stays in the phase it entered.
Disconnect(q) ==
    /\ At(q, "sleep") /\ ThreadFree
    /\ Answer(q)
    /\ Hold(q, NoTask)
    /\ UNCHANGED <<hosts, active, expired>>

-----------------------------------------------------------------------------
(* rollback *)

\* No record, or one that cannot be rolled back: the answer is an error.
RollbackRefused(q) ==
    /\ At(q, "rollback") /\ ShardFree(q)
    /\ ~CanRollback(active[task[q].id])
    /\ Answer(q)
    /\ UNCHANGED <<hosts, active, expired, lock>>

\* Mutant: the record is left among the active ones.
Rollback_NotPromoted(q) ==
    LET m == task[q].id
    IN  /\ At(q, "rollback") /\ ShardFree(q)
        /\ CanRollback(active[m])
        /\ active' = [active EXCEPT ![m] = Transition(@, "RolledBack")]
        /\ task' = [task EXCEPT ![q].pc = "read"]
        /\ UNCHANGED <<hosts, expired, lock>>

\* The record becomes RolledBack, and promote_to_completed waits for the lock
\* its caller holds.
Rollback(q) ==
    LET m == task[q].id
    IN  /\ At(q, "rollback") /\ ShardFree(q)
        /\ CanRollback(active[m])
        /\ active' = [active EXCEPT ![m] = Transition(@, "RolledBack")]
        /\ task' = [task EXCEPT ![q].pc = "stuck"]
        /\ Hold(q, q)
        /\ UNCHANGED <<hosts, expired>>

-----------------------------------------------------------------------------
(* get_record and active_migrations *)

\* A read lock on the shard, for the length of a clone.
ReadRecord(q) ==
    /\ At(q, "read") /\ ReadFree(q)
    /\ Answer(q)
    /\ UNCHANGED <<hosts, active, expired, lock>>

\* Mutant: the iteration runs past the last shard.
ListShard_PastEnd(q) ==
    /\ At(q, "list") /\ lock[task[q].shard] = NoTask
    /\ task' = [task EXCEPT ![q].shard = @ + 1]
    /\ UNCHANGED <<hosts, active, expired, lock>>

\* The iteration goes through the shards one by one, see Iterated.
ListShard(q) ==
    /\ At(q, "list") /\ lock[task[q].shard] = NoTask
    /\ IF task[q].shard + 1 \in Shards
       THEN task' = [task EXCEPT ![q].shard = @ + 1]
       ELSE Answer(q)
    /\ UNCHANGED <<hosts, active, expired, lock>>

-----------------------------------------------------------------------------
(* The surroundings *)

\* A migration gets older than 60 s.
Expire(m) ==
    /\ m \in Aging
    /\ active[m] # "none" /\ m \notin expired
    /\ expired' = expired \cup {m}
    /\ UNCHANGED <<hosts, active, lock, task>>

\* A heartbeat registers a host; decommissioning removes it, also under a
\* migration.  The registry has locks of its own.
RegisterHost(h) ==
    /\ hosts' = hosts \cup {h}
    /\ UNCHANGED <<active, expired, lock, task>>

RemoveHost(h) ==
    /\ h \in hosts
    /\ hosts' = hosts \ {h}
    /\ UNCHANGED <<active, expired, lock, task>>

-----------------------------------------------------------------------------
Arrive(q) ==
    \/ \E m \in Migrations, source \in Hosts, target \in Hosts :
          StartMigration(q, m, source, target)
    \/ \E m \in Migrations :
          RequestAdvance(q, m) \/ RequestRollback(q, m) \/ RequestRecord(q, m)
    \/ RequestList(q)

LockStep(q) ==
    \/ InsertRecord(q)
    \/ AdvanceUnknown(q) \/ AdvancePhase(q) \/ AdvanceToEnd(q)
    \/ RollbackRefused(q) \/ Rollback(q)
    \/ ReadRecord(q) \/ ListShard(q)

Next ==
    \/ \E q \in Tasks : Arrive(q) \/ LockStep(q) \/ Wake(q) \/ Disconnect(q)
    \/ \E m \in Migrations : Expire(m)
    \/ \E h \in Hosts : RegisterHost(h) \/ RemoveHost(h)

Spec == Init /\ [][Next]_vars

(* A waiter gets a lock that is free again and again, since the lock queues  *)
(* its waiters, and a timer that fired is polled when a thread is free again *)
(* and again.  Nobody is obliged to send a request.                          *)
Fairness == \A q \in Tasks : SF_vars(LockStep(q) \/ Wake(q))

FairSpec == Spec /\ Fairness

-----------------------------------------------------------------------------
(* Properties *)

\* The variables keep to their ranges.
TypeOK ==
    /\ hosts \subseteq Hosts
    /\ active \in [Migrations -> States \cup {"none"}]
    /\ expired \subseteq Migrations
    /\ lock \in [Shards -> Tasks \cup {NoTask}]
    /\ task \in [Tasks -> [pc : {"idle", "insert", "advance", "rollback",
                                 "read", "list", "sleep", "stuck"},
                           id : Migrations \cup {NoMigration},
                           own : States \cup {"none"},
                           shard : Shards]]

\* A shard is locked exactly by the task that sleeps or is stuck in one of
\* its migrations: no two tasks are inside, and no lock outlives its task's
\* answer or the connection of its client.
LocksAccountedFor ==
    \A s \in Shards :
        LET inside == {q \in Tasks : /\ At(q, "sleep") \/ At(q, "stuck")
                                     /\ ShardOf[task[q].id] = s}
        IN  IF lock[s] = NoTask THEN inside = {} ELSE inside = {lock[s]}

\* No request is ever told of a terminal state, whatever it asks: a migration
\* that ends keeps its shard locked for good.
TerminalNeverSeen ==
    \A m \in Migrations : Terminal(active[m]) =>
        /\ lock[ShardOf[m]] # NoTask
        /\ At(lock[ShardOf[m]], "stuck")

\* What a handler reads for its answer is no earlier than the phase it
\* entered itself, although the lock is free in between.
Rank(s) == CASE s = "none" -> 0 [] s = "Pending" -> 1 [] s = "Draining" -> 2
             [] s = "Snapshotting" -> 3 [] s = "Transferring" -> 4
             [] s = "Resuming" -> 5 [] OTHER -> 6

AnswerNotOlder ==
    \A q \in Tasks : At(q, "read") =>
        Rank(task[q].own) <= Rank(active[task[q].id])

\* A record moves along next_states only, one step at a time and never while
\* another task sleeps in it, however many requests push it.
LegalSteps ==
    [][\A m \in Migrations : active'[m] # active[m] =>
          /\ active[m] = "none" => active'[m] = "Pending"
          /\ active[m] # "none" => active'[m] \in NextStates(active[m])
          /\ lock[ShardOf[m]] = NoTask]_vars

\* Every thread waits for a lock that a sleeping task holds, or behind an iteration
\* that does: nobody is left to wake the sleeper.
Waits(q) ==
    IF At(q, "list") THEN lock[task[q].shard] # NoTask
    ELSE IF At(q, "read") THEN ~ReadFree(q) ELSE ~ShardFree(q)

Starved == Cardinality({q \in Tasks : OnThread(q) /\ Waits(q)}) >= Threads

\* Every request is answered, unless a migration has ended or the threads are
\* used up by waiters: there is no other way for the scheduler to hang.
Answered ==
    \A q \in Tasks :
        ~At(q, "idle") ~> \/ At(q, "idle")
                          \/ \E r \in Tasks : At(r, "stuck")
                          \/ Starved

\* rollback_from_any_active_state, "should be able to rollback from
\* {state:?}": a rollback that is accepted comes to its end.
RollbackAnswered ==
    \A q \in Tasks : At(q, "rollback") ~> At(q, "idle")
=============================================================================
