-------------------------- MODULE MigrationProofs --------------------------
(***************************************************************************)
(* What TLAPS proves of migrations, for any number of requests, threads,   *)
(* migrations and shards and whatever the hash.                            *)
(***************************************************************************)
EXTENDS Migration, TLAPS

-----------------------------------------------------------------------------
(* The table of the states *)

\* The states a task finds when the shard is free, other than the last phase.
Early == {"Pending", "Draining", "Snapshotting", "Transferring"}

\* A phase that is entered from an early state is a legal, live state.
LEMMA PhaseIsNext ==
    ASSUME NEW s \in Early
    PROVE  /\ Transition(s, Phase(s)) = Phase(s)
           /\ Phase(s) \in NextStates(s)
           /\ Phase(s) \in States
           /\ ~Terminal(Phase(s))
<1>1. CASE s = "Pending"
  BY <1>1 DEF Phase, NextStates, States, Terminal, Transition
<1>2. CASE s = "Draining"
  BY <1>2 DEF Phase, NextStates, States, Terminal, Transition
<1>3. CASE s = "Snapshotting"
  BY <1>3 DEF Phase, NextStates, States, Terminal, Transition
<1>4. CASE s = "Transferring"
  BY <1>4 DEF Phase, NextStates, States, Terminal, Transition
<1> QED
  BY <1>1, <1>2, <1>3, <1>4 DEF Early

\* Ranks are numbers, and a legal transition leads to a state of a higher one.
LEMMA RankRange == \A s : Rank(s) \in 0..6
BY DEF Rank

LEMMA RankGrows ==
    ASSUME NEW s \in States, NEW new \in NextStates(s)
    PROVE  new \in States /\ Rank(s) <= Rank(new)
<1>1. CASE s = "Pending"
  BY <1>1 DEF NextStates, States, Rank
<1>2. CASE s = "Draining"
  BY <1>2 DEF NextStates, States, Rank
<1>3. CASE s = "Snapshotting"
  BY <1>3 DEF NextStates, States, Rank
<1>4. CASE s = "Transferring"
  BY <1>4 DEF NextStates, States, Rank
<1>5. CASE s = "Resuming"
  BY <1>5 DEF NextStates, States, Rank
<1>6. CASE s \in {"Complete", "RolledBack", "Failed"}
  BY <1>6 DEF NextStates
<1> QED
  BY <1>1, <1>2, <1>3, <1>4, <1>5, <1>6 DEF States

\* A transition that is refused leaves the state; one that is not is legal.
LEMMA TransitionLegal ==
    ASSUME NEW s \in States, NEW new
    PROVE  /\ Transition(s, new) \in States
           /\ Transition(s, new) # s => Transition(s, new) \in NextStates(s)
           /\ Rank(s) <= Rank(Transition(s, new))
<1>1. CASE new \in NextStates(s)
  BY <1>1, RankGrows DEF Transition
<1>2. CASE new \notin NextStates(s)
  BY <1>2, RankRange DEF Transition
<1> QED
  BY <1>1, <1>2

-----------------------------------------------------------------------------
(* The inductive invariant *)

Record == [pc : {"idle", "insert", "advance", "rollback",
                 "read", "list", "sleep", "stuck"},
           id : Migrations \cup {NoMigration},
           own : States \cup {"none"},
           shard : Shards]

\* A task in a migration's shard, with the shard locked.
Inside(r) == r.pc \in {"sleep", "stuck"}

\* What a task's record says by itself: it works on a migration, and has not
\* entered a later phase than the record of the migration shows.
Sound(r) ==
    /\ r.pc \in {"insert", "advance", "rollback", "read", "sleep", "stuck"}
          => r.id \in Migrations
    /\ r.pc \in {"sleep", "read"} => Rank(r.own) <= Rank(active[r.id])
    /\ r.pc = "insert" => active[r.id] = "none"

\* Only one task creates the record of a migration.
OneCreator ==
    \A q, r \in Tasks :
        At(q, "insert") /\ At(r, "insert") /\ task[q].id = task[r].id => q = r

\* LocksAccountedFor, one task and one shard at a time.
Owners ==
    \A s \in Shards, q \in Tasks :
        lock[s] = q <=> Inside(task[q]) /\ ShardOf[task[q].id] = s

\* TerminalNeverSeen, with the owner of the lock named.
EndedLocked ==
    \A m \in Migrations : Terminal(active[m]) =>
        \E q \in Tasks : lock[ShardOf[m]] = q /\ At(q, "stuck")

Inv ==
    /\ TypeOK
    /\ \A q \in Tasks : Sound(task[q])
    /\ OneCreator
    /\ Owners
    /\ EndedLocked

\* The types, with the records named.
LEMMA Types ==
    TypeOK <=> /\ hosts \subseteq Hosts
               /\ active \in [Migrations -> States \cup {"none"}]
               /\ expired \subseteq Migrations
               /\ lock \in [Shards -> Tasks \cup {NoTask}]
               /\ task \in [Tasks -> Record]
BY DEF TypeOK, Record

\* The record of a task, and its fields.
LEMMA Fields ==
    ASSUME NEW r \in Record
    PROVE  /\ r.pc \in {"idle", "insert", "advance", "rollback",
                        "read", "list", "sleep", "stuck"}
           /\ r.id \in Migrations \cup {NoMigration}
           /\ r.own \in States \cup {"none"}
           /\ r.shard \in Shards
BY DEF Record

LEMMA IdleRecord == Idle \in Record /\ Idle.pc = "idle"
BY ShardsAssumption DEF Idle, Doing, Record, Shards

\* One task changes its record.
LEMMA Becomes ==
    ASSUME TypeOK, NEW q \in Tasks, NEW r \in Record, task' = [task EXCEPT ![q] = r]
    PROVE  /\ task' \in [Tasks -> Record]
           /\ task'[q] = r
           /\ \A p \in Tasks : p # q => task'[p] = task[p]
BY Types

\* At the start no shard is locked.
LEMMA InitInv == Init => Inv
<1> SUFFICES ASSUME Init PROVE Inv
  OBVIOUS
<1>1. \A q \in Tasks : task[q] = Idle
  BY DEF Init
<1>2. TypeOK
  BY IdleRecord, Types DEF Init
<1>3. \A q \in Tasks : Sound(task[q])
  BY <1>1, IdleRecord DEF Sound
<1>4. OneCreator
  BY <1>1, IdleRecord DEF OneCreator, At
<1>5. Owners
  BY <1>1, IdleRecord, NamesAssumption DEF Owners, Inside, Init
<1>6. EndedLocked
  BY DEF EndedLocked, Terminal, Init
<1> QED
  BY <1>2, <1>3, <1>4, <1>5, <1>6 DEF Inv

-----------------------------------------------------------------------------
(* The four ways a step changes the state *)

\* A task that holds no shard moves on, and still holds none.
LEMMA OutsideStep ==
    ASSUME Inv, NEW q \in Tasks, NEW r \in Record,
           task' = [task EXCEPT ![q] = r],
           UNCHANGED <<hosts, active, expired, lock>>,
           ~Inside(task[q]), ~Inside(r), Sound(r),
           r.pc = "insert" =>
               \A p \in Tasks : p # q => ~(At(p, "insert") /\ task[p].id = r.id)
    PROVE  Inv'
<1> USE DEF Inv
<1>1. /\ task' \in [Tasks -> Record]
      /\ task'[q] = r
      /\ \A p \in Tasks : p # q => task'[p] = task[p]
  BY Becomes
<1>2. TypeOK'
  BY <1>1 DEF TypeOK, Record
<1>3. \A p \in Tasks : Sound(task[p])'
  BY <1>1 DEF Sound
<1>4. OneCreator'
  BY <1>1 DEF OneCreator, At
<1>5. Owners'
  BY <1>1 DEF Owners
<1>6. EndedLocked'
  <2> SUFFICES ASSUME NEW m \in Migrations, Terminal(active[m])
               PROVE  \E p \in Tasks : lock[ShardOf[m]] = p /\ task'[p].pc = "stuck"
    BY DEF EndedLocked, At
  <2>1. PICK p \in Tasks : lock[ShardOf[m]] = p /\ At(p, "stuck")
    BY DEF EndedLocked
  <2>2. p # q
    BY <2>1 DEF At, Inside
  <2> QED
    BY <1>1, <2>1, <2>2 DEF At
<1> QED
  BY <1>2, <1>3, <1>4, <1>5, <1>6

\* A task outside enters a free shard: it locks it and moves one record.
LEMMA EnterStep ==
    ASSUME Inv, NEW q \in Tasks, NEW r \in Record, NEW m \in Migrations,
           NEW new \in States,
           task' = [task EXCEPT ![q] = r],
           task[q].id = m, r.id = m, ShardFree(q), ~Inside(task[q]), Inside(r),
           active[m] # "none", active' = [active EXCEPT ![m] = new],
           Rank(active[m]) <= Rank(new),
           r.pc = "sleep" => Rank(r.own) <= Rank(new) /\ ~Terminal(new),
           Hold(q, q), UNCHANGED <<hosts, expired>>
    PROVE  Inv'
<1> USE DEF Inv
<1>1. /\ task' \in [Tasks -> Record]
      /\ task'[q] = r
      /\ \A p \in Tasks : p # q => task'[p] = task[p]
  BY Becomes
<1>2. /\ active'[m] = new /\ active' \in [Migrations -> States \cup {"none"}]
      /\ \A n \in Migrations : n # m => active'[n] = active[n]
  BY Types
<1>3. /\ lock' \in [Shards -> Tasks \cup {NoTask}]
      /\ ShardOf[m] \in Shards
      /\ lock[ShardOf[m]] = NoTask /\ lock'[ShardOf[m]] = q
      /\ \A s \in Shards : s # ShardOf[m] => lock'[s] = lock[s]
  BY Types, ShardsAssumption DEF Hold, ShardFree, ReadFree
<1>4. TypeOK'
  BY <1>1, <1>2, <1>3 DEF TypeOK, Record
<1>5. \A p \in Tasks : Sound(task[p])'
  <2>1. Sound(task[q])'
    BY <1>1, <1>2 DEF Sound, Inside
  <2>2. ASSUME NEW p \in Tasks, p # q
        PROVE  Sound(task[p])'
    <3>1. task'[p] = task[p] /\ Sound(task[p])
      BY <1>1, <2>2
    <3>2. CASE task[p].id = m
      <4>1. task[p].pc \in {"sleep", "read"} => Rank(task[p].own) <= Rank(new)
        BY <3>1, <3>2, RankRange DEF Sound
      <4> QED
        BY <1>2, <3>1, <3>2, <4>1 DEF Sound
    <3>3. CASE task[p].id # m
      BY <1>2, <3>1, <3>3 DEF Sound
    <3> QED
      BY <3>2, <3>3
  <2> QED
    BY <2>1, <2>2
<1>6. OneCreator'
  BY <1>1 DEF OneCreator, At, Inside
<1>7. Owners'
  <2> SUFFICES ASSUME NEW s \in Shards, NEW p \in Tasks
               PROVE  lock'[s] = p <=> Inside(task'[p]) /\ ShardOf[task'[p].id] = s
    BY DEF Owners, Inside
  <2>1. CASE p = q
    BY <1>1, <1>3, <2>1 DEF Owners
  <2>2. CASE p # q
    BY <1>1, <1>3, <2>2, NamesAssumption DEF Owners
  <2> QED
    BY <2>1, <2>2
<1>8. EndedLocked'
  <2> SUFFICES ASSUME NEW n \in Migrations, Terminal(active'[n])
               PROVE  \E p \in Tasks : lock'[ShardOf[n]] = p /\ task'[p].pc = "stuck"
    BY DEF EndedLocked, At
  <2>1. CASE n = m
    BY <1>1, <1>2, <1>3, <2>1 DEF Inside
  <2>2. CASE n # m
    <3>1. PICK p \in Tasks : lock[ShardOf[n]] = p /\ At(p, "stuck")
      BY <1>2, <2>2 DEF EndedLocked
    <3>2. p # q
      BY <3>1 DEF At, Inside
    <3>3. ShardOf[n] # ShardOf[m] /\ ShardOf[n] \in Shards
      BY <1>3, <3>1, NamesAssumption, ShardsAssumption
    <3> QED
      BY <1>1, <1>3, <3>1, <3>2, <3>3 DEF At
  <2> QED
    BY <2>1, <2>2
<1> QED
  BY <1>4, <1>5, <1>6, <1>7, <1>8

\* A task that slept leaves its shard: the shard is free.
LEMMA LeaveStep ==
    ASSUME Inv, NEW q \in Tasks, NEW r \in Record,
           task' = [task EXCEPT ![q] = r],
           At(q, "sleep"), ~Inside(r), Sound(r), r.pc # "insert",
           Hold(q, NoTask), UNCHANGED <<hosts, active, expired>>
    PROVE  Inv'
<1> USE DEF Inv
<1>1. /\ task' \in [Tasks -> Record]
      /\ task'[q] = r
      /\ \A p \in Tasks : p # q => task'[p] = task[p]
  BY Becomes
<1> DEFINE s0 == ShardOf[task[q].id]
<1>2. task[q].id \in Migrations /\ s0 \in Shards /\ lock[s0] = q
  BY ShardsAssumption DEF Sound, Owners, Inside, At
<1>3. /\ lock' \in [Shards -> Tasks \cup {NoTask}]
      /\ lock'[s0] = NoTask
      /\ \A s \in Shards : s # s0 => lock'[s] = lock[s]
  BY <1>2, Types DEF Hold
<1> HIDE DEF s0
<1>4. TypeOK'
  BY <1>1, <1>3 DEF TypeOK, Record
<1>5. \A p \in Tasks : Sound(task[p])'
  BY <1>1 DEF Sound
<1>6. OneCreator'
  BY <1>1 DEF OneCreator, At
<1>7. Owners'
  <2> SUFFICES ASSUME NEW s \in Shards, NEW p \in Tasks
               PROVE  lock'[s] = p <=> Inside(task'[p]) /\ ShardOf[task'[p].id] = s
    BY DEF Owners, Inside
  <2>1. CASE p = q
    <3>1. lock'[s] # q
      BY <1>2, <1>3, NamesAssumption DEF Owners, s0
    <3> QED
      BY <1>1, <2>1, <3>1
  <2>2. CASE p # q
    BY <1>1, <1>2, <1>3, <2>2, NamesAssumption DEF Owners
  <2> QED
    BY <2>1, <2>2
<1>8. EndedLocked'
  <2> SUFFICES ASSUME NEW n \in Migrations, Terminal(active[n])
               PROVE  \E p \in Tasks : lock'[ShardOf[n]] = p /\ task'[p].pc = "stuck"
    BY DEF EndedLocked, At
  <2>1. PICK p \in Tasks : lock[ShardOf[n]] = p /\ At(p, "stuck")
    BY DEF EndedLocked
  <2>2. p # q
    BY <2>1 DEF At
  <2>3. ShardOf[n] # s0 /\ ShardOf[n] \in Shards
    BY <1>2, <2>1, <2>2, ShardsAssumption
  <2> QED
    BY <1>1, <1>3, <2>1, <2>2, <2>3 DEF At
<1> QED
  BY <1>4, <1>5, <1>6, <1>7, <1>8

-----------------------------------------------------------------------------
(* The steps of the requests *)

\* A request that arrives: what its task knows then.
LEMMA Arriving ==
    ASSUME NEW label \in {"insert", "advance", "rollback", "read", "list"},
           NEW m \in Migrations \cup {NoMigration}
    PROVE  /\ Doing(label, m) \in Record
           /\ Doing(label, m).pc = label
           /\ Doing(label, m).id = m
           /\ Doing(label, m).own = "none"
           /\ ~Inside(Doing(label, m))
<1>1. 1 \in Shards
  BY ShardsAssumption DEF Shards
<1> QED
  BY <1>1 DEF Doing, Record, Inside

\* POST advance, POST rollback and the two GETs.
LEMMA RequestInv ==
    ASSUME Inv, NEW q \in Tasks,
           NEW label \in {"advance", "rollback", "read", "list"},
           NEW m \in Migrations \cup {NoMigration},
           label # "list" => m \in Migrations,
           Request(q, label, m)
    PROVE  Inv'
<1> DEFINE r == Doing(label, m)
<1>1. /\ task' = [task EXCEPT ![q] = r]
      /\ r \in Record
      /\ r.pc = label /\ r.id = m /\ r.own = "none" /\ ~Inside(r)
  BY Arriving DEF Request
<1> HIDE DEF r
<1>2. UNCHANGED <<hosts, active, expired, lock>> /\ ~Inside(task[q])
  BY DEF Request, At, Inside
<1>3. Sound(r)
  BY <1>1, RankRange DEF Sound, Rank
<1> QED
  BY <1>1, <1>2, <1>3, OutsideStep

\* start_migration: the id is fresh, nobody else creates it.
LEMMA StartInv ==
    ASSUME Inv, NEW q \in Tasks, NEW m \in Migrations,
           NEW source, NEW target, StartMigration(q, m, source, target)
    PROVE  Inv'
<1> DEFINE r == Doing("insert", m)
<1>1. /\ task' = [task EXCEPT ![q] = r]
      /\ r \in Record
      /\ r.pc = "insert" /\ r.id = m /\ ~Inside(r)
  BY Arriving DEF StartMigration
<1> HIDE DEF r
<1>2. UNCHANGED <<hosts, active, expired, lock>> /\ ~Inside(task[q])
  BY DEF StartMigration, At, Inside
<1>3. active[m] = "none" /\ \A p \in Tasks : task[p].id # m
  BY DEF StartMigration
<1>4. Sound(r)
  BY <1>1, <1>3 DEF Sound
<1> QED
  BY <1>1, <1>2, <1>3, <1>4, OutsideStep

\* Any request that arrives keeps the invariant.
LEMMA ArriveInv ==
    ASSUME Inv, NEW q \in Tasks, Arrive(q)
    PROVE  Inv'
<1>1. ASSUME NEW m \in Migrations,
             RequestAdvance(q, m) \/ RequestRollback(q, m) \/ RequestRecord(q, m)
      PROVE  Inv'
  BY <1>1, RequestInv DEF RequestAdvance, RequestRollback, RequestRecord
<1>2. ASSUME RequestList(q)
      PROVE  Inv'
  BY <1>2, RequestInv DEF RequestList
<1> QED
  BY <1>1, <1>2, StartInv DEF Arrive

\* An answer: the task is idle again.
LEMMA AnswerInv ==
    ASSUME Inv, NEW q \in Tasks, ~Inside(task[q]), Answer(q),
           UNCHANGED <<hosts, active, expired, lock>>
    PROVE  Inv'
<1>1. task' = [task EXCEPT ![q] = Idle]
  BY DEF Answer
<1>2. ~Inside(Idle) /\ Sound(Idle)
  BY IdleRecord DEF Inside, Sound
<1> QED
  BY <1>1, <1>2, IdleRecord, OutsideStep

\* The refusals, the read of a record and the iteration hold no shard.
LEMMA LookInv ==
    ASSUME Inv, NEW q \in Tasks,
           AdvanceUnknown(q) \/ RollbackRefused(q) \/ ReadRecord(q) \/ ListShard(q)
    PROVE  Inv'
<1>1. UNCHANGED <<hosts, active, expired, lock>> /\ ~Inside(task[q])
  BY DEF AdvanceUnknown, RollbackRefused, ReadRecord, ListShard, At, Inside
<1>2. CASE Answer(q)
  BY <1>1, <1>2, AnswerInv
<1>3. CASE ListShard(q) /\ task[q].shard + 1 \in Shards
  <2> DEFINE r == [task[q] EXCEPT !.shard = task[q].shard + 1]
  <2>1. task' = [task EXCEPT ![q] = r] /\ At(q, "list")
    BY <1>3 DEF ListShard
  <2>2. task[q] \in Record
    BY Types DEF Inv
  <2>3. r \in Record /\ r.pc = task[q].pc
    BY <1>3, <2>2 DEF Record
  <2> HIDE DEF r
  <2>4. ~Inside(r) /\ Sound(r) /\ r.pc # "insert"
    BY <2>1, <2>3 DEF Inside, Sound, At
  <2> QED
    BY <1>1, <2>1, <2>3, <2>4, OutsideStep
<1> QED
  BY <1>2, <1>3 DEF AdvanceUnknown, RollbackRefused, ReadRecord, ListShard

\* The task that creates a record goes on to advance it.
LEMMA InsertInv ==
    ASSUME Inv, NEW q \in Tasks, InsertRecord(q)
    PROVE  Inv'
<1> USE DEF Inv
<1> DEFINE m == task[q].id
           r == [task[q] EXCEPT !.pc = "advance"]
<1>1. At(q, "insert") /\ m \in Migrations /\ active[m] = "none"
  BY DEF InsertRecord, Sound, At
<1>2. /\ task' = [task EXCEPT ![q] = r]
      /\ active' = [active EXCEPT ![m] = "Pending"]
      /\ UNCHANGED <<hosts, expired, lock>>
  BY DEF InsertRecord
<1>3. task[q] \in Record
  BY Types
<1>4. r \in Record /\ r.pc = "advance" /\ r.id = m
  BY <1>3 DEF Record
<1> HIDE DEF m, r
<1>5. /\ task' \in [Tasks -> Record]
      /\ task'[q] = r
      /\ \A p \in Tasks : p # q => task'[p] = task[p]
  BY <1>2, <1>4, Becomes
<1>6. /\ active'[m] = "Pending" /\ active' \in [Migrations -> States \cup {"none"}]
      /\ \A n \in Migrations : n # m => active'[n] = active[n]
  BY <1>1, <1>2, Types DEF States
<1>7. TypeOK'
  BY <1>2, <1>5, <1>6 DEF TypeOK, Record
<1>8. \A p \in Tasks : Sound(task[p])'
  <2>1. Sound(task[q])'
    BY <1>1, <1>4, <1>5 DEF Sound
  <2>2. ASSUME NEW p \in Tasks, p # q
        PROVE  Sound(task[p])'
    <3>1. task'[p] = task[p] /\ Sound(task[p])
      BY <1>5, <2>2
    <3>2. CASE task[p].id = m
      <4>1. task[p].pc # "insert"
        BY <1>1, <2>2, <3>2 DEF OneCreator, At, m
      <4>2. task[p].pc \in {"sleep", "read"} => Rank(task[p].own) <= Rank("Pending")
        BY <1>1, <3>1, <3>2, RankRange DEF Sound, Rank
      <4> QED
        BY <1>6, <3>1, <3>2, <4>1, <4>2 DEF Sound
    <3>3. CASE task[p].id # m
      BY <1>6, <3>1, <3>3 DEF Sound
    <3> QED
      BY <3>2, <3>3
  <2> QED
    BY <2>1, <2>2
<1>9. OneCreator'
  BY <1>4, <1>5 DEF OneCreator, At
<1>10. Owners'
  BY <1>1, <1>2, <1>4, <1>5 DEF Owners, Inside, At
<1>11. EndedLocked'
  <2> SUFFICES ASSUME NEW n \in Migrations, Terminal(active'[n])
               PROVE  \E p \in Tasks : lock[ShardOf[n]] = p /\ task'[p].pc = "stuck"
    BY <1>2 DEF EndedLocked, At
  <2>1. n # m
    BY <1>6 DEF Terminal
  <2>2. PICK p \in Tasks : lock[ShardOf[n]] = p /\ At(p, "stuck")
    BY <1>6, <2>1 DEF EndedLocked
  <2> QED
    BY <1>1, <1>5, <2>2 DEF At
<1> QED
  BY <1>7, <1>8, <1>9, <1>10, <1>11

\* A task that reaches a free shard finds no ended migration there.
LEMMA FreeIsLive ==
    ASSUME Inv, NEW m \in Migrations, lock[ShardOf[m]] = NoTask,
           active[m] # "none"
    PROVE  active[m] \in States /\ (active[m] \in Early \/ active[m] = "Resuming")
BY NamesAssumption DEF Inv, TypeOK, EndedLocked, Terminal, States, Early

\* advance enters the next phase and sleeps.
LEMMA PhaseInv ==
    ASSUME Inv, NEW q \in Tasks, AdvancePhase(q)
    PROVE  Inv'
<1> DEFINE m == task[q].id
           new == Phase(active[m])
           r == [task[q] EXCEPT !.pc = "sleep", !.own = new]
<1>1. At(q, "advance") /\ ShardFree(q) /\ Hold(q, q) /\ UNCHANGED <<hosts, expired>>
  BY DEF AdvancePhase
<1>2. m \in Migrations /\ ~Inside(task[q])
  BY <1>1 DEF Inv, Sound, At, Inside
<1>3. active[m] # "none" /\ active[m] # "Resuming"
  BY DEF AdvancePhase
<1>4. active[m] \in Early /\ active[m] \in States
  BY <1>1, <1>2, <1>3, FreeIsLive DEF ShardFree, ReadFree
<1>5. /\ Transition(active[m], new) = new
      /\ new \in States /\ ~Terminal(new)
      /\ Rank(active[m]) <= Rank(new)
  BY <1>4, PhaseIsNext, RankGrows
<1>6. active' = [active EXCEPT ![m] = new]
  BY <1>5 DEF AdvancePhase
<1>7. task' = [task EXCEPT ![q] = r]
  BY DEF AdvancePhase
<1>8. task[q] \in Record
  BY Types DEF Inv
<1>9. r \in Record /\ r.pc = "sleep" /\ r.id = m /\ r.own = new
  BY <1>5, <1>8 DEF Record
<1> HIDE DEF r, new
<1>10. Inside(r) /\ (r.pc = "sleep" => Rank(r.own) <= Rank(new) /\ ~Terminal(new))
  BY <1>5, <1>9, RankRange DEF Inside
<1> QED
  BY <1>1, <1>2, <1>3, <1>5, <1>6, <1>7, <1>9, <1>10, EnterStep

\* advance and rollback end a migration, and their task is stuck.
LEMMA EndInv ==
    ASSUME Inv, NEW q \in Tasks, AdvanceToEnd(q) \/ Rollback(q)
    PROVE  Inv'
<1> DEFINE m == task[q].id
           r == [task[q] EXCEPT !.pc = "stuck"]
<1>1. /\ At(q, "advance") \/ At(q, "rollback")
      /\ ShardFree(q) /\ Hold(q, q) /\ UNCHANGED <<hosts, expired>>
      /\ task' = [task EXCEPT ![q] = r]
  BY DEF AdvanceToEnd, Rollback
<1>2. m \in Migrations /\ ~Inside(task[q])
  BY <1>1 DEF Inv, Sound, At, Inside
<1>3. active[m] # "none"
  BY DEF AdvanceToEnd, Rollback, CanRollback
<1>4. active[m] \in States
  BY <1>1, <1>2, <1>3, FreeIsLive DEF ShardFree, ReadFree
<1>5. PICK goal \in {"Failed", "RolledBack", Phase(active[m])} :
        active' = [active EXCEPT ![m] = Transition(active[m], goal)]
  BY DEF AdvanceToEnd, Rollback
<1> DEFINE new == Transition(active[m], goal)
<1>6. new \in States /\ Rank(active[m]) <= Rank(new)
  BY <1>4, TransitionLegal
<1>7. task[q] \in Record
  BY Types DEF Inv
<1>8. r \in Record /\ r.pc = "stuck" /\ r.id = m
  BY <1>7 DEF Record
<1> HIDE DEF r, new
<1>9. Inside(r)
  BY <1>8 DEF Inside
<1>10. active' = [active EXCEPT ![m] = new]
  BY <1>5 DEF new
<1> QED
  BY <1>1, <1>2, <1>3, <1>6, <1>8, <1>9, <1>10, EnterStep

\* A sleeper wakes or its client goes away: the shard is free again.
LEMMA WakeInv ==
    ASSUME Inv, NEW q \in Tasks, Wake(q) \/ Disconnect(q)
    PROVE  Inv'
<1>1. At(q, "sleep") /\ Hold(q, NoTask) /\ UNCHANGED <<hosts, active, expired>>
  BY DEF Wake, Disconnect
<1>2. CASE Wake(q)
  <2> DEFINE r == [task[q] EXCEPT !.pc = "read"]
  <2>1. task' = [task EXCEPT ![q] = r]
    BY <1>2 DEF Wake
  <2>2. task[q] \in Record /\ Sound(task[q])
    BY Types DEF Inv
  <2>3. r \in Record /\ r.pc = "read" /\ r.id = task[q].id /\ r.own = task[q].own
    BY <2>2 DEF Record
  <2> HIDE DEF r
  <2>4. ~Inside(r) /\ Sound(r)
    BY <1>1, <2>2, <2>3 DEF Sound, Inside, At
  <2> QED
    BY <1>1, <2>1, <2>3, <2>4, LeaveStep
<1>3. CASE Disconnect(q)
  <2>1. task' = [task EXCEPT ![q] = Idle]
    BY <1>3 DEF Disconnect, Answer
  <2>2. ~Inside(Idle) /\ Sound(Idle) /\ Idle.pc # "insert"
    BY IdleRecord DEF Inside, Sound
  <2> QED
    BY <1>1, <2>1, <2>2, IdleRecord, LeaveStep
<1> QED
  BY <1>2, <1>3

\* Migrations grow old and hosts come and go: no record or lock is touched.
LEMMA AroundInv ==
    ASSUME Inv,
           \/ \E m \in Migrations : Expire(m)
           \/ \E h \in Hosts : RegisterHost(h) \/ RemoveHost(h)
           \/ UNCHANGED vars
    PROVE  Inv'
<1>1. UNCHANGED <<active, lock, task>>
  BY DEF Expire, RegisterHost, RemoveHost, vars
<1>2. hosts' \subseteq Hosts /\ expired' \subseteq Migrations
  BY DEF Inv, TypeOK, Expire, RegisterHost, RemoveHost, vars
<1> QED
  BY <1>1, <1>2 DEF Inv, TypeOK, Sound, OneCreator, Owners, EndedLocked, Inside, At

\* Every step keeps the invariant.
LEMMA NextInv == Inv /\ [Next]_vars => Inv'
<1> SUFFICES ASSUME Inv, [Next]_vars PROVE Inv'
  OBVIOUS
<1>1. ASSUME NEW q \in Tasks, LockStep(q)
      PROVE  Inv'
  BY <1>1, InsertInv, LookInv, PhaseInv, EndInv DEF LockStep
<1> QED
  BY <1>1, ArriveInv, WakeInv, AroundInv DEF Next

\* The invariant holds of every behaviour.
THEOREM Invariance == Spec => []Inv
BY InitInv, NextInv, PTL DEF Spec

-----------------------------------------------------------------------------
(* The properties *)

\* The variables keep to their ranges.
THEOREM TypeCorrect == Spec => []TypeOK
<1>1. Inv => TypeOK
  BY DEF Inv
<1> QED
  BY <1>1, Invariance, PTL

\* A shard is locked exactly by the task that sleeps or is stuck in one of its
\* migrations: no lock is lost, whichever way a task leaves.
THEOREM LocksHold == Spec => []LocksAccountedFor
<1>1. ASSUME Inv PROVE LocksAccountedFor
  <2> SUFFICES ASSUME NEW s \in Shards
               PROVE  LET inside == {q \in Tasks : /\ At(q, "sleep") \/ At(q, "stuck")
                                                   /\ ShardOf[task[q].id] = s}
                      IN  IF lock[s] = NoTask THEN inside = {} ELSE inside = {lock[s]}
    BY DEF LocksAccountedFor
  <2> DEFINE inside == {q \in Tasks : /\ At(q, "sleep") \/ At(q, "stuck")
                                      /\ ShardOf[task[q].id] = s}
  <2>1. \A q \in Tasks : q \in inside <=> lock[s] = q
    BY <1>1 DEF Inv, Owners, Inside, At
  <2>2. lock[s] \in Tasks \cup {NoTask} /\ inside \subseteq Tasks
    BY <1>1 DEF Inv, TypeOK
  <2> HIDE DEF inside
  <2>3. IF lock[s] = NoTask THEN inside = {} ELSE inside = {lock[s]}
    BY <2>1, <2>2, NamesAssumption
  <2> QED
    BY <2>3 DEF inside
<1> QED
  BY <1>1, Invariance, PTL

\* A migration that ends keeps its shard locked by a task that is stuck, so
\* that no request is told of its end.
THEOREM EndsAreNeverSeen == Spec => []TerminalNeverSeen
<1>1. Inv => TerminalNeverSeen
  BY NamesAssumption DEF Inv, EndedLocked, TerminalNeverSeen
<1> QED
  BY <1>1, Invariance, PTL

\* What a handler reads for its answer is no earlier than the phase it entered.
THEOREM AnswersAreNotOlder == Spec => []AnswerNotOlder
<1>1. Inv => AnswerNotOlder
  BY DEF Inv, Sound, AnswerNotOlder, At
<1> QED
  BY <1>1, Invariance, PTL

\* What LegalSteps asks of one migration.
Legal(m) ==
    active'[m] # active[m] =>
        /\ active[m] = "none" => active'[m] = "Pending"
        /\ active[m] # "none" => active'[m] \in NextStates(active[m])
        /\ lock[ShardOf[m]] = NoTask

\* A step that moves one record along the table moves no other.
LEMMA OneMoves ==
    ASSUME Inv, NEW m \in Migrations, NEW new,
           lock[ShardOf[m]] = NoTask, active[m] \in States,
           active' = [active EXCEPT ![m] = Transition(active[m], new)],
           NEW n \in Migrations
    PROVE  Legal(n)
<1>1. CASE n = m
  <2>1. active'[m] = Transition(active[m], new)
    BY DEF Inv, TypeOK
  <2>2. active[m] # "none"
    BY DEF States
  <2> QED
    BY <1>1, <2>1, <2>2, TransitionLegal DEF Legal
<1>2. CASE n # m
  BY <1>2 DEF Inv, TypeOK, Legal
<1> QED
  BY <1>1, <1>2

\* A step of a task moves records legally.
LEMMA LegalStep ==
    ASSUME Inv, Next, NEW n \in Migrations
    PROVE  Legal(n)
<1>1. ASSUME UNCHANGED active
      PROVE  Legal(n)
  BY <1>1 DEF Legal
<1>2. ASSUME NEW q \in Tasks, InsertRecord(q)
      PROVE  Legal(n)
  <2> DEFINE m == task[q].id
  <2>1. /\ m \in Migrations /\ active[m] = "none"
        /\ lock[ShardOf[m]] = NoTask
        /\ active' = [active EXCEPT ![m] = "Pending"]
    BY <1>2 DEF InsertRecord, Inv, Sound, At, ShardFree, ReadFree
  <2> HIDE DEF m
  <2> QED
    BY <2>1 DEF Inv, TypeOK, Legal
<1>3. ASSUME NEW q \in Tasks, AdvancePhase(q) \/ AdvanceToEnd(q) \/ Rollback(q)
      PROVE  Legal(n)
  <2> DEFINE m == task[q].id
  <2>1. m \in Migrations /\ lock[ShardOf[m]] = NoTask
    BY <1>3 DEF AdvancePhase, AdvanceToEnd, Rollback, Inv, Sound, At, ShardFree, ReadFree
  <2>2. active[m] # "none"
    BY <1>3 DEF AdvancePhase, AdvanceToEnd, Rollback, CanRollback
  <2>3. active[m] \in States
    BY <2>1, <2>2, FreeIsLive
  <2>4. PICK goal \in {"Failed", "RolledBack", Phase(active[m])} :
          active' = [active EXCEPT ![m] = Transition(active[m], goal)]
    BY <1>3 DEF AdvancePhase, AdvanceToEnd, Rollback
  <2> HIDE DEF m
  <2> QED
    BY <2>1, <2>3, <2>4, OneMoves
<1>4. ASSUME NEW q \in Tasks, LockStep(q)
      PROVE  Legal(n)
  BY <1>1, <1>2, <1>3, <1>4
     DEF LockStep, AdvanceUnknown, RollbackRefused, ReadRecord, ListShard
<1>5. ASSUME NEW q \in Tasks, Arrive(q) \/ Wake(q) \/ Disconnect(q)
      PROVE  UNCHANGED active
  BY <1>5 DEF Arrive, StartMigration, RequestAdvance, RequestRollback,
              RequestRecord, RequestList, Request, Wake, Disconnect
<1> QED
  BY <1>1, <1>4, <1>5 DEF Next, Expire, RegisterHost, RemoveHost

\* A record moves along next_states only, one step at a time and never while
\* another task sleeps in its shard.
THEOREM StepsAreLegal == Spec => LegalSteps
<1>1. Inv /\ [Next]_vars
        => [\A m \in Migrations : active'[m] # active[m] =>
              /\ active[m] = "none" => active'[m] = "Pending"
              /\ active[m] # "none" => active'[m] \in NextStates(active[m])
              /\ lock[ShardOf[m]] = NoTask]_vars
  BY LegalStep DEF vars, Legal
<1> QED
  BY <1>1, Invariance, PTL DEF Spec, LegalSteps
=============================================================================
