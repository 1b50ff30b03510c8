------------------------------ MODULE WarmPool ------------------------------
(***************************************************************************)
(* The pool of pre-booted microVM snapshots: pool/mod.rs over the sled     *)
(* table of pool/store.rs.                                                 *)
(*                                                                         *)
(* A pool entry is a record in the store plus a directory that holds the   *)
(* snapshot.  A WarmPool handle is cloned freely and every method takes    *)
(* &self, so calls of claim and scale, the replenish tasks claim spawns    *)
(* and the periodic loop interleave; no lock covers more than one store    *)
(* operation.  One action below is one store, file-system or counter       *)
(* operation of one task, and what the task read before it is kept in the  *)
(* task's own variables.                                                   *)
(***************************************************************************)
EXTENDS Integers, FiniteSets

CONSTANTS
    Entries,        \* entry ids; their order is the key order of the store
    Templates,      \* template ids
    DefaultTemplate,\* "default", the template a new pool knows
    TemplateOf,     \* the template an entry id is drawn for (ids never repeat)
    Callers,        \* tasks that call claim and scale
    Workers,        \* replenish tasks that can run at the same time
    Loop,           \* the task of start_replenishment_loop
    BaseTarget,     \* strategy.target_size
    ScaleTargets,   \* the capacities scale is called with
    NoEntry,        \* no entry
    NoTarget,       \* no run-time override of the capacity
    StoreFaults,    \* whether store operations may fail
    MaxCalls,       \* bound: calls of claim and scale
    MaxFaults,      \* bound: failing operations
    MaxCrashes      \* bound: crashes of the process

Creators == Callers \cup Workers \cup {Loop}

ASSUME EntriesAssumption ==
    /\ Entries \subseteq Nat /\ IsFiniteSet(Entries)
    /\ NoEntry \notin Entries
ASSUME TemplatesAssumption ==
    /\ DefaultTemplate \in Templates
    /\ TemplateOf \in [Entries -> Templates]
ASSUME TasksAssumption ==
    /\ IsFiniteSet(Callers) /\ IsFiniteSet(Workers)
    /\ Callers \cap Workers = {}
    /\ Loop \notin Callers \cup Workers
ASSUME TargetsAssumption ==
    /\ BaseTarget \in [Templates -> Nat]
    /\ ScaleTargets \subseteq Nat /\ IsFiniteSet(ScaleTargets)
    /\ NoTarget \notin Nat
ASSUME BoundsAssumption ==
    /\ StoreFaults \in BOOLEAN
    /\ MaxCalls \in Nat /\ MaxFaults \in Nat /\ MaxCrashes \in Nat

VARIABLES
    status,     \* the store: the status of each record, "absent" without one
    dirs,       \* the entries whose snapshot directory exists
    bootVms,    \* the entries whose temporary boot microVM is running
    handed,     \* how many sessions each caller has restored from each entry
    hits, misses,   \* the counters in memory
    saved,      \* the counters in the store
    unread,     \* auxiliary: the last restart could not read the counters in
                \* the store, and none have been written since
    known,      \* known_templates
    caps,       \* dynamic_capacities
    spawned,    \* replenish tasks spawned and not yet running, per template
    todo,       \* the templates the loop has still to replenish in this tick
    task,       \* what each task does next, and its local variables
    calls, faults, crashes  \* what the bounds count

counters == <<hits, misses, saved, unread>>
memory   == <<known, caps, spawned, todo>>
vars == <<status, dirs, bootVms, handed, counters, memory, task,
          calls, faults, crashes>>

Zero == [hits |-> 0, misses |-> 0]

\* A task that is not in a call.
Returned == [pc |-> "idle", tpl |-> DefaultTemplate, ent |-> NoEntry,
             need |-> 0, victims |-> {}, note |-> Zero]

-----------------------------------------------------------------------------
(* Store queries *)

\* PoolStore::list_available
Ready(t) == {e \in Entries : status[e] = "Ready" /\ TemplateOf[e] = t}

\* into_iter().next()
IsFirst(e, S) == e \in S /\ \A x \in S : e <= x

\* into_iter().take(n): the list is in key order
FirstOf(S, n) == {e \in S : Cardinality({x \in S : x < e}) < n}

\* WarmPool::target_capacity
TargetCapacity(t) == IF caps[t] = NoTarget THEN BaseTarget[t] ELSE caps[t]

At(p, label) == task[p].pc = label
GoTo(p, label) == task' = [task EXCEPT ![p].pc = label]
Return(p) == task' = [task EXCEPT ![p] = Returned]

\* One of the failures the bound allows.
Fail == faults < MaxFaults /\ faults' = faults + 1

Init ==
    /\ status = [e \in Entries |-> "absent"]
    /\ dirs = {} /\ bootVms = {}
    /\ handed = [e \in Entries |-> [c \in Callers |-> 0]]
    /\ hits = 0 /\ misses = 0 /\ saved = Zero /\ unread = FALSE
    /\ known = {DefaultTemplate}
    /\ caps = [t \in Templates |-> NoTarget]
    /\ spawned = [t \in Templates |-> 0]
    /\ todo = {}
    /\ task = [p \in Creators |-> Returned]
    /\ calls = 0 /\ faults = 0 /\ crashes = 0

-----------------------------------------------------------------------------
(* claim *)

\* The template is registered and the available entries are listed; the
\* claim goes on with the first of them, or counts a miss.
Claim(c, t) ==
    /\ At(c, "idle") /\ calls < MaxCalls
    /\ calls' = calls + 1
    /\ known' = known \cup {t}
    /\ \/ \E e \in Ready(t) :
             /\ IsFirst(e, Ready(t))
             /\ task' = [task EXCEPT ![c] = [Returned EXCEPT
                             !.pc = "mark", !.tpl = t, !.ent = e]]
       \/ /\ Ready(t) = {}
          /\ task' = [task EXCEPT ![c] = [Returned EXCEPT
                          !.pc = "miss", !.tpl = t]]
    /\ UNCHANGED <<status, dirs, bootVms, handed, counters, caps, spawned,
                   todo, faults, crashes>>

\* The entries cannot be listed: claim returns the error, the template stays
\* registered.
ClaimFails(c, t) ==
    /\ At(c, "idle") /\ calls < MaxCalls
    /\ StoreFaults /\ Fail
    /\ calls' = calls + 1
    /\ known' = known \cup {t}
    /\ UNCHANGED <<status, dirs, bootVms, handed, counters, caps, spawned,
                   todo, task, crashes>>

\* Mutant: the new status is never written.
MarkClaimed_Unwritten(c) ==
    /\ At(c, "mark") /\ GoTo(c, "restore")
    /\ UNCHANGED <<status, dirs, bootVms, handed, counters, memory,
                   calls, faults, crashes>>

\* update_status(entry, Claimed), whatever the status is by now.
MarkClaimed(c) ==
    /\ At(c, "mark")
    /\ status' = [status EXCEPT ![task[c].ent] = "Claimed"]
    /\ GoTo(c, "restore")
    /\ UNCHANGED <<dirs, bootVms, handed, counters, memory,
                   calls, faults, crashes>>

\* update_status fails in the read or the write, or in the flush that follows
\* the write: claim returns the error.
MarkClaimedFails(c) ==
    /\ At(c, "mark") /\ StoreFaults /\ Fail
    /\ \/ status' = [status EXCEPT ![task[c].ent] = "Claimed"]
       \/ UNCHANGED status
    /\ Return(c)
    /\ UNCHANGED <<dirs, bootVms, handed, counters, memory, calls, crashes>>

\* restore_warm_session loads the snapshot into a new microVM.
RestoreSession(c) ==
    /\ At(c, "restore") /\ task[c].ent \in dirs
    /\ handed' = [handed EXCEPT ![task[c].ent][c] = @ + 1]
    /\ GoTo(c, "hit")
    /\ UNCHANGED <<status, dirs, bootVms, counters, memory,
                   calls, faults, crashes>>

\* Mutant: a failed restore puts the entry back on offer.
RestoreSessionFails_Released(c) ==
    /\ At(c, "restore") /\ Fail
    /\ status' = [status EXCEPT ![task[c].ent] = "Ready"]
    /\ Return(c)
    /\ UNCHANGED <<dirs, bootVms, handed, counters, memory, calls, crashes>>

\* The restore fails, because the snapshot is gone or because Firecracker
\* does: claim returns the error, the entry keeps its status, nothing is
\* counted and no replenish task is spawned.
RestoreSessionFails(c) ==
    /\ At(c, "restore")
    /\ \/ task[c].ent \notin dirs /\ UNCHANGED faults
       \/ task[c].ent \in dirs /\ Fail
    /\ Return(c)
    /\ UNCHANGED <<status, dirs, bootVms, handed, counters, memory,
                   calls, crashes>>

\* The counter of the outcome is incremented and the other one is loaded.
Count(c) ==
    /\ \/ At(c, "hit") /\ hits' = hits + 1 /\ UNCHANGED misses
       \/ At(c, "miss") /\ misses' = misses + 1 /\ UNCHANGED hits
    /\ task' = [task EXCEPT ![c] = [@ EXCEPT
                    !.pc = "save",
                    !.note = [hits |-> hits', misses |-> misses']]]
    /\ UNCHANGED <<status, dirs, bootVms, handed, saved, unread, memory,
                   calls, faults, crashes>>

\* save_metrics writes the pair that was read, its error is ignored, and a
\* replenish task is spawned for the template.
SaveMetrics(c) ==
    /\ At(c, "save")
    /\ \/ saved' = task[c].note /\ unread' = FALSE /\ UNCHANGED faults
       \/ StoreFaults /\ Fail /\ UNCHANGED <<saved, unread>>
    /\ spawned' = [spawned EXCEPT ![task[c].tpl] = @ + 1]
    /\ Return(c)
    /\ UNCHANGED <<status, dirs, bootVms, handed, hits, misses, known, caps,
                   todo, calls, crashes>>

-----------------------------------------------------------------------------
(* replenish, the replenishment loop and the growing half of scale *)

\* Mutant: creates the whole target, whatever is ready.
Plan_IgnoresReady(p, t, target) ==
    task' = [task EXCEPT ![p] =
                IF target > 0
                THEN [Returned EXCEPT !.pc = "create", !.tpl = t,
                                      !.need = target]
                ELSE Returned]

\* Mutant: a pool that misses one entry counts as full.
Plan_OffByOne(p, t, target) ==
    LET missing == target - Cardinality(Ready(t))
    IN  task' = [task EXCEPT ![p] =
                    IF missing > 1
                    THEN [Returned EXCEPT !.pc = "create", !.tpl = t,
                                          !.need = missing]
                    ELSE Returned]

\* Task p reads how many entries are ready and the target, once, and sets out
\* to create the difference (should_replenish, saturating_sub).
Plan(p, t, target) ==
    LET missing == target - Cardinality(Ready(t))
    IN  task' = [task EXCEPT ![p] =
                    IF missing > 0
                    THEN [Returned EXCEPT !.pc = "create", !.tpl = t,
                                          !.need = missing]
                    ELSE Returned]

\* Mutant: a task starts that nobody spawned.
StartReplenish_Unspawned(w, t) ==
    /\ At(w, "idle")
    /\ spawned' = [spawned EXCEPT ![t] = @ - 1]
    /\ Plan(w, t, TargetCapacity(t))
    /\ UNCHANGED <<status, dirs, bootVms, handed, counters, known, caps, todo,
                   calls, faults, crashes>>

\* A spawned replenish task starts.
StartReplenish(w, t) ==
    /\ At(w, "idle") /\ spawned[t] > 0
    /\ spawned' = [spawned EXCEPT ![t] = @ - 1]
    /\ Plan(w, t, TargetCapacity(t))
    /\ UNCHANGED <<status, dirs, bootVms, handed, counters, known, caps, todo,
                   calls, faults, crashes>>

\* The entries cannot be listed: the task ends, its error is dropped.
StartReplenishFails(w, t) ==
    /\ At(w, "idle") /\ spawned[t] > 0
    /\ StoreFaults /\ Fail
    /\ spawned' = [spawned EXCEPT ![t] = @ - 1]
    /\ UNCHANGED <<status, dirs, bootVms, handed, counters, known, caps, todo,
                   task, calls, crashes>>

\* A tick of the loop: replenish_all takes a copy of the known templates ...
LoopTick ==
    /\ At(Loop, "idle") /\ todo = {}
    /\ todo' = known
    /\ UNCHANGED <<status, dirs, bootVms, handed, counters, known, caps,
                   spawned, task, calls, faults, crashes>>

\* ... and replenishes one after the other.
LoopNext(t) ==
    /\ At(Loop, "idle") /\ t \in todo
    /\ todo' = todo \ {t}
    /\ Plan(Loop, t, TargetCapacity(t))
    /\ UNCHANGED <<status, dirs, bootVms, handed, counters, known, caps,
                   spawned, calls, faults, crashes>>

\* The entries of the next template cannot be listed: replenish_all gives up
\* on all the templates that are left.
LoopNextFails ==
    /\ At(Loop, "idle") /\ todo # {}
    /\ StoreFaults /\ Fail
    /\ todo' = {}
    /\ UNCHANGED <<status, dirs, bootVms, handed, counters, known, caps,
                   spawned, task, calls, crashes>>

\* create_warm_snapshot makes the directory and boots the temporary microVM.
BeginSnapshot(p, e) ==
    /\ At(p, "create")
    /\ status[e] = "absent" /\ e \notin dirs /\ TemplateOf[e] = task[p].tpl
    /\ dirs' = dirs \cup {e}
    /\ bootVms' = bootVms \cup {e}
    /\ task' = [task EXCEPT ![p] = [@ EXCEPT !.pc = "boot", !.ent = e]]
    /\ UNCHANGED <<status, handed, counters, memory, calls, faults, crashes>>

\* Mutant: the temporary microVM is not ended.
PublishEntry_VmRuns(p) ==
    /\ At(p, "boot")
    /\ status' = [status EXCEPT ![task[p].ent] = "Ready"]
    /\ Return(p)
    /\ UNCHANGED <<dirs, bootVms, handed, counters, memory,
                   calls, faults, crashes>>

\* The microVM was paused, written to the snapshot and ended; the record
\* enters the store as Ready.
PublishEntry(p) ==
    /\ At(p, "boot")
    /\ status' = [status EXCEPT ![task[p].ent] = "Ready"]
    /\ bootVms' = bootVms \ {task[p].ent}
    /\ task' = [task EXCEPT ![p] =
                   IF @.need > 1
                   THEN [@ EXCEPT !.pc = "create", !.ent = NoEntry,
                                  !.need = task[p].need - 1]
                   ELSE Returned]
    /\ UNCHANGED <<dirs, handed, counters, memory, calls, faults, crashes>>

\* An error ends the whole call, in the loop the whole tick.  The template
\* lookup and the directory can fail before anything exists; a failing boot
\* leaves the microVM running unless it was never spawned; a failing pause or
\* snapshot returns before the microVM is ended; a failing store operation
\* comes after it, the record written or not.
SnapshotFails(p) ==
    /\ Fail
    /\ \/ (At(p, "create") \/ At(p, "boot")) /\ UNCHANGED <<status, bootVms>>
       \/ /\ At(p, "boot")
          /\ bootVms' = bootVms \ {task[p].ent}
          /\ \/ UNCHANGED status
             \/ /\ StoreFaults
                /\ status' = [status EXCEPT ![task[p].ent] = "Ready"]
    /\ Return(p)
    /\ todo' = IF p = Loop THEN {} ELSE todo
    /\ UNCHANGED <<dirs, handed, counters, known, caps, spawned,
                   calls, crashes>>

-----------------------------------------------------------------------------
(* scale *)

\* The capacity is set and the available entries are listed; scale creates
\* what is missing, or retires the first entries of the list.
Scale(c, t, target) ==
    LET excess == Cardinality(Ready(t)) - target
    IN  /\ At(c, "idle") /\ calls < MaxCalls
        /\ calls' = calls + 1
        /\ known' = known \cup {t}
        /\ caps' = [caps EXCEPT ![t] = target]
        /\ \/ excess <= 0 /\ Plan(c, t, target)
           \/ /\ excess > 0
              /\ task' = [task EXCEPT ![c] = [Returned EXCEPT
                              !.pc = "retire", !.tpl = t,
                              !.victims = FirstOf(Ready(t), excess)]]
        /\ UNCHANGED <<status, dirs, bootVms, handed, counters, spawned, todo,
                       faults, crashes>>

\* The entries cannot be listed: scale returns the error, the new capacity
\* stays in force.
ScaleFails(c, t, target) ==
    /\ At(c, "idle") /\ calls < MaxCalls
    /\ StoreFaults /\ Fail
    /\ calls' = calls + 1
    /\ known' = known \cup {t}
    /\ caps' = [caps EXCEPT ![t] = target]
    /\ UNCHANGED <<status, dirs, bootVms, handed, counters, spawned, todo,
                   task, crashes>>

\* Mutant: the victim is removed without being retired.
RetireEntry_Unwritten(c) ==
    \E e \in task[c].victims :
        /\ At(c, "retire") /\ IsFirst(e, task[c].victims)
        /\ task' = [task EXCEPT ![c] = [@ EXCEPT
                        !.pc = "remove", !.ent = e,
                        !.victims = task[c].victims \ {e}]]
        /\ UNCHANGED <<status, dirs, bootVms, handed, counters, memory,
                       calls, faults, crashes>>

\* update_status(victim, Claimed); an error is ignored.
RetireEntry(c) ==
    \E e \in task[c].victims :
        /\ At(c, "retire") /\ IsFirst(e, task[c].victims)
        /\ \/ status' = [status EXCEPT ![e] = "Claimed"] /\ UNCHANGED faults
           \/ StoreFaults /\ Fail /\ UNCHANGED status
        /\ task' = [task EXCEPT ![c] = [@ EXCEPT
                        !.pc = "remove", !.ent = e,
                        !.victims = task[c].victims \ {e}]]
        /\ UNCHANGED <<dirs, bootVms, handed, counters, memory,
                       calls, crashes>>

\* remove_dir_all(victim); an error is ignored.
RemoveSnapshot(c) ==
    /\ At(c, "remove")
    /\ \/ dirs' = dirs \ {task[c].ent} /\ UNCHANGED faults
       \/ Fail /\ UNCHANGED dirs
    /\ IF task[c].victims = {} THEN Return(c) ELSE GoTo(c, "retire")
    /\ UNCHANGED <<status, bootVms, handed, counters, memory,
                   calls, crashes>>

-----------------------------------------------------------------------------
(* Mutant: WarmPool::new starts the counters from zero, although it could    *)
(* read them.                                                                *)
Crash_CountersReset ==
    /\ crashes < MaxCrashes
    /\ crashes' = crashes + 1
    /\ hits' = 0 /\ misses' = 0 /\ unread' = FALSE
    /\ known' = {DefaultTemplate}
    /\ caps' = [t \in Templates |-> NoTarget]
    /\ spawned' = [t \in Templates |-> 0]
    /\ todo' = {}
    /\ task' = [p \in Creators |-> Returned]
    /\ UNCHANGED <<status, dirs, bootVms, handed, saved, calls, faults>>

(* The process dies and WarmPool::new runs on what the store kept.  The      *)
(* microVMs and the directories stay; the tasks and the registered           *)
(* templates and capacities do not.  The counters are read from the store,   *)
(* or start from zero when they cannot be read (unwrap_or_default).          *)
Crash ==
    /\ crashes < MaxCrashes
    /\ crashes' = crashes + 1
    /\ \/ /\ hits' = saved.hits /\ misses' = saved.misses
          /\ unread' = FALSE
          /\ UNCHANGED faults
       \/ /\ StoreFaults /\ Fail
          /\ hits' = 0 /\ misses' = 0
          /\ unread' = TRUE
    /\ known' = {DefaultTemplate}
    /\ caps' = [t \in Templates |-> NoTarget]
    /\ spawned' = [t \in Templates |-> 0]
    /\ todo' = {}
    /\ task' = [p \in Creators |-> Returned]
    /\ UNCHANGED <<status, dirs, bootVms, handed, saved, calls>>

-----------------------------------------------------------------------------
ClaimStep(c) ==
    \/ \E t \in Templates : Claim(c, t) \/ ClaimFails(c, t)
    \/ MarkClaimed(c)
    \/ MarkClaimedFails(c)
    \/ RestoreSession(c)
    \/ RestoreSessionFails(c)
    \/ Count(c)
    \/ SaveMetrics(c)

ScaleStep(c) ==
    \/ \E t \in Templates, target \in ScaleTargets :
          Scale(c, t, target) \/ ScaleFails(c, t, target)
    \/ RetireEntry(c)
    \/ RemoveSnapshot(c)

CreateStep(p) ==
    \/ \E e \in Entries : BeginSnapshot(p, e)
    \/ PublishEntry(p)
    \/ SnapshotFails(p)

WorkerStep(w) ==
    \E t \in Templates : StartReplenish(w, t) \/ StartReplenishFails(w, t)

LoopStep ==
    \/ LoopTick
    \/ \E t \in Templates : LoopNext(t)
    \/ LoopNextFails

Next ==
    \/ \E c \in Callers : ClaimStep(c) \/ ScaleStep(c)
    \/ \E w \in Workers : WorkerStep(w)
    \/ LoopStep
    \/ \E p \in Creators : CreateStep(p)
    \/ Crash

Spec == Init /\ [][Next]_vars

(* Every task that can run is run by the tokio scheduler, and the ticker of  *)
(* the loop keeps firing.  Nobody is obliged to call claim or scale, and     *)
(* nothing is obliged to fail.                                               *)
Progress(p) ==
    \/ MarkClaimed(p) \/ RestoreSession(p) \/ RestoreSessionFails(p)
    \/ Count(p) \/ SaveMetrics(p)
    \/ RetireEntry(p) \/ RemoveSnapshot(p)

Fairness ==
    /\ WF_vars(LoopStep)
    /\ \A c \in Callers : WF_vars(Progress(c))
    /\ \A w \in Workers : WF_vars(WorkerStep(w))
    /\ \A p \in Creators : WF_vars(CreateStep(p))

FairSpec == Spec /\ Fairness

-----------------------------------------------------------------------------
(* Properties *)

Labels == {"idle", "mark", "restore", "hit", "miss", "save",
           "create", "boot", "retire", "remove"}

Task == [pc : Labels, tpl : Templates, ent : Entries \cup {NoEntry},
         need : Nat, victims : SUBSET Entries,
         note : [hits : Nat, misses : Nat]]

\* The variables keep to their ranges.
TypeOK ==
    /\ status \in [Entries -> {"absent", "Ready", "Claimed"}]
    /\ dirs \subseteq Entries
    /\ bootVms \subseteq Entries
    /\ handed \in [Entries -> [Callers -> Nat]]
    /\ hits \in Nat /\ misses \in Nat
    /\ saved \in [hits : Nat, misses : Nat] /\ unread \in BOOLEAN
    /\ known \subseteq Templates
    /\ caps \in [Templates -> Nat \cup {NoTarget}]
    /\ spawned \in [Templates -> Nat]
    /\ todo \subseteq Templates
    /\ task \in [Creators -> Task]
    /\ calls \in Nat /\ faults \in Nat /\ crashes \in Nat

\* claim never restores the same entry twice for one caller: the status is
\* written before the restore and no operation makes an entry Ready again,
\* across failures, scaling and restarts.  With several callers an entry can
\* still go to one session of each of them.
OncePerCaller ==
    \A e \in Entries, c \in Callers : handed[e][c] <= 1

\* An entry the pool offers has its snapshot on disk: the record is inserted
\* after the directory was filled, and scale retires the record before it
\* removes the directory.  scale removes the directory also when retiring the
\* record failed, so every exception is paid for with a failed operation.
ReadyHasSnapshot == \A e \in Entries : status[e] = "Ready" => e \in dirs

BrokenOffersBounded ==
    Cardinality({e \in Entries : status[e] = "Ready"} \ dirs) <= faults

\* The counters in the store never run ahead of those in memory, although
\* claims save pairs they read earlier, in any order, across restarts.  The
\* one exception: a restart that could not read the stored counters counts
\* from zero (unwrap_or_default), and until the next claim saves a pair the
\* store keeps the old, larger one.
SavedNeverAhead ==
    ~unread => saved.hits <= hits /\ saved.misses <= misses

Largest(S) == CHOOSE n \in S : \A m \in S : m <= n

\* Creating overshoots the target, since every task creates what was missing
\* when it started, but by no more than the tasks that can run at the same
\* time account for.
OvershootBounded ==
    \A t \in Templates :
        LET scaled == Largest(ScaleTargets \cup {0})
            most   == Largest({BaseTarget[t], scaled})
        IN  Cardinality(Ready(t)) <= most * (Cardinality(Workers) + 1)
                                       + scaled * Cardinality(Callers)

\* A snapshot directory without a record, or a boot microVM, belongs to a
\* snapshot in the making, or was left behind by a failure or by a task a
\* crash killed; the leak never exceeds those.
LeaksBounded ==
    LET made    == {task[p].ent : p \in {q \in Creators : At(q, "boot")}}
        orphans == {e \in dirs : status[e] = "absent"} \ made
        allowed == faults + crashes * Cardinality(Creators)
    IN  /\ Cardinality(orphans) <= allowed
        /\ Cardinality(bootVms \ made) <= allowed

Ledger == INSTANCE PoolLedger WITH
              offered <- {e \in Entries : status[e] = "Ready"},
              retired <- {e \in Entries : status[e] = "Claimed"}

\* The store implements the ledger: entries are published once and taken out
\* of the offer for good, one at a time, whoever claims, scales, fails or
\* restarts.
ImplementsLedger == Ledger!Spec

\* A task that makes snapshots has an id left to make the next one under.
\* The code draws a random id for each and never runs out of them.
IdsSuffice ==
    \A p \in Creators : At(p, "create") =>
        \E e \in Entries : /\ TemplateOf[e] = task[p].tpl
                           /\ status[e] = "absent" /\ e \notin dirs

\* Once calls, failures and crashes stop, the loop brings every template the
\* pool knows to its target and keeps it there: after a claim that failed and
\* spawned no replenish task, after an error at which replenish_all gave up on
\* the templates left, after a scale that shrank the pool from a list gone
\* stale, and after a restart that forgot the templates and capacities.
RefilledEventually ==
    []IdsSuffice =>
        <>[](\A t \in known : Cardinality(Ready(t)) >= TargetCapacity(t))
=============================================================================
