--------------------------- MODULE WarmPoolProofs ---------------------------
(***************************************************************************)
(* Proofs about WarmPool, for every set of entries, templates and tasks    *)
(* and every bound.  First what each operation does to the local variables *)
(* of its task, then the types, then the invariants, then the bounds.      *)
(***************************************************************************)
EXTENDS WarmPool, FiniteSetTheorems, WellFoundedInduction, TLAPS

-----------------------------------------------------------------------------
(* Operators *)

(* The available entries are entries, and can be counted. *)
LEMMA ReadyCount ==
    ASSUME NEW t
    PROVE  /\ Ready(t) \subseteq Entries
           /\ Cardinality(Ready(t)) \in Nat
<1>1. Ready(t) \subseteq Entries
  BY DEF Ready
<1>2. IsFiniteSet(Ready(t))
  BY <1>1, EntriesAssumption, FS_Subset
<1>3. QED
  BY <1>1, <1>2, FS_CardinalityType

LEMMA TargetType ==
    ASSUME TypeOK, NEW t \in Templates
    PROVE  TargetCapacity(t) \in Nat
BY TargetsAssumption DEF TypeOK, TargetCapacity

(* A task that returned has nothing left to do. *)
LEMMA ReturnedTask ==
    /\ Returned \in Task
    /\ Returned.pc = "idle" /\ Returned.victims = {} /\ Returned.note = Zero
BY TemplatesAssumption DEF Returned, Task, Labels, Zero

-----------------------------------------------------------------------------
(* What the operations do to the task that runs them *)

(* Task p goes on with the local variables r. *)
Becomes(p, r) == r \in Task /\ task' = [task EXCEPT ![p] = r]

LEMMA BecomesTypes ==
    ASSUME TypeOK, NEW p \in Creators, NEW r, Becomes(p, r)
    PROVE  /\ task' \in [Creators -> Task]
           /\ task'[p] = r
           /\ \A q \in Creators : q # p => task'[q] = task[q]
BY DEF TypeOK, Becomes

LEMMA TaskTypes ==
    ASSUME TypeOK, NEW p \in Creators
    PROVE  /\ task[p] \in Task
           /\ task[p].pc \in Labels
           /\ task[p].tpl \in Templates
           /\ task[p].ent \in Entries \cup {NoEntry}
           /\ task[p].need \in Nat
           /\ task[p].victims \subseteq Entries
           /\ task[p].note \in [hits : Nat, misses : Nat]
BY DEF TypeOK, Task

LEMMA GoToTask ==
    ASSUME TypeOK, NEW p \in Creators, NEW label \in Labels, GoTo(p, label)
    PROVE  \E r : /\ Becomes(p, r)
                  /\ r.pc = label /\ r.ent = task[p].ent
                  /\ r.victims = task[p].victims /\ r.note = task[p].note
<1> DEFINE r == [task[p] EXCEPT !.pc = label]
<1>1. task' = [task EXCEPT ![p] = r]
  BY DEF GoTo
<1>2. /\ r \in Task
      /\ r.pc = label /\ r.ent = task[p].ent
      /\ r.victims = task[p].victims /\ r.note = task[p].note
  BY TaskTypes DEF Task
<1> QED
  BY <1>1, <1>2 DEF Becomes

LEMMA ReturnTask ==
    ASSUME NEW p \in Creators, Return(p)
    PROVE  Becomes(p, Returned)
BY ReturnedTask DEF Return, Becomes

(* The local variables r of a task that sets out to create what is missing. *)
Sets(r, t, target) ==
    r.tpl = t /\ r.need > 0 /\ r.need = target - Cardinality(Ready(t))

LEMMA PlanTask ==
    ASSUME NEW p \in Creators, NEW t \in Templates, NEW target \in Nat,
           Plan(p, t, target)
    PROVE  \E r : /\ Becomes(p, r)
                  /\ r.pc \in {"create", "idle"}
                  /\ r.victims = {} /\ r.note = Zero
                  /\ r.pc = "create" => Sets(r, t, target)
<1> DEFINE missing == target - Cardinality(Ready(t))
           r == [Returned EXCEPT !.pc = "create", !.tpl = t,
                                 !.need = missing]
<1>1. missing \in Int
  BY ReadyCount
<1>2. CASE missing > 0
  <2>1. task' = [task EXCEPT ![p] = r]
    BY <1>2 DEF Plan
  <2> HIDE DEF missing
  <2>2. missing \in Nat
    BY <1>1, <1>2
  <2>3. /\ r \in Task /\ r.pc = "create" /\ r.victims = {} /\ r.note = Zero
        /\ r.tpl = t /\ r.need = missing
    BY <2>2, ReturnedTask DEF Task, Labels
  <2>4. missing > 0 /\ missing = target - Cardinality(Ready(t))
    BY <1>2 DEF missing
  <2> QED
    BY <2>1, <2>3, <2>4 DEF Becomes, Sets
<1>3. CASE ~(missing > 0)
  <2>1. task' = [task EXCEPT ![p] = Returned]
    BY <1>3 DEF Plan
  <2> QED
    BY <2>1, ReturnedTask DEF Becomes
<1> QED
  BY <1>2, <1>3

LEMMA ClaimTask ==
    ASSUME NEW c \in Callers, NEW t \in Templates, Claim(c, t)
    PROVE  \E r : /\ Becomes(c, r)
                  /\ r.victims = {} /\ r.note = Zero
                  /\ \/ /\ r.pc = "mark"
                        /\ r.ent \in Entries /\ status[r.ent] = "Ready"
                     \/ r.pc = "miss"
<1>1. CASE \E e \in Ready(t) : task' = [task EXCEPT ![c] =
               [Returned EXCEPT !.pc = "mark", !.tpl = t, !.ent = e]]
  <2>1. PICK e \in Ready(t) : task' = [task EXCEPT ![c] =
               [Returned EXCEPT !.pc = "mark", !.tpl = t, !.ent = e]]
    BY <1>1
  <2> DEFINE r == [Returned EXCEPT !.pc = "mark", !.tpl = t, !.ent = e]
  <2>2. e \in Entries /\ status[e] = "Ready"
    BY DEF Ready
  <2>3. /\ r \in Task /\ r.pc = "mark" /\ r.ent = e
        /\ r.victims = {} /\ r.note = Zero
    BY <2>2, ReturnedTask DEF Task, Labels
  <2> QED
    BY <2>1, <2>2, <2>3 DEF Becomes
<1>2. CASE task' = [task EXCEPT ![c] =
               [Returned EXCEPT !.pc = "miss", !.tpl = t]]
  <2> DEFINE r == [Returned EXCEPT !.pc = "miss", !.tpl = t]
  <2>1. r \in Task /\ r.pc = "miss" /\ r.victims = {} /\ r.note = Zero
    BY ReturnedTask DEF Task, Labels
  <2> QED
    BY <1>2, <2>1 DEF Becomes
<1> QED
  BY <1>1, <1>2 DEF Claim

LEMMA CountTask ==
    ASSUME TypeOK, NEW c \in Creators, Count(c)
    PROVE  /\ hits' \in Nat /\ misses' \in Nat
           /\ hits <= hits' /\ misses <= misses'
           /\ \E r : /\ Becomes(c, r)
                     /\ r.pc = "save" /\ r.victims = task[c].victims
                     /\ r.note = [hits |-> hits', misses |-> misses']
<1>1. /\ hits' \in Nat /\ misses' \in Nat
      /\ hits <= hits' /\ misses <= misses'
  BY DEF Count, TypeOK
<1> DEFINE n == [hits |-> hits', misses |-> misses']
           r == [task[c] EXCEPT !.pc = "save", !.note = n]
<1>2. task' = [task EXCEPT ![c] = r]
  BY DEF Count
<1>3. n \in [hits : Nat, misses : Nat]
  BY <1>1
<1>4. r \in Task /\ r.pc = "save" /\ r.victims = task[c].victims /\ r.note = n
  <2> HIDE DEF n
  <2> QED
    BY <1>3, TaskTypes DEF Task, Labels
<1> QED
  BY <1>1, <1>2, <1>4 DEF Becomes

LEMMA BeginTask ==
    ASSUME TypeOK, NEW p \in Creators, NEW e \in Entries, BeginSnapshot(p, e)
    PROVE  \E r : /\ Becomes(p, r)
                  /\ r.pc = "boot" /\ r.ent = e
                  /\ r.tpl = task[p].tpl /\ r.need = task[p].need
                  /\ r.victims = task[p].victims /\ r.note = task[p].note
<1> DEFINE r == [task[p] EXCEPT !.pc = "boot", !.ent = e]
<1>1. task' = [task EXCEPT ![p] = r]
  BY DEF BeginSnapshot
<1>2. /\ r \in Task /\ r.pc = "boot" /\ r.ent = e
      /\ r.tpl = task[p].tpl /\ r.need = task[p].need
      /\ r.victims = task[p].victims /\ r.note = task[p].note
  BY TaskTypes DEF Task, Labels
<1> QED
  BY <1>1, <1>2 DEF Becomes

LEMMA PublishTask ==
    ASSUME TypeOK, NEW p \in Creators, PublishEntry(p)
    PROVE  \E r : /\ Becomes(p, r)
                  /\ r.pc \in {"create", "idle"}
                  /\ r.victims \in {task[p].victims, {}}
                  /\ r.note \in {task[p].note, Zero}
                  /\ r.pc = "create" => /\ r.tpl = task[p].tpl
                                        /\ r.need > 0
                                        /\ r.need = task[p].need - 1
<1>1. CASE task[p].need > 1
  <2> DEFINE n == task[p].need - 1
             r == [task[p] EXCEPT !.pc = "create", !.ent = NoEntry,
                                  !.need = n]
  <2>1. task' = [task EXCEPT ![p] = r]
    BY <1>1 DEF PublishEntry
  <2>2. n \in Nat /\ n > 0 /\ n = task[p].need - 1
    BY <1>1, TaskTypes
  <2>3. /\ r \in Task /\ r.pc = "create" /\ r.tpl = task[p].tpl /\ r.need = n
        /\ r.victims = task[p].victims /\ r.note = task[p].note
    <3> HIDE DEF n
    <3> QED
      BY <2>2, TaskTypes DEF Task, Labels
  <2> QED
    BY <2>1, <2>2, <2>3 DEF Becomes
<1>2. CASE ~(task[p].need > 1)
  <2>1. task' = [task EXCEPT ![p] = Returned]
    BY <1>2 DEF PublishEntry
  <2> QED
    BY <2>1, ReturnedTask DEF Becomes
<1> QED
  BY <1>1, <1>2

LEMMA ScaleTask ==
    ASSUME NEW c \in Callers, NEW t \in Templates,
           NEW target \in ScaleTargets, Scale(c, t, target)
    PROVE  \E r : /\ Becomes(c, r)
                  /\ r.pc \in {"create", "idle", "retire"}
                  /\ r.victims \subseteq Ready(t) /\ r.note = Zero
                  /\ r.pc = "create" => Sets(r, t, target)
<1>1. target \in Nat /\ c \in Creators
  BY TargetsAssumption DEF Creators
<1>2. CASE Plan(c, t, target)
  BY <1>1, <1>2, PlanTask
<1>3. CASE task' = [task EXCEPT ![c] = [Returned EXCEPT
              !.pc = "retire", !.tpl = t, !.victims =
                FirstOf(Ready(t), Cardinality(Ready(t)) - target)]]
  <2> DEFINE v == FirstOf(Ready(t), Cardinality(Ready(t)) - target)
             r == [Returned EXCEPT !.pc = "retire", !.tpl = t, !.victims = v]
  <2>1. v \subseteq Ready(t) /\ v \subseteq Entries
    BY ReadyCount DEF FirstOf
  <2>2. r \in Task /\ r.pc = "retire" /\ r.victims = v /\ r.note = Zero
    <3> HIDE DEF v
    <3> QED
      BY <2>1, ReturnedTask DEF Task, Labels
  <2> QED
    BY <1>3, <2>1, <2>2 DEF Becomes
<1> QED
  BY <1>2, <1>3 DEF Scale

LEMMA RetireTask ==
    ASSUME TypeOK, NEW c \in Creators, RetireEntry(c)
    PROVE  \E e \in task[c].victims :
             /\ e \in Entries
             /\ \/ status' = [status EXCEPT ![e] = "Claimed"]
                \/ UNCHANGED status
             /\ \E r : /\ Becomes(c, r)
                       /\ r.pc = "remove" /\ r.ent = e
                       /\ r.victims \subseteq task[c].victims
                       /\ r.note = task[c].note
<1>1. PICK e \in task[c].victims :
         /\ \/ status' = [status EXCEPT ![e] = "Claimed"]
            \/ UNCHANGED status
         /\ task' = [task EXCEPT ![c] = [@ EXCEPT
                        !.pc = "remove", !.ent = e,
                        !.victims = task[c].victims \ {e}]]
  BY DEF RetireEntry
<1> DEFINE v == task[c].victims \ {e}
           r == [task[c] EXCEPT !.pc = "remove", !.ent = e, !.victims = v]
<1>2. task' = [task EXCEPT ![c] = r]
  BY <1>1
<1>3. e \in Entries /\ v \subseteq Entries /\ v \subseteq task[c].victims
  BY TaskTypes
<1>4. /\ r \in Task /\ r.pc = "remove" /\ r.ent = e
      /\ r.victims = v /\ r.note = task[c].note
  <2> HIDE DEF v
  <2> QED
    BY <1>3, TaskTypes DEF Task, Labels
<1> QED
  BY <1>1, <1>2, <1>3, <1>4 DEF Becomes

-----------------------------------------------------------------------------
(* Type correctness *)

(* A call whose listing of the entries fails. *)
Unlisted ==
    \/ \E c \in Callers, t \in Templates :
          \/ ClaimFails(c, t)
          \/ \E target \in ScaleTargets : ScaleFails(c, t, target)
    \/ \E w \in Workers, t \in Templates : StartReplenishFails(w, t)
    \/ LoopNextFails

(* It reaches no entry, no task and no counter of the pool. *)
LEMMA UnlistedStep ==
    ASSUME TypeOK, Unlisted
    PROVE  /\ TypeOK'
           /\ UNCHANGED <<status, dirs, bootVms, handed, task, crashes>>
           /\ UNCHANGED <<hits, misses, saved, unread>>
           /\ caps' = caps \/ \E t \in Templates, target \in ScaleTargets :
                                caps' = [caps EXCEPT ![t] = target]
           /\ faults' = faults + 1
<1>1. ASSUME NEW c \in Callers, NEW t \in Templates, ClaimFails(c, t)
      PROVE  /\ known' = known \cup {t} /\ calls' = calls + 1
             /\ faults' = faults + 1
             /\ UNCHANGED <<status, dirs, bootVms, handed, counters, caps, spawned,
                            todo, task, crashes>>
  BY <1>1 DEF ClaimFails, Fail
<1>2. ASSUME NEW c \in Callers, NEW t \in Templates,
             NEW target \in ScaleTargets, ScaleFails(c, t, target)
      PROVE  /\ known' = known \cup {t} /\ calls' = calls + 1
             /\ faults' = faults + 1
             /\ caps' = [caps EXCEPT ![t] = target]
             /\ UNCHANGED <<status, dirs, bootVms, handed, counters, spawned,
                            todo, task, crashes>>
  BY <1>2 DEF ScaleFails, Fail
<1>3. ASSUME NEW w \in Workers, NEW t \in Templates, StartReplenishFails(w, t)
      PROVE  /\ spawned' = [spawned EXCEPT ![t] = @ - 1] /\ spawned[t] > 0
             /\ faults' = faults + 1
             /\ UNCHANGED <<status, dirs, bootVms, handed, counters, known, caps,
                            todo, task, calls, crashes>>
  BY <1>3 DEF StartReplenishFails, Fail
<1>4. CASE LoopNextFails
  BY <1>4 DEF LoopNextFails, Fail, TypeOK, counters
<1>5. ASSUME NEW c \in Callers, NEW t \in Templates, ClaimFails(c, t)
      PROVE  TypeOK'
  BY <1>1, <1>5 DEF TypeOK, counters
<1>6. ASSUME NEW c \in Callers, NEW t \in Templates,
             NEW target \in ScaleTargets, ScaleFails(c, t, target)
      PROVE  TypeOK'
  <2>1. caps' \in [Templates -> Nat \cup {NoTarget}]
    BY <1>2, <1>6, TargetsAssumption DEF TypeOK
  <2> QED
    BY <1>2, <1>6, <2>1 DEF TypeOK, counters
<1>7. ASSUME NEW w \in Workers, NEW t \in Templates, StartReplenishFails(w, t)
      PROVE  TypeOK'
  <2>1. spawned' \in [Templates -> Nat]
    BY <1>3, <1>7 DEF TypeOK
  <2> QED
    BY <1>3, <1>7, <2>1 DEF TypeOK, counters
<1> QED
  BY <1>1, <1>2, <1>3, <1>4, <1>5, <1>6, <1>7 DEF Unlisted, counters

LEMMA ClaimTypes ==
    ASSUME TypeOK, NEW c \in Callers, ClaimStep(c)
    PROVE  TypeOK'
<1>0. c \in Creators
  BY DEF Creators
<1>1. ASSUME NEW t \in Templates, Claim(c, t)
      PROVE  TypeOK'
  <2>1. task' \in [Creators -> Task]
    BY <1>0, <1>1, ClaimTask, BecomesTypes
  <2>2. /\ calls' = calls + 1 /\ known' = known \cup {t}
        /\ UNCHANGED <<status, dirs, bootVms, handed, counters, caps, spawned,
                       todo, faults, crashes>>
    BY <1>1 DEF Claim
  <2> QED
    BY <2>1, <2>2 DEF TypeOK, counters
<1>2. CASE MarkClaimed(c)
  <2>1. task' \in [Creators -> Task]
    BY <1>0, <1>2, GoToTask, BecomesTypes DEF MarkClaimed, Labels
  <2>2. status' \in [Entries -> {"absent", "Ready", "Claimed"}]
    BY <1>2 DEF MarkClaimed, TypeOK
  <2> QED
    BY <1>2, <2>1, <2>2 DEF MarkClaimed, TypeOK, counters, memory
<1>3. CASE MarkClaimedFails(c)
  <2>1. task' \in [Creators -> Task]
    BY <1>0, <1>3, ReturnTask, BecomesTypes DEF MarkClaimedFails
  <2>2. status' \in [Entries -> {"absent", "Ready", "Claimed"}]
    BY <1>3 DEF MarkClaimedFails, TypeOK
  <2> QED
    BY <1>3, <2>1, <2>2 DEF MarkClaimedFails, TypeOK, counters, memory, Fail
<1>4. CASE RestoreSession(c)
  <2>1. task' \in [Creators -> Task]
    BY <1>0, <1>4, GoToTask, BecomesTypes DEF RestoreSession, Labels
  <2>2. handed' \in [Entries -> [Callers -> Nat]]
    BY <1>4 DEF RestoreSession, TypeOK
  <2> QED
    BY <1>4, <2>1, <2>2 DEF RestoreSession, TypeOK, counters, memory
<1>5. CASE RestoreSessionFails(c)
  <2>1. task' \in [Creators -> Task]
    BY <1>0, <1>5, ReturnTask, BecomesTypes DEF RestoreSessionFails
  <2> QED
    BY <1>5, <2>1 DEF RestoreSessionFails, TypeOK, counters, memory, Fail
<1>6. CASE Count(c)
  <2>1. /\ task' \in [Creators -> Task]
        /\ hits' \in Nat /\ misses' \in Nat
    BY <1>0, <1>6, CountTask, BecomesTypes
  <2> QED
    BY <1>6, <2>1 DEF Count, TypeOK, memory
<1>7. CASE SaveMetrics(c)
  <2>1. task' \in [Creators -> Task]
    BY <1>0, <1>7, ReturnTask, BecomesTypes DEF SaveMetrics
  <2>2. saved' \in [hits : Nat, misses : Nat] /\ unread' \in BOOLEAN
    BY <1>0, <1>7, TaskTypes DEF SaveMetrics, TypeOK
  <2>3. spawned' \in [Templates -> Nat]
    BY <1>0, <1>7, TaskTypes DEF SaveMetrics, TypeOK
  <2>4. faults' \in Nat
    BY <1>7 DEF SaveMetrics, TypeOK, Fail
  <2> QED
    BY <1>7, <2>1, <2>2, <2>3, <2>4 DEF SaveMetrics, TypeOK
<1> QED
  BY <1>1, <1>2, <1>3, <1>4, <1>5, <1>6, <1>7, UnlistedStep DEF ClaimStep, Unlisted

LEMMA ScaleTypes ==
    ASSUME TypeOK, NEW c \in Callers, ScaleStep(c)
    PROVE  TypeOK'
<1>0. c \in Creators
  BY DEF Creators
<1>1. ASSUME NEW t \in Templates, NEW target \in ScaleTargets,
             Scale(c, t, target)
      PROVE  TypeOK'
  <2>1. task' \in [Creators -> Task]
    BY <1>0, <1>1, ScaleTask, BecomesTypes
  <2>2. caps' \in [Templates -> Nat \cup {NoTarget}]
    BY <1>1, TargetsAssumption DEF Scale, TypeOK
  <2> QED
    BY <1>1, <2>1, <2>2 DEF Scale, TypeOK, counters
<1>2. CASE RetireEntry(c)
  <2>1. PICK e \in task[c].victims :
          /\ e \in Entries
          /\ \/ status' = [status EXCEPT ![e] = "Claimed"]
             \/ UNCHANGED status
          /\ \E r : Becomes(c, r)
    BY <1>0, <1>2, RetireTask
  <2>2. task' \in [Creators -> Task]
    BY <1>0, <2>1, BecomesTypes
  <2>3. status' \in [Entries -> {"absent", "Ready", "Claimed"}]
    BY <2>1 DEF TypeOK
  <2> QED
    BY <1>2, <2>2, <2>3 DEF RetireEntry, TypeOK, counters, memory, Fail
<1>3. CASE RemoveSnapshot(c)
  <2>1. task' \in [Creators -> Task]
    <3>1. CASE Return(c)
      BY <1>0, <3>1, ReturnTask, BecomesTypes
    <3>2. CASE GoTo(c, "retire")
      BY <1>0, <3>2, GoToTask, BecomesTypes DEF Labels
    <3> QED
      BY <1>3, <3>1, <3>2 DEF RemoveSnapshot
  <2> QED
    BY <1>3, <2>1 DEF RemoveSnapshot, TypeOK, counters, memory, Fail
<1> QED
  BY <1>1, <1>2, <1>3, UnlistedStep DEF ScaleStep, Unlisted

LEMMA CreateTypes ==
    ASSUME TypeOK, NEW p \in Creators, CreateStep(p)
    PROVE  TypeOK'
<1>1. ASSUME NEW e \in Entries, BeginSnapshot(p, e)
      PROVE  TypeOK'
  <2>1. task' \in [Creators -> Task]
    BY <1>1, BeginTask, BecomesTypes
  <2> QED
    BY <1>1, <2>1 DEF BeginSnapshot, TypeOK, counters, memory
<1>2. CASE PublishEntry(p)
  <2>1. task' \in [Creators -> Task]
    BY <1>2, PublishTask, BecomesTypes
  <2>2. status' \in [Entries -> {"absent", "Ready", "Claimed"}]
    BY <1>2 DEF PublishEntry, TypeOK
  <2> QED
    BY <1>2, <2>1, <2>2 DEF PublishEntry, TypeOK, counters, memory
<1>3. CASE SnapshotFails(p)
  <2>1. task' \in [Creators -> Task]
    BY <1>3, ReturnTask, BecomesTypes DEF SnapshotFails
  <2>2. status' \in [Entries -> {"absent", "Ready", "Claimed"}]
    BY <1>3 DEF SnapshotFails, TypeOK
  <2>3. bootVms' \subseteq Entries /\ todo' \subseteq Templates
    BY <1>3 DEF SnapshotFails, TypeOK
  <2> QED
    BY <1>3, <2>1, <2>2, <2>3 DEF SnapshotFails, TypeOK, counters, Fail
<1> QED
  BY <1>1, <1>2, <1>3 DEF CreateStep

LEMMA PoolTypes ==
    ASSUME TypeOK,
           \/ \E w \in Workers : WorkerStep(w)
           \/ LoopStep
           \/ Crash
           \/ UNCHANGED vars
    PROVE  TypeOK'
<1>1. ASSUME NEW w \in Workers, NEW t \in Templates, StartReplenish(w, t)
      PROVE  TypeOK'
  <2>1. w \in Creators
    BY DEF Creators
  <2>2. task' \in [Creators -> Task]
    BY <1>1, <2>1, PlanTask, TargetType, BecomesTypes DEF StartReplenish
  <2>3. spawned' \in [Templates -> Nat]
    BY <1>1 DEF StartReplenish, TypeOK
  <2> QED
    BY <1>1, <2>2, <2>3 DEF StartReplenish, TypeOK, counters
<1>2. CASE LoopTick
  BY <1>2 DEF LoopTick, TypeOK, counters
<1>3. ASSUME NEW t \in Templates, LoopNext(t)
      PROVE  TypeOK'
  <2>1. Loop \in Creators
    BY DEF Creators
  <2>2. task' \in [Creators -> Task]
    BY <1>3, <2>1, PlanTask, TargetType, BecomesTypes DEF LoopNext
  <2> QED
    BY <1>3, <2>2 DEF LoopNext, TypeOK, counters
<1>4. CASE Crash
  <2>1. task' \in [Creators -> Task]
    BY <1>4, ReturnedTask DEF Crash
  <2>2. known' \subseteq Templates
    BY <1>4, TemplatesAssumption DEF Crash
  <2>3. hits' \in Nat /\ misses' \in Nat /\ faults' \in Nat
    BY <1>4 DEF Crash, TypeOK, Fail
  <2>4. unread' \in BOOLEAN
    BY <1>4, Zenon DEF Crash
  <2> QED
    BY <1>4, <2>1, <2>2, <2>3, <2>4 DEF Crash, TypeOK
<1>5. CASE UNCHANGED vars
  BY <1>5 DEF vars, counters, memory, TypeOK
<1> QED
  BY <1>1, <1>2, <1>3, <1>4, <1>5, UnlistedStep DEF WorkerStep, LoopStep, Unlisted

LEMMA InitTypes == Init => TypeOK
<1> SUFFICES ASSUME Init PROVE TypeOK
  OBVIOUS
<1>1. Zero \in [hits : Nat, misses : Nat]
  BY DEF Zero
<1>2. task \in [Creators -> Task]
  BY ReturnedTask DEF Init
<1> QED
  BY <1>1, <1>2, TemplatesAssumption, TargetsAssumption DEF Init, TypeOK

(* The variables keep to their ranges. *)
THEOREM TypeCorrect == Spec => []TypeOK
<1>1. TypeOK /\ [Next]_vars => TypeOK'
  BY ClaimTypes, ScaleTypes, CreateTypes, PoolTypes DEF Next
<1> QED
  BY <1>1, InitTypes, PTL DEF Spec

-----------------------------------------------------------------------------
(* The inductive invariant *)

(* Every restored entry is claimed, and was restored once per caller. *)
HandedOut ==
    \A e \in Entries, c \in Callers :
        \/ handed[e][c] = 0
        \/ handed[e][c] = 1 /\ status[e] = "Claimed"

(* What the entry of a task is while the task works on it: a claim holds an
   entry it has not restored yet, claimed once it restores; a snapshot in the
   making has no record; a shrinking pool works on recorded entries. *)
Holds(p) ==
    /\ At(p, "mark") \/ At(p, "restore") =>
          /\ task[p].ent \in Entries /\ status[task[p].ent] # "absent"
          /\ p \in Callers => handed[task[p].ent][p] = 0
    /\ At(p, "restore") => status[task[p].ent] = "Claimed"
    /\ At(p, "boot") =>
          task[p].ent \in dirs /\ status[task[p].ent] = "absent"
    /\ At(p, "remove") =>
          task[p].ent \in Entries /\ status[task[p].ent] # "absent"
    /\ \A e \in task[p].victims : status[e] # "absent"

(* No two tasks make the same snapshot. *)
OwnSnapshots ==
    \A p, q \in Creators :
        p # q /\ At(p, "boot") /\ At(q, "boot") => task[p].ent # task[q].ent

Inv == TypeOK /\ HandedOut /\ (\A p \in Creators : Holds(p)) /\ OwnSnapshots

(* A step of task p that leaves alone what the other tasks rely on. *)
Keeps(p) ==
    /\ \A q \in Creators : q # p => task'[q] = task[q]
    /\ \A e \in Entries :
          /\ status[e] # "absent" => status'[e] # "absent"
          /\ status[e] = "Claimed" => status'[e] = "Claimed"
    /\ \A e \in Entries, c \in Callers : c # p => handed'[e][c] = handed[e][c]
    /\ \A q \in Creators : q # p /\ At(q, "boot") =>
          /\ task[q].ent \in dirs' /\ status'[task[q].ent] = "absent"
          /\ At(p, "boot")' => task'[p].ent # task[q].ent

LEMMA OthersHold ==
    ASSUME Inv, NEW p \in Creators, Keeps(p),
           NEW q \in Creators, q # p
    PROVE  Holds(q)'
<1>1. task'[q] = task[q] /\ Holds(q)
  BY DEF Keeps, Inv
<1>2. task[q].victims \subseteq Entries
  BY TaskTypes DEF Inv
<1>3. At(q, "boot") =>
        task[q].ent \in dirs' /\ status'[task[q].ent] = "absent"
  BY DEF Keeps
<1>4. \A e \in Entries :
        /\ status[e] # "absent" => status'[e] # "absent"
        /\ status[e] = "Claimed" => status'[e] = "Claimed"
  BY DEF Keeps
<1>5. \A e \in Entries : q \in Callers => handed'[e][q] = handed[e][q]
  BY DEF Keeps
<1> QED
  BY <1>1, <1>2, <1>3, <1>4, <1>5 DEF Holds, At

LEMMA KeptInv ==
    ASSUME Inv, TypeOK', NEW p \in Creators,
           Keeps(p), HandedOut', Holds(p)'
    PROVE  Inv'
<1>1. \A q \in Creators : Holds(q)'
  BY OthersHold
<1>2. OwnSnapshots'
  BY DEF OwnSnapshots, Keeps, At, Inv
<1> QED
  BY <1>1, <1>2 DEF Inv

(* A step that changes neither the records, nor the sessions, nor takes a
   directory away keeps what the other tasks rely on. *)
LEMMA QuietStep ==
    ASSUME Inv, NEW p \in Creators, NEW r, Becomes(p, r), r.pc # "boot",
           UNCHANGED <<status, handed>>, dirs \subseteq dirs'
    PROVE  Keeps(p) /\ HandedOut'
<1>1. TypeOK /\ HandedOut /\ \A q \in Creators : Holds(q)
  BY DEF Inv
<1>2. task'[p] = r /\ \A q \in Creators : q # p => task'[q] = task[q]
  BY <1>1, BecomesTypes
<1> QED
  BY <1>1, <1>2 DEF Keeps, HandedOut, Holds, At

(* A task without an entry and without victims has nothing to hold. *)
LEMMA NothingHeld ==
    ASSUME Inv, NEW p \in Creators, NEW r, Becomes(p, r),
           r.pc \notin {"mark", "restore", "boot", "remove"},
           \A e \in r.victims : status'[e] # "absent"
    PROVE  Holds(p)'
<1>1. task'[p] = r
  BY BecomesTypes DEF Inv
<1> QED
  BY <1>1 DEF Holds, At

(* A call that fails to list the entries disturbs nothing. *)
LEMMA UnlistedInv ==
    ASSUME Inv, Unlisted
    PROVE  Inv'
<1>1. /\ TypeOK' /\ UNCHANGED <<status, dirs, handed, task>>
  BY UnlistedStep DEF Inv
<1> QED
  BY <1>1 DEF Inv, HandedOut, Holds, OwnSnapshots, At

-----------------------------------------------------------------------------
(* Every step preserves the inductive invariant *)

LEMMA ClaimInv ==
    ASSUME Inv, NEW c \in Callers, ClaimStep(c)
    PROVE  Inv'
<1>0. /\ c \in Creators /\ TypeOK /\ HandedOut /\ Holds(c) /\ TypeOK'
  BY ClaimTypes DEF Creators, Inv
<1>1. ASSUME NEW t \in Templates, Claim(c, t)
      PROVE  Inv'
  <2>1. PICK r : /\ Becomes(c, r) /\ r.victims = {}
                 /\ \/ /\ r.pc = "mark"
                       /\ r.ent \in Entries /\ status[r.ent] = "Ready"
                    \/ r.pc = "miss"
    BY <1>0, <1>1, ClaimTask
  <2>2. task'[c] = r
    BY <1>0, <2>1, BecomesTypes
  <2>3. UNCHANGED <<status, dirs, handed>>
    BY <1>1 DEF Claim
  <2>4. Keeps(c) /\ HandedOut'
    BY <1>0, <2>1, <2>3, QuietStep
  <2>5. r.pc = "mark" => handed[r.ent][c] = 0
    BY <1>0, <2>1 DEF HandedOut
  <2>6. Holds(c)'
    BY <2>1, <2>2, <2>3, <2>5 DEF Holds, At
  <2> QED
    BY <1>0, <2>4, <2>6, KeptInv
<1>2. CASE MarkClaimed(c)
  <2>1. PICK r : /\ Becomes(c, r) /\ r.pc = "restore"
                 /\ r.ent = task[c].ent /\ r.victims = task[c].victims
    BY <1>0, <1>2, GoToTask DEF MarkClaimed, Labels
  <2>2. task'[c] = r /\ \A q \in Creators : q # c => task'[q] = task[q]
    BY <1>0, <2>1, BecomesTypes
  <2>3. /\ At(c, "mark") /\ status' = [status EXCEPT ![r.ent] = "Claimed"]
        /\ UNCHANGED <<dirs, handed>>
    BY <1>2, <2>1 DEF MarkClaimed
  <2>4. /\ r.ent \in Entries /\ status[r.ent] # "absent"
        /\ handed[r.ent][c] = 0
    BY <1>0, <2>1, <2>3 DEF Holds
  <2>5. /\ status'[r.ent] = "Claimed"
        /\ \A e \in Entries : e # r.ent => status'[e] = status[e]
    BY <1>0, <2>3, <2>4 DEF TypeOK
  <2>6. \A q \in Creators : At(q, "boot") =>
           task[q].ent \in dirs /\ status[task[q].ent] = "absent"
    BY DEF Inv, Holds
  <2>7. Keeps(c)
    BY <1>0, <2>1, <2>2, <2>3, <2>4, <2>5, <2>6 DEF Keeps, At, TypeOK
  <2>8. HandedOut'
    BY <1>0, <2>3, <2>4, <2>5 DEF HandedOut
  <2>9. Holds(c)'
    <3>1. \A e \in r.victims : status'[e] # "absent"
      BY <1>0, <2>1, <2>5, TaskTypes DEF Holds
    <3> QED
      BY <2>1, <2>2, <2>3, <2>4, <2>5, <3>1 DEF Holds, At
  <2> QED
    BY <1>0, <2>7, <2>8, <2>9, KeptInv
<1>3. CASE MarkClaimedFails(c)
  <2> DEFINE e == task[c].ent
  <2>1. /\ Becomes(c, Returned) /\ At(c, "mark") /\ UNCHANGED <<dirs, handed>>
        /\ \/ status' = [status EXCEPT ![e] = "Claimed"]
           \/ status' = status
    BY <1>0, <1>3, ReturnTask DEF MarkClaimedFails
  <2>2. /\ task'[c] = Returned
        /\ \A q \in Creators : q # c => task'[q] = task[q]
    BY <1>0, <2>1, BecomesTypes
  <2>3. e \in Entries /\ status[e] # "absent"
    BY <1>0, <2>1 DEF Holds
  <2>4. \A x \in Entries :
          \/ status'[x] = status[x]
          \/ status[x] # "absent" /\ status'[x] = "Claimed"
    BY <1>0, <2>1, <2>3 DEF TypeOK
  <2>5. \A q \in Creators : At(q, "boot") =>
           task[q].ent \in dirs /\ status[task[q].ent] = "absent"
    BY DEF Inv, Holds
  <2>6. Keeps(c)
    BY <1>0, <2>1, <2>2, <2>4, <2>5, ReturnedTask DEF Keeps, At, TypeOK
  <2>7. HandedOut'
    BY <1>0, <2>1, <2>4 DEF HandedOut
  <2>8. Holds(c)'
    BY <1>0, <2>1, ReturnedTask, NothingHeld
  <2> QED
    BY <1>0, <2>6, <2>7, <2>8, KeptInv
<1>4. CASE RestoreSession(c)
  <2>1. PICK r : /\ Becomes(c, r) /\ r.pc = "hit"
                 /\ r.ent = task[c].ent /\ r.victims = task[c].victims
    BY <1>0, <1>4, GoToTask DEF RestoreSession, Labels
  <2>2. task'[c] = r /\ \A q \in Creators : q # c => task'[q] = task[q]
    BY <1>0, <2>1, BecomesTypes
  <2>3. /\ At(c, "restore") /\ UNCHANGED <<status, dirs>>
        /\ handed' = [handed EXCEPT ![r.ent][c] = @ + 1]
    BY <1>4, <2>1 DEF RestoreSession
  <2>4. /\ r.ent \in Entries /\ status[r.ent] = "Claimed"
        /\ handed[r.ent][c] = 0
    BY <1>0, <2>1, <2>3 DEF Holds
  <2>5. \A e \in Entries, q \in Callers :
           handed'[e][q] = IF e = r.ent /\ q = c THEN 1 ELSE handed[e][q]
    BY <1>0, <2>3, <2>4 DEF TypeOK
  <2>6. \A q \in Creators : At(q, "boot") =>
           task[q].ent \in dirs /\ status[task[q].ent] = "absent"
    BY DEF Inv, Holds
  <2>7. Keeps(c)
    BY <1>0, <2>1, <2>2, <2>3, <2>5, <2>6 DEF Keeps, At
  <2>8. HandedOut'
    BY <1>0, <2>3, <2>4, <2>5 DEF HandedOut
  <2>9. Holds(c)'
    BY <1>0, <2>1, <2>3, NothingHeld DEF Holds
  <2> QED
    BY <1>0, <2>7, <2>8, <2>9, KeptInv
<1>5. CASE RestoreSessionFails(c) \/ SaveMetrics(c)
  <2>1. Becomes(c, Returned) /\ UNCHANGED <<status, dirs, handed>>
    BY <1>0, <1>5, ReturnTask DEF RestoreSessionFails, SaveMetrics
  <2>2. Keeps(c) /\ HandedOut'
    BY <1>0, <2>1, ReturnedTask, QuietStep
  <2>3. Holds(c)'
    BY <1>0, <2>1, ReturnedTask, NothingHeld
  <2> QED
    BY <1>0, <2>2, <2>3, KeptInv
<1>6. CASE Count(c)
  <2>1. PICK r : /\ Becomes(c, r) /\ r.pc = "save"
                 /\ r.victims = task[c].victims
    BY <1>0, <1>6, CountTask
  <2>2. UNCHANGED <<status, dirs, handed>>
    BY <1>6 DEF Count
  <2>3. Keeps(c) /\ HandedOut'
    BY <1>0, <2>1, <2>2, QuietStep
  <2>4. Holds(c)'
    BY <1>0, <2>1, <2>2, NothingHeld DEF Holds
  <2> QED
    BY <1>0, <2>3, <2>4, KeptInv
<1> QED
  BY <1>1, <1>2, <1>3, <1>4, <1>5, <1>6, UnlistedInv DEF ClaimStep, Unlisted

LEMMA ScaleInv ==
    ASSUME Inv, NEW c \in Callers, ScaleStep(c)
    PROVE  Inv'
<1>0. /\ c \in Creators /\ TypeOK /\ HandedOut /\ Holds(c) /\ TypeOK'
  BY ScaleTypes DEF Creators, Inv
<1>1. ASSUME NEW t \in Templates, NEW target \in ScaleTargets,
             Scale(c, t, target)
      PROVE  Inv'
  <2>1. PICK r : /\ Becomes(c, r)
                 /\ r.pc \in {"create", "idle", "retire"}
                 /\ r.victims \subseteq Ready(t)
    BY <1>1, ScaleTask
  <2>2. UNCHANGED <<status, dirs, handed>>
    BY <1>1 DEF Scale
  <2>3. Keeps(c) /\ HandedOut'
    BY <1>0, <2>1, <2>2, QuietStep
  <2>4. Holds(c)'
    BY <1>0, <2>1, <2>2, NothingHeld DEF Ready
  <2> QED
    BY <1>0, <2>3, <2>4, KeptInv
<1>2. CASE RetireEntry(c)
  <2>1. PICK e \in task[c].victims :
          /\ e \in Entries
          /\ \/ status' = [status EXCEPT ![e] = "Claimed"]
             \/ status' = status
          /\ \E r : /\ Becomes(c, r) /\ r.pc = "remove" /\ r.ent = e
                    /\ r.victims \subseteq task[c].victims
    BY <1>0, <1>2, RetireTask
  <2>2. PICK r : /\ Becomes(c, r) /\ r.pc = "remove" /\ r.ent = e
                 /\ r.victims \subseteq task[c].victims
    BY <2>1
  <2>3. task'[c] = r /\ \A q \in Creators : q # c => task'[q] = task[q]
    BY <1>0, <2>2, BecomesTypes
  <2>4. UNCHANGED <<dirs, handed>>
    BY <1>2 DEF RetireEntry
  <2>5. status[e] # "absent"
    BY <1>0 DEF Holds
  <2>6. \A x \in Entries :
          \/ status'[x] = status[x]
          \/ status[x] # "absent" /\ status'[x] = "Claimed"
    BY <1>0, <2>1, <2>5 DEF TypeOK
  <2>7. \A q \in Creators : At(q, "boot") =>
           /\ task[q].ent \in dirs /\ status[task[q].ent] = "absent"
           /\ task[q].ent \in Entries
    BY <1>0 DEF Inv, Holds, TypeOK
  <2>8. Keeps(c)
    BY <2>2, <2>3, <2>4, <2>6, <2>7 DEF Keeps, At
  <2>9. HandedOut'
    BY <1>0, <2>4, <2>6 DEF HandedOut
  <2>10. Holds(c)'
    <3>1. \A x \in task[c].victims : x \in Entries /\ status[x] # "absent"
      BY <1>0, TaskTypes DEF Holds
    <3>2. \A x \in Entries : status[x] # "absent" => status'[x] # "absent"
      BY <2>6
    <3> QED
      BY <2>1, <2>2, <2>3, <2>5, <3>1, <3>2 DEF Holds, At
  <2> QED
    BY <1>0, <2>8, <2>9, <2>10, KeptInv
<1>3. CASE RemoveSnapshot(c)
  <2>1. PICK r : /\ Becomes(c, r) /\ r.pc \in {"idle", "retire"}
                 /\ r.victims \subseteq task[c].victims
    <3>1. CASE Return(c)
      BY <1>0, <3>1, ReturnTask, ReturnedTask
    <3>2. CASE GoTo(c, "retire")
      BY <1>0, <3>2, GoToTask DEF Labels
    <3> QED
      BY <1>3, <3>1, <3>2 DEF RemoveSnapshot
  <2>2. task'[c] = r /\ \A q \in Creators : q # c => task'[q] = task[q]
    BY <1>0, <2>1, BecomesTypes
  <2>3. /\ At(c, "remove") /\ dirs \ {task[c].ent} \subseteq dirs'
        /\ UNCHANGED <<status, handed>>
    BY <1>3 DEF RemoveSnapshot
  <2>4. \A q \in Creators : At(q, "boot") =>
           /\ task[q].ent \in dirs /\ status[task[q].ent] = "absent"
           /\ task[q].ent # task[c].ent
    BY <1>0, <2>3 DEF Inv, Holds
  <2>5. Keeps(c)
    BY <2>1, <2>2, <2>3, <2>4 DEF Keeps, At
  <2>6. HandedOut'
    BY <1>0, <2>3 DEF HandedOut
  <2>7. Holds(c)'
    BY <1>0, <2>1, <2>3, NothingHeld DEF Holds
  <2> QED
    BY <1>0, <2>5, <2>6, <2>7, KeptInv
<1> QED
  BY <1>1, <1>2, <1>3, UnlistedInv DEF ScaleStep, Unlisted

LEMMA CreateInv ==
    ASSUME Inv, NEW p \in Creators, CreateStep(p)
    PROVE  Inv'
<1>0. TypeOK /\ HandedOut /\ Holds(p) /\ OwnSnapshots /\ TypeOK'
  BY CreateTypes DEF Inv
<1>1. \A q \in Creators : At(q, "boot") =>
         /\ task[q].ent \in dirs /\ status[task[q].ent] = "absent"
         /\ task[q].ent \in Entries
  BY <1>0 DEF Inv, Holds, TypeOK
<1>2. ASSUME NEW e \in Entries, BeginSnapshot(p, e)
      PROVE  Inv'
  <2>1. PICK r : /\ Becomes(p, r) /\ r.pc = "boot" /\ r.ent = e
                 /\ r.victims = task[p].victims
    BY <1>0, <1>2, BeginTask
  <2>2. task'[p] = r /\ \A q \in Creators : q # p => task'[q] = task[q]
    BY <1>0, <2>1, BecomesTypes
  <2>3. /\ status[e] = "absent" /\ e \notin dirs /\ dirs' = dirs \cup {e}
        /\ UNCHANGED <<status, handed>>
    BY <1>2 DEF BeginSnapshot
  <2>4. Keeps(p)
    BY <1>1, <2>1, <2>2, <2>3 DEF Keeps, At
  <2>5. HandedOut'
    BY <1>0, <2>3 DEF HandedOut
  <2>6. Holds(p)'
    BY <1>0, <2>1, <2>2, <2>3 DEF Holds, At
  <2> QED
    BY <1>0, <2>4, <2>5, <2>6, KeptInv
<1>3. ASSUME NEW r, Becomes(p, r), r.pc \in {"create", "idle"},
             r.victims \subseteq task[p].victims,
             UNCHANGED <<dirs, handed>>,
             \/ status' = status
             \/ /\ At(p, "boot")
                /\ status' = [status EXCEPT ![task[p].ent] = "Ready"]
      PROVE  Inv'
  <2>1. task'[p] = r /\ \A q \in Creators : q # p => task'[q] = task[q]
    BY <1>0, <1>3, BecomesTypes
  <2>2. \A x \in Entries :
          \/ status'[x] = status[x]
          \/ /\ At(p, "boot") /\ x = task[p].ent
             /\ status[x] = "absent" /\ status'[x] = "Ready"
    BY <1>0, <1>1, <1>3 DEF TypeOK
  <2>3. Keeps(p)
    <3>1. \A q \in Creators : q # p /\ At(q, "boot") =>
             task[q].ent \in dirs /\ status'[task[q].ent] = "absent"
      BY <1>0, <1>1, <2>2 DEF OwnSnapshots
    <3> QED
      BY <1>3, <2>1, <2>2, <3>1 DEF Keeps, At
  <2>4. HandedOut'
    BY <1>0, <1>3, <2>2 DEF HandedOut
  <2>5. Holds(p)'
    <3>1. \A x \in task[p].victims : x \in Entries /\ status[x] # "absent"
      BY <1>0, TaskTypes DEF Holds
    <3>2. \A x \in r.victims : status'[x] # "absent"
      BY <1>3, <2>2, <3>1
    <3> QED
      BY <1>3, <3>2, NothingHeld
  <2> QED
    BY <1>0, <2>3, <2>4, <2>5, KeptInv
<1>4. CASE PublishEntry(p)
  <2>1. PICK r : /\ Becomes(p, r) /\ r.pc \in {"create", "idle"}
                 /\ r.victims \in {task[p].victims, {}}
    BY <1>0, <1>4, PublishTask
  <2>2. /\ UNCHANGED <<dirs, handed>> /\ At(p, "boot")
        /\ status' = [status EXCEPT ![task[p].ent] = "Ready"]
    BY <1>4 DEF PublishEntry
  <2> QED
    BY <1>3, <2>1, <2>2
<1>5. CASE SnapshotFails(p)
  <2>1. /\ Becomes(p, Returned) /\ UNCHANGED <<dirs, handed>>
        /\ \/ status' = status
           \/ /\ At(p, "boot")
              /\ status' = [status EXCEPT ![task[p].ent] = "Ready"]
    BY <1>5, ReturnTask DEF SnapshotFails
  <2> QED
    BY <1>3, <2>1, ReturnedTask
<1> QED
  BY <1>2, <1>4, <1>5 DEF CreateStep

LEMMA PoolInv ==
    ASSUME Inv,
           \/ \E w \in Workers : WorkerStep(w)
           \/ LoopStep
           \/ Crash
           \/ UNCHANGED vars
    PROVE  Inv'
<1>0. TypeOK /\ TypeOK'
  BY PoolTypes DEF Inv
<1>1. ASSUME NEW p \in Creators, NEW t \in Templates,
             Plan(p, t, TargetCapacity(t)), UNCHANGED <<status, dirs, handed>>
      PROVE  Inv'
  <2>1. PICK r : Becomes(p, r) /\ r.pc \in {"create", "idle"} /\ r.victims = {}
    BY <1>0, <1>1, PlanTask, TargetType
  <2>2. Keeps(p) /\ HandedOut'
    BY <1>1, <2>1, QuietStep
  <2>3. Holds(p)'
    BY <2>1, NothingHeld
  <2> QED
    BY <1>0, <2>2, <2>3, KeptInv
<1>2. ASSUME NEW w \in Workers, NEW t \in Templates, StartReplenish(w, t)
      PROVE  Inv'
  BY <1>1, <1>2 DEF StartReplenish, Creators
<1>3. CASE LoopTick \/ UNCHANGED vars
  <2>1. UNCHANGED <<status, dirs, handed, task>>
    BY <1>3 DEF LoopTick, vars
  <2> QED
    BY <1>0, <2>1 DEF Inv, HandedOut, Holds, OwnSnapshots, At
<1>4. ASSUME NEW t \in Templates, LoopNext(t)
      PROVE  Inv'
  BY <1>1, <1>4 DEF LoopNext, Creators
<1>5. CASE Crash
  <2>1. /\ \A p \in Creators : task'[p] = Returned
        /\ UNCHANGED <<status, handed>>
    BY <1>5 DEF Crash
  <2> QED
    BY <1>0, <2>1, ReturnedTask DEF Inv, HandedOut, Holds, OwnSnapshots, At
<1> QED
  BY <1>2, <1>3, <1>4, <1>5, UnlistedInv DEF WorkerStep, LoopStep, Unlisted

LEMMA InitInv == Init => Inv
<1> SUFFICES ASSUME Init PROVE Inv
  OBVIOUS
<1>1. TypeOK
  BY InitTypes
<1>2. HandedOut
  BY DEF Init, HandedOut
<1>3. \A p \in Creators : task[p] = Returned
  BY DEF Init
<1> QED
  BY <1>1, <1>2, <1>3, ReturnedTask DEF Inv, Holds, OwnSnapshots, At

(* The inductive invariant holds. *)
LEMMA Invariance == Spec => []Inv
<1>1. Inv /\ [Next]_vars => Inv'
  BY ClaimInv, ScaleInv, CreateInv, PoolInv DEF Next
<1> QED
  BY <1>1, InitInv, PTL DEF Spec

-----------------------------------------------------------------------------
(* Theorems *)

(* claim never restores an entry twice for one caller, whatever other claims,
   scale, failures and restarts do in between. *)
THEOREM OncePerCallerHolds == Spec => []OncePerCaller
<1>1. Inv => OncePerCaller
  BY DEF Inv, HandedOut, OncePerCaller
<1> QED
  BY <1>1, Invariance, PTL

(* A store operation publishes an entry that has no record, or retires one
   that has. *)
LEMMA LedgerStep ==
    ASSUME TypeOK, NEW e \in Entries,
           \/ status[e] = "absent" /\ status' = [status EXCEPT ![e] = "Ready"]
           \/ status[e] # "absent" /\ status' = [status EXCEPT ![e] = "Claimed"]
           \/ UNCHANGED status
    PROVE  [Ledger!Next]_Ledger!vars
<1> DEFINE offered == {x \in Entries : status[x] = "Ready"}
           retired == {x \in Entries : status[x] = "Claimed"}
<1>1. CASE status[e] = "absent" /\ status' = [status EXCEPT ![e] = "Ready"]
  <2>1. \A x \in Entries : status'[x] = IF x = e THEN "Ready" ELSE status[x]
    BY <1>1 DEF TypeOK
  <2>2. /\ e \notin offered \cup retired
        /\ offered' = offered \cup {e} /\ retired' = retired
    BY <1>1, <2>1
  <2>3. Ledger!Publish(e)
    BY <2>2 DEF Ledger!Publish
  <2> QED
    BY <2>3 DEF Ledger!Next
<1>2. CASE status[e] # "absent" /\ status' = [status EXCEPT ![e] = "Claimed"]
  <2>1. \A x \in Entries : status'[x] = IF x = e THEN "Claimed" ELSE status[x]
    BY <1>2 DEF TypeOK
  <2>2. CASE status[e] = "Ready"
    <3>1. /\ e \in offered /\ offered' = offered \ {e}
          /\ retired' = retired \cup {e}
      BY <2>1, <2>2
    <3>2. Ledger!Retire(e)
      BY <3>1 DEF Ledger!Retire
    <3> QED
      BY <3>2 DEF Ledger!Next
  <2>3. CASE status[e] = "Claimed"
    <3>1. offered' = offered /\ retired' = retired
      BY <2>1, <2>3
    <3> QED
      BY <3>1 DEF Ledger!vars
  <2> QED
    BY <1>2, <2>2, <2>3 DEF TypeOK
<1>3. CASE UNCHANGED status
  BY <1>3 DEF Ledger!vars
<1> QED
  BY <1>1, <1>2, <1>3

(* The store implements the ledger: every step publishes a new entry, retires
   an offered one for good, or leaves the ledger alone. *)
THEOREM LedgerImplemented == Spec => ImplementsLedger
<1>1. Init => Ledger!Init
  BY DEF Init, Ledger!Init
<1>2. Inv /\ [Next]_vars => [Ledger!Next]_Ledger!vars
  <2> SUFFICES ASSUME Inv, [Next]_vars PROVE [Ledger!Next]_Ledger!vars
    OBVIOUS
  <2>0. TypeOK /\ \A p \in Creators : Holds(p)
    BY DEF Inv
  <2>1. CASE UNCHANGED status
    BY <2>1 DEF Ledger!vars
  <2>2. ASSUME NEW c \in Callers, MarkClaimed(c) \/ MarkClaimedFails(c)
        PROVE  [Ledger!Next]_Ledger!vars
    <3>1. /\ task[c].ent \in Entries /\ status[task[c].ent] # "absent"
          /\ \/ status' = [status EXCEPT ![task[c].ent] = "Claimed"]
             \/ UNCHANGED status
      BY <2>0, <2>2 DEF Holds, MarkClaimed, MarkClaimedFails, Creators
    <3> QED
      BY <2>0, <3>1, LedgerStep
  <2>3. ASSUME NEW c \in Callers, RetireEntry(c)
        PROVE  [Ledger!Next]_Ledger!vars
    <3>0. c \in Creators
      BY DEF Creators
    <3>1. PICK e \in task[c].victims :
             /\ e \in Entries
             /\ \/ status' = [status EXCEPT ![e] = "Claimed"]
                \/ UNCHANGED status
      BY <2>0, <2>3, <3>0, RetireTask
    <3>2. status[e] # "absent"
      BY <2>0, <3>0 DEF Holds
    <3> QED
      BY <2>0, <3>1, <3>2, LedgerStep
  <2>4. ASSUME NEW p \in Creators, PublishEntry(p) \/ SnapshotFails(p)
        PROVE  [Ledger!Next]_Ledger!vars
    <3>1. \/ UNCHANGED status
          \/ /\ At(p, "boot")
             /\ status' = [status EXCEPT ![task[p].ent] = "Ready"]
      BY <2>4 DEF PublishEntry, SnapshotFails
    <3>2. CASE At(p, "boot") /\ status' = [status EXCEPT ![task[p].ent] = "Ready"]
      <4>1. task[p].ent \in Entries /\ status[task[p].ent] = "absent"
        BY <2>0, <3>2 DEF Holds, TypeOK
      <4> QED
        BY <2>0, <3>2, <4>1, LedgerStep
    <3> QED
      BY <2>1, <3>1, <3>2
  <2>5. ASSUME NEW c \in Callers, ClaimStep(c),
               ~(MarkClaimed(c) \/ MarkClaimedFails(c))
        PROVE  UNCHANGED status
    BY <2>5 DEF ClaimStep, Claim, ClaimFails, RestoreSession, RestoreSessionFails,
                Count, SaveMetrics
  <2>6. ASSUME NEW c \in Callers, ScaleStep(c), ~RetireEntry(c)
        PROVE  UNCHANGED status
    BY <2>6 DEF ScaleStep, Scale, ScaleFails, RemoveSnapshot
  <2>7. ASSUME NEW p \in Creators, NEW e \in Entries, BeginSnapshot(p, e)
        PROVE  UNCHANGED status
    BY <2>7 DEF BeginSnapshot
  <2>8. ASSUME NEW w \in Workers, WorkerStep(w)
        PROVE  UNCHANGED status
    BY <2>8 DEF WorkerStep, StartReplenish, StartReplenishFails
  <2>9. CASE LoopStep \/ Crash \/ UNCHANGED vars
    BY <2>1, <2>9 DEF LoopStep, LoopTick, LoopNext, LoopNextFails, Crash, vars
  <2> QED
    BY <2>1, <2>2, <2>3, <2>4, <2>5, <2>6, <2>7, <2>8, <2>9
    DEF Next, CreateStep
<1> QED
  BY <1>1, <1>2, Invariance, PTL DEF Spec, ImplementsLedger, Ledger!Spec

(* No task has read a pair of counters ahead of those in memory. *)
NotesBehind ==
    \A p \in Creators : /\ task[p].note.hits <= hits
                        /\ task[p].note.misses <= misses

LEMMA NotesStep ==
    ASSUME TypeOK, NotesBehind, NEW p \in Creators, NEW r, Becomes(p, r),
           hits' \in Nat /\ misses' \in Nat /\ hits <= hits' /\ misses <= misses',
           r.note \in {task[p].note, Zero, [hits |-> hits', misses |-> misses']}
    PROVE  NotesBehind'
<1>1. task'[p] = r /\ \A q \in Creators : q # p => task'[q] = task[q]
  BY BecomesTypes
<1>2. \A q \in Creators :
        /\ task[q].note.hits \in Nat /\ task[q].note.misses \in Nat
        /\ task[q].note.hits <= hits /\ task[q].note.misses <= misses
  BY TaskTypes DEF NotesBehind
<1>3. \A q \in Creators : q # p =>
        task'[q].note.hits <= hits' /\ task'[q].note.misses <= misses'
  BY <1>1, <1>2 DEF TypeOK
<1>4. r.note.hits <= hits' /\ r.note.misses <= misses'
  BY <1>2 DEF TypeOK, Zero
<1> QED
  BY <1>1, <1>3, <1>4 DEF NotesBehind

(* The counters in the store never run ahead of those in memory, but from a
   restart that could not read them until the next pair saved: claims save
   pairs they read earlier, in any order, and a restart starts from the last
   pair saved. *)
THEOREM SavedNeverAheadHolds == Spec => []SavedNeverAhead
<1> DEFINE Behind == NotesBehind /\ SavedNeverAhead
<1>1. Init => Behind
  BY ReturnedTask DEF Init, NotesBehind, SavedNeverAhead, Zero
<1>2. TypeOK /\ Behind /\ [Next]_vars => Behind'
  <2> SUFFICES ASSUME TypeOK, Behind, [Next]_vars PROVE Behind'
    OBVIOUS
  <2>0. /\ hits \in Nat /\ misses \in Nat
        /\ saved.hits \in Nat /\ saved.misses \in Nat
        /\ \A c \in Callers : c \in Creators
    BY DEF TypeOK, Creators
  <2>1. ASSUME NEW p \in Creators, NEW r, Becomes(p, r),
               r.note \in {task[p].note, Zero},
               UNCHANGED counters
        PROVE  Behind'
    <3>1. UNCHANGED <<hits, misses, saved, unread>>
      BY <2>1 DEF counters
    <3>2. hits <= hits' /\ misses <= misses'
      BY <2>0, <3>1
    <3>3. NotesBehind'
      BY <2>0, <2>1, <3>1, <3>2, NotesStep
    <3> QED
      BY <3>1, <3>3 DEF SavedNeverAhead
  <2>u. ASSUME Unlisted PROVE Behind'
    BY <2>u, UnlistedStep DEF NotesBehind, SavedNeverAhead
  <2>2. ASSUME NEW c \in Callers, ClaimStep(c)
        PROVE  Behind'
    <3>1. ASSUME NEW t \in Templates, Claim(c, t) PROVE Behind'
      BY <2>0, <2>1, <3>1, ClaimTask DEF Claim
    <3>2. CASE MarkClaimed(c)
      BY <2>0, <2>1, <3>2, GoToTask DEF MarkClaimed, Labels
    <3>3. CASE RestoreSession(c)
      BY <2>0, <2>1, <3>3, GoToTask DEF RestoreSession, Labels
    <3>4. CASE MarkClaimedFails(c) \/ RestoreSessionFails(c)
      BY <2>0, <2>1, <3>4, ReturnTask, ReturnedTask
      DEF MarkClaimedFails, RestoreSessionFails
    <3>5. CASE Count(c)
      <4>1. /\ hits' \in Nat /\ misses' \in Nat
            /\ hits <= hits' /\ misses <= misses'
            /\ UNCHANGED <<saved, unread>>
            /\ \E r : /\ Becomes(c, r)
                      /\ r.note = [hits |-> hits', misses |-> misses']
        BY <2>0, <3>5, CountTask DEF Count
      <4>2. NotesBehind'
        BY <2>0, <4>1, NotesStep
      <4> QED
        BY <2>0, <4>1, <4>2 DEF SavedNeverAhead
    <3>6. CASE SaveMetrics(c)
      <4>1. /\ Becomes(c, Returned) /\ UNCHANGED <<hits, misses>>
            /\ saved' = task[c].note \/ UNCHANGED <<saved, unread>>
        BY <2>0, <3>6, ReturnTask DEF SaveMetrics
      <4>2. NotesBehind'
        BY <2>0, <4>1, ReturnedTask, NotesStep
      <4> QED
        BY <2>0, <4>1, <4>2 DEF SavedNeverAhead, NotesBehind
    <3> QED
      BY <2>2, <2>u, <3>1, <3>2, <3>3, <3>4, <3>5, <3>6 DEF ClaimStep, Unlisted
  <2>3. ASSUME NEW c \in Callers, ScaleStep(c)
        PROVE  Behind'
    <3>1. ASSUME NEW t \in Templates, NEW target \in ScaleTargets,
                 Scale(c, t, target)
          PROVE  Behind'
      BY <2>0, <2>1, <3>1, ScaleTask DEF Scale
    <3>2. CASE RetireEntry(c)
      BY <2>0, <2>1, <3>2, RetireTask DEF RetireEntry
    <3>3. CASE RemoveSnapshot(c)
      <4>1. \E r : Becomes(c, r) /\ r.note \in {task[c].note, Zero}
        BY <2>0, <3>3, ReturnTask, ReturnedTask, GoToTask
        DEF RemoveSnapshot, Labels
      <4> QED
        BY <2>0, <2>1, <3>3, <4>1 DEF RemoveSnapshot
    <3> QED
      BY <2>3, <2>u, <3>1, <3>2, <3>3 DEF ScaleStep, Unlisted
  <2>4. ASSUME NEW p \in Creators, CreateStep(p)
        PROVE  Behind'
    <3>1. ASSUME NEW e \in Entries, BeginSnapshot(p, e) PROVE Behind'
      BY <2>1, <3>1, BeginTask DEF BeginSnapshot
    <3>2. CASE PublishEntry(p)
      BY <2>1, <3>2, PublishTask DEF PublishEntry
    <3>3. CASE SnapshotFails(p)
      BY <2>1, <3>3, ReturnTask, ReturnedTask DEF SnapshotFails
    <3> QED
      BY <2>4, <3>1, <3>2, <3>3 DEF CreateStep
  <2>5. ASSUME NEW w \in Workers, NEW t \in Templates, StartReplenish(w, t)
        PROVE  Behind'
    BY <2>1, <2>5, PlanTask, TargetType DEF StartReplenish, Creators
  <2>6. ASSUME NEW t \in Templates, LoopNext(t)
        PROVE  Behind'
    BY <2>1, <2>6, PlanTask, TargetType DEF LoopNext, Creators
  <2>7. CASE LoopTick \/ UNCHANGED vars
    BY <2>7 DEF LoopTick, vars, counters, NotesBehind, SavedNeverAhead
  <2>8. CASE Crash
    <3>1. /\ saved' = saved
          /\ \/ hits' = saved.hits /\ misses' = saved.misses
             \/ hits' = 0 /\ misses' = 0 /\ unread'
          /\ \A p \in Creators : task'[p] = Returned
      BY <2>8 DEF Crash
    <3> QED
      BY <2>0, <3>1, ReturnedTask DEF NotesBehind, SavedNeverAhead, Zero
  <2> QED
    BY <2>2, <2>3, <2>4, <2>5, <2>6, <2>7, <2>8, <2>u
    DEF Next, WorkerStep, LoopStep, Unlisted
<1> QED
  BY <1>1, <1>2, TypeCorrect, PTL DEF Spec

(* The offered entries without a snapshot, or about to lose it. *)
Doomed ==
    {e \in Entries : /\ status[e] = "Ready"
                     /\ \/ e \notin dirs
                        \/ \E p \in Creators :
                              At(p, "remove") /\ task[p].ent = e}

(* Only a task that sets out to remove a directory dooms an entry. *)
LEMMA NoneDoomed ==
    ASSUME Inv, NEW p \in Creators, NEW r, Becomes(p, r), r.pc # "remove",
           \A e \in Entries : status'[e] = "Ready" =>
               \/ status[e] = "Ready"
               \/ status[e] = "absent" /\ e \in dirs',
           \A e \in dirs : e \notin dirs' =>
               At(p, "remove") /\ e = task[p].ent
    PROVE  Doomed' \subseteq Doomed
<1>1. task'[p] = r /\ \A q \in Creators : q # p => task'[q] = task[q]
  BY BecomesTypes DEF Inv
<1>2. \A q \in Creators : At(q, "remove") => status[task[q].ent] # "absent"
  BY DEF Inv, Holds
<1>3. \A q \in Creators : At(q, "remove")' =>
         At(q, "remove") /\ task'[q].ent = task[q].ent
  BY <1>1 DEF At
<1> QED
  BY <1>2, <1>3 DEF Doomed

LEMMA DoomedCount ==
    ASSUME faults \in Nat, faults' \in Nat, Cardinality(Doomed) <= faults,
           \/ Doomed' \subseteq Doomed /\ faults <= faults'
           \/ \E e : Doomed' \subseteq Doomed \cup {e} /\ faults' = faults + 1
    PROVE  Cardinality(Doomed') <= faults'
<1>1. IsFiniteSet(Doomed) /\ Cardinality(Doomed) \in Nat
  <2>1. Doomed \subseteq Entries
    BY DEF Doomed
  <2> QED
    BY <2>1, EntriesAssumption, FS_Subset, FS_CardinalityType
<1>2. CASE Doomed' \subseteq Doomed /\ faults <= faults'
  <2>1. Cardinality(Doomed') <= Cardinality(Doomed) /\ Cardinality(Doomed') \in Nat
    BY <1>1, <1>2, FS_Subset, FS_CardinalityType
  <2> QED
    BY <1>1, <1>2, <2>1
<1>3. CASE \E e : Doomed' \subseteq Doomed \cup {e} /\ faults' = faults + 1
  <2>1. PICK e : Doomed' \subseteq Doomed \cup {e} /\ faults' = faults + 1
    BY <1>3
  <2>2. /\ IsFiniteSet(Doomed \cup {e})
        /\ Cardinality(Doomed \cup {e}) <= Cardinality(Doomed) + 1
        /\ Cardinality(Doomed \cup {e}) \in Nat
    <3>1. /\ IsFiniteSet(Doomed \cup {e})
          /\ \/ Cardinality(Doomed \cup {e}) = Cardinality(Doomed)
             \/ Cardinality(Doomed \cup {e}) = Cardinality(Doomed) + 1
      BY <1>1, FS_AddElement, Zenon
    <3> QED
      BY <1>1, <3>1
  <2>3. /\ Cardinality(Doomed') <= Cardinality(Doomed \cup {e})
        /\ Cardinality(Doomed') \in Nat
    BY <2>1, <2>2, FS_Subset, FS_CardinalityType
  <2> QED
    BY <1>1, <2>1, <2>2, <2>3
<1> QED
  BY <1>2, <1>3

(* Failures are only ever added. *)
LEMMA FaultsGrow ==
    ASSUME TypeOK, [Next]_vars
    PROVE  faults <= faults'
<1>0. faults \in Nat
  BY DEF TypeOK
<1>1. ASSUME NEW c \in Callers, ClaimStep(c)
      PROVE  faults' \in {faults, faults + 1}
  <2>1. ASSUME NEW t \in Templates, Claim(c, t) PROVE faults' = faults
    BY <2>1 DEF Claim
  <2>2. CASE Count(c)
    BY <2>2 DEF Count
  <2> QED
    BY <1>0, <1>1, <2>1, <2>2, UnlistedStep DEF ClaimStep, Unlisted, MarkClaimed,
       MarkClaimedFails, RestoreSession, RestoreSessionFails, SaveMetrics, Fail
<1>2. ASSUME NEW c \in Callers, ScaleStep(c)
      PROVE  faults' \in {faults, faults + 1}
  <2>1. ASSUME NEW t \in Templates, NEW target \in ScaleTargets,
               Scale(c, t, target)
        PROVE  faults' = faults
    BY <2>1 DEF Scale
  <2>2. CASE RetireEntry(c)
    BY <2>2 DEF RetireEntry, Fail
  <2>3. CASE RemoveSnapshot(c)
    BY <2>3 DEF RemoveSnapshot, Fail
  <2> QED
    BY <1>2, <2>1, <2>2, <2>3, UnlistedStep DEF ScaleStep, Unlisted
<1>3. ASSUME NEW p \in Creators, CreateStep(p)
      PROVE  faults' \in {faults, faults + 1}
  <2>1. ASSUME NEW e \in Entries, BeginSnapshot(p, e) PROVE faults' = faults
    BY <2>1 DEF BeginSnapshot
  <2>2. CASE PublishEntry(p)
    BY <2>2 DEF PublishEntry
  <2>3. CASE SnapshotFails(p)
    BY <2>3 DEF SnapshotFails, Fail
  <2> QED
    BY <1>3, <2>1, <2>2, <2>3 DEF CreateStep
<1>4. ASSUME NEW w \in Workers, WorkerStep(w)
      PROVE  faults' \in {faults, faults + 1}
  BY <1>4, UnlistedStep DEF WorkerStep, StartReplenish, Unlisted
<1>5. ASSUME LoopStep
      PROVE  faults' \in {faults, faults + 1}
  <2>1. ASSUME NEW t \in Templates, LoopNext(t) PROVE faults' = faults
    BY <2>1 DEF LoopNext
  <2>2. CASE LoopTick
    BY <2>2 DEF LoopTick
  <2> QED
    BY <1>5, <2>1, <2>2, UnlistedStep DEF LoopStep, Unlisted
<1>6. ASSUME Crash PROVE faults' \in {faults, faults + 1}
  BY <1>6 DEF Crash, Fail
<1>7. ASSUME UNCHANGED vars PROVE faults' = faults
  BY <1>7 DEF vars
<1>8. faults' \in {faults, faults + 1}
  BY <1>1, <1>2, <1>3, <1>4, <1>5, <1>6, <1>7 DEF Next
<1> QED
  BY <1>0, <1>8

LEMMA DoomedStep ==
    ASSUME Inv, [Next]_vars
    PROVE  \/ Doomed' \subseteq Doomed /\ faults <= faults'
           \/ /\ StoreFaults
              /\ \E e : Doomed' \subseteq Doomed \cup {e} /\ faults' = faults + 1
<1>0. /\ TypeOK /\ faults \in Nat
      /\ \A c \in Callers : c \in Creators
      /\ \A p \in Creators : Holds(p)
  BY DEF Inv, TypeOK, Creators
<1>1. ASSUME NEW p \in Creators, NEW r, Becomes(p, r), r.pc # "remove",
             UNCHANGED <<status, dirs>>
      PROVE  Doomed' \subseteq Doomed
  BY <1>1, NoneDoomed
<1>u. ASSUME Unlisted PROVE Doomed' \subseteq Doomed
  BY <1>0, <1>u, UnlistedStep DEF Doomed, At
<1>2. ASSUME NEW c \in Callers, ClaimStep(c)
      PROVE  Doomed' \subseteq Doomed
  <2>1. ASSUME NEW t \in Templates, Claim(c, t)
        PROVE  Doomed' \subseteq Doomed
    <3>1. \E r : Becomes(c, r) /\ r.pc # "remove"
      BY <1>0, <2>1, ClaimTask
    <3>2. UNCHANGED <<status, dirs>>
      BY <2>1 DEF Claim
    <3> QED
      BY <1>0, <1>1, <3>1, <3>2
  <2>2. CASE MarkClaimed(c) \/ MarkClaimedFails(c)
    <3>1. PICK r : Becomes(c, r) /\ r.pc # "remove"
      BY <1>0, <2>2, GoToTask, ReturnTask, ReturnedTask
      DEF MarkClaimed, MarkClaimedFails, Labels
    <3>2. UNCHANGED dirs
      BY <2>2 DEF MarkClaimed, MarkClaimedFails
    <3>3. \A e \in Entries : status'[e] = "Ready" => status[e] = "Ready"
      BY <1>0, <2>2 DEF MarkClaimed, MarkClaimedFails, TypeOK
    <3> QED
      BY <1>0, <3>1, <3>2, <3>3, NoneDoomed
  <2>3. CASE RestoreSession(c)
    <3>1. \E r : Becomes(c, r) /\ r.pc # "remove"
      BY <1>0, <2>3, GoToTask DEF RestoreSession, Labels
    <3>2. UNCHANGED <<status, dirs>>
      BY <2>3 DEF RestoreSession
    <3> QED
      BY <1>0, <1>1, <3>1, <3>2
  <2>4. CASE RestoreSessionFails(c) \/ SaveMetrics(c)
    <3>1. Becomes(c, Returned) /\ UNCHANGED <<status, dirs>>
      BY <1>0, <2>4, ReturnTask DEF RestoreSessionFails, SaveMetrics
    <3> QED
      BY <1>0, <1>1, <3>1, ReturnedTask
  <2>5. CASE Count(c)
    <3>1. \E r : Becomes(c, r) /\ r.pc # "remove"
      BY <1>0, <2>5, CountTask
    <3>2. UNCHANGED <<status, dirs>>
      BY <2>5 DEF Count
    <3> QED
      BY <1>0, <1>1, <3>1, <3>2
  <2> QED
    BY <1>2, <1>u, <2>1, <2>2, <2>3, <2>4, <2>5 DEF ClaimStep, Unlisted
<1>3. ASSUME NEW c \in Callers, NEW t \in Templates,
             NEW target \in ScaleTargets, Scale(c, t, target)
      PROVE  Doomed' \subseteq Doomed
  <2>1. \E r : Becomes(c, r) /\ r.pc # "remove"
    BY <1>3, ScaleTask
  <2>2. UNCHANGED <<status, dirs>>
    BY <1>3 DEF Scale
  <2> QED
    BY <1>0, <1>1, <2>1, <2>2
<1>4. ASSUME NEW c \in Callers, RetireEntry(c)
      PROVE  \/ Doomed' \subseteq Doomed /\ faults <= faults'
             \/ /\ StoreFaults
                /\ \E e : /\ Doomed' \subseteq Doomed \cup {e}
                          /\ faults' = faults + 1
  <2>1. PICK e \in task[c].victims :
          /\ e \in Entries
          /\ \E r : Becomes(c, r) /\ r.ent = e
    BY <1>0, <1>4, RetireTask
  <2>2. UNCHANGED dirs /\ e = task'[c].ent
    BY <1>0, <1>4, <2>1, BecomesTypes DEF RetireEntry
  <2>3. \A q \in Creators : q # c => task'[q] = task[q]
    BY <1>0, <2>1, BecomesTypes
  <2>4. \/ status'[e] = "Claimed" /\ UNCHANGED faults
        \/ StoreFaults /\ faults' = faults + 1
    <3>1. PICK x \in task[c].victims :
            /\ \/ status' = [status EXCEPT ![x] = "Claimed"] /\ UNCHANGED faults
               \/ StoreFaults /\ Fail /\ UNCHANGED status
            /\ task' = [task EXCEPT ![c] = [@ EXCEPT
                           !.pc = "remove", !.ent = x,
                           !.victims = task[c].victims \ {x}]]
      BY <1>4 DEF RetireEntry
    <3>2. task'[c] = [task[c] EXCEPT !.pc = "remove", !.ent = x,
                                     !.victims = task[c].victims \ {x}]
      BY <1>0, <3>1 DEF TypeOK
    <3>3. task'[c].ent = x
      BY <1>0, <3>2, TaskTypes DEF Task
    <3> QED
      BY <1>0, <2>1, <2>2, <3>1, <3>3 DEF Fail, TypeOK
  <2>5. \A x \in Entries : status'[x] = "Ready" => status[x] = "Ready"
    BY <1>0, <1>4, RetireTask DEF TypeOK
  <2>6. Doomed' \subseteq Doomed \cup {e}
    BY <2>2, <2>3, <2>5 DEF Doomed, At
  <2>7. status'[e] = "Claimed" => e \notin Doomed'
    BY DEF Doomed
  <2> QED
    BY <1>0, <2>4, <2>6, <2>7
<1>5. ASSUME NEW c \in Callers, RemoveSnapshot(c)
      PROVE  Doomed' \subseteq Doomed
  <2>1. \E r : Becomes(c, r) /\ r.pc # "remove"
    BY <1>0, <1>5, GoToTask, ReturnTask, ReturnedTask
    DEF RemoveSnapshot, Labels
  <2>2. /\ UNCHANGED status /\ At(c, "remove")
        /\ \A e \in dirs : e \notin dirs' => e = task[c].ent
    BY <1>5 DEF RemoveSnapshot
  <2> QED
    BY <1>0, <2>1, <2>2, NoneDoomed
<1>6. ASSUME NEW p \in Creators, CreateStep(p)
      PROVE  Doomed' \subseteq Doomed
  <2>1. \E r : Becomes(p, r) /\ r.pc # "remove"
    BY <1>0, <1>6, BeginTask, PublishTask, ReturnTask, ReturnedTask
    DEF CreateStep, SnapshotFails
  <2>2. dirs \subseteq dirs'
    BY <1>6 DEF CreateStep, BeginSnapshot, PublishEntry, SnapshotFails
  <2>3. \/ UNCHANGED status
        \/ /\ At(p, "boot")
           /\ status' = [status EXCEPT ![task[p].ent] = "Ready"]
    BY <1>6 DEF CreateStep, BeginSnapshot, PublishEntry, SnapshotFails
  <2>4. At(p, "boot") =>
          task[p].ent \in dirs /\ status[task[p].ent] = "absent"
    BY <1>0 DEF Holds
  <2>5. \A e \in Entries : status'[e] = "Ready" =>
          \/ status[e] = "Ready"
          \/ status[e] = "absent" /\ e \in dirs'
    BY <1>0, <2>2, <2>3, <2>4 DEF TypeOK
  <2> QED
    BY <2>1, <2>2, <2>5, NoneDoomed
<1>7. ASSUME NEW w \in Workers, NEW t \in Templates, StartReplenish(w, t)
      PROVE  Doomed' \subseteq Doomed
  BY <1>0, <1>1, <1>7, PlanTask, TargetType DEF StartReplenish, Creators
<1>8. ASSUME NEW t \in Templates, LoopNext(t)
      PROVE  Doomed' \subseteq Doomed
  BY <1>0, <1>1, <1>8, PlanTask, TargetType DEF LoopNext, Creators
<1>9. CASE LoopTick \/ UNCHANGED vars
  BY <1>0, <1>9 DEF LoopTick, vars, Doomed, At
<1>10. CASE Crash
  <2>1. /\ \A p \in Creators : task'[p] = Returned
        /\ UNCHANGED <<status, dirs>>
    BY <1>10 DEF Crash
  <2>2. Doomed' \subseteq Doomed
    BY <1>0, <2>1, ReturnedTask DEF Doomed, At
  <2> QED
    BY <1>0, <2>2, FaultsGrow
<1> QED
  BY <1>2, <1>3, <1>4, <1>5, <1>6, <1>7, <1>8, <1>9, <1>10, <1>u, FaultsGrow
  DEF Next, ScaleStep, WorkerStep, LoopStep, Unlisted, Inv

(* Every offered entry whose snapshot is gone is paid for with a failed
   operation. *)
THEOREM BrokenOffersPaid == Spec => []BrokenOffersBounded
<1> DEFINE Paid == Cardinality(Doomed) <= faults
<1>1. Init => Paid
  <2> SUFFICES ASSUME Init PROVE Paid
    OBVIOUS
  <2>1. Doomed = {} /\ faults = 0
    BY DEF Init, Doomed
  <2> QED
    BY <2>1, FS_EmptySet
<1>2. Inv /\ Inv' /\ Paid /\ [Next]_vars => Paid'
  BY DoomedStep, DoomedCount DEF Inv, TypeOK
<1>3. Inv /\ Paid => BrokenOffersBounded
  <2> SUFFICES ASSUME Inv, Paid PROVE BrokenOffersBounded
    OBVIOUS
  <2> DEFINE broken == {e \in Entries : status[e] = "Ready"} \ dirs
  <2>1. broken \subseteq Doomed /\ Doomed \subseteq Entries
    BY DEF Doomed
  <2>2. IsFiniteSet(Doomed)
    BY <2>1, EntriesAssumption, FS_Subset
  <2>3. /\ Cardinality(broken) <= Cardinality(Doomed)
        /\ Cardinality(broken) \in Nat /\ Cardinality(Doomed) \in Nat
    BY <2>1, <2>2, FS_Subset, FS_CardinalityType
  <2> QED
    BY <2>3 DEF BrokenOffersBounded, Inv, TypeOK
<1> QED
  BY <1>1, <1>2, <1>3, Invariance, PTL DEF Spec

(* Without failing store operations every offered entry has its snapshot,
   whatever claims, shrinking and restarts do, and although removing the
   directory and creating snapshots may fail. *)
THEOREM OffersHaveSnapshots == Spec => [](StoreFaults \/ ReadyHasSnapshot)
<1> DEFINE Safe == StoreFaults \/ Doomed = {}
<1>1. Init => Safe
  BY DEF Init, Doomed
<1>2. Inv /\ Safe /\ [Next]_vars => Safe'
  BY DoomedStep
<1>3. Safe => StoreFaults \/ ReadyHasSnapshot
  BY DEF Doomed, ReadyHasSnapshot
<1> QED
  BY <1>1, <1>2, <1>3, Invariance, PTL DEF Spec

-----------------------------------------------------------------------------
(* Leaks *)

(* The snapshots in the making, the directories that belong to nobody, and
   the boot microVMs that do. *)
Made == {task[p].ent : p \in {q \in Creators : At(q, "boot")}}
Orphans == {e \in dirs : status[e] = "absent"} \ Made
Strays == bootVms \ Made

(* A task kept in the making has an entry of its own; there are no more of
   them than tasks. *)
LEMMA MadeCount ==
    ASSUME Inv
    PROVE  /\ IsFiniteSet(Creators) /\ Cardinality(Creators) \in Nat
           /\ IsFiniteSet(Made) /\ Cardinality(Made) <= Cardinality(Creators)
<1>1. IsFiniteSet(Creators) /\ Cardinality(Creators) \in Nat
  <2>1. IsFiniteSet({Loop})
    BY FS_Singleton
  <2>2. IsFiniteSet(Callers \cup Workers)
    BY TasksAssumption, FS_Union
  <2>3. IsFiniteSet(Callers \cup Workers \cup {Loop})
    BY <2>1, <2>2, FS_Union
  <2> QED
    BY <2>3, FS_CardinalityType DEF Creators
<1> DEFINE booting == {q \in Creators : At(q, "boot")}
           f == [q \in booting |-> task[q].ent]
<1>2. f \in Surjection(booting, Made)
  BY DEF Surjection, Made
<1>3. /\ IsFiniteSet(booting) /\ Cardinality(booting) <= Cardinality(Creators)
      /\ Cardinality(booting) \in Nat
  BY <1>1, FS_Subset, FS_CardinalityType
<1> HIDE DEF f, booting
<1>4. IsFiniteSet(Made) /\ Cardinality(Made) <= Cardinality(booting)
  BY <1>2, <1>3, FS_Surjection
<1>5. Cardinality(Made) \in Nat
  BY <1>4, FS_CardinalityType
<1> QED
  BY <1>1, <1>3, <1>4, <1>5

(* What a step of task p leaves in the making. *)
LEMMA MadeStep ==
    ASSUME Inv, NEW p \in Creators, NEW r, Becomes(p, r)
    PROVE  /\ Made \ {task[p].ent} \subseteq Made'
           /\ ~At(p, "boot") => Made \subseteq Made'
           /\ r.pc = "boot" => r.ent \in Made'
<1>1. task'[p] = r /\ \A q \in Creators : q # p => task'[q] = task[q]
  BY BecomesTypes DEF Inv
<1> QED
  BY <1>1 DEF Made, At

(* How a step adds to a set of leaks. *)
Leaks(S, T) ==
    \/ T \subseteq S /\ faults <= faults' /\ crashes' = crashes
    \/ /\ \E e : T \subseteq S \cup {e}
       /\ faults' = faults + 1 /\ crashes' = crashes
    \/ T \subseteq S \cup Made /\ faults <= faults' /\ crashes' = crashes + 1

LEMMA LeakStep ==
    ASSUME Inv, [Next]_vars
    PROVE  Leaks(Orphans, Orphans') /\ Leaks(Strays, Strays')
<1>0. /\ TypeOK /\ TypeOK' /\ faults <= faults'
      /\ \A c \in Callers : c \in Creators
      /\ \A p \in Creators : Holds(p)
  <2>1. TypeOK
    BY DEF Inv
  <2>2. TypeOK'
    BY <2>1, ClaimTypes, ScaleTypes, CreateTypes, PoolTypes DEF Next
  <2> QED
    BY <2>1, <2>2, FaultsGrow DEF Inv, Creators
<1>1. ASSUME NEW p \in Creators, NEW r, Becomes(p, r), ~At(p, "boot"),
             dirs' \subseteq dirs, UNCHANGED <<bootVms, crashes>>,
             \A e \in Entries : status'[e] = "absent" => status[e] = "absent"
      PROVE  Leaks(Orphans, Orphans') /\ Leaks(Strays, Strays')
  <2>1. Made \subseteq Made'
    BY <1>1, MadeStep
  <2>2. Orphans' \subseteq Orphans /\ Strays' \subseteq Strays
    BY <1>0, <1>1, <2>1 DEF Orphans, Strays, TypeOK
  <2> QED
    BY <1>0, <1>1, <2>2 DEF Leaks
<1>u. ASSUME Unlisted
       PROVE  Leaks(Orphans, Orphans') /\ Leaks(Strays, Strays')
  <2>1. UNCHANGED <<status, dirs, bootVms, task, crashes>>
    BY <1>0, <1>u, UnlistedStep
  <2>2. Orphans' = Orphans /\ Strays' = Strays
    BY <2>1 DEF Orphans, Strays, Made, At
  <2> QED
    BY <1>0, <2>1, <2>2 DEF Leaks
<1>2. ASSUME NEW c \in Callers, ClaimStep(c), ~Unlisted
      PROVE  Leaks(Orphans, Orphans') /\ Leaks(Strays, Strays')
  <2>1. ~At(c, "boot") /\ UNCHANGED <<dirs, bootVms, crashes>>
    <3>1. ASSUME NEW t \in Templates, Claim(c, t)
          PROVE  ~At(c, "boot") /\ UNCHANGED <<dirs, bootVms, crashes>>
      BY <3>1 DEF Claim, At
    <3>2. CASE Count(c)
      BY <3>2 DEF Count, At
    <3> QED
      BY <1>2, <3>1, <3>2 DEF ClaimStep, Unlisted, MarkClaimed, MarkClaimedFails,
         RestoreSession, RestoreSessionFails, SaveMetrics, At
  <2>2. \E r : Becomes(c, r)
    BY <1>0, <1>2, ClaimTask, GoToTask, ReturnTask, CountTask
    DEF ClaimStep, Unlisted, MarkClaimed, MarkClaimedFails, RestoreSession,
        RestoreSessionFails, SaveMetrics, Labels
  <2>3. \A e \in Entries : status'[e] = "absent" => status[e] = "absent"
    <3>1. ASSUME NEW t \in Templates, Claim(c, t) PROVE UNCHANGED status
      BY <3>1 DEF Claim
    <3>2. CASE Count(c)
      BY <3>2 DEF Count
    <3>3. CASE MarkClaimed(c) \/ MarkClaimedFails(c)
      BY <1>0, <3>3 DEF MarkClaimed, MarkClaimedFails, TypeOK
    <3>4. CASE RestoreSession(c) \/ RestoreSessionFails(c) \/ SaveMetrics(c)
      BY <3>4 DEF RestoreSession, RestoreSessionFails, SaveMetrics
    <3> QED
      BY <1>2, <3>1, <3>2, <3>3, <3>4 DEF ClaimStep, Unlisted
  <2> QED
    BY <1>0, <1>1, <2>1, <2>2, <2>3
<1>3. ASSUME NEW c \in Callers, ScaleStep(c)
      PROVE  Leaks(Orphans, Orphans') /\ Leaks(Strays, Strays')
  <2>1. CASE \E t \in Templates, target \in ScaleTargets : Scale(c, t, target)
    <3>1. PICK t \in Templates, target \in ScaleTargets : Scale(c, t, target)
      BY <2>1
    <3>2. \E r : Becomes(c, r)
      BY <3>1, ScaleTask
    <3>3. ~At(c, "boot") /\ UNCHANGED <<status, dirs, bootVms, crashes>>
      BY <3>1 DEF Scale, At
    <3> QED
      BY <1>0, <1>1, <3>2, <3>3
  <2>2. CASE RetireEntry(c)
    <3>1. PICK e \in task[c].victims :
            /\ e \in Entries
            /\ \/ status' = [status EXCEPT ![e] = "Claimed"]
               \/ UNCHANGED status
            /\ \E r : Becomes(c, r)
      BY <1>0, <2>2, RetireTask
    <3>2. \A x \in Entries : status'[x] = "absent" => status[x] = "absent"
      BY <1>0, <3>1 DEF TypeOK
    <3>3. ~At(c, "boot") /\ UNCHANGED <<dirs, bootVms, crashes>>
      BY <2>2 DEF RetireEntry, At
    <3> QED
      BY <1>0, <1>1, <3>1, <3>2, <3>3
  <2>3. CASE RemoveSnapshot(c)
    <3>1. \E r : Becomes(c, r)
      BY <1>0, <2>3, GoToTask, ReturnTask DEF RemoveSnapshot, Labels
    <3>2. /\ ~At(c, "boot") /\ dirs' \subseteq dirs
          /\ UNCHANGED <<status, bootVms, crashes>>
      BY <2>3 DEF RemoveSnapshot, At
    <3> QED
      BY <1>0, <1>1, <3>1, <3>2
  <2> QED
    BY <1>3, <1>u, <2>1, <2>2, <2>3 DEF ScaleStep, Unlisted
<1>4. ASSUME NEW p \in Creators, NEW e \in Entries, BeginSnapshot(p, e)
      PROVE  Leaks(Orphans, Orphans') /\ Leaks(Strays, Strays')
  <2>1. PICK r : Becomes(p, r) /\ r.pc = "boot" /\ r.ent = e
    BY <1>0, <1>4, BeginTask
  <2>2. /\ ~At(p, "boot") /\ dirs' = dirs \cup {e} /\ bootVms' = bootVms \cup {e}
        /\ UNCHANGED <<status, crashes>>
    BY <1>4 DEF BeginSnapshot, At
  <2>3. Made \cup {e} \subseteq Made'
    BY <2>1, <2>2, MadeStep
  <2>4. Orphans' \subseteq Orphans /\ Strays' \subseteq Strays
    BY <2>2, <2>3 DEF Orphans, Strays
  <2> QED
    BY <1>0, <2>2, <2>4 DEF Leaks
<1>5. ASSUME NEW p \in Creators, PublishEntry(p)
      PROVE  Leaks(Orphans, Orphans') /\ Leaks(Strays, Strays')
  <2> DEFINE e == task[p].ent
  <2>1. /\ dirs' = dirs /\ crashes' = crashes /\ bootVms' = bootVms \ {e}
        /\ At(p, "boot") /\ status' = [status EXCEPT ![e] = "Ready"]
    BY <1>5 DEF PublishEntry
  <2>2. /\ status'[e] = "Ready"
        /\ \A x \in Entries : status'[x] = "absent" => status[x] = "absent"
    BY <1>0, <2>1 DEF TypeOK, Holds
  <2>3. Made \ {e} \subseteq Made'
    BY <1>0, <1>5, PublishTask, MadeStep
  <2>4. Orphans' \subseteq Orphans /\ Strays' \subseteq Strays
    BY <1>0, <2>1, <2>2, <2>3 DEF Orphans, Strays, TypeOK
  <2> QED
    BY <1>0, <2>1, <2>4 DEF Leaks
<1>6. ASSUME NEW p \in Creators, SnapshotFails(p)
      PROVE  Leaks(Orphans, Orphans') /\ Leaks(Strays, Strays')
  <2> DEFINE e == task[p].ent
  <2>1. /\ dirs' = dirs /\ crashes' = crashes /\ bootVms' \subseteq bootVms
        /\ faults' = faults + 1
        /\ \/ UNCHANGED status
           \/ status' = [status EXCEPT ![e] = "Ready"]
    BY <1>6 DEF SnapshotFails, Fail
  <2>2. \A x \in Entries : status'[x] = "absent" => status[x] = "absent"
    BY <1>0, <2>1 DEF TypeOK
  <2>3. Made \ {e} \subseteq Made'
    BY <1>6, ReturnTask, MadeStep DEF SnapshotFails
  <2>4. Orphans' \subseteq Orphans \cup {e} /\ Strays' \subseteq Strays \cup {e}
    BY <1>0, <2>1, <2>2, <2>3 DEF Orphans, Strays, TypeOK
  <2> QED
    BY <2>1, <2>4 DEF Leaks
<1>7. ASSUME NEW w \in Workers, NEW t \in Templates, StartReplenish(w, t)
      PROVE  Leaks(Orphans, Orphans') /\ Leaks(Strays, Strays')
  <2>1. w \in Creators
    BY DEF Creators
  <2>2. \E r : Becomes(w, r)
    BY <1>0, <1>7, <2>1, PlanTask, TargetType DEF StartReplenish
  <2>3. ~At(w, "boot") /\ UNCHANGED <<status, dirs, bootVms, crashes>>
    BY <1>7 DEF StartReplenish, At
  <2> QED
    BY <1>1, <2>1, <2>2, <2>3
<1>8. ASSUME NEW t \in Templates, LoopNext(t)
      PROVE  Leaks(Orphans, Orphans') /\ Leaks(Strays, Strays')
  <2>1. Loop \in Creators
    BY DEF Creators
  <2>2. \E r : Becomes(Loop, r)
    BY <1>0, <1>8, <2>1, PlanTask, TargetType DEF LoopNext
  <2>3. ~At(Loop, "boot") /\ UNCHANGED <<status, dirs, bootVms, crashes>>
    BY <1>8 DEF LoopNext, At
  <2> QED
    BY <1>1, <2>1, <2>2, <2>3
<1>9. CASE LoopTick \/ UNCHANGED vars
  <2>1. UNCHANGED <<status, dirs, bootVms, task, crashes>>
    BY <1>9 DEF LoopTick, vars
  <2>2. Orphans' = Orphans /\ Strays' = Strays
    BY <2>1 DEF Orphans, Strays, Made, At
  <2> QED
    BY <1>0, <2>1, <2>2 DEF Leaks
<1>10. CASE Crash
  <2>1. /\ UNCHANGED <<status, dirs, bootVms>>
        /\ crashes' = crashes + 1
    BY <1>10 DEF Crash
  <2>2. Orphans' \subseteq Orphans \cup Made /\ Strays' \subseteq Strays \cup Made
    BY <2>1 DEF Orphans, Strays
  <2> QED
    BY <1>0, <2>1, <2>2 DEF Leaks
<1> QED
  BY <1>2, <1>3, <1>4, <1>5, <1>6, <1>7, <1>8, <1>9, <1>10, <1>u
  DEF Next, CreateStep, WorkerStep, LoopStep, Unlisted

(* A set of leaks that was paid for still is. *)
LEMMA LeakCount ==
    ASSUME Inv, Inv', NEW S, NEW T, IsFiniteSet(S), Leaks(S, T),
           Cardinality(S) <= faults + crashes * Cardinality(Creators)
    PROVE  /\ IsFiniteSet(T)
           /\ Cardinality(T) <= faults' + crashes' * Cardinality(Creators)
<1>1. /\ faults \in Nat /\ faults' \in Nat /\ crashes \in Nat /\ crashes' \in Nat
      /\ Cardinality(S) \in Nat
  BY FS_CardinalityType DEF Inv, TypeOK
<1>2. /\ Cardinality(Creators) \in Nat
      /\ IsFiniteSet(Made) /\ Cardinality(Made) <= Cardinality(Creators)
      /\ Cardinality(Made) \in Nat
  BY MadeCount, FS_CardinalityType
<1>3. PICK n \in Nat : n = Cardinality(Creators)
  BY <1>2
<1>4. PICK k \in Nat : k = crashes * n
  BY <1>1
<1>5. CASE T \subseteq S /\ faults <= faults' /\ crashes' = crashes
  <2>1. IsFiniteSet(T) /\ Cardinality(T) <= Cardinality(S) /\ Cardinality(T) \in Nat
    BY <1>5, FS_Subset, FS_CardinalityType
  <2>2. Cardinality(T) <= faults' + k
    BY <1>1, <1>3, <1>4, <1>5, <2>1
  <2> QED
    BY <1>3, <1>4, <1>5, <2>1, <2>2
<1>6. CASE (\E e : T \subseteq S \cup {e}) /\ faults' = faults + 1 /\ crashes' = crashes
  <2>1. PICK e : T \subseteq S \cup {e}
    BY <1>6
  <2>2. /\ IsFiniteSet(S \cup {e})
        /\ \/ Cardinality(S \cup {e}) = Cardinality(S)
           \/ Cardinality(S \cup {e}) = Cardinality(S) + 1
    BY <1>1, FS_AddElement, Zenon
  <2>3. /\ IsFiniteSet(T) /\ Cardinality(T) <= Cardinality(S \cup {e})
        /\ Cardinality(T) \in Nat
    BY <2>1, <2>2, FS_Subset, FS_CardinalityType
  <2>4. Cardinality(T) <= faults' + k
    BY <1>1, <1>3, <1>4, <1>6, <2>2, <2>3
  <2> QED
    BY <1>3, <1>4, <1>6, <2>3, <2>4
<1>7. CASE T \subseteq S \cup Made /\ faults <= faults' /\ crashes' = crashes + 1
  <2>1. /\ IsFiniteSet(S \cup Made) /\ Cardinality(S \cap Made) \in Nat
        /\ Cardinality(S \cup Made)
             = Cardinality(S) + Cardinality(Made) - Cardinality(S \cap Made)
    BY <1>1, <1>2, FS_Union, FS_Intersection, FS_CardinalityType
  <2>2. /\ IsFiniteSet(T) /\ Cardinality(T) <= Cardinality(S \cup Made)
        /\ Cardinality(T) \in Nat /\ Cardinality(S \cup Made) \in Nat
    BY <1>7, <2>1, FS_Subset, FS_CardinalityType
  <2>3. Cardinality(T) <= faults' + (k + n)
    BY <1>1, <1>2, <1>3, <1>4, <1>7, <2>1, <2>2
  <2>4. crashes' * n = k + n
    BY <1>1, <1>4, <1>7
  <2> QED
    BY <1>3, <1>7, <2>2, <2>3, <2>4
<1> QED
  BY <1>5, <1>6, <1>7 DEF Leaks

(* A snapshot directory without a record and a boot microVM belong to a
   snapshot in the making, or are paid for with a failed operation or with a
   task that a crash killed. *)
THEOREM LeaksPaid == Spec => []LeaksBounded
<1> DEFINE Paid(S) == /\ IsFiniteSet(S)
                      /\ Cardinality(S) <= faults + crashes * Cardinality(Creators)
           AllPaid == Paid(Orphans) /\ Paid(Strays)
<1>1. Init => AllPaid
  <2> SUFFICES ASSUME Init PROVE AllPaid
    OBVIOUS
  <2>1. Orphans = {} /\ Strays = {} /\ faults = 0 /\ crashes = 0
    BY DEF Init, Orphans, Strays
  <2>2. Cardinality(Creators) \in Nat
    <3>1. Inv
      BY InitInv
    <3> QED
      BY <3>1, MadeCount
  <2> QED
    BY <2>1, <2>2, FS_EmptySet
<1>2. Inv /\ Inv' /\ AllPaid /\ [Next]_vars => AllPaid'
  <2> SUFFICES ASSUME Inv, Inv', AllPaid, [Next]_vars PROVE AllPaid'
    OBVIOUS
  <2>1. Leaks(Orphans, Orphans') /\ Leaks(Strays, Strays')
    BY LeakStep
  <2>2. Paid(Orphans)'
    BY <2>1, LeakCount
  <2>3. Paid(Strays)'
    BY <2>1, LeakCount
  <2> QED
    BY <2>2, <2>3
<1>3. AllPaid => LeaksBounded
  BY DEF LeaksBounded, Orphans, Strays, Made
<1> QED
  BY <1>1, <1>2, <1>3, Invariance, PTL DEF Spec

-----------------------------------------------------------------------------
(* How far creating overshoots the target *)

(* A finite set of naturals has a largest element: the one with the fewest
   elements above it. *)
LEMMA LargestOf ==
    ASSUME NEW S, S \subseteq Nat, IsFiniteSet(S), S # {}
    PROVE  Largest(S) \in S /\ \A m \in S : m <= Largest(S)
<1> DEFINE Above(n) == {m \in S : m > n}
           C == {Cardinality(Above(n)) : n \in S}
<1>1. \A n \in S : IsFiniteSet(Above(n)) /\ Cardinality(Above(n)) \in Nat
  BY FS_Subset, FS_CardinalityType
<1>2. C \in SUBSET Nat /\ C # {}
  BY <1>1
<1>3. PICK k \in C : \A j \in C : ~ (<<j, k>> \in OpToRel(<, Nat))
  BY <1>2, NatLessThanWellFounded, WFMin
<1>4. PICK n \in S : k = Cardinality(Above(n))
  OBVIOUS
<1>5. ASSUME NEW m \in S PROVE m <= n
  <2> SUFFICES ASSUME m > n PROVE FALSE
    OBVIOUS
  <2>1. Above(m) \subseteq Above(n) /\ Above(m) # Above(n)
    <3>1. m \in Above(n) /\ m \notin Above(m)
      OBVIOUS
    <3>2. \A x \in S : x > m => x > n
      BY \A x \in S : x \in Nat
    <3>3. Above(m) \subseteq Above(n)
      BY <3>2
    <3> QED
      BY <3>1, <3>3, Zenon
  <2>2. Cardinality(Above(m)) <= k /\ Cardinality(Above(m)) # k
    BY <1>1, <1>4, <2>1, FS_Subset
  <2>3. Cardinality(Above(m)) \in Nat /\ k \in Nat /\ Cardinality(Above(m)) \in C
    BY <1>1, <1>2
  <2> DEFINE a == Cardinality(Above(m))
  <2> HIDE DEF a, Above, C
  <2>4. a < k /\ a \in Nat /\ k \in Nat /\ a \in C
    BY <2>2, <2>3 DEF a
  <2> QED
    BY <1>3, <2>4, Zenon DEF OpToRel
<1> QED
  BY <1>5 DEF Largest

(* What a caller creates at most, what the others create at most of a
   template, and the units of work all of them together can have planned. *)
Scaled == Largest(ScaleTargets \cup {0})
Most(t) == Largest({BaseTarget[t], Scaled})
Share(p, t) == IF p \in Callers THEN Scaled ELSE Most(t)
Slots(t) == ((Workers \cup {Loop}) \X (1..Most(t))) \cup (Callers \X (1..Scaled))

LEMMA TargetsBounded ==
    ASSUME NEW t \in Templates
    PROVE  /\ Scaled \in Nat /\ Most(t) \in Nat
           /\ \A n \in ScaleTargets : n <= Scaled
           /\ Scaled <= Most(t) /\ BaseTarget[t] <= Most(t)
<1>1. Scaled \in ScaleTargets \cup {0} /\ \A m \in ScaleTargets \cup {0} : m <= Scaled
  <2>1. IsFiniteSet(ScaleTargets \cup {0}) /\ ScaleTargets \cup {0} \subseteq Nat
    BY TargetsAssumption, FS_AddElement
  <2> QED
    BY <2>1, LargestOf DEF Scaled
<1>2. Scaled \in Nat /\ BaseTarget[t] \in Nat
  BY <1>1, TargetsAssumption
<1>3. /\ Most(t) \in {BaseTarget[t], Scaled}
      /\ \A m \in {BaseTarget[t], Scaled} : m <= Most(t)
  <2>1. IsFiniteSet({BaseTarget[t], Scaled})
    <3>1. IsFiniteSet({BaseTarget[t]}) /\ {BaseTarget[t], Scaled} = {BaseTarget[t]} \cup {Scaled}
      BY FS_Singleton
    <3> QED
      BY <3>1, FS_AddElement
  <2> QED
    BY <1>2, <2>1, LargestOf DEF Most
<1> QED
  BY <1>1, <1>2, <1>3

(* The first n units of work of task p. *)
Slice(p, n) == {p} \X (1..n)

LEMMA UpToCount ==
    ASSUME NEW n \in Nat
    PROVE  IsFiniteSet(1..n) /\ Cardinality(1..n) = n
<1>1. 1 \in Int /\ n \in Int
  OBVIOUS
<1> DEFINE size == IF 1 > n THEN 0 ELSE n - 1 + 1
<1>2. IsFiniteSet(1..n) /\ Cardinality(1..n) = size
  BY <1>1, FS_Interval, Zenon
<1>3. size = n
  OBVIOUS
<1> HIDE DEF size
<1> QED
  BY <1>2, <1>3

(* Units of work of other tasks and a slice of task p add up. *)
LEMMA SliceCount ==
    ASSUME NEW O, IsFiniteSet(O), NEW p, NEW n \in Nat, \A s \in O : s[1] # p
    PROVE  /\ IsFiniteSet(O \cup Slice(p, n))
           /\ Cardinality(O \cup Slice(p, n)) = Cardinality(O) + n
<1>1. IsFiniteSet({p}) /\ Cardinality({p}) = 1
  BY FS_Singleton
<1>2. IsFiniteSet(1..n) /\ Cardinality(1..n) = n
  BY UpToCount
<1>3. IsFiniteSet(Slice(p, n)) /\ Cardinality(Slice(p, n)) = n
  <2>1. /\ IsFiniteSet({p} \X (1..n))
        /\ Cardinality({p} \X (1..n)) = Cardinality({p}) * Cardinality(1..n)
    BY <1>1, <1>2, FS_Product
  <2> QED
    BY <1>1, <1>2, <2>1 DEF Slice
<1>4. O \cap Slice(p, n) = {}
  BY DEF Slice
<1>5. Cardinality(O) \in Nat
  BY FS_CardinalityType
<1> QED
  BY <1>3, <1>4, <1>5, FS_Union, FS_EmptySet

LEMMA SlotsCount ==
    ASSUME NEW t \in Templates
    PROVE  /\ IsFiniteSet(Slots(t)) /\ Cardinality(Slots(t)) \in Nat
           /\ Cardinality(Slots(t)) =
                 Most(t) * (Cardinality(Workers) + 1) + Scaled * Cardinality(Callers)
<1> DEFINE own == Workers \cup {Loop}
           A == own \X (1..Most(t))
           B == Callers \X (1..Scaled)
<1>1. Most(t) \in Nat /\ Scaled \in Nat
  BY TargetsBounded
<1>2. /\ IsFiniteSet(own) /\ Cardinality(own) = Cardinality(Workers) + 1
      /\ Cardinality(Workers) \in Nat /\ Cardinality(Callers) \in Nat
      /\ IsFiniteSet(Callers)
  <2>1. IsFiniteSet(Workers) /\ IsFiniteSet(Callers) /\ Loop \notin Workers
    BY TasksAssumption
  <2> QED
    BY <2>1, FS_AddElement, FS_CardinalityType
<1>3. /\ IsFiniteSet(1..Most(t)) /\ Cardinality(1..Most(t)) = Most(t)
      /\ IsFiniteSet(1..Scaled) /\ Cardinality(1..Scaled) = Scaled
  BY <1>1, UpToCount, Zenon
<1>4. IsFiniteSet(A) /\ Cardinality(A) = Cardinality(own) * Most(t)
  <2>1. IsFiniteSet(A) /\ Cardinality(A) = Cardinality(own) * Cardinality(1..Most(t))
    BY <1>2, <1>3, FS_Product, Zenon
  <2> HIDE DEF A, own
  <2> QED
    BY <1>3, <2>1, Zenon
<1>5. IsFiniteSet(B) /\ Cardinality(B) = Cardinality(Callers) * Scaled
  <2>1. IsFiniteSet(B) /\ Cardinality(B) = Cardinality(Callers) * Cardinality(1..Scaled)
    BY <1>2, <1>3, FS_Product, Zenon
  <2> HIDE DEF B
  <2> QED
    BY <1>3, <2>1, Zenon
<1>6. A \cap B = {}
  BY TasksAssumption
<1>7. /\ Cardinality(A) \in Nat /\ Cardinality(B) \in Nat
      /\ IsFiniteSet(A \cup B) /\ Cardinality(A \cup B) = Cardinality(A) + Cardinality(B)
  <2> HIDE DEF A, B
  <2>1. Cardinality(A) \in Nat /\ Cardinality(B) \in Nat
    BY <1>4, <1>5, FS_CardinalityType
  <2>2. Cardinality(A \cap B) = 0
    BY <1>6, FS_EmptySet, Zenon
  <2>3. /\ IsFiniteSet(A \cup B)
        /\ Cardinality(A \cup B) = Cardinality(A) + Cardinality(B) - Cardinality(A \cap B)
    BY <1>4, <1>5, FS_Union
  <2> QED
    BY <2>1, <2>2, <2>3
<1>8. Slots(t) = A \cup B
  BY DEF Slots
<1>9. /\ Cardinality(own) * Most(t) = Most(t) * (Cardinality(Workers) + 1)
      /\ Cardinality(Callers) * Scaled = Scaled * Cardinality(Callers)
  BY <1>1, <1>2
<1> HIDE DEF A, B, own
<1> QED
  BY <1>4, <1>5, <1>7, <1>8, <1>9

-----------------------------------------------------------------------------
(* The work in flight *)

Creating(p) == At(p, "create") \/ At(p, "boot")

(* The entries of template t task p has planned and not created yet, and the
   units of work of all tasks. *)
Portion(p, t) == IF Creating(p) /\ task[p].tpl = t THEN task[p].need ELSE 0
Pending(t) == UNION {Slice(p, Portion(p, t)) : p \in Creators}

(* Every task plans within its share, and what is ready or planned fits the
   shares of all. *)
Budget(t) ==
    /\ Pending(t) \subseteq Slots(t)
    /\ Cardinality(Ready(t)) + Cardinality(Pending(t)) <= Cardinality(Slots(t))

(* A task that creates entries has one left to create, of its template. *)
Planned(p) ==
    /\ Creating(p) => task[p].need > 0
    /\ At(p, "boot") => TemplateOf[task[p].ent] = task[p].tpl

ScaledCaps == \A t \in Templates : caps[t] \in ScaleTargets \cup {NoTarget}

InFlight ==
    /\ ScaledCaps
    /\ \A p \in Creators : Planned(p)
    /\ \A t \in Templates : Budget(t)

(* The units of work of the tasks other than p. *)
Others(p, t) == {s \in Pending(t) : s[1] # p}

LEMMA PortionType ==
    ASSUME TypeOK, NEW p \in Creators, NEW t
    PROVE  Portion(p, t) \in Nat
BY TaskTypes DEF Portion

LEMMA PendingSplit ==
    ASSUME NEW p \in Creators, NEW t
    PROVE  Pending(t) = Others(p, t) \cup Slice(p, Portion(p, t))
BY DEF Pending, Others, Slice

LEMMA OthersKept ==
    ASSUME TypeOK, NEW p \in Creators, NEW t, \A q \in Creators : q # p => task'[q] = task[q]
    PROVE  Others(p, t)' = Others(p, t)
<1>1. \A q \in Creators : q # p => Portion(q, t)' = Portion(q, t)
  BY DEF Portion, Creating, At
<1> QED
  BY <1>1 DEF Others, Pending, Slice

LEMMA ShareFits ==
    ASSUME NEW p \in Creators, NEW t \in Templates, NEW n \in Nat, n <= Share(p, t)
    PROVE  Slice(p, n) \subseteq Slots(t)
BY TargetsBounded DEF Slice, Slots, Share, Creators

(* The others leave room for the share of task p. *)
LEMMA OthersCount ==
    ASSUME NEW p \in Creators, NEW t \in Templates, Pending(t) \subseteq Slots(t)
    PROVE  /\ IsFiniteSet(Others(p, t)) /\ Cardinality(Others(p, t)) \in Nat
           /\ Share(p, t) \in Nat
           /\ Cardinality(Others(p, t)) + Share(p, t) <= Cardinality(Slots(t))
<1>1. Others(p, t) \subseteq Slots(t) /\ \A s \in Others(p, t) : s[1] # p
  BY DEF Others
<1>2. Share(p, t) \in Nat
  BY TargetsBounded DEF Share
<1>3. IsFiniteSet(Others(p, t)) /\ Cardinality(Others(p, t)) \in Nat
  BY <1>1, SlotsCount, FS_Subset, FS_CardinalityType
<1>4. Cardinality(Others(p, t) \cup Slice(p, Share(p, t)))
         = Cardinality(Others(p, t)) + Share(p, t)
  BY <1>1, <1>2, <1>3, SliceCount
<1>5. Others(p, t) \cup Slice(p, Share(p, t)) \subseteq Slots(t)
  BY <1>1, <1>2, ShareFits
<1>6. Cardinality(Others(p, t) \cup Slice(p, Share(p, t))) <= Cardinality(Slots(t))
  BY <1>5, SlotsCount, FS_Subset
<1> QED
  BY <1>2, <1>3, <1>4, <1>6

LEMMA PortionFits ==
    ASSUME TypeOK, NEW p \in Creators, NEW t \in Templates, Pending(t) \subseteq Slots(t)
    PROVE  Portion(p, t) <= Share(p, t)
<1>1. PICK n \in Nat : n = Portion(p, t)
  BY PortionType
<1>2. Scaled \in Nat /\ Most(t) \in Nat
  BY TargetsBounded
<1>3. CASE n = 0
  BY <1>1, <1>2, <1>3 DEF Share
<1>4. CASE n > 0
  <2>1. <<p, n>> \in Slots(t)
    BY <1>1, <1>4, PendingSplit DEF Slice
  <2>2. p \in Callers => p \notin Workers \cup {Loop}
    BY TasksAssumption
  <2> QED
    BY <1>1, <2>1, <2>2 DEF Slots, Share
<1> QED
  BY <1>1, <1>3, <1>4

(* A step of task p keeps the budget when p stays within its share, and it
   either trades planned entries for ready ones or plans up to its share. *)
LEMMA BudgetStep ==
    ASSUME TypeOK, TypeOK', NEW p \in Creators, NEW t \in Templates, Budget(t),
           \A q \in Creators : q # p => task'[q] = task[q],
           \/ /\ Portion(p, t)' <= Portion(p, t)
              /\ Cardinality(Ready(t)') + Portion(p, t)'
                    <= Cardinality(Ready(t)) + Portion(p, t)
           \/ /\ Portion(p, t)' <= Share(p, t)
              /\ Cardinality(Ready(t)') + Portion(p, t)' <= Share(p, t)
    PROVE  Budget(t)'
<1>1. Others(p, t)' = Others(p, t) /\ \A s \in Others(p, t) : s[1] # p
  BY OthersKept DEF Others
<1>2. PICK m \in Nat : m = Portion(p, t)
  BY PortionType
<1>3. PICK n \in Nat : n = Portion(p, t)'
  <2>1. task'[p].need \in Nat
    BY DEF TypeOK, Task
  <2>2. Portion(p, t)' \in Nat
    BY <2>1 DEF Portion
  <2> QED
    BY <2>2
<1>4. /\ IsFiniteSet(Others(p, t)) /\ Share(p, t) \in Nat
      /\ Cardinality(Others(p, t)) + Share(p, t) <= Cardinality(Slots(t))
  BY OthersCount DEF Budget
<1>5. PICK o \in Nat : o = Cardinality(Others(p, t))
  BY OthersCount DEF Budget
<1>6. m <= Share(p, t)
  BY <1>2, PortionFits DEF Budget
<1>7. n <= Share(p, t)
  BY <1>2, <1>3, <1>4, <1>6
<1>8. Cardinality(Pending(t)) = o + m
  <2>1. Pending(t) = Others(p, t) \cup Slice(p, m)
    BY <1>2, PendingSplit
  <2>2. Cardinality(Others(p, t) \cup Slice(p, m)) = Cardinality(Others(p, t)) + m
    BY <1>1, <1>4, SliceCount
  <2> QED
    BY <1>5, <2>1, <2>2
<1>9. Pending(t)' = Others(p, t) \cup Slice(p, n)
  <2>1. Pending(t)' = Others(p, t)' \cup Slice(p, Portion(p, t)')
    BY DEF Pending, Others, Slice
  <2> QED
    BY <1>1, <1>3, <2>1
<1>10. Cardinality(Pending(t)') = o + n
  BY <1>1, <1>4, <1>5, <1>9, SliceCount
<1>11. Pending(t)' \subseteq Slots(t)
  <2>1. Others(p, t) \subseteq Slots(t)
    BY DEF Budget, Others
  <2> QED
    BY <1>7, <1>9, <2>1, ShareFits
<1>12. Cardinality(Ready(t)') + Cardinality(Pending(t)') <= Cardinality(Slots(t))
  <2>1. Cardinality(Ready(t)) \in Nat /\ Cardinality(Slots(t)) \in Nat
    BY ReadyCount, SlotsCount
  <2>0. Cardinality(Ready(t)') \in Nat
    <3>1. Ready(t)' \subseteq Entries
      BY DEF Ready
    <3> QED
      BY <3>1, EntriesAssumption, FS_Subset, FS_CardinalityType
  <2>2. Cardinality(Ready(t)) + (o + m) <= Cardinality(Slots(t))
    BY <1>8 DEF Budget
  <2>3. \/ Cardinality(Ready(t)') + n <= Cardinality(Ready(t)) + m
        \/ Cardinality(Ready(t)') + n <= Share(p, t)
    BY <1>2, <1>3
  <2> QED
    BY <1>4, <1>5, <1>10, <2>0, <2>1, <2>2, <2>3
<1> QED
  BY <1>11, <1>12 DEF Budget

(* What a step of task p with the new local variables r does to the work in
   flight, given that it keeps the budgets. *)
LEMMA InFlightStep ==
    ASSUME TypeOK, InFlight, NEW p \in Creators, NEW r, Becomes(p, r), ScaledCaps',
           r.pc \in {"create", "boot"} => r.need > 0,
           r.pc = "boot" => TemplateOf[r.ent] = r.tpl,
           \A t \in Templates : Budget(t)'
    PROVE  InFlight'
<1>1. task'[p] = r /\ \A q \in Creators : q # p => task'[q] = task[q]
  BY BecomesTypes
<1>2. \A q \in Creators : Planned(q)'
  BY <1>1 DEF InFlight, Planned, Creating, At
<1> QED
  BY <1>2 DEF InFlight

(* A step of a task that plans nothing and publishes nothing. *)
LEMMA IdleStep ==
    ASSUME TypeOK, TypeOK', InFlight, NEW p \in Creators, NEW r, Becomes(p, r),
           r.pc \notin {"create", "boot"}, ScaledCaps',
           \A e \in Entries : status'[e] = "Ready" => status[e] = "Ready"
    PROVE  InFlight'
<1>1. task'[p] = r /\ \A q \in Creators : q # p => task'[q] = task[q]
  BY BecomesTypes
<1>2. ASSUME NEW t \in Templates PROVE Budget(t)'
  <2>1. Portion(p, t)' = 0
    BY <1>1 DEF Portion, Creating, At
  <2>2. Portion(p, t) \in Nat
    BY PortionType
  <2>3. Cardinality(Ready(t)') <= Cardinality(Ready(t)) /\ Cardinality(Ready(t)') \in Nat
    <3>1. Ready(t)' \subseteq Ready(t) /\ Ready(t) \subseteq Entries
      BY DEF Ready
    <3>2. IsFiniteSet(Ready(t))
      BY <3>1, EntriesAssumption, FS_Subset
    <3> QED
      BY <3>1, <3>2, FS_Subset, FS_CardinalityType
  <2>4. /\ Portion(p, t)' <= Portion(p, t)
        /\ Cardinality(Ready(t)') + Portion(p, t)' <= Cardinality(Ready(t)) + Portion(p, t)
    BY <2>1, <2>2, <2>3, ReadyCount
  <2> QED
    BY <1>1, <2>4, BudgetStep DEF InFlight
<1> QED
  BY <1>2, InFlightStep

(* A task plans what was missing when it looked. *)
LEMMA PlanStep ==
    ASSUME TypeOK, TypeOK', InFlight, NEW p \in Creators, NEW r, Becomes(p, r),
           NEW u \in Templates, NEW target \in Nat, target <= Share(p, u),
           r.pc = "create" => Sets(r, u, target), r.pc # "boot",
           ScaledCaps', UNCHANGED status
    PROVE  InFlight'
<1>1. task'[p] = r /\ \A q \in Creators : q # p => task'[q] = task[q]
  BY BecomesTypes
<1>2. CASE r.pc # "create"
  BY <1>2, IdleStep
<1>3. CASE r.pc = "create"
  <2>1. r.tpl = u /\ r.need > 0 /\ r.need = target - Cardinality(Ready(u))
    BY <1>3 DEF Sets
  <2>2. ASSUME NEW t \in Templates PROVE Budget(t)'
    <3>1. Ready(t)' = Ready(t) /\ Cardinality(Ready(t)) \in Nat
      BY ReadyCount DEF Ready
    <3>2. Portion(p, t) \in Nat
      BY PortionType
    <3>3. CASE t = u
      <4>1. Portion(p, t)' = r.need
        BY <1>1, <1>3, <2>1, <3>3 DEF Portion, Creating, At
      <4>2. Share(p, t) \in Nat
        BY TargetsBounded DEF Share
      <4>3. /\ Portion(p, t)' <= Share(p, t)
            /\ Cardinality(Ready(t)') + Portion(p, t)' <= Share(p, t)
        BY <2>1, <3>1, <3>3, <4>1, <4>2
      <4> QED
        BY <1>1, <4>3, BudgetStep DEF InFlight
    <3>4. CASE t # u
      <4>1. Portion(p, t)' = 0
        BY <1>1, <2>1, <3>4 DEF Portion
      <4>2. /\ Portion(p, t)' <= Portion(p, t)
            /\ Cardinality(Ready(t)') + Portion(p, t)'
                  <= Cardinality(Ready(t)) + Portion(p, t)
        BY <3>1, <3>2, <4>1
      <4> QED
        BY <1>1, <4>2, BudgetStep DEF InFlight
    <3> QED
      BY <3>3, <3>4
  <2> QED
    BY <1>3, <2>1, <2>2, InFlightStep
<1> QED
  BY <1>2, <1>3

(* A step of a task in the making that may publish its entry, which uses up a
   planned one. *)
LEMMA PublishStep ==
    ASSUME TypeOK, TypeOK', InFlight, NEW p \in Creators, NEW r, Becomes(p, r),
           At(p, "boot"), r.pc # "boot", ScaledCaps',
           r.pc = "create" => /\ r.tpl = task[p].tpl
                              /\ r.need > 0 /\ r.need = task[p].need - 1,
           \A e \in Entries : e # task[p].ent => status'[e] = status[e]
    PROVE  InFlight'
<1>1. task'[p] = r /\ \A q \in Creators : q # p => task'[q] = task[q]
  BY BecomesTypes
<1>2. task[p].need > 0 /\ task[p].need \in Nat /\ TemplateOf[task[p].ent] = task[p].tpl
  BY TaskTypes DEF InFlight, Planned, Creating
<1>3. ASSUME NEW t \in Templates PROVE Budget(t)'
  <2>1. Ready(t) \subseteq Entries /\ Cardinality(Ready(t)) \in Nat /\ IsFiniteSet(Ready(t))
    BY ReadyCount, EntriesAssumption, FS_Subset
  <2>2. CASE task[p].tpl = t
    <3>1. Ready(t)' \subseteq Ready(t) \cup {task[p].ent}
      BY DEF Ready
    <3>2. /\ IsFiniteSet(Ready(t) \cup {task[p].ent})
          /\ \/ Cardinality(Ready(t) \cup {task[p].ent}) = Cardinality(Ready(t))
             \/ Cardinality(Ready(t) \cup {task[p].ent}) = Cardinality(Ready(t)) + 1
      BY <2>1, FS_AddElement, Zenon
    <3>3. /\ Cardinality(Ready(t)') <= Cardinality(Ready(t) \cup {task[p].ent})
          /\ Cardinality(Ready(t)') \in Nat
      BY <3>1, <3>2, FS_Subset, FS_CardinalityType
    <3>4. Portion(p, t) = task[p].need
      BY <2>2 DEF Portion, Creating
    <3>5. Portion(p, t)' \in Nat /\ Portion(p, t)' <= task[p].need - 1
      <4>1. CASE r.pc = "create"
        BY <1>1, <1>2, <2>2, <4>1 DEF Portion, Creating, At
      <4>2. CASE r.pc # "create"
        BY <1>1, <1>2, <4>2 DEF Portion, Creating, At
      <4> QED
        BY <4>1, <4>2
    <3>6. /\ Portion(p, t)' <= Portion(p, t)
          /\ Cardinality(Ready(t)') + Portion(p, t)'
                <= Cardinality(Ready(t)) + Portion(p, t)
      BY <1>2, <2>1, <3>2, <3>3, <3>4, <3>5
    <3> QED
      BY <1>1, <3>6, BudgetStep DEF InFlight
  <2>3. CASE task[p].tpl # t
    <3>1. Ready(t)' = Ready(t)
      BY <1>2, <2>3 DEF Ready
    <3>2. Portion(p, t)' = 0 /\ Portion(p, t) = 0
      BY <1>1, <2>3 DEF Portion, Creating, At
    <3>3. /\ Portion(p, t)' <= Portion(p, t)
          /\ Cardinality(Ready(t)') + Portion(p, t)'
                <= Cardinality(Ready(t)) + Portion(p, t)
      BY <2>1, <3>1, <3>2
    <3> QED
      BY <1>1, <3>3, BudgetStep DEF InFlight
  <2> QED
    BY <2>2, <2>3
<1> QED
  BY <1>1, <1>3, InFlightStep

(* Replenishing plans within the share of a task that is not a caller. *)
LEMMA CapacityShare ==
    ASSUME TypeOK, ScaledCaps, NEW p \in Creators, p \notin Callers, NEW t \in Templates
    PROVE  TargetCapacity(t) \in Nat /\ TargetCapacity(t) <= Share(p, t)
<1>1. TargetCapacity(t) \in Nat
  BY TargetType
<1>2. TargetCapacity(t) = BaseTarget[t] \/ TargetCapacity(t) \in ScaleTargets
  BY DEF TargetCapacity, ScaledCaps
<1>3. /\ Scaled \in Nat /\ Most(t) \in Nat
      /\ \A n \in ScaleTargets : n <= Scaled
      /\ Scaled <= Most(t) /\ BaseTarget[t] <= Most(t)
  BY TargetsBounded
<1> QED
  BY <1>1, <1>2, <1>3 DEF Share

LEMMA InFlightKept ==
    ASSUME TypeOK, TypeOK', InFlight, [Next]_vars
    PROVE  InFlight'
<1>0. /\ \A c \in Callers : c \in Creators
      /\ ScaledCaps
  BY DEF Creators, InFlight
<1>1. ASSUME UNCHANGED caps PROVE ScaledCaps'
  BY <1>0, <1>1 DEF ScaledCaps
<1>u. ASSUME Unlisted PROVE InFlight'
  <2>1. UNCHANGED <<status, task>> /\ ScaledCaps'
    BY <1>0, <1>u, UnlistedStep DEF ScaledCaps, TypeOK
  <2> QED
    BY <2>1 DEF InFlight, Planned, Creating, Budget, Pending, Portion, Ready, At
<1>2. ASSUME NEW c \in Callers, ClaimStep(c), ~Unlisted
      PROVE  InFlight'
  <2>1. \E r : Becomes(c, r) /\ r.pc \notin {"create", "boot"}
    BY <1>0, <1>2, ClaimTask, GoToTask, ReturnTask, ReturnedTask, CountTask
    DEF ClaimStep, Unlisted, MarkClaimed, MarkClaimedFails, RestoreSession,
        RestoreSessionFails, SaveMetrics, Labels
  <2>2. UNCHANGED caps /\ \A e \in Entries : status'[e] = "Ready" => status[e] = "Ready"
    <3>1. ASSUME NEW t \in Templates, Claim(c, t) PROVE UNCHANGED <<caps, status>>
      BY <3>1 DEF Claim
    <3>2. CASE Count(c)
      BY <3>2 DEF Count, memory
    <3>3. CASE MarkClaimed(c) \/ MarkClaimedFails(c)
      BY <3>3 DEF MarkClaimed, MarkClaimedFails, TypeOK, memory
    <3>4. CASE RestoreSession(c) \/ RestoreSessionFails(c) \/ SaveMetrics(c)
      BY <3>4 DEF RestoreSession, RestoreSessionFails, SaveMetrics, memory
    <3> QED
      BY <1>2, <3>1, <3>2, <3>3, <3>4 DEF ClaimStep, Unlisted
  <2> QED
    BY <1>0, <1>1, <2>1, <2>2, IdleStep
<1>3. ASSUME NEW c \in Callers, NEW t \in Templates,
             NEW target \in ScaleTargets, Scale(c, t, target)
      PROVE  InFlight'
  <2>1. PICK r : /\ Becomes(c, r) /\ r.pc \in {"create", "idle", "retire"}
                 /\ r.pc = "create" => Sets(r, t, target)
    BY <1>3, ScaleTask
  <2>2. UNCHANGED status /\ caps' = [caps EXCEPT ![t] = target]
    BY <1>3 DEF Scale
  <2>3. ScaledCaps'
    BY <1>0, <2>2 DEF ScaledCaps, TypeOK
  <2>4. target \in Nat /\ target <= Share(c, t)
    BY TargetsAssumption, TargetsBounded DEF Share
  <2> QED
    BY <1>0, <2>1, <2>2, <2>3, <2>4, PlanStep
<1>4. ASSUME NEW c \in Callers, RetireEntry(c)
      PROVE  InFlight'
  <2>1. PICK e \in task[c].victims :
          /\ e \in Entries
          /\ \/ status' = [status EXCEPT ![e] = "Claimed"]
             \/ UNCHANGED status
          /\ \E r : Becomes(c, r) /\ r.pc = "remove"
    BY <1>0, <1>4, RetireTask
  <2>2. UNCHANGED caps /\ \A x \in Entries : status'[x] = "Ready" => status[x] = "Ready"
    BY <1>4, <2>1 DEF RetireEntry, memory, TypeOK
  <2> QED
    BY <1>0, <1>1, <2>1, <2>2, IdleStep
<1>5. ASSUME NEW c \in Callers, RemoveSnapshot(c)
      PROVE  InFlight'
  <2>1. \E r : Becomes(c, r) /\ r.pc \notin {"create", "boot"}
    BY <1>0, <1>5, GoToTask, ReturnTask, ReturnedTask DEF RemoveSnapshot, Labels
  <2>2. UNCHANGED <<caps, status>>
    BY <1>5 DEF RemoveSnapshot, memory
  <2> QED
    BY <1>0, <1>1, <2>1, <2>2, IdleStep
<1>6. ASSUME NEW p \in Creators, NEW e \in Entries, BeginSnapshot(p, e)
      PROVE  InFlight'
  <2>1. PICK r : /\ Becomes(p, r) /\ r.pc = "boot" /\ r.ent = e
                 /\ r.tpl = task[p].tpl /\ r.need = task[p].need
    BY <1>6, BeginTask
  <2>2. /\ At(p, "create") /\ TemplateOf[e] = task[p].tpl
        /\ UNCHANGED <<caps, status>>
    BY <1>6 DEF BeginSnapshot, memory
  <2>3. task'[p] = r /\ \A q \in Creators : q # p => task'[q] = task[q]
    BY <2>1, BecomesTypes
  <2>4. r.need > 0
    BY <2>1, <2>2 DEF InFlight, Planned, Creating
  <2>5. ASSUME NEW t \in Templates PROVE Budget(t)'
    <3>1. Portion(p, t)' = Portion(p, t) /\ Portion(p, t) \in Nat
      BY <2>1, <2>2, <2>3, PortionType DEF Portion, Creating, At
    <3>2. Ready(t)' = Ready(t) /\ Cardinality(Ready(t)) \in Nat
      BY <2>2, ReadyCount DEF Ready
    <3>3. /\ Portion(p, t)' <= Portion(p, t)
          /\ Cardinality(Ready(t)') + Portion(p, t)'
                <= Cardinality(Ready(t)) + Portion(p, t)
      BY <3>1, <3>2
    <3> QED
      BY <2>3, <3>3, BudgetStep DEF InFlight
  <2> QED
    BY <1>1, <2>1, <2>2, <2>4, <2>5, InFlightStep
<1>7. ASSUME NEW p \in Creators, PublishEntry(p)
      PROVE  InFlight'
  <2>1. PICK r : /\ Becomes(p, r) /\ r.pc \in {"create", "idle"}
                 /\ r.pc = "create" => /\ r.tpl = task[p].tpl
                                       /\ r.need > 0 /\ r.need = task[p].need - 1
    BY <1>7, PublishTask
  <2>2. /\ At(p, "boot") /\ UNCHANGED caps
        /\ \A e \in Entries : e # task[p].ent => status'[e] = status[e]
    BY <1>7 DEF PublishEntry, memory, TypeOK
  <2> QED
    BY <1>1, <2>1, <2>2, PublishStep
<1>8. ASSUME NEW p \in Creators, SnapshotFails(p)
      PROVE  InFlight'
  <2>1. Becomes(p, Returned) /\ UNCHANGED caps
    BY <1>8, ReturnTask DEF SnapshotFails
  <2>2. CASE UNCHANGED status
    BY <1>1, <2>1, <2>2, ReturnedTask, IdleStep
  <2>3. CASE At(p, "boot") /\ status' = [status EXCEPT ![task[p].ent] = "Ready"]
    <3>1. \A e \in Entries : e # task[p].ent => status'[e] = status[e]
      BY <2>3 DEF TypeOK
    <3> QED
      BY <1>1, <2>1, <2>3, <3>1, ReturnedTask, PublishStep
  <2> QED
    BY <1>8, <2>2, <2>3 DEF SnapshotFails
<1>9. ASSUME NEW w \in Workers, NEW t \in Templates, StartReplenish(w, t)
      PROVE  InFlight'
  <2>1. w \in Creators /\ w \notin Callers
    BY TasksAssumption DEF Creators
  <2>2. TargetCapacity(t) \in Nat /\ TargetCapacity(t) <= Share(w, t)
    BY <1>0, <2>1, CapacityShare
  <2>3. Plan(w, t, TargetCapacity(t)) /\ UNCHANGED <<caps, status>>
    BY <1>9 DEF StartReplenish
  <2>4. PICK r : /\ Becomes(w, r) /\ r.pc \in {"create", "idle"}
                 /\ r.pc = "create" => Sets(r, t, TargetCapacity(t))
    BY <2>1, <2>2, <2>3, PlanTask
  <2> QED
    BY <1>1, <2>1, <2>2, <2>3, <2>4, PlanStep
<1>10. ASSUME NEW t \in Templates, LoopNext(t)
       PROVE  InFlight'
  <2>1. Loop \in Creators /\ Loop \notin Callers
    BY TasksAssumption DEF Creators
  <2>2. TargetCapacity(t) \in Nat /\ TargetCapacity(t) <= Share(Loop, t)
    BY <1>0, <2>1, CapacityShare
  <2>3. Plan(Loop, t, TargetCapacity(t)) /\ UNCHANGED <<caps, status>>
    BY <1>10 DEF LoopNext
  <2>4. PICK r : /\ Becomes(Loop, r) /\ r.pc \in {"create", "idle"}
                 /\ r.pc = "create" => Sets(r, t, TargetCapacity(t))
    BY <2>1, <2>2, <2>3, PlanTask
  <2> QED
    BY <1>1, <2>1, <2>2, <2>3, <2>4, PlanStep
<1>11. CASE LoopTick \/ UNCHANGED vars
  <2>1. UNCHANGED <<caps, status, task>>
    BY <1>11 DEF LoopTick, vars, memory
  <2> QED
    BY <2>1 DEF InFlight, ScaledCaps, Planned, Creating, Budget, Pending, Portion, Ready, At
<1>12. CASE Crash
  <2>1. /\ \A p \in Creators : task'[p] = Returned
        /\ caps' = [t \in Templates |-> NoTarget] /\ UNCHANGED status
    BY <1>12 DEF Crash
  <2>2. ScaledCaps' /\ \A p \in Creators : Planned(p)'
    BY <2>1, ReturnedTask DEF ScaledCaps, Planned, Creating, At
  <2>3. ASSUME NEW t \in Templates PROVE Budget(t)'
    <3>1. Ready(t)' = Ready(t) /\ Cardinality(Ready(t)) \in Nat
      BY <2>1, ReadyCount DEF Ready
    <3>2. \A p \in Creators : Portion(p, t)' = 0
      BY <2>1, ReturnedTask DEF Portion, Creating, At
    <3>3. Pending(t)' = {}
      BY <3>2 DEF Pending, Slice
    <3>4. /\ Cardinality(Ready(t)) <= Cardinality(Slots(t))
          /\ Cardinality(Slots(t)) \in Nat
      <4>1. Cardinality(Pending(t)) \in Nat
        BY SlotsCount, FS_Subset, FS_CardinalityType DEF InFlight, Budget
      <4>2. Cardinality(Slots(t)) \in Nat
        BY SlotsCount
      <4> QED
        BY <3>1, <4>1, <4>2 DEF InFlight, Budget
    <3> QED
      BY <3>1, <3>3, <3>4, FS_EmptySet DEF Budget
  <2> QED
    BY <2>2, <2>3 DEF InFlight
<1> QED
  BY <1>2, <1>3, <1>4, <1>5, <1>6, <1>7, <1>8, <1>9, <1>10, <1>11, <1>12,
     <1>u
  DEF Next, ScaleStep, CreateStep, WorkerStep, LoopStep, Unlisted

(* However claims, scale and the replenish tasks interleave, fail and die,
   the entries ready of a template never exceed the target of every task that
   can create them at the same time. *)
THEOREM OvershootStaysBounded == Spec => []OvershootBounded
<1>1. Init => InFlight
  <2> SUFFICES ASSUME Init PROVE InFlight
    OBVIOUS
  <2>1. /\ \A p \in Creators : task[p] = Returned
        /\ caps = [t \in Templates |-> NoTarget]
        /\ \A e \in Entries : status[e] = "absent"
    BY DEF Init
  <2>2. ASSUME NEW t \in Templates PROVE Budget(t)
    <3>1. \A p \in Creators : Portion(p, t) = 0
      BY <2>1, ReturnedTask DEF Portion, Creating, At
    <3>2. Pending(t) = {} /\ Ready(t) = {}
      BY <2>1, <3>1 DEF Pending, Slice, Ready
    <3> QED
      BY <3>2, FS_EmptySet, SlotsCount DEF Budget
  <2> QED
    BY <2>1, <2>2, ReturnedTask DEF InFlight, ScaledCaps, Planned, Creating, At
<1>2. TypeOK /\ TypeOK' /\ InFlight /\ [Next]_vars => InFlight'
  BY InFlightKept
<1>3. TypeOK /\ InFlight => OvershootBounded
  <2> SUFFICES ASSUME InFlight, NEW t \in Templates
               PROVE  Cardinality(Ready(t)) <=
                         Most(t) * (Cardinality(Workers) + 1) + Scaled * Cardinality(Callers)
    BY DEF OvershootBounded, Most, Scaled
  <2>1. Cardinality(Pending(t)) \in Nat
    BY SlotsCount, FS_Subset, FS_CardinalityType DEF InFlight, Budget
  <2>2. Cardinality(Ready(t)) + Cardinality(Pending(t)) <= Cardinality(Slots(t))
    BY DEF InFlight, Budget
  <2>3. Cardinality(Ready(t)) \in Nat /\ Cardinality(Slots(t)) \in Nat
    BY ReadyCount, SlotsCount
  <2>4. Cardinality(Ready(t)) <= Cardinality(Slots(t))
    BY <2>1, <2>2, <2>3
  <2> QED
    BY <2>4, SlotsCount
<1> QED
  BY <1>1, <1>2, <1>3, TypeCorrect, PTL DEF Spec
=============================================================================
