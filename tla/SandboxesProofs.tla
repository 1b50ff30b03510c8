-------------------------- MODULE SandboxesProofs --------------------------
(***************************************************************************)
(* Proofs about Sandboxes, for any microVMs, callers, threads and number of*)
(* faults: the types, that a fork returns its own Session, and that no more*)
(* microVMs come to harm than calls fail, are cancelled, or lose a fork.   *)
(***************************************************************************)
EXTENDS Sandboxes, FiniteSetTheorems, TLAPS

Pcs == {"idle", "spawned", "configuring", "pausing", "snapshotting", "resuming", "resumed",
        "forked"}
Job == [pc : Pcs, keep : Callers \cup {"manager", "nobody"}, kind : DOMAIN Requests,
        vm : Vms \cup {None}, source : Vms \cup {None}, borrows : BOOLEAN, sent : Nat]

Keepers == Callers \cup Threads \cup {"manager", "nobody"}

\* What a call keeps to, whatever it is in the middle of.
Formed(c, k) ==
    /\ k.keep \in {c, "manager", "nobody"}
    /\ k.sent < Len(Requests[k.kind])
    /\ k.pc = "idle" => ~ k.borrows /\ k.source = None
    /\ k.pc \notin {"spawned", "configuring", "forked"} => k.vm = None
    /\ k.pc \in {"spawned", "configuring"} => k.vm # None
    /\ k.pc \in {"spawned", "configuring"} /\ k.source = None => k.keep # "nobody"
    /\ k.pc \in {"pausing", "snapshotting", "resuming", "resumed", "forked"} => k.source # None
    /\ k.source # None => k.vm # k.source

Types ==
    /\ proc \in [Vms -> {"none", "booting", "up", "paused", "held", "gone"}]
    /\ owner \in [Vms -> Keepers]
    /\ task \in [Callers -> Job]
    /\ \A c \in Callers : Formed(c, task[c])
    /\ thread \in [Threads -> Callers \cup {None}]
    /\ faults \in 0 .. MaxFaults
    /\ overwritten \subseteq Vms

\* A call has the microVM it makes, and nobody else can touch the one it forks.
Making(c) ==
    task[c].pc \in {"spawned", "configuring"} => owner[task[c].vm] = c

Using(c) ==
    task[c].source # None =>
        \/ owner[task[c].source] = c
        \/ owner[task[c].source] = "manager" /\ task[c].borrows

\* The source of a fork runs again once it was resumed.
Resumed(c) ==
    task[c].source # None /\ task[c].pc \in {"resumed", "spawned", "configuring", "forked"} =>
        proc[task[c].source] # "paused"

Holds(c) == Making(c) /\ Using(c) /\ Resumed(c)

\* One call at a time borrows the manager.
OneBorrower ==
    \A c \in Callers, d \in Callers : task[c].borrows /\ task[d].borrows => c = d

\* The cell of a thread that runs a fork to its end has what the fork put there.
Cells ==
    \A t \in Threads, c \in Callers : thread[t] = c =>
        /\ task[c].pc = "forked"
        /\ \A v \in Vms : owner[v] = t => v = task[c].vm

\* A caller runs on one thread.
OneThread ==
    \A t \in Threads, u \in Threads : thread[t] = thread[u] /\ thread[t] # None => t = u

\* A Session that was dropped is gone for good.
Dropped == \A v \in overwritten : owner[v] = "nobody" /\ proc[v] # "none"

\* A microVM that was not spawned has no owner yet.
Unspawned == \A v \in Vms : proc[v] = "none" => owner[v] = "nobody"

\* The microVMs without an owner, and those left paused.
Damaged ==
    {v \in Vms : /\ Live(v)
                 /\ \/ owner[v] = "nobody"
                    \/ proc[v] = "paused" /\ \A c \in Callers : task[c].source # v}

Paid == Cardinality(Damaged) <= faults + Cardinality(overwritten)

Rest ==
    /\ Types
    /\ \A c \in Callers : Holds(c)
    /\ OneBorrower
    /\ Cells
    /\ OneThread
    /\ Dropped
    /\ Unspawned
    /\ ForkReturnsOwn

Inv == Rest /\ Paid

-----------------------------------------------------------------------------
(* Records, names and numbers *)

\* Every kind of microVM takes at least one request.
LEMMA KindsHave ==
    /\ DOMAIN Requests = {"session", "vm", "restored"}
    /\ \A kind \in DOMAIN Requests : Len(Requests[kind]) \in Nat \ {0}
<1>1. DOMAIN Requests = {"session", "vm", "restored"}
  BY DEF Requests
<1>2. Len(Requests["session"]) = 6
  BY DEF Requests
<1>3. Len(Requests["vm"]) = 5
  BY DEF Requests
<1>4. Len(Requests["restored"]) = 1
  BY DEF Requests
<1>5. ASSUME NEW kind \in DOMAIN Requests PROVE Len(Requests[kind]) \in Nat \ {0}
  <2>1. CASE kind = "session"
    BY <1>2, <2>1
  <2>2. CASE kind = "vm"
    BY <1>3, <2>2
  <2>3. CASE kind = "restored"
    BY <1>4, <2>3
  <2> QED BY <1>1, <2>1, <2>2, <2>3
<1> QED BY <1>1, <1>5

LEMMA IdleJob ==
    /\ Idle \in Job /\ Idle.pc = "idle" /\ Idle.vm = None /\ Idle.source = None
    /\ ~ Idle.borrows
    /\ \A c \in Callers : Formed(c, Idle)
<1>1. /\ Idle.pc = "idle" /\ Idle.keep = "nobody" /\ Idle.kind = "session" /\ Idle.vm = None
      /\ Idle.source = None /\ Idle.borrows = FALSE /\ Idle.sent = 0
  BY DEF Idle
<1>2. Idle \in Job
  BY KindsHave DEF Idle, Job, Pcs
<1>3. Len(Requests["session"]) \in Nat \ {0}
  BY KindsHave
<1>4. \A c \in Callers : Formed(c, Idle)
  BY <1>1, <1>3 DEF Formed
<1> QED BY <1>1, <1>2, <1>4

\* Nobody's name is somebody else's.
LEMMA Names ==
    /\ \A c \in Callers : c \notin Threads /\ c \notin {"manager", "nobody", None}
    /\ \A t \in Threads : t \notin Callers /\ t \notin {"manager", "nobody", None}
    /\ None \notin Vms
  BY SandboxAssumption

\* What Types says of one call and of one microVM.
LEMMA Shapes ==
    ASSUME Types
    PROVE  /\ \A c \in Callers : task[c] \in Job /\ Formed(c, task[c])
           /\ \A v \in Vms : owner[v] \in Keepers
           /\ faults \in Nat /\ MaxFaults \in Nat
           /\ IsFiniteSet(Damaged) /\ IsFiniteSet(overwritten)
<1>1. IsFiniteSet(Vms) /\ MaxFaults \in Nat
  BY SandboxAssumption
<1>2. Damaged \subseteq Vms /\ overwritten \subseteq Vms
  BY DEF Damaged, Types
<1>3. IsFiniteSet(Damaged) /\ IsFiniteSet(overwritten)
  BY <1>1, <1>2, FS_Subset
<1> QED BY <1>1, <1>3 DEF Types

-----------------------------------------------------------------------------
(* Counting *)

LEMMA Unharmed ==
    ASSUME Types, Paid, faults' \in Nat, faults <= faults', overwritten' = overwritten,
           Damaged' \subseteq Damaged
    PROVE  Paid'
<1>1. /\ IsFiniteSet(Damaged) /\ IsFiniteSet(overwritten) /\ faults \in Nat
      /\ Cardinality(Damaged) \in Nat /\ Cardinality(overwritten) \in Nat
  BY Shapes, FS_CardinalityType
<1>2. Cardinality(Damaged') <= Cardinality(Damaged) /\ Cardinality(Damaged') \in Nat
  BY <1>1, FS_Subset, FS_CardinalityType
<1>3. Cardinality(Damaged)' = Cardinality(Damaged')
  OBVIOUS
<1> QED BY <1>1, <1>2, <1>3 DEF Paid

LEMMA HarmedOne ==
    ASSUME Types, Paid, faults' = faults + 1, overwritten' = overwritten,
           NEW x, Damaged' \subseteq Damaged \cup {x}
    PROVE  Paid'
<1>1. /\ IsFiniteSet(Damaged) /\ IsFiniteSet(overwritten) /\ faults \in Nat
      /\ Cardinality(Damaged) \in Nat /\ Cardinality(overwritten) \in Nat
  BY Shapes, FS_CardinalityType
<1>2. /\ IsFiniteSet(Damaged \cup {x})
      /\ Cardinality(Damaged \cup {x}) \in Nat
      /\ Cardinality(Damaged \cup {x}) <= Cardinality(Damaged) + 1
  <2>1. /\ IsFiniteSet(Damaged \cup {x})
        /\ Cardinality(Damaged \cup {x})
             = IF x \in Damaged THEN Cardinality(Damaged) ELSE Cardinality(Damaged) + 1
    BY <1>1, FS_AddElement
  <2> QED BY <1>1, <2>1
<1>3. /\ Cardinality(Damaged') <= Cardinality(Damaged \cup {x})
      /\ Cardinality(Damaged') \in Nat
  BY <1>2, FS_Subset, FS_CardinalityType
<1> QED BY <1>1, <1>2, <1>3 DEF Paid

LEMMA HarmedCell ==
    ASSUME Types, Paid, faults' = faults,
           NEW S \in SUBSET Vms, S \cap overwritten = {}, overwritten' = overwritten \cup S,
           Damaged' \subseteq Damaged \cup S
    PROVE  Paid'
<1>1. /\ IsFiniteSet(Damaged) /\ IsFiniteSet(overwritten) /\ faults \in Nat
      /\ IsFiniteSet(S) /\ IsFiniteSet(Damaged \cap S)
  BY Shapes, FS_Subset, SandboxAssumption
<1>2. /\ Cardinality(Damaged) \in Nat /\ Cardinality(overwritten) \in Nat
      /\ Cardinality(S) \in Nat /\ Cardinality(Damaged \cap S) \in Nat
  BY <1>1, FS_CardinalityType
<1>3. /\ IsFiniteSet(Damaged \cup S)
      /\ Cardinality(Damaged \cup S) = Cardinality(Damaged) + Cardinality(S) - Cardinality(Damaged \cap S)
  BY <1>1, FS_Union
<1>4. Cardinality(overwritten \cup S) = Cardinality(overwritten) + Cardinality(S)
  <2>1. Cardinality(overwritten \cup S)
            = Cardinality(overwritten) + Cardinality(S) - Cardinality(overwritten \cap S)
    BY <1>1, FS_Union
  <2>2. Cardinality(overwritten \cap S) = 0
    <3>1. overwritten \cap S = {}
      OBVIOUS
    <3> QED BY <3>1, FS_EmptySet
  <2> QED BY <1>2, <2>1, <2>2
<1>5. /\ Cardinality(Damaged') <= Cardinality(Damaged \cup S)
      /\ Cardinality(Damaged') \in Nat
  BY <1>3, FS_Subset, FS_CardinalityType
<1> QED BY <1>1, <1>2, <1>3, <1>4, <1>5 DEF Paid

-----------------------------------------------------------------------------
(* What a step of a caller c leaves to the others *)

\* Only what nobody else counts on changes its owner, and what runs has one.
OwnerStep(c, v) ==
    \/ owner'[v] = owner[v]
    \/ /\ owner'[v] \notin Threads
       /\ owner[v] \notin Callers \ {c}
       /\ owner[v] = "manager" => \A d \in Callers \ {c} : ~ task[d].borrows
       /\ owner[v] = "nobody" => proc[v] = "none"
       /\ proc'[v] # "none"

ProcStep(c, v) ==
    \/ proc'[v] = proc[v]
    \/ /\ proc'[v] # "none"
       /\ proc'[v] = "paused" => v = task[c].source
       /\ Live(v)' => owner'[v] # "nobody"

Moves(c, n) ==
    /\ n \in Job /\ Formed(c, n) /\ task' = [task EXCEPT ![c] = n]
    /\ proc' \in [Vms -> {"none", "booting", "up", "paused", "held", "gone"}]
    /\ owner' \in [Vms -> Keepers]
    /\ faults' \in 0 .. MaxFaults
    /\ thread' = thread /\ pairs' = pairs /\ overwritten' = overwritten
    /\ task[c].pc # "forked"
    /\ n.borrows => task[c].borrows \/ ~ Borrowed
    /\ \A v \in Vms : OwnerStep(c, v) /\ ProcStep(c, v)
    /\ Holds(c)'

\* Two calls never use the same microVM.
LEMMA SoleSource ==
    ASSUME Rest, NEW c \in Callers, NEW d \in Callers, task[c].source # None,
           task[d].source = task[c].source
    PROVE  c = d
<1>1. Using(c) /\ Using(d)
  BY DEF Rest, Holds
<1> QED BY <1>1, Names DEF Using, Rest, OneBorrower

LEMMA MovesPreserves ==
    ASSUME Rest, NEW c \in Callers, NEW n, Moves(c, n)
    PROVE  Rest'
<1> USE DEF Moves
<1>1. task \in [Callers -> Job]
  BY DEF Rest, Types
<1>2. /\ task' \in [Callers -> Job] /\ task'[c] = n
      /\ \A d \in Callers \ {c} : task'[d] = task[d]
  BY <1>1
<1>3. Types'
  <2>1. \A d \in Callers : Formed(d, task'[d])
    BY <1>2 DEF Rest, Types
  <2>2. thread' \in [Threads -> Callers \cup {None}] /\ overwritten' \subseteq Vms
    BY DEF Rest, Types
  <2> QED BY <1>2, <2>1, <2>2 DEF Types, Formed
<1>4. ASSUME NEW d \in Callers \ {c} PROVE Holds(d)'
  <2>1. /\ task'[d] = task[d] /\ task[d] \in Job /\ Formed(d, task[d])
        /\ Making(d) /\ Using(d) /\ Resumed(d)
    BY <1>2, Shapes DEF Rest, Holds
  <2>2. Making(d)'
    <3> SUFFICES ASSUME task[d].pc \in {"spawned", "configuring"}
                 PROVE  owner'[task[d].vm] = d
      BY <2>1 DEF Making
    <3>1. task[d].vm \in Vms /\ owner[task[d].vm] = d
      BY <2>1 DEF Making, Formed, Job
    <3>2. OwnerStep(c, task[d].vm)
      BY <3>1
    <3> QED BY <3>1, <3>2 DEF OwnerStep
  <2>3. Using(d)'
    <3> SUFFICES ASSUME task[d].source # None
                 PROVE  \/ owner'[task[d].source] = d
                        \/ owner'[task[d].source] = "manager" /\ task[d].borrows
      BY <2>1 DEF Using
    <3>1. /\ task[d].source \in Vms
          /\ \/ owner[task[d].source] = d
             \/ owner[task[d].source] = "manager" /\ task[d].borrows
      BY <2>1 DEF Using, Job
    <3>2. OwnerStep(c, task[d].source)
      BY <3>1
    <3> QED BY <3>1, <3>2 DEF OwnerStep
  <2>4. Resumed(d)'
    <3> SUFFICES ASSUME task[d].source # None,
                        task[d].pc \in {"resumed", "spawned", "configuring", "forked"}
                 PROVE  proc'[task[d].source] # "paused"
      BY <2>1 DEF Resumed
    <3>1. task[d].source \in Vms /\ proc[task[d].source] # "paused"
      BY <2>1 DEF Resumed, Job
    <3>2. ProcStep(c, task[d].source)
      BY <3>1
    <3>3. task[c].source # task[d].source
      BY SoleSource
    <3> QED BY <3>1, <3>2, <3>3 DEF ProcStep
  <2> QED BY <2>2, <2>3, <2>4 DEF Holds
<1>5. OneBorrower'
  BY <1>2 DEF Rest, OneBorrower, Borrowed
<1>6. Cells'
  <2> SUFFICES ASSUME NEW t \in Threads, NEW d \in Callers, thread[t] = d
               PROVE  /\ task'[d].pc = "forked"
                      /\ \A v \in Vms : owner'[v] = t => v = task'[d].vm
    BY DEF Cells
  <2>1. /\ task[d].pc = "forked"
        /\ \A v \in Vms : owner[v] = t => v = task[d].vm
    BY DEF Rest, Cells
  <2>2. task'[d] = task[d]
    BY <1>2, <2>1
  <2>3. \A v \in Vms : owner'[v] = t => owner[v] = t
    BY DEF OwnerStep
  <2> QED BY <2>1, <2>2, <2>3
<1>7. Dropped'
  <2> SUFFICES ASSUME NEW v \in overwritten PROVE owner'[v] = "nobody" /\ proc'[v] # "none"
    BY DEF Dropped
  <2>1. v \in Vms /\ owner[v] = "nobody" /\ proc[v] # "none"
    BY DEF Rest, Types, Dropped
  <2>2. OwnerStep(c, v) /\ ProcStep(c, v)
    BY <2>1
  <2> QED BY <2>1, <2>2 DEF OwnerStep, ProcStep
<1>8. ForkReturnsOwn'
  BY DEF Rest, ForkReturnsOwn
<1>9. \A d \in Callers : Holds(d)'
  BY <1>4
<1>10. Unspawned'
  BY DEF Rest, Unspawned, OwnerStep, ProcStep
<1>11. OneThread'
  BY DEF Rest, OneThread
<1> QED BY <1>3, <1>5, <1>6, <1>7, <1>8, <1>9, <1>10, <1>11 DEF Rest

\* What can come to harm: what loses its owner, and what the call leaves paused.
LEMMA MovesHarm ==
    ASSUME Rest, NEW c \in Callers, NEW n, Moves(c, n), NEW v \in Vms, v \in Damaged'
    PROVE  \/ v \in Damaged
           \/ /\ Live(v)'
              /\ \/ owner'[v] = "nobody" /\ owner[v] # "nobody"
                 \/ v = task[c].source /\ n.source # v /\ proc'[v] = "paused"
<1>1. task \in [Callers -> Job]
  BY DEF Rest, Types
<1>2. task'[c] = n /\ \A d \in Callers \ {c} : task'[d] = task[d]
  BY <1>1 DEF Moves
<1>3. /\ Live(v)'
      /\ \/ owner'[v] = "nobody"
         \/ proc'[v] = "paused" /\ \A d \in Callers : task'[d].source # v
  BY DEF Damaged
<1>4. OwnerStep(c, v) /\ ProcStep(c, v)
  BY DEF Moves
<1>5. CASE owner'[v] = "nobody"
  <2>1. Live(v)
    BY <1>3, <1>4, <1>5 DEF ProcStep, Live
  <2>2. CASE owner[v] = "nobody"
    BY <2>1, <2>2 DEF Damaged
  <2> QED BY <1>3, <1>5, <2>2
<1>6. CASE proc'[v] = "paused" /\ \A d \in Callers : task'[d].source # v
  <2>1. n.source # v
    BY <1>2, <1>6
  <2>2. CASE v = task[c].source
    BY <1>3, <1>6, <2>1, <2>2
  <2>3. CASE v # task[c].source
    <3>1. proc[v] = "paused"
      BY <1>4, <1>6, <2>3 DEF ProcStep
    <3>2. \A d \in Callers : task[d].source # v
      BY <1>2, <1>6, <2>3
    <3> QED BY <3>1, <3>2 DEF Damaged, Live
  <2> QED BY <2>2, <2>3
<1> QED BY <1>3, <1>5, <1>6

-----------------------------------------------------------------------------
(* The steps of a caller *)

\* A step after which nobody is worse off.
LEMMA MovesQuietly ==
    ASSUME Inv, NEW c \in Callers, NEW n, Moves(c, n), faults <= faults',
           \A v \in Vms : Live(v)' =>
              /\ owner'[v] = "nobody" => owner[v] = "nobody"
              /\ v = task[c].source /\ n.source # v => proc'[v] # "paused"
    PROVE  Inv'
<1>1. Rest /\ Paid /\ Types
  BY DEF Inv, Rest
<1>2. Rest'
  BY <1>1, MovesPreserves
<1>3. Damaged' \subseteq Damaged
  <2> SUFFICES ASSUME NEW v \in Damaged' PROVE v \in Damaged
    OBVIOUS
  <2>1. v \in Vms
    BY DEF Damaged
  <2> QED BY <1>1, <2>1, MovesHarm
<1>4. faults' \in Nat /\ overwritten' = overwritten
  BY DEF Moves
<1> QED BY <1>1, <1>2, <1>3, <1>4, Unharmed DEF Inv

\* A call that ends with an error leaves one microVM behind at most.
LEMMA AbandonStep ==
    ASSUME Inv, NEW c \in Callers, task[c].pc # "forked", Abandon(c),
           Fails(c), proc' = proc \/ Kill(task[c].vm)
    PROVE  Inv'
<1>1. Rest /\ Paid /\ Types
  BY DEF Inv, Rest
<1>2. /\ task[c] \in Job /\ Formed(c, task[c]) /\ Making(c) /\ Using(c) /\ Resumed(c)
      /\ faults \in Nat /\ MaxFaults \in Nat
  BY <1>1, Shapes DEF Rest, Holds
<1>3. /\ task' = [task EXCEPT ![c] = Idle]
      /\ owner' = [v \in Vms |-> IF v = task[c].vm THEN "nobody" ELSE owner[v]]
      /\ thread' = thread /\ pairs' = pairs /\ overwritten' = overwritten
  BY DEF Abandon, Return
<1>4. task'[c] = Idle
  BY <1>1, <1>3 DEF Types
<1>5. /\ proc' \in [Vms -> {"none", "booting", "up", "paused", "held", "gone"}]
      /\ \A v \in Vms : proc'[v] = proc[v] \/ proc'[v] = "gone"
  BY <1>1 DEF Kill, Types
<1>6. faults' \in 0 .. MaxFaults
  BY <1>1, <1>2 DEF Fails, Types
<1>7. ASSUME NEW v \in Vms PROVE OwnerStep(c, v) /\ ProcStep(c, v)
  <2>1. ProcStep(c, v)
    BY <1>5 DEF ProcStep, Live
  <2>2. OwnerStep(c, v)
    <3>1. CASE v # task[c].vm
      BY <1>3, <3>1 DEF OwnerStep
    <3>2. CASE v = task[c].vm
      <4>1. owner[v] = c
        BY <1>2, <3>2, Names DEF Formed, Making
      <4>2. proc[v] # "none" /\ proc'[v] # "none"
        BY <1>1, <1>5, <4>1, Names DEF Rest, Unspawned
      <4> QED BY <1>3, <3>2, <4>1, <4>2, Names DEF OwnerStep
    <3> QED BY <3>1, <3>2
  <2> QED BY <2>1, <2>2
<1>8. Moves(c, Idle)
  <2>1. owner' \in [Vms -> Keepers]
    BY <1>1, <1>3 DEF Types, Keepers
  <2>2. Holds(c)'
    BY <1>4, IdleJob DEF Holds, Making, Using, Resumed
  <2> QED BY <1>3, <1>5, <1>6, <1>7, <2>1, <2>2, IdleJob DEF Moves
<1>9. Rest'
  BY <1>1, <1>8, MovesPreserves
<1>10. Damaged' \subseteq Damaged \cup {v \in {Peer(c)} : Live(v)'}
  <2> SUFFICES ASSUME NEW v \in Damaged', v \notin Damaged PROVE v = Peer(c) /\ Live(v)'
    OBVIOUS
  <2>1. v \in Vms
    BY DEF Damaged
  <2>2. /\ Live(v)'
        /\ \/ owner'[v] = "nobody" /\ owner[v] # "nobody"
           \/ v = task[c].source /\ proc'[v] = "paused"
    BY <1>1, <1>8, <2>1, MovesHarm
  <2>3. CASE owner'[v] = "nobody" /\ owner[v] # "nobody"
    BY <1>3, <2>1, <2>2, <2>3, Names DEF Peer
  <2>4. CASE v = task[c].source /\ proc'[v] = "paused"
    <3>1. proc[v] = "paused"
      BY <1>5, <2>1, <2>4
    <3>2. task[c].vm = None
      BY <1>2, <2>1, <2>4, <3>1, Names DEF Resumed, Formed
    <3> QED BY <2>2, <2>4, <3>2 DEF Peer
  <2> QED BY <2>2, <2>3, <2>4
<1>11. CASE faults' = faults + 1
  BY <1>1, <1>3, <1>9, <1>10, <1>11, HarmedOne DEF Inv
<1>12. CASE ~ Live(Peer(c)) /\ faults' = faults
  <2>1. ASSUME NEW v \in Vms, v = Peer(c) PROVE ~ Live(v)'
    BY <1>5, <1>12, <2>1 DEF Live
  <2>2. Damaged' \subseteq Damaged
    BY <1>10, <2>1 DEF Damaged
  <2> QED BY <1>1, <1>2, <1>3, <1>9, <1>12, <2>2, Unharmed DEF Inv
<1> QED BY <1>11, <1>12 DEF Fails

\* A step that changes nothing but what a caller is in the middle of.
LEMMA CallerStep ==
    ASSUME Inv, NEW c \in Callers, NEW n \in Job, Formed(c, n), task' = [task EXCEPT ![c] = n],
           UNCHANGED <<proc, owner, thread, pairs, faults, overwritten>>,
           task[c].pc # "forked", n.borrows => task[c].borrows \/ ~ Borrowed,
           task[c].source \in {None, n.source}, Holds(c)'
    PROVE  Inv'
<1>1. Types
  BY DEF Inv, Rest
<1>2. Moves(c, n)
  <2>1. \A v \in Vms : OwnerStep(c, v) /\ ProcStep(c, v)
    BY DEF OwnerStep, ProcStep
  <2> QED BY <1>1, <2>1 DEF Moves, Types
<1>3. faults <= faults'
  BY <1>1, Shapes
<1>4. \A v \in Vms : /\ owner'[v] = "nobody" => owner[v] = "nobody"
                     /\ ~ (v = task[c].source /\ n.source # v)
  BY Names
<1> QED BY <1>2, <1>3, <1>4, MovesQuietly

\* What Inv says of one call.
LEMMA CallShapes ==
    ASSUME Inv, NEW c \in Callers
    PROVE  /\ Types /\ task \in [Callers -> Job] /\ faults \in Nat /\ MaxFaults \in Nat
           /\ faults \in 0 .. MaxFaults
           /\ proc \in [Vms -> {"none", "booting", "up", "paused", "held", "gone"}]
           /\ owner \in [Vms -> Keepers]
           /\ task[c] \in Job /\ Formed(c, task[c])
           /\ Holds(c) /\ Making(c) /\ Using(c) /\ Resumed(c)
<1>1. Types /\ Holds(c)
  BY DEF Inv, Rest
<1> QED BY <1>1, Shapes DEF Holds, Types

LEMMA SocketReadyStep ==
    ASSUME Inv, NEW c \in Callers, SocketReady(c)
    PROVE  Inv'
<1> DEFINE n == [task[c] EXCEPT !.pc = "configuring"]
<1>1. /\ task[c] \in Job /\ Formed(c, task[c]) /\ Holds(c) /\ task \in [Callers -> Job]
  BY CallShapes
<1>2. /\ n \in Job /\ n.pc = "configuring" /\ n.keep = task[c].keep /\ n.kind = task[c].kind
      /\ n.vm = task[c].vm /\ n.source = task[c].source /\ n.borrows = task[c].borrows
      /\ n.sent = task[c].sent
  BY <1>1 DEF Job, Pcs
<1>3. /\ task' = [task EXCEPT ![c] = n] /\ task[c].pc = "spawned"
      /\ UNCHANGED <<proc, owner, thread, pairs, faults, overwritten>>
  BY DEF SocketReady
<1> HIDE DEF n
<1>4. Formed(c, n)
  BY <1>1, <1>2, <1>3 DEF Formed
<1>5. task'[c] = n
  BY <1>1, <1>3
<1>6. Holds(c)'
  BY <1>1, <1>2, <1>3, <1>5 DEF Holds, Making, Using, Resumed
<1> QED BY <1>2, <1>3, <1>4, <1>6, CallerStep

LEMMA AcceptedStep ==
    ASSUME Inv, NEW c \in Callers, Accepted(c)
    PROVE  Inv'
<1> DEFINE n == [task[c] EXCEPT !.sent = task[c].sent + 1]
<1>1. /\ task[c] \in Job /\ Formed(c, task[c]) /\ Holds(c) /\ task \in [Callers -> Job]
  BY CallShapes
<1>2. /\ n \in Job /\ n.pc = task[c].pc /\ n.keep = task[c].keep /\ n.kind = task[c].kind
      /\ n.vm = task[c].vm /\ n.source = task[c].source /\ n.borrows = task[c].borrows
      /\ n.sent = task[c].sent + 1
  BY <1>1 DEF Job, Pcs
<1>3. /\ task' = [task EXCEPT ![c] = n] /\ task[c].pc = "configuring"
      /\ ~ LastRequest(c)
      /\ UNCHANGED <<proc, owner, thread, pairs, faults, overwritten>>
  BY DEF Accepted
<1> HIDE DEF n
<1>4. n.sent < Len(Requests[n.kind])
  <2>1. /\ task[c].sent \in Nat /\ task[c].kind \in DOMAIN Requests
        /\ Len(Requests[task[c].kind]) \in Nat
    BY <1>1, KindsHave DEF Job
  <2> QED BY <1>1, <1>2, <1>3, <2>1 DEF LastRequest, Formed
<1>5. Formed(c, n)
  BY <1>1, <1>2, <1>3, <1>4 DEF Formed
<1>6. task'[c] = n
  BY <1>1, <1>3
<1>7. Holds(c)'
  BY <1>1, <1>2, <1>3, <1>6 DEF Holds, Making, Using, Resumed
<1> QED BY <1>2, <1>3, <1>5, <1>7, CallerStep

\* An owner is the caller itself, or the manager that nobody borrows.
LEMMA ForkStarts ==
    ASSUME Inv, NEW c \in Callers, NEW v \in Vms, NEW keep \in {c, "nobody"}, Fork(c, v, keep)
    PROVE  Inv'
<1> DEFINE n == [pc |-> "pausing", keep |-> keep, kind |-> "restored", vm |-> None,
                 source |-> v, borrows |-> (owner[v] = "manager"), sent |-> 0]
<1>1. /\ task[c] \in Job /\ Formed(c, task[c]) /\ task \in [Callers -> Job]
  BY CallShapes
<1>2. /\ n.pc = "pausing" /\ n.keep = keep /\ n.kind = "restored" /\ n.vm = None /\ n.source = v
      /\ n.borrows = (owner[v] = "manager") /\ n.sent = 0
  OBVIOUS
<1>3. n \in Job
  BY KindsHave DEF Job, Pcs
<1>4. /\ task' = [task EXCEPT ![c] = n] /\ task[c].pc = "idle" /\ Owns(c, v)
      /\ UNCHANGED <<proc, owner, thread, pairs, faults, overwritten>>
  BY DEF Fork
<1> HIDE DEF n
<1>5. Formed(c, n)
  BY <1>2, KindsHave, Names DEF Formed
<1>6. task'[c] = n
  BY <1>1, <1>4
<1>7. Holds(c)'
  BY <1>2, <1>4, <1>6 DEF Holds, Making, Using, Resumed, Owns
<1>8. task[c].source = None
  BY <1>1, <1>4 DEF Formed
<1>9. n.borrows => ~ Borrowed
  BY <1>2, <1>4, Names DEF Owns
<1> QED BY <1>3, <1>4, <1>5, <1>7, <1>8, <1>9, CallerStep

\* What is spawned was nobody's, and is the caller's now.
LEMMA SpawnSteps ==
    ASSUME Inv, NEW c \in Callers, NEW v \in Vms, Spawn(c, v)
    PROVE  /\ proc' \in [Vms -> {"none", "booting", "up", "paused", "held", "gone"}]
           /\ owner' \in [Vms -> Keepers] /\ owner'[v] = c
           /\ \A w \in Vms : proc'[w] = IF w = v THEN "booting" ELSE proc[w]
           /\ \A w \in Vms \ {v} : owner'[w] = owner[w]
           /\ \A w \in Vms : owner'[w] = "nobody" => owner[w] = "nobody"
<1>1. /\ proc \in [Vms -> {"none", "booting", "up", "paused", "held", "gone"}]
      /\ owner \in [Vms -> Keepers]
  BY CallShapes
<1> QED BY <1>1, Names DEF Spawn, Keepers

LEMMA CreateStep ==
    ASSUME Inv, NEW c \in Callers, NEW v \in Vms, NEW kind \in DOMAIN Requests,
           NEW keep \in {c, "manager"}, Create(c, v, kind, keep)
    PROVE  Inv'
<1> DEFINE n == [pc |-> "spawned", keep |-> keep, kind |-> kind, vm |-> v, source |-> None,
                 borrows |-> (keep = "manager"), sent |-> 0]
<1>1. /\ task[c] \in Job /\ Formed(c, task[c]) /\ task \in [Callers -> Job] /\ Types
      /\ faults \in 0 .. MaxFaults /\ faults \in Nat
  BY CallShapes
<1>2. /\ n.pc = "spawned" /\ n.keep = keep /\ n.kind = kind /\ n.vm = v /\ n.source = None
      /\ n.borrows = (keep = "manager") /\ n.sent = 0
  OBVIOUS
<1>3. n \in Job
  BY DEF Job, Pcs
<1>4. /\ task' = [task EXCEPT ![c] = n] /\ task[c].pc = "idle" /\ Spawn(c, v)
      /\ keep = "manager" => ~ Borrowed
      /\ UNCHANGED <<thread, pairs, faults, overwritten>>
  BY DEF Create
<1> HIDE DEF n
<1>5. Formed(c, n)
  BY <1>2, KindsHave, Names DEF Formed
<1>6. task'[c] = n
  BY <1>1, <1>4
<1>7. /\ proc' \in [Vms -> {"none", "booting", "up", "paused", "held", "gone"}]
      /\ owner' \in [Vms -> Keepers] /\ owner'[v] = c
      /\ \A w \in Vms : proc'[w] = IF w = v THEN "booting" ELSE proc[w]
      /\ \A w \in Vms \ {v} : owner'[w] = owner[w]
      /\ \A w \in Vms : owner'[w] = "nobody" => owner[w] = "nobody"
  BY <1>4, SpawnSteps
<1>8. proc[v] = "none" /\ owner[v] = "nobody"
  BY <1>4 DEF Spawn, Inv, Rest, Unspawned
<1>9. Moves(c, n)
  <2>1. Holds(c)'
    BY <1>2, <1>6, <1>7 DEF Holds, Making, Using, Resumed
  <2>2. ASSUME NEW w \in Vms PROVE OwnerStep(c, w) /\ ProcStep(c, w)
    BY <1>7, <1>8, Names DEF OwnerStep, ProcStep
  <2> QED BY <1>1, <1>2, <1>3, <1>4, <1>5, <1>7, <2>1, <2>2 DEF Moves
<1>10. task[c].source = None
  BY <1>1, <1>4 DEF Formed
<1> QED BY <1>1, <1>4, <1>7, <1>9, <1>10, Names, MovesQuietly

LEMMA SpawnForkStep ==
    ASSUME Inv, NEW c \in Callers, NEW v \in Vms, SpawnFork(c, v)
    PROVE  Inv'
<1> DEFINE n == [task[c] EXCEPT !.pc = "spawned", !.vm = v]
<1>1. /\ task[c] \in Job /\ Formed(c, task[c]) /\ task \in [Callers -> Job] /\ Types
      /\ faults \in 0 .. MaxFaults /\ faults \in Nat /\ Using(c) /\ Resumed(c)
  BY CallShapes
<1>2. /\ n \in Job /\ n.pc = "spawned" /\ n.keep = task[c].keep /\ n.kind = task[c].kind
      /\ n.vm = v /\ n.source = task[c].source /\ n.borrows = task[c].borrows
      /\ n.sent = task[c].sent
  BY <1>1 DEF Job, Pcs
<1>3. /\ task' = [task EXCEPT ![c] = n] /\ task[c].pc = "resumed" /\ Spawn(c, v)
      /\ UNCHANGED <<thread, pairs, faults, overwritten>>
  BY DEF SpawnFork
<1> HIDE DEF n
<1>4. task'[c] = n
  BY <1>1, <1>3
<1>5. /\ proc' \in [Vms -> {"none", "booting", "up", "paused", "held", "gone"}]
      /\ owner' \in [Vms -> Keepers] /\ owner'[v] = c
      /\ \A w \in Vms : proc'[w] = IF w = v THEN "booting" ELSE proc[w]
      /\ \A w \in Vms \ {v} : owner'[w] = owner[w]
      /\ \A w \in Vms : owner'[w] = "nobody" => owner[w] = "nobody"
  BY <1>3, SpawnSteps
<1>6. proc[v] = "none" /\ owner[v] = "nobody"
  BY <1>3 DEF Spawn, Inv, Rest, Unspawned
<1>7. task[c].source \in Vms /\ task[c].source # v
  <2>1. task[c].source \in Vms
    BY <1>1, <1>3 DEF Formed, Job
  <2> QED BY <1>1, <1>6, <2>1, Names DEF Using
<1>8. Formed(c, n)
  BY <1>1, <1>2, <1>3, <1>7, Names DEF Formed
<1>9. Moves(c, n)
  <2>1. Holds(c)'
    BY <1>1, <1>2, <1>3, <1>4, <1>5, <1>7 DEF Holds, Making, Using, Resumed
  <2>2. ASSUME NEW w \in Vms PROVE OwnerStep(c, w) /\ ProcStep(c, w)
    BY <1>5, <1>6, Names DEF OwnerStep, ProcStep
  <2> QED BY <1>1, <1>2, <1>3, <1>8, <1>5, <2>1, <2>2 DEF Moves
<1> QED BY <1>1, <1>2, <1>3, <1>5, <1>9, MovesQuietly

LEMMA StartedStep ==
    ASSUME Inv, NEW c \in Callers, Started(c)
    PROVE  Inv'
<1>1. /\ task[c] \in Job /\ Formed(c, task[c]) /\ task \in [Callers -> Job] /\ Types
      /\ faults \in 0 .. MaxFaults /\ faults \in Nat /\ Making(c)
      /\ proc \in [Vms -> {"none", "booting", "up", "paused", "held", "gone"}]
      /\ owner \in [Vms -> Keepers]
  BY CallShapes
<1>2. PICK v : v = task[c].vm
  OBVIOUS
<1>3. /\ task' = [task EXCEPT ![c] = Idle] /\ task[c].pc = "configuring"
      /\ task[c].source = None /\ Live(v)
      /\ proc' = [proc EXCEPT ![v] = "up"]
      /\ owner' = [owner EXCEPT ![v] = task[c].keep]
      /\ UNCHANGED <<thread, pairs, faults, overwritten>>
  BY <1>2 DEF Started, Return
<1>4. v \in Vms /\ owner[v] = c /\ task[c].keep \in {c, "manager"}
  BY <1>1, <1>2, <1>3 DEF Formed, Job, Making
<1>5. task'[c] = Idle
  BY <1>1, <1>3
<1>6. /\ proc' \in [Vms -> {"none", "booting", "up", "paused", "held", "gone"}]
      /\ owner' \in [Vms -> Keepers]
  BY <1>1, <1>3, <1>4 DEF Keepers
<1>7. Moves(c, Idle)
  <2>1. Holds(c)'
    BY <1>5, IdleJob DEF Holds, Making, Using, Resumed
  <2>2. ASSUME NEW w \in Vms PROVE OwnerStep(c, w) /\ ProcStep(c, w)
    BY <1>1, <1>3, <1>4, Names DEF OwnerStep, ProcStep
  <2> QED BY <1>3, <1>1, <1>6, <2>1, <2>2, IdleJob DEF Moves
<1>8. \A w \in Vms : owner'[w] = "nobody" => owner[w] = "nobody"
  BY <1>1, <1>3, <1>4, Names
<1> QED BY <1>1, <1>3, <1>7, <1>8, Names, MovesQuietly

\* Whoever may touch a microVM leaves its owner to nobody else.
LEMMA OwnsAlone ==
    ASSUME Inv, NEW c \in Callers, NEW v \in Vms, Owns(c, v)
    PROVE  /\ owner[v] \in {c, "manager"}
           /\ owner[v] = "manager" => \A d \in Callers : ~ task[d].borrows
           /\ proc[v] # "none"
  BY Names DEF Owns, Borrowed, Inv, Rest, Unspawned

LEMMA HoldStep ==
    ASSUME Inv, NEW c \in Callers, NEW v \in Vms, Hold(c, v)
    PROVE  Inv'
<1> DEFINE n == task[c]
<1>1. /\ n \in Job /\ Formed(c, n) /\ task \in [Callers -> Job] /\ Types
      /\ faults \in 0 .. MaxFaults /\ faults \in Nat
      /\ proc \in [Vms -> {"none", "booting", "up", "paused", "held", "gone"}]
      /\ owner \in [Vms -> Keepers]
  BY CallShapes
<1>2. /\ n.pc = "idle" /\ Owns(c, v)
      /\ proc' = [proc EXCEPT ![v] = "held"] \/ proc' = [proc EXCEPT ![v] = "up"]
      /\ UNCHANGED <<owner, task, thread, pairs, faults, overwritten>>
  BY DEF Hold
<1>3. /\ proc' \in [Vms -> {"none", "booting", "up", "paused", "held", "gone"}]
      /\ proc'[v] \in {"held", "up"} /\ \A w \in Vms \ {v} : proc'[w] = proc[w]
  BY <1>1, <1>2
<1>4. n.source = None /\ n.vm = None
  BY <1>1, <1>2 DEF Formed
<1>5. owner[v] \in {c, "manager"}
  BY <1>2, OwnsAlone
<1>6. Moves(c, n)
  <2>1. Holds(c)'
    BY <1>2, <1>4 DEF Holds, Making, Using, Resumed
  <2>2. ASSUME NEW w \in Vms PROVE OwnerStep(c, w) /\ ProcStep(c, w)
    BY <1>2, <1>3, <1>5, Names DEF OwnerStep, ProcStep
  <2>3. task' = [task EXCEPT ![c] = n]
    BY <1>1, <1>2
  <2> QED BY <1>1, <1>2, <1>3, <2>1, <2>2, <2>3 DEF Moves
<1> QED BY <1>1, <1>2, <1>4, <1>6, Names, MovesQuietly

LEMMA EndStep ==
    ASSUME Inv, NEW c \in Callers, NEW v \in Vms, End(c, v)
    PROVE  Inv'
<1> DEFINE n == task[c]
<1>1. /\ n \in Job /\ Formed(c, n) /\ task \in [Callers -> Job] /\ Types /\ Rest /\ Paid
      /\ faults \in 0 .. MaxFaults /\ faults \in Nat /\ MaxFaults \in Nat
      /\ proc \in [Vms -> {"none", "booting", "up", "paused", "held", "gone"}]
      /\ owner \in [Vms -> Keepers]
  BY CallShapes DEF Inv
<1>2. /\ n.pc = "idle" /\ Owns(c, v)
      /\ owner' = [owner EXCEPT ![v] = "nobody"]
      /\ \/ proc' = [proc EXCEPT ![v] = "gone"] /\ faults' = faults
         \/ faults < MaxFaults /\ faults' = faults + 1 /\ proc' = proc
      /\ UNCHANGED <<task, thread, pairs, overwritten>>
  BY DEF End, Kill
<1>3. /\ owner[v] \in {c, "manager"} /\ proc[v] # "none"
      /\ owner[v] = "manager" => \A d \in Callers : ~ task[d].borrows
  BY <1>2, OwnsAlone
<1>4. /\ proc' \in [Vms -> {"none", "booting", "up", "paused", "held", "gone"}]
      /\ owner' \in [Vms -> Keepers] /\ faults' \in 0 .. MaxFaults
  BY <1>1, <1>2 DEF Keepers
<1>5. n.source = None /\ n.vm = None
  BY <1>1, <1>2 DEF Formed
<1>6. Moves(c, n)
  <2>1. Holds(c)'
    BY <1>2, <1>5 DEF Holds, Making, Using, Resumed
  <2>2. ASSUME NEW w \in Vms PROVE OwnerStep(c, w) /\ ProcStep(c, w)
    <3>1. ProcStep(c, w)
      BY <1>1, <1>2 DEF ProcStep, Live
    <3>2. OwnerStep(c, w)
      BY <1>1, <1>2, <1>3, Names DEF OwnerStep
    <3> QED BY <3>1, <3>2
  <2>3. task' = [task EXCEPT ![c] = n]
    BY <1>1, <1>2
  <2> QED BY <1>1, <1>2, <1>4, <2>1, <2>2, <2>3 DEF Moves
<1>7. CASE proc' = [proc EXCEPT ![v] = "gone"] /\ faults' = faults
  <2>1. ~ Live(v)' /\ \A w \in Vms \ {v} : owner'[w] = owner[w]
    BY <1>1, <1>2, <1>7 DEF Live
  <2>2. \A w \in Vms : Live(w)' =>
            /\ owner'[w] = "nobody" => owner[w] = "nobody"
            /\ ~ (w = task[c].source /\ n.source # w)
    BY <2>1
  <2> QED BY <1>1, <1>6, <1>7, <2>2, MovesQuietly
<1>8. CASE faults' = faults + 1
  <2>1. Rest'
    BY <1>1, <1>6, MovesPreserves
  <2>2. Damaged' \subseteq Damaged \cup {v}
    <3> SUFFICES ASSUME NEW w \in Damaged', w \notin Damaged PROVE w = v
      OBVIOUS
    <3>1. w \in Vms
      BY DEF Damaged
    <3>2. owner'[w] # owner[w]
      BY <1>1, <1>6, <3>1, MovesHarm
    <3> QED BY <1>1, <1>2, <3>1, <3>2
  <2> QED BY <1>1, <1>2, <1>8, <2>1, <2>2, HarmedOne DEF Inv
<1> QED BY <1>2, <1>7, <1>8

\* Pausing, taking the snapshot and resuming.
LEMMA ForkSteps ==
    ASSUME Inv, NEW c \in Callers, Pause(c) \/ Snapshot(c) \/ Resume(c)
    PROVE  Inv'
<1>1. PICK pc \in {"pausing", "snapshotting", "resuming"},
           next \in {"snapshotting", "resuming", "resumed"}, status \in {"paused", "up"} :
          ForkStep(c, pc, next, status) /\ (next = "resumed" => status # "paused")
  BY DEF Pause, Snapshot, Resume
<1> DEFINE n == [task[c] EXCEPT !.pc = next]
<1>2. /\ task[c] \in Job /\ Formed(c, task[c]) /\ task \in [Callers -> Job] /\ Types
      /\ faults \in 0 .. MaxFaults /\ faults \in Nat /\ Using(c)
      /\ proc \in [Vms -> {"none", "booting", "up", "paused", "held", "gone"}]
      /\ owner \in [Vms -> Keepers]
  BY CallShapes
<1>3. /\ n \in Job /\ n.pc = next /\ n.keep = task[c].keep /\ n.kind = task[c].kind
      /\ n.vm = task[c].vm /\ n.source = task[c].source /\ n.borrows = task[c].borrows
      /\ n.sent = task[c].sent
  BY <1>2 DEF Job, Pcs
<1>4. PICK s : s = task[c].source
  OBVIOUS
<1>5. /\ task' = [task EXCEPT ![c] = n] /\ task[c].pc = pc
      /\ proc' = [proc EXCEPT ![s] = status]
      /\ UNCHANGED <<owner, thread, pairs, faults, overwritten>>
  BY <1>1, <1>4 DEF ForkStep
<1> HIDE DEF n
<1>6. s \in Vms /\ n.source = s
  BY <1>2, <1>3, <1>4, <1>5 DEF Formed, Job
<1>7. Formed(c, n)
  BY <1>2, <1>3, <1>5 DEF Formed
<1>8. task'[c] = n
  BY <1>2, <1>5
<1>9. /\ proc' \in [Vms -> {"none", "booting", "up", "paused", "held", "gone"}]
      /\ proc'[s] = status /\ \A w \in Vms \ {s} : proc'[w] = proc[w]
  BY <1>2, <1>5, <1>6
<1>10. /\ owner[s] # "nobody"
       /\ \/ owner[s] = c
          \/ owner[s] = "manager" /\ task[c].borrows
  <2>1. s # None
    BY <1>6, Names
  <2>2. \/ owner[s] = c
        \/ owner[s] = "manager" /\ task[c].borrows
    BY <1>2, <1>4, <2>1 DEF Using
  <2> QED BY <2>2, Names
<1>11. Moves(c, n)
  <2>1. Making(c)' /\ Using(c)'
    BY <1>3, <1>5, <1>6, <1>8, <1>10 DEF Making, Using
  <2>2. Resumed(c)'
    BY <1>1, <1>6, <1>3, <1>8, <1>9 DEF Resumed
  <2>3. ASSUME NEW w \in Vms PROVE OwnerStep(c, w) /\ ProcStep(c, w)
    BY <1>4, <1>5, <1>9, <1>10 DEF OwnerStep, ProcStep
  <2>4. task[c].pc # "forked" /\ (n.borrows => task[c].borrows)
    BY <1>3, <1>5
  <2> QED BY <1>2, <1>3, <1>5, <1>7, <1>9, <2>1, <2>2, <2>3, <2>4 DEF Moves, Holds
<1> QED BY <1>2, <1>4, <1>5, <1>6, <1>11, MovesQuietly

LEMMA TakeForkedStep ==
    ASSUME Inv, NEW c \in Callers, NEW t \in Threads, TakeForked(c, t)
    PROVE  Inv'
<1> DEFINE n == task[c]
<1>1. /\ n \in Job /\ Formed(c, n) /\ task \in [Callers -> Job] /\ Types
      /\ faults \in 0 .. MaxFaults /\ faults \in Nat
      /\ proc \in [Vms -> {"none", "booting", "up", "paused", "held", "gone"}]
      /\ owner \in [Vms -> Keepers]
  BY CallShapes
<1>2. /\ n.pc = "idle"
      /\ owner' = [v \in Vms |-> IF owner[v] = t THEN c ELSE owner[v]]
      /\ UNCHANGED <<proc, task, thread, pairs, faults, overwritten>>
  BY DEF TakeForked
<1>3. owner' \in [Vms -> Keepers] /\ \A v \in Vms : owner'[v] = "nobody" => owner[v] = "nobody"
  BY <1>1, <1>2, Names DEF Keepers
<1>4. n.source = None /\ n.vm = None
  BY <1>1, <1>2 DEF Formed
<1>5. Moves(c, n)
  <2>1. Holds(c)'
    BY <1>2, <1>4 DEF Holds, Making, Using, Resumed
  <2>2. ASSUME NEW w \in Vms PROVE OwnerStep(c, w) /\ ProcStep(c, w)
    <3>1. owner[w] = t => proc[w] # "none"
      BY Names DEF Inv, Rest, Unspawned
    <3> QED BY <1>2, <3>1, Names DEF OwnerStep, ProcStep
  <2>3. task' = [task EXCEPT ![c] = n]
    BY <1>1, <1>2
  <2> QED BY <1>1, <1>2, <1>3, <2>1, <2>2, <2>3 DEF Moves
<1> QED BY <1>1, <1>2, <1>3, <1>4, <1>5, Names, MovesQuietly

LEMMA ExitStep ==
    ASSUME Inv, NEW v \in Vms, Exit(v)
    PROVE  Inv'
<1>1. Rest /\ Paid /\ Types /\ faults \in Nat
  BY Shapes DEF Inv, Rest
<1>2. /\ Live(v) /\ proc' = [proc EXCEPT ![v] = "gone"]
      /\ owner' = owner /\ task' = task /\ thread' = thread /\ pairs' = pairs
      /\ faults' = faults /\ overwritten' = overwritten
  BY DEF Exit
<1>3. \A w \in Vms : proc'[w] = proc[w] \/ (proc[w] # "none" /\ proc'[w] = "gone")
  <2>1. proc \in [Vms -> {"none", "booting", "up", "paused", "held", "gone"}]
    BY <1>1 DEF Types
  <2>2. proc[v] # "none"
    BY <1>2 DEF Live
  <2> QED BY <1>2, <2>1, <2>2
<1>4. Types'
  <2>1. proc' \in [Vms -> {"none", "booting", "up", "paused", "held", "gone"}]
    BY <1>1, <1>2 DEF Types
  <2> QED BY <1>1, <1>2, <2>1 DEF Types, Formed
<1>5. ASSUME NEW c \in Callers PROVE Holds(c)'
  <2>1. Holds(c) /\ task[c] \in Job
    BY <1>1, Shapes DEF Rest
  <2>2. task[c].source \in Vms \cup {None}
    BY <2>1 DEF Job
  <2> QED BY <1>2, <1>3, <2>1, <2>2 DEF Holds, Making, Using, Resumed
<1>6. OneBorrower' /\ Cells' /\ OneThread' /\ ForkReturnsOwn'
  BY <1>1, <1>2 DEF Rest, OneBorrower, Cells, OneThread, ForkReturnsOwn
<1>7. Dropped' /\ Unspawned'
  BY <1>1, <1>2, <1>3 DEF Rest, Dropped, Unspawned, Types
<1>8. Damaged' \subseteq Damaged
  BY <1>2, <1>3 DEF Damaged, Live
<1>9. Paid'
  BY <1>1, <1>2, <1>8, Unharmed
<1> QED BY <1>4, <1>5, <1>6, <1>7, <1>9 DEF Inv, Rest

\* The new Session takes the place of the one in the cell, which is dropped.
LEMMA ForkedStep ==
    ASSUME Inv, NEW c \in Callers, NEW t \in Threads, Forked(c, t)
    PROVE  Inv'
<1>1. /\ task[c] \in Job /\ Formed(c, task[c]) /\ task \in [Callers -> Job] /\ Types
      /\ faults \in 0 .. MaxFaults /\ faults \in Nat
      /\ Making(c) /\ Using(c) /\ Resumed(c) /\ Rest /\ Paid
      /\ proc \in [Vms -> {"none", "booting", "up", "paused", "held", "gone"}]
      /\ owner \in [Vms -> Keepers]
      /\ thread \in [Threads -> Callers \cup {None}] /\ overwritten \subseteq Vms
  BY CallShapes DEF Inv, Types
<1>2. PICK v : v = task[c].vm
  OBVIOUS
<1>3. PICK n \in {Idle, [task[c] EXCEPT !.pc = "forked"]} :
         /\ task' = [task EXCEPT ![c] = n]
         /\ \/ n.pc = "forked" /\ n.vm = v /\ n = [task[c] EXCEPT !.pc = "forked"]
               /\ thread' = [thread EXCEPT ![t] = c]
            \/ n = Idle /\ thread' = thread
  <2>1. CASE task[c].keep = c
    <3>1. [task[c] EXCEPT !.pc = "forked"].pc = "forked"
      BY <1>1 DEF Job
    <3>2. [task[c] EXCEPT !.pc = "forked"].vm = v
      BY <1>1, <1>2 DEF Job
    <3> QED BY <2>1, <3>1, <3>2 DEF Forked
  <2>2. CASE task[c].keep # c
    BY <2>2 DEF Forked, Return
  <2> QED BY <2>1, <2>2
<1>4. /\ task[c].pc = "configuring" /\ task[c].source # None /\ Live(v) /\ thread[t] = None
      /\ proc' = [proc EXCEPT ![v] = "up"]
      /\ owner' = [w \in Vms |->
            IF w = v THEN t ELSE IF owner[w] = t THEN "nobody" ELSE owner[w]]
      /\ overwritten' = overwritten \cup InCell(t)
      /\ pairs' = pairs /\ faults' = faults
  BY <1>2 DEF Forked
<1>5. v \in Vms /\ owner[v] = c
  BY <1>1, <1>2, <1>4 DEF Formed, Job, Making
<1>6. /\ n \in Job /\ n.source \in {None, task[c].source} /\ n.pc \in {"idle", "forked"}
      /\ n.borrows => task[c].borrows
  <2>1. CASE n = Idle
    BY <2>1, IdleJob
  <2>2. CASE n = [task[c] EXCEPT !.pc = "forked"]
    BY <1>1, <2>2 DEF Job, Pcs
  <2> QED BY <1>3, <2>1, <2>2
<1>7. Formed(c, n)
  <2>1. CASE n = Idle
    BY <2>1, IdleJob
  <2>2. CASE n = [task[c] EXCEPT !.pc = "forked"]
    <3>1. /\ n.pc = "forked" /\ n.keep = task[c].keep /\ n.kind = task[c].kind
          /\ n.source = task[c].source /\ n.sent = task[c].sent /\ n.vm = task[c].vm
      BY <1>1, <2>2 DEF Job
    <3> QED BY <1>1, <1>4, <3>1 DEF Formed
  <2> QED BY <1>3, <2>1, <2>2
<1>8. task'[c] = n /\ \A d \in Callers \ {c} : task'[d] = task[d]
  BY <1>1, <1>3
<1>9. /\ proc' \in [Vms -> {"none", "booting", "up", "paused", "held", "gone"}]
      /\ owner' \in [Vms -> Keepers] /\ proc'[v] = "up" /\ proc[v] # "none"
      /\ \A w \in Vms \ {v} : proc'[w] = proc[w]
  BY <1>1, <1>4, <1>5 DEF Keepers, Live
<1>10. Types'
  <2>1. task' \in [Callers -> Job] /\ \A d \in Callers : Formed(d, task'[d])
    BY <1>1, <1>6, <1>7, <1>8, <1>3 DEF Types
  <2>2. thread' \in [Threads -> Callers \cup {None}]
    BY <1>1, <1>3
  <2>3. overwritten' \subseteq Vms
    BY <1>1, <1>4 DEF InCell
  <2> QED BY <1>1, <1>4, <1>9, <2>1, <2>2, <2>3 DEF Types, Formed
<1>11. ASSUME NEW d \in Callers PROVE Holds(d)'
  <2>1. CASE d = c
    <3>1. Making(d)'
      BY <1>6, <1>8, <2>1 DEF Making
    <3>2. Using(d)' /\ Resumed(d)'
      <4> SUFFICES ASSUME n.source # None
                   PROVE  /\ \/ owner'[n.source] = c
                             \/ owner'[n.source] = "manager" /\ n.borrows
                          /\ proc'[n.source] # "paused"
        BY <1>8, <2>1 DEF Using, Resumed
      <4>1. n = [task[c] EXCEPT !.pc = "forked"]
        BY <1>3, IdleJob
      <4>2. n.source = task[c].source /\ n.borrows = task[c].borrows
        BY <1>1, <4>1 DEF Job
      <4>3. task[c].source \in Vms /\ proc[task[c].source] # "paused"
        BY <1>1, <1>4 DEF Job, Resumed
      <4>4. task[c].source # v
        BY <1>1, <1>2, <1>4 DEF Formed
      <4> QED BY <1>1, <1>4, <1>9, <4>2, <4>3, <4>4, Names DEF Using
    <3> QED BY <3>1, <3>2 DEF Holds
  <2>2. CASE d # c
    <3>1. /\ task'[d] = task[d] /\ task[d] \in Job /\ Formed(d, task[d])
          /\ Making(d) /\ Using(d) /\ Resumed(d)
      BY <1>1, <1>8, <2>2, Shapes DEF Rest, Holds
    <3>2. \A w \in Vms : owner[w] \in {d, "manager"} => owner'[w] = owner[w]
      BY <1>4, <1>5, <2>2, Names
    <3>3. Making(d)' /\ Using(d)'
      BY <3>1, <3>2 DEF Making, Using, Formed, Job
    <3>4. Resumed(d)'
      BY <1>9, <3>1 DEF Resumed, Job
    <3> QED BY <3>3, <3>4 DEF Holds
  <2> QED BY <2>1, <2>2
<1>12. OneBorrower'
  BY <1>1, <1>6, <1>8 DEF Rest, OneBorrower
<1>13. Cells'
  <2> SUFFICES ASSUME NEW u \in Threads, NEW d \in Callers, thread'[u] = d
               PROVE  /\ task'[d].pc = "forked"
                      /\ \A w \in Vms : owner'[w] = u => w = task'[d].vm
    BY DEF Cells
  <2>1. ASSUME NEW w \in Vms, owner'[w] = u PROVE owner[w] = u \/ (w = v /\ u = t)
    <3>1. u # "nobody"
      BY Names
    <3>2. owner'[w] = IF w = v THEN t ELSE IF owner[w] = t THEN "nobody" ELSE owner[w]
      BY <1>4
    <3> QED BY <2>1, <3>1, <3>2
  <2>2. CASE thread[u] = d
    <3>1. task[d].pc = "forked" /\ \A w \in Vms : owner[w] = u => w = task[d].vm
      BY <1>1, <2>2 DEF Rest, Cells
    <3>2. u # t /\ d # c
      BY <1>4, <2>2, <3>1, Names
    <3> QED BY <1>8, <2>1, <3>1, <3>2
  <2>3. CASE thread[u] # d
    <3>1. u = t /\ d = c /\ n.pc = "forked" /\ n.vm = v
      BY <1>1, <1>3, <2>3
    <3>2. \A w \in Vms : owner'[w] = t => w = v
      BY <1>4, Names
    <3> QED BY <1>8, <3>1, <3>2
  <2> QED BY <2>2, <2>3
<1>14. Dropped' /\ Unspawned' /\ ForkReturnsOwn'
  <2>1. \A w \in InCell(t) : w \in Vms /\ w # v /\ owner'[w] = "nobody" /\ proc'[w] # "none"
    BY <1>1, <1>4, <1>5, <1>9, Names DEF InCell, Rest, Unspawned
  <2>2. \A w \in overwritten : w \in Vms /\ owner'[w] = "nobody" /\ proc'[w] # "none"
    BY <1>1, <1>4, <1>5, <1>9, Names DEF Rest, Dropped
  <2>3. \A w \in Vms : proc'[w] = "none" => owner'[w] = "nobody"
    BY <1>1, <1>4, <1>9, Names DEF Rest, Unspawned
  <2> QED BY <1>1, <1>4, <2>1, <2>2, <2>3 DEF Rest, Dropped, Unspawned, ForkReturnsOwn
<1>19. OneThread'
  BY <1>1, <1>3, <1>4, Names DEF Rest, OneThread, Cells
<1>15. Rest'
  BY <1>10, <1>11, <1>12, <1>13, <1>14, <1>19 DEF Rest
<1>16. Damaged' \subseteq Damaged \cup InCell(t)
  <2> SUFFICES ASSUME NEW w \in Damaged', w \notin InCell(t) PROVE w \in Damaged
    OBVIOUS
  <2>1. /\ w \in Vms /\ Live(w)'
        /\ \/ owner'[w] = "nobody"
           \/ proc'[w] = "paused" /\ \A d \in Callers : task'[d].source # w
    BY DEF Damaged
  <2>2. owner[w] # t
    BY <2>1 DEF InCell
  <2>3. w # v
    BY <1>4, <1>9, <2>1, Names
  <2>4. Live(w) /\ proc'[w] = proc[w] /\ owner'[w] = owner[w]
    BY <1>4, <1>9, <2>1, <2>2, <2>3 DEF Live
  <2>5. ASSUME proc[w] = "paused", \A d \in Callers : task'[d].source # w
        PROVE  \A d \in Callers : task[d].source # w
    BY <1>1, <1>4, <1>8, <2>1, <2>5 DEF Resumed
  <2> QED BY <2>1, <2>4, <2>5 DEF Damaged
<1>17. InCell(t) \subseteq Vms /\ InCell(t) \cap overwritten = {}
  BY <1>1, Names DEF InCell, Rest, Dropped
<1>18. Paid'
  BY <1>1, <1>4, <1>16, <1>17, HarmedCell
<1> QED BY <1>15, <1>18 DEF Inv

\* What fork_sandbox takes is the microVM whose id it returns.
LEMMA TakeOwnStep ==
    ASSUME Inv, NEW c \in Callers, NEW t \in Threads, TakeOwn(c, t)
    PROVE  Inv'
<1>1. /\ task[c] \in Job /\ Formed(c, task[c]) /\ task \in [Callers -> Job] /\ Types
      /\ faults \in 0 .. MaxFaults /\ faults \in Nat
      /\ Making(c) /\ Using(c) /\ Resumed(c) /\ Rest /\ Paid
      /\ proc \in [Vms -> {"none", "booting", "up", "paused", "held", "gone"}]
      /\ owner \in [Vms -> Keepers]
      /\ thread \in [Threads -> Callers \cup {None}] /\ overwritten \subseteq Vms
  BY CallShapes DEF Inv, Types
<1>2. /\ task[c].pc = "forked" /\ thread[t] = c
      /\ pairs' = pairs \cup {<<task[c].vm, v>> : v \in InCell(t)}
      /\ owner' = [v \in Vms |-> IF owner[v] = t THEN c ELSE owner[v]]
      /\ thread' = [thread EXCEPT ![t] = None]
      /\ task' = [task EXCEPT ![c] = Idle]
      /\ proc' = proc /\ faults' = faults /\ overwritten' = overwritten
  BY DEF TakeOwn, Return
<1>3. task'[c] = Idle /\ \A d \in Callers \ {c} : task'[d] = task[d]
  BY <1>1, <1>2
<1>4. Types'
  <2>1. task' \in [Callers -> Job] /\ \A d \in Callers : Formed(d, task'[d])
    BY <1>1, <1>2, <1>3, IdleJob DEF Types
  <2>2. owner' \in [Vms -> Keepers] /\ thread' \in [Threads -> Callers \cup {None}]
    BY <1>1, <1>2 DEF Keepers
  <2> QED BY <1>1, <1>2, <2>1, <2>2 DEF Types, Formed
<1>5. ASSUME NEW d \in Callers PROVE Holds(d)'
  <2>1. CASE d = c
    BY <1>3, <2>1, IdleJob DEF Holds, Making, Using, Resumed
  <2>2. CASE d # c
    <3>1. /\ task'[d] = task[d] /\ task[d] \in Job /\ Formed(d, task[d])
          /\ Making(d) /\ Using(d) /\ Resumed(d)
      BY <1>1, <1>3, <2>2, Shapes DEF Rest, Holds
    <3>2. \A w \in Vms : owner[w] \in {d, "manager"} => owner'[w] = owner[w]
      BY <1>2, Names
    <3>3. Making(d)' /\ Using(d)'
      BY <3>1, <3>2 DEF Making, Using, Formed, Job
    <3>4. Resumed(d)'
      BY <1>2, <3>1 DEF Resumed
    <3> QED BY <3>3, <3>4 DEF Holds
  <2> QED BY <2>1, <2>2
<1>6. OneBorrower' /\ OneThread'
  BY <1>1, <1>2, <1>3, IdleJob, Names DEF Rest, OneBorrower, OneThread
<1>7. Cells'
  <2> SUFFICES ASSUME NEW u \in Threads, NEW d \in Callers, thread'[u] = d
               PROVE  /\ task'[d].pc = "forked"
                      /\ \A w \in Vms : owner'[w] = u => w = task'[d].vm
    BY DEF Cells
  <2>1. u # t /\ thread[u] = d
    BY <1>1, <1>2, Names
  <2>2. task[d].pc = "forked" /\ \A w \in Vms : owner[w] = u => w = task[d].vm
    BY <1>1, <2>1 DEF Rest, Cells
  <2>3. \A w \in Vms : owner'[w] = u => owner[w] = u
    BY <1>2, Names
  <2>4. CASE d # c
    BY <1>3, <2>2, <2>3, <2>4
  <2>5. CASE d = c
    BY <1>1, <1>2, <2>1, <2>5, Names DEF Rest, OneThread
  <2> QED BY <2>4, <2>5
<1>8. Dropped' /\ Unspawned'
  BY <1>1, <1>2, Names DEF Rest, Dropped, Unspawned
<1>9. ForkReturnsOwn'
  <2>1. \A v \in InCell(t) : v = task[c].vm
    BY <1>1, <1>2 DEF InCell, Rest, Cells
  <2> QED BY <1>1, <1>2, <2>1 DEF Rest, ForkReturnsOwn
<1>10. Damaged' \subseteq Damaged
  <2> SUFFICES ASSUME NEW w \in Damaged' PROVE w \in Damaged
    OBVIOUS
  <2>1. /\ w \in Vms /\ Live(w)
        /\ \/ owner'[w] = "nobody"
           \/ proc[w] = "paused" /\ \A d \in Callers : task'[d].source # w
    BY <1>2 DEF Damaged, Live
  <2>2. owner'[w] = "nobody" => owner[w] = "nobody"
    BY <1>2, <2>1, Names
  <2>3. ASSUME proc[w] = "paused", \A d \in Callers : task'[d].source # w
        PROVE  \A d \in Callers : task[d].source # w
    BY <1>1, <1>2, <1>3, <2>1, <2>3, Names DEF Resumed
  <2> QED BY <2>1, <2>2, <2>3 DEF Damaged
<1>11. Paid'
  BY <1>1, <1>2, <1>10, Unharmed
<1> QED BY <1>4, <1>5, <1>6, <1>7, <1>8, <1>9, <1>11 DEF Inv, Rest

-----------------------------------------------------------------------------
(* The theorems *)

LEMMA InitEstablished == Init => Inv
<1> SUFFICES ASSUME Init PROVE Inv
  OBVIOUS
<1>1. /\ proc = [v \in Vms |-> "none"] /\ owner = [v \in Vms |-> "nobody"]
      /\ task = [c \in Callers |-> Idle] /\ thread = [t \in Threads |-> None]
      /\ pairs = {} /\ faults = 0 /\ overwritten = {}
  BY DEF Init
<1>2. Types
  <2>1. owner \in [Vms -> Keepers] /\ faults \in 0 .. MaxFaults
    BY <1>1, SandboxAssumption DEF Keepers
  <2>2. task \in [Callers -> Job] /\ \A c \in Callers : Formed(c, task[c])
    BY <1>1, IdleJob
  <2> QED BY <1>1, <2>1, <2>2 DEF Types
<1>3. \A c \in Callers : Holds(c)
  BY <1>1, IdleJob DEF Holds, Making, Using, Resumed
<1>4. OneBorrower /\ Cells /\ OneThread
  BY <1>1, IdleJob, Names DEF OneBorrower, Cells, OneThread
<1>5. Dropped /\ Unspawned /\ ForkReturnsOwn
  BY <1>1 DEF Dropped, Unspawned, ForkReturnsOwn
<1>6. Paid
  <2>1. Damaged = {}
    BY <1>1 DEF Damaged, Live
  <2> QED BY <1>1, <2>1, FS_EmptySet DEF Paid
<1> QED BY <1>2, <1>3, <1>4, <1>5, <1>6 DEF Inv, Rest

LEMMA StutterPreserves == Inv /\ UNCHANGED vars => Inv'
<1> SUFFICES ASSUME Inv, UNCHANGED vars PROVE Inv'
  OBVIOUS
<1>1. /\ proc' = proc /\ owner' = owner /\ task' = task /\ thread' = thread
      /\ pairs' = pairs /\ faults' = faults /\ overwritten' = overwritten
  BY DEF vars
<1>2. Types' /\ OneBorrower' /\ Cells' /\ OneThread'
  BY <1>1 DEF Inv, Rest, Types, Formed, OneBorrower, Cells, OneThread
<1>3. Dropped' /\ Unspawned' /\ ForkReturnsOwn'
  BY <1>1 DEF Inv, Rest, Dropped, Unspawned, ForkReturnsOwn
<1>4. \A c \in Callers : Holds(c)'
  BY <1>1 DEF Inv, Rest, Holds, Making, Using, Resumed
<1>5. Paid'
  BY <1>1 DEF Inv, Paid, Damaged, Live
<1> QED BY <1>2, <1>3, <1>4, <1>5 DEF Inv, Rest

LEMMA CallPreserves ==
    ASSUME Inv, NEW c \in Callers, Call(c)
    PROVE  Inv'
<1>1. CASE \E v \in Vms, kind \in DOMAIN Requests, keep \in {c, "manager"} :
              Create(c, v, kind, keep)
  BY <1>1, CreateStep
<1>2. CASE \E v \in Vms : Hold(c, v) \/ End(c, v) \/ SpawnFork(c, v)
  BY <1>2, HoldStep, EndStep, SpawnForkStep
<1>3. CASE \E v \in Vms, keep \in {c, "nobody"} : Fork(c, v, keep)
  BY <1>3, ForkStarts
<1> QED BY <1>1, <1>2, <1>3 DEF Call

LEMMA StepPreserves ==
    ASSUME Inv, NEW c \in Callers, Step(c)
    PROVE  Inv'
<1>1. CASE SocketReady(c) \/ Accepted(c) \/ Started(c)
  BY <1>1, SocketReadyStep, AcceptedStep, StartedStep
<1>2. CASE Pause(c) \/ Snapshot(c) \/ Resume(c)
  BY <1>2, ForkSteps
<1>3. CASE \E t \in Threads : Forked(c, t) \/ TakeOwn(c, t) \/ TakeForked(c, t)
  BY <1>3, ForkedStep, TakeOwnStep, TakeForkedStep
<1>4. CASE SocketNeverReady(c)
  BY <1>4, AbandonStep DEF SocketNeverReady
<1>5. CASE StatusUnknown(c)
  BY <1>5, AbandonStep DEF StatusUnknown
<1>6. CASE RequestFails(c)
  BY <1>6, AbandonStep DEF RequestFails
<1>7. CASE ForkFails(c)
  BY <1>7, AbandonStep DEF ForkFails
<1>8. CASE Cancel(c)
  BY <1>8, AbandonStep DEF Cancel, Fails
<1> QED BY <1>1, <1>2, <1>3, <1>4, <1>5, <1>6, <1>7, <1>8 DEF Step

\* The inductive invariant: what each call has and borrows, which microVMs the cells
\* of the threads have, and a count of the damage, over session.rs,
\* session_manager.rs and fork.rs.
THEOREM InvHolds == Spec => []Inv
<1>1. Inv /\ [Next]_vars => Inv'
  BY StutterPreserves, CallPreserves, StepPreserves, ExitStep DEF Next
<1> QED BY InitEstablished, <1>1, PTL DEF Spec

\* The types: no call of session.rs, fork.rs or vm_manager.rs sends more requests than
\* its kind of microVM takes, however many calls run at once.
THEOREM TypeCorrect == Spec => []TypeOK
<1>1. Inv => TypeOK
  <2> SUFFICES ASSUME Inv PROVE TypeOK
    OBVIOUS
  <2>1. Types
    BY DEF Inv, Rest
  <2>2. ASSUME NEW c \in Callers
        PROVE  /\ task[c].pc \in Pcs
               /\ task[c].keep \in {c, "manager", "nobody"}
               /\ {task[c].vm, task[c].source} \subseteq Vms \cup {None}
               /\ task[c].sent \in 0 .. Len(Requests[task[c].kind]) - 1
    <3>1. task[c] \in Job /\ Formed(c, task[c])
      BY <2>1, Shapes
    <3>2. task[c].sent \in Nat /\ Len(Requests[task[c].kind]) \in Nat \ {0}
      BY <3>1, KindsHave DEF Job
    <3>3. task[c].sent \in 0 .. Len(Requests[task[c].kind]) - 1
      BY <3>1, <3>2 DEF Formed
    <3> QED BY <3>1, <3>3 DEF Job, Formed
  <2> QED BY <2>1, <2>2 DEF TypeOK, Types, Keepers, Pcs
<1> QED BY <1>1, InvHolds, PTL

\* fork_sandbox returns the Session of the microVM it made, whatever other tasks the
\* threads of its runtime run: the cell is taken before anything is awaited.
THEOREM ForkReturnsOwnHolds == Spec => []ForkReturnsOwn
<1>1. Inv => ForkReturnsOwn
  BY DEF Inv, Rest
<1> QED BY <1>1, InvHolds, PTL

\* However calls fail and are cancelled, they leave no more microVMs running without an
\* owner, or paused, than one for each, and one for each Session that fork_session
\* dropped from its cell.
THEOREM DamageBoundedHolds == Spec => []DamageBounded
<1>1. Inv => DamageBounded
  <2> SUFFICES ASSUME Inv PROVE DamageBounded
    OBVIOUS
  <2>1. /\ Paid /\ IsFiniteSet(Damaged) /\ IsFiniteSet(overwritten) /\ faults \in Nat
        /\ Cardinality(Damaged) \in Nat /\ Cardinality(overwritten) \in Nat
    BY Shapes, FS_CardinalityType DEF Inv, Rest
  <2>2. Orphans \cup Stalled \subseteq Damaged /\ Orphans \cap Stalled = {}
    BY DEF Orphans, Stalled, Damaged, Live
  <2>3. IsFiniteSet(Orphans) /\ IsFiniteSet(Stalled)
    BY <2>1, <2>2, FS_Subset
  <2>4. Cardinality(Orphans \cup Stalled)
            = Cardinality(Orphans) + Cardinality(Stalled) - Cardinality(Orphans \cap Stalled)
    BY <2>3, FS_Union
  <2>5. Cardinality(Orphans \cap Stalled) = 0
    BY <2>2, FS_EmptySet
  <2>6. Cardinality(Orphans) \in Nat /\ Cardinality(Stalled) \in Nat
    BY <2>3, FS_CardinalityType
  <2>7. Cardinality(Orphans \cup Stalled) <= Cardinality(Damaged)
    BY <2>1, <2>2, FS_Subset
  <2> QED BY <2>1, <2>4, <2>5, <2>6, <2>7 DEF DamageBounded, Paid
<1> QED BY <1>1, InvHolds, PTL

=============================================================================
