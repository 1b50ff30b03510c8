----------------------------- MODULE FleetProofs -----------------------------
(***************************************************************************)
(* Proofs about Placement and Fleet, for any hosts, regions, requests,     *)
(* heartbeats, administrators and capacity: what the strategies choose,    *)
(* that overcommitting needs decisions that did not see each other, and    *)
(* that the two maps of the region registry agree.                         *)
(***************************************************************************)
EXTENDS Fleet, FiniteSetTheorems, WellFoundedInduction, TLAPS

Circuits == {"Closed", "Open", "HalfOpen"}

Listed == [host : Hosts, circuit : Circuits, saw : SUBSET Requests,
           totalVcpus : Nat, usedVcpus : Nat, totalMem : Nat, usedMem : Nat]

-----------------------------------------------------------------------------
(* What the strategies choose *)

LEMMA FirstOf ==
    ASSUME NEW A \in SUBSET Nat, A # {}
    PROVE  \E i \in A : \A j \in A : i <= j
<1>1. PICK i \in A : \A j \in A : ~ (<<j, i>> \in OpToRel(<, Nat))
  BY NatLessThanWellFounded, WFMin
<1>2. ASSUME NEW j \in A PROVE ~ (j < i)
  <2>1. j \in Nat /\ i \in Nat
    OBVIOUS
  <2> QED BY <1>1, <2>1, Zenon DEF OpToRel
<1>3. ASSUME NEW j \in A PROVE i <= j
  <2>1. j \in Nat /\ i \in Nat
    OBVIOUS
  <2> QED BY <1>2, <2>1
<1> QED BY <1>3

\* Something has the least of any measure.
LEMMA LeastOf ==
    ASSUME NEW A, A # {}, NEW f \in [A -> Nat]
    PROVE  \E i \in A : \A j \in A : f[i] <= f[j]
<1> DEFINE D == {f[i] : i \in A}
<1>1. D \in SUBSET Nat /\ D # {}
  OBVIOUS
<1>2. PICK m \in D : \A k \in D : m <= k
  BY <1>1, FirstOf
<1> QED BY <1>2

LEMMA FreeParts ==
    ASSUME NEW s \in Listed
    PROVE  FreeVcpus(s) \in Nat /\ FreeMem(s) \in Nat
BY DEF Listed, FreeVcpus, FreeMem

\* Where the best ones are found, the first of them is chosen.
LEMMA FirstIsPlaced ==
    ASSUME NEW list \in Seq(Listed), NEW best \in SUBSET (DOMAIN list), best # {}
    PROVE  LET first == CHOOSE i \in best : \A j \in best : i <= j
           IN  first \in best /\ \A j \in best : first <= j
<1>1. best \in SUBSET Nat
  OBVIOUS
<1> QED BY <1>1, FirstOf

\* The strategies choose a candidate, and nobody only when there is none: the first with
\* the least free vcpus, the first, and the first with the most that is free.
THEOREM BestFitIsTight ==
    ASSUME NEW list \in Seq(Listed), NEW size
    PROVE  /\ BestFit(list, size).placed <=> Candidates(list, size) # {}
           /\ BestFit(list, size).placed =>
                \E i \in Candidates(list, size) :
                    /\ BestFit(list, size).host = list[i].host
                    /\ \A j \in Candidates(list, size) :
                          /\ FreeVcpus(list[i]) <= FreeVcpus(list[j])
                          /\ FreeVcpus(list[j]) = FreeVcpus(list[i]) => i <= j
<1> DEFINE among == Candidates(list, size)
           best == {i \in among : \A j \in among : ~ (FreeVcpus(list[j]) < FreeVcpus(list[i]))}
           first == CHOOSE i \in best : \A j \in best : i <= j
<1>1. among \in SUBSET (DOMAIN list)
  BY DEF Candidates
<1>2. BestFit(list, size) = IF among = {} THEN Nobody ELSE Placed(list[first])
  BY DEF BestFit, Choice
<1>3. CASE among = {}
  BY <1>2, <1>3 DEF Nobody
<1>4. CASE among # {}
  <2>1. \A i \in among : FreeVcpus(list[i]) \in Nat
    BY <1>1, FreeParts
  <2>2. PICK i \in among : \A j \in among : FreeVcpus(list[i]) <= FreeVcpus(list[j])
    <3> DEFINE f == [i \in among |-> FreeVcpus(list[i])]
    <3>1. f \in [among -> Nat]
      BY <2>1
    <3>2. \E i \in among : \A j \in among : f[i] <= f[j]
      BY <1>4, <3>1, LeastOf
    <3> QED BY <3>2
  <2>3. i \in best
    BY <2>1, <2>2
  <2>4. first \in best /\ \A j \in best : first <= j
    BY <1>1, <2>3, FirstIsPlaced
  <2>5. \A j \in among : /\ FreeVcpus(list[first]) <= FreeVcpus(list[j])
                         /\ FreeVcpus(list[j]) = FreeVcpus(list[first]) => first <= j
    <3>1. first \in among /\ \A j \in among : ~ (FreeVcpus(list[j]) < FreeVcpus(list[first]))
      BY <2>4
    <3>2. ASSUME NEW j \in among PROVE FreeVcpus(list[first]) <= FreeVcpus(list[j])
      <4>1. FreeVcpus(list[j]) \in Nat /\ FreeVcpus(list[first]) \in Nat
        BY <2>1, <3>1
      <4>2. ~ (FreeVcpus(list[j]) < FreeVcpus(list[first]))
        BY <3>1
      <4> QED BY <4>1, <4>2
    <3>3. ASSUME NEW j \in among, FreeVcpus(list[j]) = FreeVcpus(list[first]) PROVE j \in best
      BY <3>1, <3>3
    <3> QED BY <2>4, <3>2, <3>3
  <2>6. BestFit(list, size).placed /\ BestFit(list, size).host = list[first].host
    BY <1>2, <1>4 DEF Placed
  <2> QED BY <1>4, <2>4, <2>5, <2>6
<1> QED BY <1>3, <1>4

LEMMA FirstFitChooses ==
    ASSUME NEW list \in Seq(Listed), NEW size, FirstFit(list, size).placed
    PROVE  \E i \in Candidates(list, size) : FirstFit(list, size).host = list[i].host
<1> DEFINE among == Candidates(list, size)
           best == {i \in among : \A j \in among : ~ FALSE}
           first == CHOOSE i \in best : \A j \in best : i <= j
<1>1. among \in SUBSET (DOMAIN list)
  BY DEF Candidates
<1>2. FirstFit(list, size) = IF among = {} THEN Nobody ELSE Placed(list[first])
  BY DEF FirstFit, Choice
<1>3. among # {} /\ best # {}
  BY <1>2 DEF Nobody
<1>4. first \in best /\ FirstFit(list, size) = Placed(list[first])
  BY <1>1, <1>2, <1>3, FirstIsPlaced
<1>5. first \in Candidates(list, size)
  BY <1>4
<1> HIDE DEF first
<1> QED BY <1>4, <1>5 DEF Placed

LEMMA LeastLoadedChooses ==
    ASSUME NEW list \in Seq(Listed), NEW size, NEW most \in Nat,
           \A i \in DOMAIN list : FreeVcpus(list[i]) + FreeMem(list[i]) <= most,
           LeastLoaded(list, size).placed
    PROVE  \E i \in Candidates(list, size) : LeastLoaded(list, size).host = list[i].host
<1> DEFINE Score(s) == FreeVcpus(s) + FreeMem(s)
           among == {i \in Candidates(list, size) : Score(list[i]) > 0}
           best == {i \in among : \A j \in among : ~ (Score(list[j]) > Score(list[i]))}
           first == CHOOSE i \in best : \A j \in best : i <= j
<1>1. among \in SUBSET (DOMAIN list) /\ among \subseteq Candidates(list, size)
  BY DEF Candidates
<1>2. LeastLoaded(list, size) = IF among = {} THEN Nobody ELSE Placed(list[first])
  BY DEF LeastLoaded, Choice
<1>3. among # {}
  BY <1>2 DEF Nobody
<1>4. best # {}
  <2> DEFINE f == [i \in among |-> most - Score(list[i])]
  <2>1. \A i \in among : Score(list[i]) \in Nat /\ Score(list[i]) <= most
    BY <1>1, FreeParts
  <2>2. f \in [among -> Nat]
    BY <2>1
  <2>3. PICK i \in among : \A j \in among : f[i] <= f[j]
    BY <1>3, <2>2, LeastOf
  <2>4. \A j \in among : ~ (Score(list[j]) > Score(list[i]))
    BY <2>1, <2>3
  <2> QED BY <2>4
<1>5. first \in best
  BY <1>1, <1>4, FirstIsPlaced
<1>6. first \in Candidates(list, size) /\ LeastLoaded(list, size) = Placed(list[first])
  BY <1>1, <1>2, <1>3, <1>5
<1> HIDE DEF first
<1> QED BY <1>6 DEF Placed

-----------------------------------------------------------------------------
(* The invariant *)

Entry == [used : SUBSET Requests, origin : {"inserted", "told"}, age : 0 .. Timeout + 1,
          circuit : Circuits]

Asked == [pc : {"idle", "checked", "listing", "placed", "running", "refused"},
          region : Regions \cup {None}, left : SUBSET Hosts, list : Seq(Listed),
          host : Hosts \cup {None}, blind : SUBSET Requests]

Beat(m) ==
    /\ m \in [pc : {"idle", "sent", "upserted"}, host : Hosts \cup {None},
              sample : SUBSET Requests]
    /\ m.pc # "idle" => m.host \in Hosts

Op(m) ==
    /\ m \in [pc : {"idle", "insert", "home", "upsert", "leave", "forget"},
              host : Hosts \cup {None}, region : Regions \cup {None}]
    /\ m.pc = "idle" => m.host = None
    /\ m.pc # "idle" => m.host \in Hosts /\ m.region \in Regions

Entries ==
    /\ entry = [h \in Hosts |-> entry[h]]
    /\ \A h \in Hosts : Known(h) => entry[h] \in Entry

Maps ==
    /\ enabled \subseteq Regions
    /\ members \in [Regions -> SUBSET Hosts]
    /\ homeOf \in [Hosts -> Regions \cup {None}]
    /\ admin = [a \in Admins |-> admin[a]] /\ \A a \in Admins : Op(admin[a])

Beating == beat = [b \in Beats |-> beat[b]] /\ \A b \in Beats : Beat(beat[b])

\* A listing has each host once, with the load that was read with it.
Fair(r, q) ==
    /\ q \in Asked
    /\ q.pc \in {"idle", "checked"} => q.list = <<>>
    /\ q.pc = "checked" => q.region # None
    /\ \A i \in DOMAIN q.list :
          /\ q.list[i].totalVcpus = Capacity /\ q.list[i].totalMem = Capacity
          /\ q.list[i].usedVcpus = Cardinality(q.list[i].saw)
          /\ q.list[i].host \notin q.left
    /\ \A i \in DOMAIN q.list, j \in DOMAIN q.list : q.list[i].host = q.list[j].host => i = j
    /\ Len(q.list) + Cardinality(q.left) <= Cardinality(Hosts)
    /\ r \notin q.blind

Asking == req = [r \in Requests |-> req[r]] /\ \A r \in Requests : Fair(r, req[r])

\* Too many of those bound to a host are always too many for one of them to have seen.
Covered ==
    \A h \in Hosts : \A S \in SUBSET Bound(h) : Cardinality(S) > Capacity =>
        \E r \in S : Cardinality(req[r].blind \cap S) >= Cardinality(S) - Capacity

In(h, g) == \A x \in Regions : h \in members[x] <=> x = g

\* Where each operation of an administrator leaves the two maps.
Halfway(a) ==
    LET h == admin[a].host
        g == admin[a].region
    IN  /\ admin[a].pc = "insert" => homeOf[h] \in {None, g} /\ In(h, homeOf[h])
        /\ admin[a].pc = "home" => In(h, g)
        /\ admin[a].pc = "upsert" => homeOf[h] = g /\ In(h, g)
        /\ admin[a].pc = "leave" => homeOf[h] = None /\ In(h, g)
        /\ admin[a].pc = "forget" => homeOf[h] = None /\ In(h, None)

Homed(h) ==
    /\ ~ Busy(h) => In(h, homeOf[h])
    /\ \A a \in Admins : admin[a].host = h => Halfway(a)
    /\ \A a \in Admins, b \in Admins : admin[a].host = h /\ admin[b].host = h => a = b

Homes == \A h \in Hosts \ mixed : Homed(h)

Inv ==
    /\ Entries /\ Maps /\ Beating /\ ops \in 0 .. MaxOps
    /\ Asking
    /\ Covered
    /\ Homes
    /\ UnsampledIsPending

-----------------------------------------------------------------------------
(* What is left alone *)

\* Nobody is bound to a host by the step.
LEMMA CoveredKept ==
    ASSUME Covered, \A h \in Hosts : Bound(h)' \subseteq Bound(h),
           \A h \in Hosts, r \in Requests : r \in Bound(h)' => req'[r].blind = req[r].blind
    PROVE  Covered'
<1> SUFFICES ASSUME NEW h \in Hosts, NEW S \in SUBSET Bound(h)', Cardinality(S) > Capacity
             PROVE  \E r \in S : Cardinality(req'[r].blind \cap S) >= Cardinality(S) - Capacity
  BY DEF Covered
<1>1. S \in SUBSET Bound(h) /\ Bound(h)' \subseteq Requests
  BY DEF Bound
<1>2. PICK r \in S : Cardinality(req[r].blind \cap S) >= Cardinality(S) - Capacity
  BY <1>1 DEF Covered
<1> QED BY <1>1, <1>2

LEMMA RequestsKept ==
    ASSUME Asking, Covered, req' = req
    PROVE  Asking' /\ Covered'
<1>1. Asking'
  BY DEF Asking, Fair
<1>2. \A h \in Hosts : Bound(h)' = Bound(h)
  BY DEF Bound
<1> QED BY <1>1, <1>2, CoveredKept

LEMMA HomesKept ==
    ASSUME Homes, UNCHANGED <<members, homeOf, admin, mixed>>
    PROVE  Homes'
BY DEF Homes, Homed, Halfway, In, Busy

LEMMA PendingKept ==
    ASSUME UnsampledIsPending, beat' = beat,
           \A h \in Hosts : Known(h)' /\ entry'[h].origin = "inserted" =>
               Known(h) /\ entry[h].origin = "inserted"
    PROVE  UnsampledIsPending'
BY DEF UnsampledIsPending

LEMMA UpsertEntries ==
    ASSUME Entries, NEW h \in Hosts, NEW origin \in {"inserted", "told"}, Upsert(h, origin)
    PROVE  /\ Entries'
           /\ \A k \in Hosts \ {h} : entry'[k] = entry[k]
           /\ Known(h) => entry'[h].origin = entry[h].origin
           /\ ~ Known(h) => entry'[h].origin = origin
<1>1. Timeout \in Nat
  BY FleetAssumption
<1>2. entry' = [entry EXCEPT ![h] = entry'[h]]
  BY DEF Upsert, Entries
<1>3. CASE Known(h)
  <2>1. entry'[h] = [entry[h] EXCEPT !.age = 0] /\ entry[h] \in Entry
    BY <1>3 DEF Upsert, Entries
  <2>2. entry'[h] \in Entry /\ entry'[h].origin = entry[h].origin
    BY <1>1, <2>1 DEF Entry
  <2> QED BY <1>2, <1>3, <2>2 DEF Entries, Known
<1>4. CASE ~ Known(h)
  <2>1. entry'[h] = [used |-> {}, origin |-> origin, age |-> 0, circuit |-> "Closed"]
    BY <1>4 DEF Upsert, Entries
  <2>2. entry'[h] \in Entry /\ entry'[h].origin = origin
    BY <1>1, <2>1 DEF Entry, Circuits
  <2> QED BY <1>2, <1>4, <2>2 DEF Entries, Known
<1> QED BY <1>3, <1>4

-----------------------------------------------------------------------------
(* Heartbeats, the clock and the handlers that change one entry *)

LEMMA BeatSends ==
    ASSUME Inv, NEW b \in Beats,
           LoseHeartbeat(b) \/ \E h \in Hosts : SendHeartbeat(b, h)
    PROVE  Inv'
<1>1. PICK m : /\ beat' = [beat EXCEPT ![b] = m] /\ Beat(m) /\ m.pc # "upserted"
               /\ beat[b].pc # "upserted"
  <2>1. CASE LoseHeartbeat(b)
    <3>1. Beat(NoBeat) /\ NoBeat.pc # "upserted"
      BY DEF Beat, NoBeat
    <3> QED BY <2>1, <3>1 DEF LoseHeartbeat
  <2>2. ASSUME NEW h \in Hosts, SendHeartbeat(b, h)
        PROVE  \E m : /\ beat' = [beat EXCEPT ![b] = m] /\ Beat(m) /\ m.pc # "upserted"
                      /\ beat[b].pc # "upserted"
    <3> DEFINE m == [pc |-> "sent", host |-> h, sample |-> On(h)]
    <3>1. Beat(m) /\ m.pc # "upserted"
      BY DEF Beat, On
    <3> QED BY <2>2, <3>1 DEF SendHeartbeat
  <2> QED BY <2>1, <2>2
<1>2. UNCHANGED <<entry, enabled, members, homeOf, req, admin, ops, mixed>>
  BY DEF LoseHeartbeat, SendHeartbeat
<1>3. Asking' /\ Covered' /\ Homes'
  BY <1>2, RequestsKept, HomesKept DEF Inv
<1>4. Entries' /\ Maps' /\ ops' \in 0 .. MaxOps
  BY <1>2 DEF Inv, Entries, Maps, Known, Op
<1>5. Beating'
  BY <1>1 DEF Inv, Beating, Beat
<1>6. UnsampledIsPending'
  <2> SUFFICES ASSUME NEW h \in Hosts, Known(h), entry[h].origin = "inserted"
               PROVE  \E d \in Beats : beat'[d].pc = "upserted" /\ beat'[d].host = h
    BY <1>2 DEF UnsampledIsPending, Known
  <2>1. PICK d \in Beats : beat[d].pc = "upserted" /\ beat[d].host = h
    BY DEF Inv, UnsampledIsPending
  <2>2. d # b
    BY <1>1, <2>1
  <2>3. beat'[d] = beat[d]
    BY <1>1, <2>2 DEF Inv, Beating
  <2> QED BY <2>1, <2>3
<1> QED BY <1>3, <1>4, <1>5, <1>6 DEF Inv

LEMMA HandleUpsertStep ==
    ASSUME Inv, NEW b \in Beats, HandleUpsert(b)
    PROVE  Inv'
<1>1. /\ Beat(beat[b]) /\ beat = [d \in Beats |-> beat[d]] /\ beat[b].pc = "sent"
      /\ beat' = [beat EXCEPT ![b].pc = "upserted"]
  BY DEF Inv, Beating, HandleUpsert
<1>2. beat[b].host \in Hosts
  BY <1>1 DEF Beat
<1>3. /\ Upsert(beat[b].host, "inserted")
      /\ UNCHANGED <<enabled, members, homeOf, req, admin, ops, mixed>>
  BY DEF HandleUpsert
<1>4. /\ Entries'
      /\ \A k \in Hosts \ {beat[b].host} : entry'[k] = entry[k]
      /\ Known(beat[b].host) => entry'[beat[b].host].origin = entry[beat[b].host].origin
  BY <1>2, <1>3, UpsertEntries DEF Inv
<1>5. Asking' /\ Covered' /\ Homes' /\ Maps' /\ ops' \in 0 .. MaxOps
  BY <1>3, RequestsKept, HomesKept DEF Inv, Maps, Op
<1>6. /\ beat'[b].pc = "upserted" /\ beat'[b].host = beat[b].host
      /\ Beat(beat'[b]) /\ \A d \in Beats \ {b} : beat'[d] = beat[d]
  <2>1. beat'[b] = [beat[b] EXCEPT !.pc = "upserted"]
    BY <1>1
  <2> QED BY <1>1, <2>1 DEF Beat
<1>7. Beating'
  BY <1>1, <1>6 DEF Inv, Beating, Beat
<1>8. UnsampledIsPending'
  <2> SUFFICES ASSUME NEW h \in Hosts, Known(h)', entry'[h].origin = "inserted"
               PROVE  \E d \in Beats : beat'[d].pc = "upserted" /\ beat'[d].host = h
    BY DEF UnsampledIsPending
  <2>1. CASE h = beat[b].host
    BY <1>6, <2>1
  <2>2. CASE h # beat[b].host
    <3>1. entry'[h] = entry[h]
      BY <1>4, <2>2
    <3>2. PICK d \in Beats : beat[d].pc = "upserted" /\ beat[d].host = h
      BY <3>1 DEF Inv, UnsampledIsPending, Known
    <3>3. d # b
      BY <1>1, <3>2
    <3> QED BY <1>6, <3>2, <3>3
  <2> QED BY <2>1, <2>2
<1> QED BY <1>4, <1>5, <1>7, <1>8 DEF Inv

LEMMA HandleHeartbeatStep ==
    ASSUME Inv, NEW b \in Beats, HandleHeartbeat(b)
    PROVE  Inv'
<1>1. /\ Beat(beat[b]) /\ beat = [d \in Beats |-> beat[d]] /\ beat[b].pc = "upserted"
      /\ beat' = [beat EXCEPT ![b] = NoBeat]
      /\ UNCHANGED <<enabled, members, homeOf, req, admin, ops, mixed>>
  BY DEF Inv, Beating, HandleHeartbeat
<1>2. PICK k \in Hosts : k = beat[b].host
  BY <1>1 DEF Beat
<1>3. /\ Entries'
      /\ \A h \in Hosts \ {k} : entry'[h] = entry[h]
      /\ Known(k)' => entry'[k].origin = "told"
  <2>1. CASE Known(k)
    <3>1. entry[k] \in Entry /\ Timeout \in Nat /\ beat[b].sample \in SUBSET Requests
      BY <1>1, <2>1, FleetAssumption DEF Inv, Entries, Beat
    <3>2. PICK c \in Succeed(entry[k].circuit) :
             entry' = [entry EXCEPT ![k] = [used |-> beat[b].sample, origin |-> "told",
                                            age |-> 0, circuit |-> c]]
      BY <1>2, <2>1 DEF HandleHeartbeat
    <3>3. c \in Circuits
      BY <3>1 DEF Succeed, Circuits, Entry
    <3> DEFINE n == [used |-> beat[b].sample, origin |-> "told", age |-> 0, circuit |-> c]
    <3>4. n \in Entry /\ n.origin = "told"
      BY <3>1, <3>3 DEF Entry
    <3> HIDE DEF n
    <3>5. entry' = [entry EXCEPT ![k] = n]
      BY <3>2 DEF n
    <3>6. /\ entry'[k] = n /\ \A h \in Hosts \ {k} : entry'[h] = entry[h]
          /\ entry' = [h \in Hosts |-> entry'[h]]
      BY <3>5 DEF Inv, Entries
    <3> QED BY <3>4, <3>6 DEF Inv, Entries, Known
  <2>2. CASE ~ Known(k)
    <3>1. entry' = entry
      BY <1>2, <2>2 DEF HandleHeartbeat
    <3> QED BY <2>2, <3>1 DEF Inv, Entries, Known
  <2> QED BY <2>1, <2>2
<1>4. Asking' /\ Covered' /\ Homes' /\ Maps' /\ ops' \in 0 .. MaxOps
  BY <1>1, RequestsKept, HomesKept DEF Inv, Maps, Op
<1>5. Beating'
  <2>1. Beat(NoBeat)
    BY DEF Beat, NoBeat
  <2> QED BY <1>1, <2>1 DEF Inv, Beating, Beat
<1>6. UnsampledIsPending'
  <2> SUFFICES ASSUME NEW h \in Hosts, Known(h)', entry'[h].origin = "inserted"
               PROVE  \E d \in Beats : beat'[d].pc = "upserted" /\ beat'[d].host = h
    BY DEF UnsampledIsPending
  <2>1. h # k /\ entry'[h] = entry[h]
    BY <1>3
  <2>2. PICK d \in Beats : beat[d].pc = "upserted" /\ beat[d].host = h
    BY <2>1 DEF Inv, UnsampledIsPending, Known
  <2>3. d # b
    BY <1>2, <2>1, <2>2
  <2> QED BY <1>1, <2>2, <2>3
<1> QED BY <1>3, <1>4, <1>5, <1>6 DEF Inv

\* A step that changes one entry and nothing else that counts.
LEMMA EntryStep ==
    ASSUME Inv, UNCHANGED <<enabled, members, homeOf, beat, req, admin, mixed>>,
           ops' \in 0 .. MaxOps, Entries',
           \A h \in Hosts : Known(h)' => Known(h) /\ entry'[h].origin = entry[h].origin
    PROVE  Inv'
<1>1. Asking' /\ Covered' /\ Homes' /\ Maps' /\ Beating'
  BY RequestsKept, HomesKept DEF Inv, Maps, Op, Beating, Beat
<1>2. UnsampledIsPending'
  BY PendingKept DEF Inv
<1> QED BY <1>1, <1>2 DEF Inv

LEMMA CountOps ==
    ASSUME Inv, Count
    PROVE  ops' \in 0 .. MaxOps
BY FleetAssumption DEF Inv, Count

LEMMA TickStep ==
    ASSUME Inv, Tick
    PROVE  Inv'
<1>1. /\ entry' = [h \in Hosts |->
                IF Fresh(h) THEN [entry[h] EXCEPT !.age = entry[h].age + 1] ELSE entry[h]]
      /\ UNCHANGED <<enabled, members, homeOf, beat, req, admin, ops, mixed>>
  BY DEF Tick
<1>2. ASSUME NEW h \in Hosts, Known(h)'
      PROVE  Known(h) /\ entry'[h] \in Entry /\ entry'[h].origin = entry[h].origin
  <2>1. CASE Fresh(h)
    <3>1. entry[h] \in Entry /\ entry[h].age <= Timeout /\ Timeout \in Nat /\ Known(h)
      BY <2>1, FleetAssumption DEF Fresh, Inv, Entries
    <3>2. entry'[h] = [entry[h] EXCEPT !.age = entry[h].age + 1]
      BY <1>1, <2>1
    <3> QED BY <3>1, <3>2 DEF Entry
  <2>2. CASE ~ Fresh(h)
    <3>1. entry'[h] = entry[h]
      BY <1>1, <2>2
    <3> QED BY <1>2, <3>1 DEF Known, Inv, Entries
  <2> QED BY <2>1, <2>2
<1>3. Entries'
  BY <1>1, <1>2 DEF Entries
<1> QED BY <1>1, <1>2, <1>3, EntryStep DEF Inv

LEMMA ReportFailureStep ==
    ASSUME Inv, NEW k \in Hosts, ReportFailure(k)
    PROVE  Inv'
<1>1. /\ Known(k) /\ Count
      /\ UNCHANGED <<enabled, members, homeOf, beat, req, admin, mixed>>
  BY DEF ReportFailure
<1>2. PICK c \in Circuits : entry' = [entry EXCEPT ![k].circuit = c]
  BY DEF ReportFailure, Circuits
<1>3. entry[k] \in Entry /\ entry = [h \in Hosts |-> entry[h]]
  BY <1>1 DEF Inv, Entries
<1>4. entry'[k] = [entry[k] EXCEPT !.circuit = c] /\ \A h \in Hosts \ {k} : entry'[h] = entry[h]
  BY <1>2, <1>3
<1>5. entry'[k] \in Entry /\ entry'[k].origin = entry[k].origin
  BY <1>3, <1>4 DEF Entry
<1>6. Entries'
  <2>1. entry' = [h \in Hosts |-> entry'[h]]
    BY <1>2, <1>3
  <2> QED BY <1>4, <1>5, <2>1 DEF Inv, Entries, Known
<1>7. \A h \in Hosts : Known(h)' => Known(h) /\ entry'[h].origin = entry[h].origin
  BY <1>1, <1>4, <1>5 DEF Known
<1> QED BY <1>1, <1>6, <1>7, EntryStep, CountOps

LEMMA DecommissionStep ==
    ASSUME Inv, NEW k \in Hosts, Decommission(k)
    PROVE  Inv'
<1>1. /\ Known(k) /\ Count /\ entry' = [entry EXCEPT ![k] = None]
      /\ UNCHANGED <<enabled, members, homeOf, beat, req, admin, mixed>>
  BY DEF Decommission
<1>2. entry = [h \in Hosts |-> entry[h]]
  BY DEF Inv, Entries
<1>3. entry'[k] = None /\ \A h \in Hosts \ {k} : entry'[h] = entry[h]
  BY <1>1, <1>2
<1>4. Entries'
  BY <1>1, <1>2, <1>3 DEF Inv, Entries, Known
<1>5. \A h \in Hosts : Known(h)' => Known(h) /\ entry'[h].origin = entry[h].origin
  BY <1>3 DEF Known
<1> QED BY <1>1, <1>4, <1>5, EntryStep, CountOps

-----------------------------------------------------------------------------
(* Requests for a sandbox *)

\* What a step of a request leaves to the others.
LEMMA AskStep ==
    ASSUME Inv, NEW r \in Requests, NEW q, Fair(r, q), req' = [req EXCEPT ![r] = q],
           UNCHANGED <<enabled, members, homeOf, beat, admin, mixed>>,
           ops' \in 0 .. MaxOps, Entries',
           \A h \in Hosts : Known(h)' => Known(h) /\ entry'[h].origin = entry[h].origin,
           Covered'
    PROVE  Inv'
<1>1. Homes' /\ Maps' /\ Beating'
  BY HomesKept DEF Inv, Maps, Op, Beating, Beat
<1>2. Asking'
  <2>1. req'[r] = q /\ \A x \in Requests \ {r} : req'[x] = req[x]
    BY DEF Inv, Asking
  <2>2. \A x \in Requests : Fair(x, req'[x])
    BY <2>1 DEF Inv, Asking
  <2>3. req' = [x \in Requests |-> req'[x]]
    BY DEF Inv, Asking
  <2> QED BY <2>2, <2>3 DEF Asking, Fair
<1>3. UnsampledIsPending'
  BY PendingKept DEF Inv
<1> QED BY <1>1, <1>2, <1>3 DEF Inv

LEMMA NotBound ==
    ASSUME Inv, NEW r \in Requests, NEW q, req' = [req EXCEPT ![r] = q],
           q.pc \in {"placed", "running"} =>
               /\ req[r].pc \in {"placed", "running"}
               /\ q.host = req[r].host /\ q.blind = req[r].blind
    PROVE  Covered'
<1>1. req'[r] = q /\ \A x \in Requests \ {r} : req'[x] = req[x]
  BY DEF Inv, Asking
<1>2. \A h \in Hosts : Bound(h)' \subseteq Bound(h)
  BY <1>1 DEF Bound
<1>3. \A h \in Hosts, x \in Requests : x \in Bound(h)' => req'[x].blind = req[x].blind
  BY <1>1 DEF Bound
<1> QED BY <1>2, <1>3, CoveredKept DEF Inv

\* The same, for the steps that leave the entries alone as well.
LEMMA AskAlone ==
    ASSUME Inv, NEW r \in Requests, NEW q, Fair(r, q), req' = [req EXCEPT ![r] = q],
           UNCHANGED <<entry, enabled, members, homeOf, beat, admin, mixed>>,
           ops' \in 0 .. MaxOps, Covered'
    PROVE  Inv'
<1>1. Entries' /\ \A h \in Hosts : Known(h)' => Known(h) /\ entry'[h].origin = entry[h].origin
  BY DEF Inv, Entries, Known
<1> QED BY <1>1, AskStep

LEMMA AskShapes ==
    ASSUME Inv, NEW r \in Requests
    PROVE  /\ Fair(r, req[r]) /\ req[r] \in Asked /\ req = [x \in Requests |-> req[x]]
           /\ ops \in 0 .. MaxOps
           /\ IsFiniteSet(Hosts) /\ IsFiniteSet(Requests) /\ Capacity \in Nat
BY FleetAssumption DEF Inv, Asking, Fair

LEMMA BeginListingStep ==
    ASSUME Inv, NEW r \in Requests,
           BeginListing(r) \/ BeginRegionListing(r)
    PROVE  Inv'
<1>1. PICK hosts \in SUBSET Hosts :
          /\ req' = [req EXCEPT ![r].pc = "listing", ![r].left = hosts]
          /\ req[r].pc \in {"idle", "checked"}
  <2>1. CASE BeginListing(r)
    BY <2>1 DEF BeginListing
  <2>2. CASE BeginRegionListing(r)
    <3>1. req[r].region \in Regions
      BY <2>2, AskShapes DEF BeginRegionListing, Fair, Asked
    <3> QED BY <2>2, <3>1, ZenonT(30) DEF BeginRegionListing, Inv, Maps
  <2> QED BY <2>1, <2>2
<1>2. /\ UNCHANGED <<entry, enabled, members, homeOf, beat, admin, mixed>>
      /\ ops' \in 0 .. MaxOps
  BY CountOps, AskShapes DEF BeginListing, BeginRegionListing
<1>3. /\ Fair(r, req[r]) /\ req[r] \in Asked /\ req = [x \in Requests |-> req[x]]
      /\ IsFiniteSet(Hosts)
  BY AskShapes
<1> DEFINE q == [req[r] EXCEPT !.pc = "listing", !.left = hosts]
<1>4. req' = [req EXCEPT ![r] = q]
  BY <1>1
<1>5. /\ q \in Asked /\ q.pc = "listing" /\ q.left = hosts /\ q.list = req[r].list
      /\ q.blind = req[r].blind
  BY <1>3 DEF Asked
<1> HIDE DEF q
<1>6. Fair(r, q)
  <2>1. req[r].list = <<>>
    BY <1>1, <1>3 DEF Fair
  <2>2. Len(q.list) = 0 /\ DOMAIN q.list = {}
    BY <1>5, <2>1
  <2>3. Cardinality(hosts) <= Cardinality(Hosts) /\ Cardinality(hosts) \in Nat
    BY <1>3, FS_Subset, FS_CardinalityType
  <2> QED BY <1>3, <1>5, <2>2, <2>3 DEF Fair
<1>7. Covered'
  BY <1>4, <1>5, NotBound
<1> QED BY <1>2, <1>4, <1>6, <1>7, AskAlone

LEMMA CheckRegionStep ==
    ASSUME Inv, NEW r \in Requests, NEW g \in Regions, CheckRegion(r, g)
    PROVE  Inv'
<1>1. PICK pc \in {"checked", "refused"}, region \in Regions \cup {None} :
          /\ req' = [req EXCEPT ![r].pc = pc, ![r].region = region]
          /\ pc = "checked" => region # None
  BY FleetAssumption DEF CheckRegion
<1>2. /\ UNCHANGED <<entry, enabled, members, homeOf, beat, admin, mixed>>
      /\ ops' \in 0 .. MaxOps /\ req[r].pc = "idle"
  BY CountOps DEF CheckRegion
<1>3. Fair(r, req[r]) /\ req[r] \in Asked /\ req = [x \in Requests |-> req[x]]
  BY AskShapes
<1> DEFINE q == [req[r] EXCEPT !.pc = pc, !.region = region]
<1>4. req' = [req EXCEPT ![r] = q]
  BY <1>1
<1>5. /\ q \in Asked /\ q.pc = pc /\ q.region = region /\ q.left = req[r].left
      /\ q.list = req[r].list /\ q.blind = req[r].blind
  BY <1>3 DEF Asked
<1> HIDE DEF q
<1>6. Fair(r, q)
  BY <1>1, <1>2, <1>3, <1>5 DEF Fair
<1>7. Covered'
  BY <1>4, <1>5, NotBound
<1> QED BY <1>2, <1>4, <1>6, <1>7, AskAlone

LEMMA StartSandboxStep ==
    ASSUME Inv, NEW r \in Requests, StartSandbox(r)
    PROVE  Inv'
<1>1. Fair(r, req[r]) /\ req[r] \in Asked /\ req = [x \in Requests |-> req[x]]
  BY AskShapes
<1>2. /\ req' = [req EXCEPT ![r].pc = "running"] /\ req[r].pc = "placed"
      /\ UNCHANGED <<entry, enabled, members, homeOf, beat, admin, ops, mixed>>
  BY DEF StartSandbox
<1> DEFINE q == [req[r] EXCEPT !.pc = "running"]
<1>3. req' = [req EXCEPT ![r] = q]
  BY <1>2
<1>4. /\ q \in Asked /\ q.pc = "running" /\ q.host = req[r].host /\ q.left = req[r].left
      /\ q.list = req[r].list /\ q.blind = req[r].blind
  BY <1>1 DEF Asked
<1> HIDE DEF q
<1>5. Fair(r, q)
  BY <1>1, <1>4 DEF Fair
<1>6. Covered'
  BY <1>2, <1>3, <1>4, NotBound
<1> QED BY <1>2, <1>3, <1>5, <1>6, AskAlone DEF Inv

\* Nothing is kept of a request that is over.
LEMMA Refused ==
    ASSUME Inv, NEW r \in Requests
    PROVE  Fair(r, [NewRequest EXCEPT !.pc = "refused"])
<1> DEFINE q == [NewRequest EXCEPT !.pc = "refused"]
<1>1. /\ NewRequest.pc = "idle" /\ NewRequest.list = <<>> /\ NewRequest.left = {}
      /\ NewRequest.blind = {}
  BY DEF NewRequest
<1>2. /\ q \in Asked /\ q.pc = "refused" /\ q.list = <<>> /\ q.left = {} /\ q.blind = {}
  <2>1. NewRequest \in Asked
    <3>1. <<>> \in Seq(Listed)
      OBVIOUS
    <3>2. /\ {} \in SUBSET Hosts /\ {} \in SUBSET Requests /\ None \in Hosts \cup {None}
          /\ None \in Regions \cup {None}
      OBVIOUS
    <3> QED BY <3>1, <3>2, Zenon DEF NewRequest, Asked
  <2> QED BY <1>1, <2>1 DEF Asked
<1> HIDE DEF q
<1>3. Len(q.list) = 0 /\ DOMAIN q.list = {} /\ Cardinality(q.left) = 0
  BY <1>2, FS_EmptySet
<1>4. Cardinality(Hosts) \in Nat
  BY FleetAssumption, FS_CardinalityType
<1>5. Fair(r, q)
  BY <1>2, <1>3, <1>4 DEF Fair
<1> QED BY <1>5 DEF q

LEMMA EndSandboxStep ==
    ASSUME Inv, NEW r \in Requests, EndSandbox(r)
    PROVE  Inv'
<1> DEFINE q == [NewRequest EXCEPT !.pc = "refused"]
<1>1. /\ req' = [req EXCEPT ![r] = q]
      /\ UNCHANGED <<entry, enabled, members, homeOf, beat, admin, ops, mixed>>
  BY DEF EndSandbox
<1>2. Fair(r, q) /\ q.pc = "refused"
  BY Refused DEF NewRequest
<1> HIDE DEF q
<1>3. Covered'
  BY <1>1, <1>2, NotBound
<1> QED BY <1>1, <1>2, <1>3, AskAlone DEF Inv

\* What a look at a host adds to a listing.
LEMMA Append1 ==
    ASSUME NEW S, NEW s \in Seq(S), NEW e \in S
    PROVE  /\ Append(s, e) \in Seq(S) /\ Len(Append(s, e)) = Len(s) + 1
           /\ DOMAIN Append(s, e) = DOMAIN s \cup {Len(s) + 1} /\ Len(s) + 1 \notin DOMAIN s
           /\ \A i \in DOMAIN s : Append(s, e)[i] = s[i]
           /\ Append(s, e)[Len(s) + 1] = e
OBVIOUS

LEMMA VisitHostStep ==
    ASSUME Inv, NEW r \in Requests, NEW h \in Hosts, VisitHost(r, h)
    PROVE  Inv'
<1>1. /\ Fair(r, req[r]) /\ req[r] \in Asked /\ req = [x \in Requests |-> req[x]]
      /\ IsFiniteSet(Hosts) /\ ops \in 0 .. MaxOps
      /\ entry = [k \in Hosts |-> entry[k]]
  BY AskShapes DEF Inv, Entries
<1>2. /\ req[r].pc = "listing" /\ h \in req[r].left
      /\ UNCHANGED <<enabled, members, homeOf, beat, admin, ops, mixed>>
  BY DEF VisitHost
<1>3. /\ Cardinality(req[r].left \ {h}) = Cardinality(req[r].left) - 1
      /\ Cardinality(req[r].left) \in Nat /\ Cardinality(Hosts) \in Nat
      /\ Len(req[r].list) \in Nat
  <2>1. IsFiniteSet(req[r].left)
    BY <1>1, FS_Subset DEF Asked
  <2> QED BY <1>1, <1>2, <2>1, FS_RemoveElement, FS_CardinalityType DEF Asked
<1>4. CASE ~ Listable(r, h)
  <2> DEFINE q == [req[r] EXCEPT !.left = req[r].left \ {h}]
  <2>1. req' = [req EXCEPT ![r] = q] /\ entry' = entry
    BY <1>4 DEF VisitHost
  <2>2. /\ q \in Asked /\ q.pc = "listing" /\ q.left = req[r].left \ {h}
        /\ q.list = req[r].list /\ q.blind = req[r].blind
    BY <1>1, <1>2 DEF Asked
  <2> HIDE DEF q
  <2>3. Fair(r, q)
    BY <1>1, <1>2, <1>3, <2>2 DEF Fair
  <2>4. Covered'
    BY <2>1, <2>2, NotBound
  <2> QED BY <1>1, <1>2, <2>1, <2>3, <2>4, AskAlone
<1>5. CASE Listable(r, h)
  <2>1. entry[h] \in Entry
    BY <1>5 DEF Listable, Fresh, Inv, Entries
  <2>2. PICK c \in Look(entry[h].circuit) :
          /\ entry' = [entry EXCEPT ![h].circuit = c]
          /\ req' = [req EXCEPT ![r].left = req[r].left \ {h},
                                ![r].list = Append(req[r].list, Snapshot(h, c))]
    BY <1>1, <1>5 DEF VisitHost
  <2>3. c \in Circuits
    BY <2>1, <2>2 DEF Look, Entry, Circuits
  <2> DEFINE s == Snapshot(h, c)
             list == Append(req[r].list, s)
             q == [req[r] EXCEPT !.left = req[r].left \ {h}, !.list = list]
  <2>4. /\ s \in Listed /\ s.host = h /\ s.totalVcpus = Capacity /\ s.totalMem = Capacity
        /\ s.usedVcpus = Cardinality(s.saw)
    <3>1. IsFiniteSet(entry[h].used) /\ entry[h].used \in SUBSET Requests
      BY <2>1, FleetAssumption, FS_Subset DEF Entry
    <3>2. Cardinality(entry[h].used) \in Nat /\ Capacity \in Nat
      BY <3>1, FleetAssumption, FS_CardinalityType
    <3> QED BY <2>3, <3>1, <3>2 DEF Snapshot, Listed
  <2> HIDE DEF s
  <2>5. /\ list \in Seq(Listed) /\ Len(list) = Len(req[r].list) + 1
        /\ DOMAIN list = DOMAIN req[r].list \cup {Len(req[r].list) + 1}
        /\ \A i \in DOMAIN req[r].list : list[i] = req[r].list[i]
        /\ list[Len(req[r].list) + 1] = s
    <3>1. req[r].list \in Seq(Listed)
      BY <1>1 DEF Asked
    <3> QED BY <2>4, <3>1, Append1
  <2> HIDE DEF list
  <2>6. /\ q \in Asked /\ q.pc = "listing" /\ q.left = req[r].left \ {h}
        /\ q.list = list /\ q.blind = req[r].blind
    BY <1>1, <1>2, <2>5 DEF Asked
  <2>7. req' = [req EXCEPT ![r] = q]
    BY <2>2 DEF list, s
  <2> HIDE DEF q
  <2>8. Fair(r, q)
    <3>1. \A i \in DOMAIN list :
              /\ list[i].totalVcpus = Capacity /\ list[i].totalMem = Capacity
              /\ list[i].usedVcpus = Cardinality(list[i].saw)
              /\ list[i].host \notin q.left
      <4>1. ASSUME NEW i \in DOMAIN req[r].list
            PROVE  /\ list[i].totalVcpus = Capacity /\ list[i].totalMem = Capacity
                   /\ list[i].usedVcpus = Cardinality(list[i].saw)
                   /\ list[i].host \notin q.left
        BY <1>1, <2>5, <2>6 DEF Fair
      <4>2. LET n == Len(req[r].list) + 1
            IN  /\ list[n].totalVcpus = Capacity /\ list[n].totalMem = Capacity
                /\ list[n].usedVcpus = Cardinality(list[n].saw)
                /\ list[n].host \notin q.left
        BY <2>4, <2>5, <2>6
      <4> QED BY <2>5, <4>1, <4>2
    <3>2. \A i \in DOMAIN list, j \in DOMAIN list : list[i].host = list[j].host => i = j
      <4>1. \A i \in DOMAIN req[r].list : list[i].host # h
        BY <1>1, <1>2, <2>5 DEF Fair
      <4>2. \A i \in DOMAIN req[r].list, j \in DOMAIN req[r].list :
                list[i].host = list[j].host => i = j
        BY <1>1, <2>5 DEF Fair
      <4>3. list[Len(req[r].list) + 1].host = h
        BY <2>4, <2>5
      <4> QED BY <2>5, <4>1, <4>2, <4>3
    <3>3. Len(list) + Cardinality(q.left) <= Cardinality(Hosts)
      BY <1>1, <1>3, <2>5, <2>6 DEF Fair
    <3> QED BY <1>1, <2>6, <3>1, <3>2, <3>3 DEF Fair
  <2>9. Covered'
    BY <2>6, <2>7, NotBound
  <2>10. entry'[h] \in Entry /\ entry'[h].origin = entry[h].origin
    <3>1. entry'[h] = [entry[h] EXCEPT !.circuit = c]
      BY <1>1, <2>2
    <3> QED BY <2>1, <2>3, <3>1 DEF Entry
  <2>11. Entries' /\ \A k \in Hosts : Known(k)' => Known(k) /\ entry'[k].origin = entry[k].origin
    <3>1. \A k \in Hosts \ {h} : entry'[k] = entry[k]
      BY <1>1, <2>2
    <3>2. entry' = [k \in Hosts |-> entry'[k]]
      BY <1>1, <2>2
    <3>3. Known(h)
      BY <1>5 DEF Listable, Fresh
    <3> QED BY <2>10, <3>1, <3>2, <3>3 DEF Entries, Known, Inv
  <2> QED BY <1>1, <1>2, <2>7, <2>8, <2>9, <2>11, AskStep
<1> QED BY <1>4, <1>5

\* Whatever the strategy, the host had room by what the listing says.
LEMMA ChosenFits ==
    ASSUME Inv, NEW r \in Requests, NEW answer,
           answer \in {BestFit(req[r].list, OneUnit), FirstFit(req[r].list, OneUnit),
                       LeastLoaded(req[r].list, OneUnit)},
           answer.placed
    PROVE  \E i \in DOMAIN req[r].list :
              /\ answer.host = req[r].list[i].host
              /\ Cardinality(req[r].list[i].saw) < Capacity
<1>1. /\ Fair(r, req[r]) /\ req[r].list \in Seq(Listed) /\ Capacity \in Nat
      /\ IsFiniteSet(Requests)
  BY AskShapes DEF Asked
<1>2. \A i \in DOMAIN req[r].list :
          /\ req[r].list[i] \in Listed
          /\ FreeVcpus(req[r].list[i]) <= Capacity /\ FreeMem(req[r].list[i]) <= Capacity
  <2> SUFFICES ASSUME NEW i \in DOMAIN req[r].list
               PROVE  /\ req[r].list[i] \in Listed
                      /\ FreeVcpus(req[r].list[i]) <= Capacity
                      /\ FreeMem(req[r].list[i]) <= Capacity
    OBVIOUS
  <2>1. /\ req[r].list[i] \in Listed
        /\ req[r].list[i].totalVcpus = Capacity /\ req[r].list[i].totalMem = Capacity
    BY <1>1 DEF Fair
  <2>2. PICK s \in Listed : s = req[r].list[i]
    BY <2>1
  <2>3. s.totalVcpus = Capacity /\ s.totalMem = Capacity /\ {s.usedVcpus, s.usedMem} \subseteq Nat
    BY <2>1, <2>2 DEF Listed
  <2>4. FreeVcpus(s) <= Capacity /\ FreeMem(s) <= Capacity
    BY <1>1, <2>3 DEF FreeVcpus, FreeMem
  <2> QED BY <2>1, <2>2, <2>4
<1>3. PICK i \in Candidates(req[r].list, OneUnit) : answer.host = req[r].list[i].host
  <2>1. CASE answer = BestFit(req[r].list, OneUnit)
    BY <1>1, <2>1, BestFitIsTight
  <2>2. CASE answer = FirstFit(req[r].list, OneUnit)
    BY <1>1, <2>2, FirstFitChooses
  <2>3. CASE answer = LeastLoaded(req[r].list, OneUnit)
    <3>1. \A j \in DOMAIN req[r].list :
              FreeVcpus(req[r].list[j]) + FreeMem(req[r].list[j]) <= Capacity + Capacity
      BY <1>1, <1>2, FreeParts
    <3>2. Capacity + Capacity \in Nat
      BY <1>1
    <3> QED BY <1>1, <2>3, <3>1, <3>2, LeastLoadedChooses
  <2> QED BY <2>1, <2>2, <2>3
<1>4. /\ i \in DOMAIN req[r].list /\ req[r].list[i] \in Listed
      /\ FreeVcpus(req[r].list[i]) >= 1
      /\ req[r].list[i].totalVcpus = Capacity
      /\ req[r].list[i].usedVcpus = Cardinality(req[r].list[i].saw)
  BY <1>1, <1>2, <1>3 DEF Candidates, CanSchedule, OneUnit, Fair
<1>5. Cardinality(req[r].list[i].saw) < Capacity
  BY <1>1, <1>4 DEF FreeVcpus, Listed
<1> QED BY <1>3, <1>4, <1>5

LEMMA PlaceStep ==
    ASSUME Inv, NEW r \in Requests, PlaceSandbox(r)
    PROVE  Inv'
<1>1. PICK answer \in {BestFit(req[r].list, OneUnit), FirstFit(req[r].list, OneUnit),
                       LeastLoaded(req[r].list, OneUnit)} :
         req' = [req EXCEPT ![r] =
          IF answer.placed
          THEN LET i == CHOOSE j \in DOMAIN req[r].list : req[r].list[j].host = answer.host
               IN  [pc |-> "placed", region |-> None, left |-> {}, list |-> <<>>,
                    host |-> answer.host, blind |-> Bound(answer.host) \ req[r].list[i].saw]
          ELSE [NewRequest EXCEPT !.pc = "refused"]]
  BY DEF PlaceSandbox, Place
<1>2. /\ req[r].pc = "listing"
      /\ UNCHANGED <<entry, enabled, members, homeOf, beat, admin, ops, mixed>>
  BY DEF PlaceSandbox, Place
<1>3. /\ Fair(r, req[r]) /\ req[r] \in Asked /\ req = [x \in Requests |-> req[x]]
      /\ ops \in 0 .. MaxOps /\ IsFiniteSet(Requests) /\ IsFiniteSet(Hosts) /\ Capacity \in Nat
  BY AskShapes
<1>4. CASE ~ answer.placed
  <2> DEFINE q == [NewRequest EXCEPT !.pc = "refused"]
  <2>1. req' = [req EXCEPT ![r] = q]
    BY <1>1, <1>4
  <2>2. Fair(r, q) /\ q.pc = "refused"
    BY Refused DEF NewRequest
  <2> HIDE DEF q
  <2>3. Covered'
    BY <2>1, <2>2, NotBound
  <2> QED BY <1>2, <1>3, <2>1, <2>2, <2>3, AskAlone
<1>5. CASE answer.placed
  <2>1. PICK i \in DOMAIN req[r].list :
          /\ answer.host = req[r].list[i].host
          /\ Cardinality(req[r].list[i].saw) < Capacity
    BY <1>5, ChosenFits
  <2>11. req[r].list[i].host \in Hosts /\ req[r].list[i].saw \in SUBSET Requests
    <3>1. req[r].list \in Seq(Listed)
      BY <1>3 DEF Asked
    <3>2. req[r].list[i] \in Listed
      BY <3>1
    <3> QED BY <3>2 DEF Listed
  <2>2. PICK h \in Hosts : h = answer.host
    BY <2>1, <2>11
  <2>3. PICK saw \in SUBSET Requests : saw = req[r].list[i].saw
    BY <2>11
  <2>4. (CHOOSE j \in DOMAIN req[r].list : req[r].list[j].host = answer.host) = i
    BY <1>3, <2>1 DEF Fair
  <2> DEFINE blind == Bound(h) \ saw
             q == [pc |-> "placed", region |-> None, left |-> {}, list |-> <<>>,
                   host |-> h, blind |-> blind]
  <2>5. req' = [req EXCEPT ![r] = q]
    BY <1>1, <1>5, <2>2, <2>3, <2>4
  <2>6. r \notin Bound(h) /\ blind \in SUBSET Requests
    BY <1>2 DEF Bound
  <2> HIDE DEF blind
  <2>7. /\ q \in Asked /\ q.pc = "placed" /\ q.list = <<>> /\ q.left = {} /\ q.host = h
        /\ q.blind = blind
    BY <2>6 DEF Asked
  <2> HIDE DEF q
  <2>8. Fair(r, q)
    <3>1. Len(q.list) = 0 /\ DOMAIN q.list = {} /\ Cardinality(q.left) = 0
      BY <2>7, FS_EmptySet
    <3>2. Cardinality(Hosts) \in Nat
      BY <1>3, FS_CardinalityType
    <3>3. r \notin q.blind
      BY <2>6, <2>7 DEF blind
    <3> QED BY <2>7, <3>1, <3>2, <3>3 DEF Fair
  <2>9. req'[r] = q /\ \A x \in Requests \ {r} : req'[x] = req[x]
    BY <1>3, <2>5
  <2>10. Covered'
    <3> SUFFICES ASSUME NEW k \in Hosts, NEW S \in SUBSET Bound(k)', Cardinality(S) > Capacity
                 PROVE  \E x \in S : Cardinality(req'[x].blind \cap S) >= Cardinality(S) - Capacity
      BY DEF Covered
    <3>1. \A x \in Requests \ {r} : x \in Bound(k)' <=> x \in Bound(k)
      BY <2>9 DEF Bound
    <3>2. S \subseteq Requests /\ (r \in S => k = h)
      BY <2>7, <2>9 DEF Bound
    <3>3. CASE r \notin S
      <4>1. S \in SUBSET Bound(k)
        BY <3>1, <3>2, <3>3
      <4>2. PICK x \in S : Cardinality(req[x].blind \cap S) >= Cardinality(S) - Capacity
        BY <4>1 DEF Inv, Covered
      <4> QED BY <2>9, <3>2, <3>3, <4>2
    <3>4. CASE r \in S
      <4> DEFINE T == S \ {r}
      <4>1. T \subseteq Bound(h)
        BY <3>1, <3>2, <3>4
      <4>2. /\ IsFiniteSet(S) /\ IsFiniteSet(T) /\ Cardinality(T) = Cardinality(S) - 1
            /\ Cardinality(S) \in Nat /\ Cardinality(T) \in Nat
        BY <1>3, <3>2, <3>4, FS_Subset, FS_RemoveElement, FS_CardinalityType
      <4>3. blind \cap S = T \ saw
        BY <2>6, <4>1 DEF blind
      <4>4. /\ IsFiniteSet(T \ saw)
            /\ Cardinality(T \ saw) = Cardinality(T) - Cardinality(T \cap saw)
        BY <4>2, FS_Difference
      <4>5. IsFiniteSet(saw) /\ Cardinality(saw) \in Nat
        BY <1>3, FS_Subset, FS_CardinalityType
      <4>6. Cardinality(T \cap saw) <= Cardinality(saw) /\ Cardinality(T \cap saw) \in Nat
        BY <4>5, FS_Subset, FS_CardinalityType
      <4>7. Cardinality(blind \cap S) >= Cardinality(S) - Capacity
        <5>1. Cardinality(saw) < Capacity
          BY <2>1, <2>3
        <5>2. Cardinality(blind \cap S) = Cardinality(T) - Cardinality(T \cap saw)
          BY <4>3, <4>4
        <5> HIDE DEF T
        <5> QED BY <1>3, <4>2, <4>5, <4>6, <5>1, <5>2
      <4> QED BY <2>7, <2>9, <3>4, <4>7
    <3> QED BY <3>3, <3>4
  <2> QED BY <1>2, <1>3, <2>5, <2>8, <2>10, AskAlone
<1> QED BY <1>4, <1>5

-----------------------------------------------------------------------------
(* The region registry *)

\* What the region registry leaves to the rest.
LEMMA RegistryStep ==
    ASSUME Inv, UNCHANGED <<beat, req>>, ops' \in 0 .. MaxOps, Maps', Homes', Entries',
           \A h \in Hosts : Known(h)' /\ entry'[h].origin = "inserted" =>
               Known(h) /\ entry[h].origin = "inserted"
    PROVE  Inv'
<1>1. Asking' /\ Covered' /\ Beating'
  BY RequestsKept DEF Inv, Beating, Beat
<1>2. UnsampledIsPending'
  BY PendingKept DEF Inv
<1> QED BY <1>1, <1>2 DEF Inv

LEMMA EntriesAlone ==
    ASSUME Inv, entry' = entry
    PROVE  /\ Entries'
           /\ \A h \in Hosts : Known(h)' /\ entry'[h].origin = "inserted" =>
                  Known(h) /\ entry[h].origin = "inserted"
BY DEF Inv, Entries, Known

\* An operation on one host leaves the other hosts where they are.
LEMMA AdminMoves ==
    ASSUME Inv, NEW a \in Admins, NEW h \in Hosts, NEW m, Op(m),
           admin' = [admin EXCEPT ![a] = m],
           admin[a].host \in {h, None}, m.host \in {h, None},
           \A k \in Hosts \ {h} : /\ \A x \in Regions : k \in members'[x] <=> k \in members[x]
                                  /\ homeOf'[k] = homeOf[k],
           mixed \subseteq mixed',
           h \notin mixed' => /\ \A b \in Admins \ {a} : admin[b].host # h
                              /\ m.host = h => Halfway(a)'
                              /\ m.host # h => In(h, homeOf[h])'
    PROVE  Homes'
<1>1. /\ admin'[a] = m /\ \A b \in Admins \ {a} : admin'[b] = admin[b]
      /\ None \notin Hosts
  BY FleetAssumption DEF Inv, Maps
<1>2. ASSUME NEW k \in Hosts \ mixed', k # h
      PROVE  Homed(k)'
  <2>1. Homed(k)
    BY <1>2 DEF Inv, Homes
  <2>2. \A b \in Admins : (admin'[b].host = k <=> admin[b].host = k)
                          /\ (admin[b].host = k => admin'[b] = admin[b])
    BY <1>1, <1>2
  <2>3. (\A x \in Regions : k \in members'[x] <=> k \in members[x]) /\ homeOf'[k] = homeOf[k]
    BY <1>2
  <2>4. ~ Busy(k)' => In(k, homeOf[k])'
    BY <2>1, <2>2, <2>3 DEF Homed, Busy, In
  <2>5. ASSUME NEW b \in Admins, admin'[b].host = k PROVE Halfway(b)'
    <3>1. Halfway(b) /\ admin'[b] = admin[b] /\ admin[b].host = k
      BY <2>1, <2>2, <2>5 DEF Homed
    <3> QED BY <2>3, <3>1 DEF Halfway, In
  <2> QED BY <2>1, <2>2, <2>4, <2>5 DEF Homed
<1>3. ASSUME h \notin mixed'
      PROVE  Homed(h)'
  <2>1. \A b \in Admins : admin'[b].host = h => b = a
    BY <1>1, <1>3
  <2>2. CASE m.host = h
    <3>1. Busy(h)'
      BY <1>1, <2>2 DEF Busy
    <3> QED BY <1>3, <2>1, <2>2, <3>1 DEF Homed
  <2>3. CASE m.host # h
    <3>1. \A b \in Admins : admin'[b].host # h
      BY <1>1, <2>1, <2>3
    <3> QED BY <1>3, <2>3, <3>1 DEF Homed
  <2> QED BY <2>2, <2>3
<1> QED BY <1>2, <1>3 DEF Homes

\* What an administrator in the middle of an operation can count on.
LEMMA AdminShapes ==
    ASSUME Inv, NEW a \in Admins, admin[a].pc # "idle"
    PROVE  /\ Op(admin[a]) /\ admin[a].host \in Hosts /\ admin[a].region \in Regions
           /\ admin = [b \in Admins |-> admin[b]]
           /\ members \in [Regions -> SUBSET Hosts]
           /\ homeOf \in [Hosts -> Regions \cup {None}]
           /\ ops \in 0 .. MaxOps /\ None \notin Hosts /\ None \notin Regions
           /\ admin[a].host \notin mixed =>
                 /\ Halfway(a)
                 /\ \A b \in Admins \ {a} : admin[b].host # admin[a].host
<1>1. Op(admin[a]) /\ admin = [b \in Admins |-> admin[b]]
  BY DEF Inv, Maps
<1>2. admin[a].host \in Hosts /\ admin[a].region \in Regions
  BY <1>1 DEF Op
<1>3. admin[a].host \notin mixed => Homed(admin[a].host)
  BY <1>2 DEF Inv, Homes
<1> QED BY <1>1, <1>2, <1>3, FleetAssumption DEF Inv, Maps, Homed

LEMMA IdleOp == Op(NoOp) /\ NoOp.host = None
BY DEF Op, NoOp

LEMMA RegisterHostStep ==
    ASSUME Inv, NEW a \in Admins, NEW h \in Hosts, NEW g \in Regions, RegisterHost(a, h, g)
    PROVE  Inv'
<1> DEFINE m == [pc |-> "insert", host |-> h, region |-> g]
<1>1. Op(m) /\ m.pc = "insert" /\ m.host = h /\ m.region = g
  BY FleetAssumption DEF Op
<1>2. /\ admin' = [admin EXCEPT ![a] = m] /\ admin[a].pc = "idle" /\ Count
      /\ mixed' = IF Busy(h) \/ homeOf[h] \notin {None, g} THEN mixed \cup {h} ELSE mixed
      /\ UNCHANGED <<entry, enabled, members, homeOf, beat, req>>
  BY DEF RegisterHost, BeginOp
<1> HIDE DEF m
<1>3. /\ admin = [b \in Admins |-> admin[b]] /\ admin[a].host = None
      /\ \A b \in Admins : Op(admin[b])
  BY <1>2 DEF Inv, Maps, Op
<1>4. admin'[a] = m /\ \A b \in Admins \ {a} : admin'[b] = admin[b]
  BY <1>2, <1>3
<1>5. ASSUME h \notin mixed'
      PROVE  /\ \A b \in Admins \ {a} : admin[b].host # h
             /\ Halfway(a)'
  <2>1. ~ Busy(h) /\ homeOf[h] \in {None, g} /\ h \notin mixed
    BY <1>2, <1>5
  <2>2. In(h, homeOf[h])
    BY <2>1 DEF Inv, Homes, Homed
  <2> QED BY <1>1, <1>2, <1>4, <2>1, <2>2 DEF Busy, Halfway, In
<1>6. Homes'
  BY <1>1, <1>2, <1>3, <1>5, AdminMoves
<1>7. Maps'
  <2>1. \A b \in Admins : Op(admin'[b])
    BY <1>1, <1>3, <1>4
  <2> QED BY <1>2, <1>3, <2>1 DEF Inv, Maps, Op
<1> QED BY <1>2, <1>6, <1>7, CountOps, EntriesAlone, RegistryStep

LEMMA RemoveHostStep ==
    ASSUME Inv, NEW a \in Admins, NEW h \in Hosts, RemoveHost(a, h)
    PROVE  Inv'
<1>1. PICK g \in Regions : g = homeOf[h]
  BY DEF RemoveHost, Inv, Maps
<1> DEFINE m == [pc |-> "leave", host |-> h, region |-> g]
<1>2. Op(m) /\ m.pc = "leave" /\ m.host = h /\ m.region = g
  BY FleetAssumption DEF Op
<1>3. /\ admin' = [admin EXCEPT ![a] = m] /\ admin[a].pc = "idle" /\ Count
      /\ homeOf' = [homeOf EXCEPT ![h] = None]
      /\ mixed' = IF Busy(h) THEN mixed \cup {h} ELSE mixed
      /\ UNCHANGED <<entry, enabled, members, beat, req>>
  BY <1>1 DEF RemoveHost, BeginOp
<1> HIDE DEF m
<1>4. /\ admin = [b \in Admins |-> admin[b]] /\ admin[a].host = None
      /\ \A b \in Admins : Op(admin[b])
      /\ homeOf \in [Hosts -> Regions \cup {None}]
  BY <1>3 DEF Inv, Maps, Op
<1>5. admin'[a] = m /\ \A b \in Admins \ {a} : admin'[b] = admin[b]
  BY <1>3, <1>4
<1>6. ASSUME h \notin mixed'
      PROVE  /\ \A b \in Admins \ {a} : admin[b].host # h
             /\ Halfway(a)'
  <2>1. ~ Busy(h) /\ h \notin mixed
    BY <1>3, <1>6
  <2>2. In(h, g)
    BY <1>1, <2>1 DEF Inv, Homes, Homed
  <2> QED BY <1>2, <1>3, <1>4, <1>5, <2>1, <2>2 DEF Busy, Halfway, In
<1>7. \A k \in Hosts \ {h} : homeOf'[k] = homeOf[k]
  BY <1>3, <1>4
<1>8. Homes'
  BY <1>2, <1>3, <1>4, <1>6, <1>7, AdminMoves
<1>9. Maps'
  <2>1. \A b \in Admins : Op(admin'[b])
    BY <1>2, <1>4, <1>5
  <2> QED BY <1>3, <1>4, <2>1 DEF Inv, Maps, Op
<1> QED BY <1>3, <1>8, <1>9, CountOps, EntriesAlone, RegistryStep

\* An operation of an administrator goes on to its next step m.
LEMMA MapsMove ==
    ASSUME Inv, NEW a \in Admins, NEW m, Op(m), admin' = [admin EXCEPT ![a] = m],
           enabled' = enabled,
           members' \in [Regions -> SUBSET Hosts], homeOf' \in [Hosts -> Regions \cup {None}]
    PROVE  Maps' /\ admin'[a] = m
<1>1. admin = [b \in Admins |-> admin[b]] /\ \A b \in Admins : Op(admin[b])
  BY DEF Inv, Maps
<1>2. admin'[a] = m /\ \A b \in Admins \ {a} : admin'[b] = admin[b]
  BY <1>1
<1>3. \A b \in Admins : Op(admin'[b])
  BY <1>1, <1>2
<1>4. admin' = [b \in Admins |-> admin'[b]]
  BY <1>1
<1> QED BY <1>2, <1>3, <1>4 DEF Inv, Maps, Op

LEMMA NextOp ==
    ASSUME NEW m, Op(m), m.pc # "idle", NEW pc \in {"home", "upsert", "forget"}
    PROVE  LET n == [m EXCEPT !.pc = pc]
           IN  Op(n) /\ n.pc = pc /\ n.host = m.host /\ n.region = m.region
BY DEF Op

LEMMA InsertMemberStep ==
    ASSUME Inv, NEW a \in Admins, InsertMember(a)
    PROVE  Inv'
<1>1. admin[a].pc = "insert"
  BY DEF InsertMember
<1>2. PICK h \in Hosts : h = admin[a].host
  BY <1>1, AdminShapes
<1>3. PICK g \in Regions : g = admin[a].region
  BY <1>1, AdminShapes
<1>4. /\ Op(admin[a]) /\ admin = [b \in Admins |-> admin[b]]
      /\ members \in [Regions -> SUBSET Hosts] /\ homeOf \in [Hosts -> Regions \cup {None}]
      /\ ops \in 0 .. MaxOps /\ None \notin Hosts /\ None \notin Regions
      /\ h \notin mixed => Halfway(a) /\ \A b \in Admins \ {a} : admin[b].host # h
  BY <1>1, <1>2, AdminShapes
<1> DEFINE m == [admin[a] EXCEPT !.pc = "home"]
<1>5. /\ admin' = [admin EXCEPT ![a] = m] /\ members' = [members EXCEPT ![g] = members[g] \cup {h}]
      /\ UNCHANGED <<entry, enabled, homeOf, beat, req, ops, mixed>>
  BY <1>2, <1>3 DEF InsertMember
<1>6. Op(m) /\ m.pc = "home" /\ m.host = h /\ m.region = g
  BY <1>1, <1>2, <1>3, <1>4, NextOp
<1> HIDE DEF m
<1>7. /\ members' \in [Regions -> SUBSET Hosts] /\ members'[g] = members[g] \cup {h}
      /\ \A x \in Regions \ {g} : members'[x] = members[x]
  BY <1>4, <1>5
<1>8. Maps' /\ admin'[a] = m
  BY <1>4, <1>5, <1>6, <1>7, MapsMove
<1>9. ASSUME h \notin mixed'
      PROVE  (\A b \in Admins \ {a} : admin[b].host # h) /\ Halfway(a)'
  <2>1. homeOf[h] \in {None, g} /\ In(h, homeOf[h]) /\ \A b \in Admins \ {a} : admin[b].host # h
    BY <1>1, <1>2, <1>3, <1>4, <1>5, <1>9 DEF Halfway
  <2>2. \A x \in Regions : h \in members'[x] <=> x = g
    BY <1>4, <1>7, <2>1 DEF In
  <2> QED BY <1>6, <1>8, <2>1, <2>2 DEF Halfway, In
<1>10. \A k \in Hosts \ {h}, x \in Regions : k \in members'[x] <=> k \in members[x]
  BY <1>7
<1>11. Homes'
  BY <1>2, <1>5, <1>6, <1>9, <1>10, AdminMoves
<1> QED BY <1>4, <1>5, <1>8, <1>11, EntriesAlone, RegistryStep

LEMMA SetHomeStep ==
    ASSUME Inv, NEW a \in Admins, SetHome(a)
    PROVE  Inv'
<1>1. admin[a].pc = "home"
  BY DEF SetHome
<1>2. PICK h \in Hosts : h = admin[a].host
  BY <1>1, AdminShapes
<1>3. PICK g \in Regions : g = admin[a].region
  BY <1>1, AdminShapes
<1>4. /\ Op(admin[a]) /\ admin = [b \in Admins |-> admin[b]]
      /\ members \in [Regions -> SUBSET Hosts] /\ homeOf \in [Hosts -> Regions \cup {None}]
      /\ ops \in 0 .. MaxOps
      /\ h \notin mixed => Halfway(a) /\ \A b \in Admins \ {a} : admin[b].host # h
  BY <1>1, <1>2, AdminShapes
<1> DEFINE m == [admin[a] EXCEPT !.pc = "upsert"]
<1>5. /\ admin' = [admin EXCEPT ![a] = m] /\ homeOf' = [homeOf EXCEPT ![h] = g]
      /\ UNCHANGED <<entry, enabled, members, beat, req, ops, mixed>>
  BY <1>2, <1>3 DEF SetHome
<1>6. Op(m) /\ m.pc = "upsert" /\ m.host = h /\ m.region = g
  BY <1>1, <1>2, <1>3, <1>4, NextOp
<1> HIDE DEF m
<1>7. /\ homeOf' \in [Hosts -> Regions \cup {None}] /\ homeOf'[h] = g
      /\ \A k \in Hosts \ {h} : homeOf'[k] = homeOf[k]
  BY <1>4, <1>5
<1>8. Maps' /\ admin'[a] = m
  BY <1>4, <1>5, <1>6, <1>7, MapsMove
<1>9. ASSUME h \notin mixed'
      PROVE  (\A b \in Admins \ {a} : admin[b].host # h) /\ Halfway(a)'
  <2>1. In(h, g) /\ \A b \in Admins \ {a} : admin[b].host # h
    BY <1>1, <1>2, <1>3, <1>4, <1>5, <1>9 DEF Halfway
  <2> QED BY <1>5, <1>6, <1>7, <1>8, <2>1 DEF Halfway, In
<1>10. Homes'
  BY <1>2, <1>5, <1>6, <1>7, <1>9, AdminMoves
<1> QED BY <1>4, <1>5, <1>8, <1>10, EntriesAlone, RegistryStep

LEMMA UpsertMemberStep ==
    ASSUME Inv, NEW a \in Admins, UpsertMember(a)
    PROVE  Inv'
<1>1. /\ admin[a].pc = "upsert" /\ admin' = [admin EXCEPT ![a] = NoOp]
      /\ UNCHANGED <<enabled, members, homeOf, beat, req, ops, mixed>>
  BY DEF UpsertMember
<1>2. PICK h \in Hosts : h = admin[a].host
  BY <1>1, AdminShapes
<1>3. /\ members \in [Regions -> SUBSET Hosts] /\ homeOf \in [Hosts -> Regions \cup {None}]
      /\ ops \in 0 .. MaxOps /\ None \notin Hosts
      /\ h \notin mixed => Halfway(a) /\ \A b \in Admins \ {a} : admin[b].host # h
  BY <1>1, <1>2, AdminShapes
<1>4. Upsert(h, "told")
  BY <1>2 DEF UpsertMember
<1>5. /\ Entries' /\ \A k \in Hosts \ {h} : entry'[k] = entry[k]
      /\ Known(h) => entry'[h].origin = entry[h].origin
      /\ ~ Known(h) => entry'[h].origin = "told"
  BY <1>4, UpsertEntries DEF Inv
<1>6. \A k \in Hosts : Known(k)' /\ entry'[k].origin = "inserted" =>
          Known(k) /\ entry[k].origin = "inserted"
  BY <1>5 DEF Known
<1>7. Maps'
  BY <1>1, <1>3, IdleOp, MapsMove
<1>8. ASSUME h \notin mixed'
      PROVE  (\A b \in Admins \ {a} : admin[b].host # h) /\ In(h, homeOf[h])'
  <2>1. (\A b \in Admins \ {a} : admin[b].host # h) /\ In(h, homeOf[h])
    BY <1>1, <1>2, <1>3, <1>8 DEF Halfway
  <2> QED BY <1>1, <2>1 DEF In
<1>9. Homes'
  BY <1>1, <1>2, <1>3, <1>8, IdleOp, AdminMoves
<1> QED BY <1>1, <1>3, <1>5, <1>6, <1>7, <1>9, RegistryStep

LEMMA RemoveMemberStep ==
    ASSUME Inv, NEW a \in Admins, RemoveMember(a)
    PROVE  Inv'
<1>1. admin[a].pc = "leave"
  BY DEF RemoveMember
<1>2. PICK h \in Hosts : h = admin[a].host
  BY <1>1, AdminShapes
<1>3. PICK g \in Regions : g = admin[a].region
  BY <1>1, AdminShapes
<1>4. /\ Op(admin[a]) /\ admin = [b \in Admins |-> admin[b]]
      /\ members \in [Regions -> SUBSET Hosts] /\ homeOf \in [Hosts -> Regions \cup {None}]
      /\ ops \in 0 .. MaxOps /\ None \notin Regions
      /\ h \notin mixed => Halfway(a) /\ \A b \in Admins \ {a} : admin[b].host # h
  BY <1>1, <1>2, AdminShapes
<1> DEFINE m == [admin[a] EXCEPT !.pc = "forget"]
<1>5. /\ admin' = [admin EXCEPT ![a] = m] /\ members' = [members EXCEPT ![g] = members[g] \ {h}]
      /\ UNCHANGED <<entry, enabled, homeOf, beat, req, ops, mixed>>
  BY <1>2, <1>3 DEF RemoveMember
<1>6. Op(m) /\ m.pc = "forget" /\ m.host = h /\ m.region = g
  BY <1>1, <1>2, <1>3, <1>4, NextOp
<1> HIDE DEF m
<1>7. /\ members' \in [Regions -> SUBSET Hosts] /\ members'[g] = members[g] \ {h}
      /\ \A x \in Regions \ {g} : members'[x] = members[x]
  BY <1>4, <1>5
<1>8. Maps' /\ admin'[a] = m
  BY <1>4, <1>5, <1>6, <1>7, MapsMove
<1>9. ASSUME h \notin mixed'
      PROVE  (\A b \in Admins \ {a} : admin[b].host # h) /\ Halfway(a)'
  <2>1. homeOf[h] = None /\ In(h, g) /\ \A b \in Admins \ {a} : admin[b].host # h
    BY <1>1, <1>2, <1>3, <1>4, <1>5, <1>9 DEF Halfway
  <2>2. \A x \in Regions : h \in members'[x] <=> x = None
    BY <1>4, <1>7, <2>1 DEF In
  <2> QED BY <1>5, <1>6, <1>8, <2>1, <2>2 DEF Halfway, In
<1>10. \A k \in Hosts \ {h}, x \in Regions : k \in members'[x] <=> k \in members[x]
  BY <1>7
<1>11. Homes'
  BY <1>2, <1>5, <1>6, <1>9, <1>10, AdminMoves
<1> QED BY <1>4, <1>5, <1>8, <1>11, EntriesAlone, RegistryStep

LEMMA ForgetHostStep ==
    ASSUME Inv, NEW a \in Admins, ForgetHost(a)
    PROVE  Inv'
<1>1. /\ admin[a].pc = "forget" /\ admin' = [admin EXCEPT ![a] = NoOp]
      /\ UNCHANGED <<enabled, members, homeOf, beat, req, ops, mixed>>
  BY DEF ForgetHost
<1>2. PICK h \in Hosts : h = admin[a].host
  BY <1>1, AdminShapes
<1>3. /\ members \in [Regions -> SUBSET Hosts] /\ homeOf \in [Hosts -> Regions \cup {None}]
      /\ ops \in 0 .. MaxOps /\ None \notin Hosts
      /\ h \notin mixed => Halfway(a) /\ \A b \in Admins \ {a} : admin[b].host # h
  BY <1>1, <1>2, AdminShapes
<1>4. entry' = [entry EXCEPT ![h] = None] /\ entry = [k \in Hosts |-> entry[k]]
  BY <1>2 DEF ForgetHost, Inv, Entries
<1>5. entry'[h] = None /\ \A k \in Hosts \ {h} : entry'[k] = entry[k]
  BY <1>4
<1>6. Entries' /\ \A k \in Hosts : Known(k)' /\ entry'[k].origin = "inserted" =>
          Known(k) /\ entry[k].origin = "inserted"
  BY <1>4, <1>5 DEF Known, Inv, Entries
<1>7. Maps'
  BY <1>1, <1>3, IdleOp, MapsMove
<1>8. ASSUME h \notin mixed'
      PROVE  (\A b \in Admins \ {a} : admin[b].host # h) /\ In(h, homeOf[h])'
  <2>1. homeOf[h] = None /\ In(h, None) /\ \A b \in Admins \ {a} : admin[b].host # h
    BY <1>1, <1>2, <1>3, <1>8 DEF Halfway
  <2> QED BY <1>1, <2>1 DEF In
<1>9. Homes'
  BY <1>1, <1>2, <1>3, <1>8, IdleOp, AdminMoves
<1> QED BY <1>1, <1>3, <1>6, <1>7, <1>9, RegistryStep

LEMMA SetEnabledStep ==
    ASSUME Inv, NEW g \in Regions, SetEnabled(g)
    PROVE  Inv'
<1>1. /\ Count /\ enabled' \subseteq enabled \cup {g}
      /\ UNCHANGED <<entry, members, homeOf, beat, req, admin, mixed>>
  BY DEF SetEnabled
<1>2. Maps' /\ Homes'
  BY <1>1, HomesKept DEF Inv, Maps, Op
<1> QED BY <1>1, <1>2, CountOps, EntriesAlone, RegistryStep

\* Every host that a region registered again may leave behind is mixed from then on.
LEMMA RegisterRegionStep ==
    ASSUME Inv, NEW g \in Regions, RegisterRegion(g)
    PROVE  Inv'
<1>1. /\ Count /\ enabled' = enabled \cup {g} /\ members' = [members EXCEPT ![g] = {}]
      /\ mixed' = mixed \cup members[g] \cup {h \in Hosts : homeOf[h] = g}
                        \cup {admin[a].host : a \in {x \in Admins : admin[x].region = g}}
      /\ UNCHANGED <<entry, homeOf, beat, req, admin>>
  BY DEF RegisterRegion
<1>2. /\ members \in [Regions -> SUBSET Hosts] /\ enabled \subseteq Regions
      /\ \A a \in Admins : Op(admin[a])
  BY DEF Inv, Maps
<1>3. members'[g] = {} /\ \A x \in Regions \ {g} : members'[x] = members[x]
  BY <1>1, <1>2
<1>4. Maps'
  <2>1. members' \in [Regions -> SUBSET Hosts]
    BY <1>1, <1>2
  <2> QED BY <1>1, <1>2, <2>1 DEF Inv, Maps, Op
<1>5. ASSUME NEW h \in Hosts \ mixed' PROVE Homed(h)'
  <2>1. /\ h \notin mixed /\ h \notin members[g] /\ homeOf[h] # g
        /\ \A a \in Admins : admin[a].host = h => admin[a].region # g
    BY <1>1, <1>5
  <2>2. Homed(h)
    BY <2>1 DEF Inv, Homes
  <2>3. \A x \in Regions : h \in members'[x] <=> h \in members[x]
    BY <1>3, <2>1
  <2>4. \A a \in Admins : admin[a].host = h => Halfway(a)'
    BY <1>1, <2>2, <2>3 DEF Homed, Halfway, In
  <2>5. ~ Busy(h)' => In(h, homeOf[h])'
    BY <1>1, <2>2, <2>3 DEF Homed, Busy, In
  <2> QED BY <1>1, <2>2, <2>4, <2>5 DEF Homed
<1>6. Homes'
  BY <1>5 DEF Homes
<1> QED BY <1>1, <1>4, <1>6, CountOps, EntriesAlone, RegistryStep

-----------------------------------------------------------------------------
(* The invariant holds *)

LEMMA InitEstablished == Init => Inv
<1> SUFFICES ASSUME Init PROVE Inv
  OBVIOUS
<1>1. /\ {Timeout, Capacity, MaxOps} \subseteq Nat /\ None \notin Hosts /\ None \notin Regions
      /\ IsFiniteSet(Hosts)
  BY FleetAssumption
<1>2. Entries /\ Maps /\ Beating /\ ops \in 0 .. MaxOps
  <2>1. Beat(NoBeat)
    BY DEF Beat, NoBeat
  <2>2. Entries
    BY DEF Init, Entries, Known
  <2>3. Maps
    BY IdleOp DEF Init, Maps
  <2>4. Beating
    BY <2>1 DEF Init, Beating
  <2> QED BY <1>1, <2>2, <2>3, <2>4 DEF Init
<1>3. Asking
  <2>1. /\ NewRequest.pc = "idle" /\ NewRequest.list = <<>> /\ NewRequest.left = {}
        /\ NewRequest.blind = {}
    BY DEF NewRequest
  <2>2. NewRequest \in Asked
    <3>1. <<>> \in Seq(Listed)
      OBVIOUS
    <3>2. /\ {} \in SUBSET Hosts /\ {} \in SUBSET Requests /\ None \in Hosts \cup {None}
          /\ None \in Regions \cup {None}
      OBVIOUS
    <3> QED BY <3>1, <3>2, Zenon DEF NewRequest, Asked
  <2>3. Cardinality({}) = 0 /\ Cardinality(Hosts) \in Nat
    BY <1>1, FS_EmptySet, FS_CardinalityType
  <2> DEFINE q == NewRequest
  <2> HIDE DEF q
  <2>4. q \in Asked /\ q.pc = "idle" /\ q.list = <<>> /\ q.left = {} /\ q.blind = {}
    BY <2>1, <2>2 DEF q
  <2>5. \A r \in Requests : Fair(r, q)
    BY <2>3, <2>4 DEF Fair
  <2>6. req = [r \in Requests |-> q]
    BY DEF Init, q
  <2> QED BY <2>5, <2>6 DEF Asking
<1>4. Covered
  <2>1. \A h \in Hosts : Bound(h) = {}
    BY DEF Init, Bound, NewRequest
  <2>2. ASSUME NEW h \in Hosts, NEW S \in SUBSET Bound(h) PROVE ~ (Cardinality(S) > Capacity)
    <3>1. S = {}
      BY <2>1
    <3> QED BY <1>1, <3>1, FS_EmptySet
  <2> QED BY <2>2 DEF Covered
<1>5. Homes
  <2>1. \A h \in Hosts : In(h, None) /\ homeOf[h] = None
    BY <1>1 DEF Init, In
  <2>2. \A h \in Hosts, a \in Admins : admin[a].host # h
    BY <1>1 DEF Init, NoOp
  <2> QED BY <2>1, <2>2 DEF Homes, Homed
<1>6. UnsampledIsPending
  BY DEF Init, UnsampledIsPending, Known
<1> QED BY <1>2, <1>3, <1>4, <1>5, <1>6 DEF Inv

LEMMA StutterPreserves ==
    ASSUME Inv, UNCHANGED vars
    PROVE  Inv'
<1>1. Entries' /\ ops' \in 0 .. MaxOps
      /\ \A h \in Hosts : Known(h)' => Known(h) /\ entry'[h].origin = entry[h].origin
  BY DEF vars, Inv, Entries, Known
<1> QED BY <1>1, EntryStep DEF vars

LEMMA AdminPreserves ==
    ASSUME Inv, NEW a \in Admins, AdminStep(a)
    PROVE  Inv'
<1>1. CASE InsertMember(a)
  BY <1>1, InsertMemberStep
<1>2. CASE SetHome(a)
  BY <1>2, SetHomeStep
<1>3. CASE UpsertMember(a)
  BY <1>3, UpsertMemberStep
<1>4. CASE RemoveMember(a)
  BY <1>4, RemoveMemberStep
<1>5. CASE ForgetHost(a)
  BY <1>5, ForgetHostStep
<1> QED BY <1>1, <1>2, <1>3, <1>4, <1>5 DEF AdminStep

LEMMA RequestPreserves ==
    ASSUME Inv, NEW r \in Requests, RequestStep(r) \/ StartSandbox(r) \/ EndSandbox(r)
    PROVE  Inv'
<1>1. CASE BeginListing(r) \/ BeginRegionListing(r)
  BY <1>1, BeginListingStep
<1>2. CASE \E g \in Regions : CheckRegion(r, g)
  BY <1>2, CheckRegionStep
<1>3. CASE \E h \in Hosts : VisitHost(r, h)
  BY <1>3, VisitHostStep
<1>4. CASE PlaceSandbox(r)
  BY <1>4, PlaceStep
<1>5. CASE StartSandbox(r)
  BY <1>5, StartSandboxStep
<1>6. CASE EndSandbox(r)
  BY <1>6, EndSandboxStep
<1> QED BY <1>1, <1>2, <1>3, <1>4, <1>5, <1>6 DEF RequestStep

LEMMA NextPreserves ==
    ASSUME Inv, Next
    PROVE  Inv'
<1>1. CASE \E b \in Beats : BeatStep(b)
  BY <1>1, HandleUpsertStep, HandleHeartbeatStep DEF BeatStep
<1>2. CASE \E b \in Beats : LoseHeartbeat(b) \/ \E h \in Hosts : SendHeartbeat(b, h)
  BY <1>2, BeatSends
<1>3. CASE \E h \in Hosts : ReportFailure(h) \/ Decommission(h)
  BY <1>3, ReportFailureStep, DecommissionStep
<1>4. CASE Tick
  BY <1>4, TickStep
<1>5. CASE \E r \in Requests : RequestStep(r) \/ StartSandbox(r) \/ EndSandbox(r)
  BY <1>5, RequestPreserves
<1>6. CASE \E g \in Regions : SetEnabled(g) \/ RegisterRegion(g)
  BY <1>6, SetEnabledStep, RegisterRegionStep
<1>7. CASE \E a \in Admins : AdminStep(a)
  BY <1>7, AdminPreserves
<1>8. CASE \E a \in Admins, h \in Hosts : RemoveHost(a, h)
  BY <1>8, RemoveHostStep
<1>9. CASE \E a \in Admins, h \in Hosts, g \in Regions : RegisterHost(a, h, g)
  BY <1>9, RegisterHostStep
<1> QED BY <1>1, <1>2, <1>3, <1>4, <1>5, <1>6, <1>7, <1>8, <1>9 DEF Next

\* The inductive invariant of the registries, the heartbeats and the requests.
THEOREM InvHolds == Spec => []Inv
<1>1. Inv /\ [Next]_vars => Inv'
  BY NextPreserves, StutterPreserves
<1> QED BY <1>1, InitEstablished, PTL DEF Spec

-----------------------------------------------------------------------------
(* What it says *)

\* The two registries and the tasks of main.rs keep their types, and a listing has each
\* host at most once.
THEOREM TypeCorrect == Spec => []TypeOK
<1>1. Inv => TypeOK
  <2> SUFFICES ASSUME Inv PROVE TypeOK
    OBVIOUS
  <2>1. \A h \in Hosts : Known(h) =>
           entry[h] \in [used : SUBSET Requests, origin : {"inserted", "told"},
                         age : 0 .. Timeout + 1, circuit : {"Closed", "Open", "HalfOpen"}]
    BY DEF Inv, Entries, Entry, Circuits
  <2>2. beat \in [Beats -> [pc : {"idle", "sent", "upserted"}, host : Hosts \cup {None},
                            sample : SUBSET Requests]]
    <3>1. beat = [b \in Beats |-> beat[b]] /\ \A b \in Beats : Beat(beat[b])
      BY DEF Inv, Beating
    <3> QED BY <3>1 DEF Beat
  <2>3. ASSUME NEW r \in Requests
        PROVE  /\ req[r].pc \in {"idle", "checked", "listing", "placed", "running", "refused"}
               /\ req[r].host \in Hosts \cup {None}
               /\ req[r].blind \subseteq Requests \ {r}
               /\ Len(req[r].list) + Cardinality(req[r].left) <= Cardinality(Hosts)
    <3>1. Fair(r, req[r]) /\ req[r] \in Asked
      BY AskShapes
    <3>2. /\ req[r].pc \in {"idle", "checked", "listing", "placed", "running", "refused"}
          /\ req[r].host \in Hosts \cup {None} /\ req[r].blind \in SUBSET Requests
      BY <3>1 DEF Asked
    <3>3. r \notin req[r].blind
      BY <3>1 DEF Fair
    <3>4. Len(req[r].list) + Cardinality(req[r].left) <= Cardinality(Hosts)
      BY <3>1 DEF Fair
    <3> QED BY <3>2, <3>3, <3>4
  <2>4. /\ enabled \subseteq Regions /\ members \in [Regions -> SUBSET Hosts]
        /\ homeOf \in [Hosts -> Regions \cup {None}] /\ ops \in 0 .. MaxOps
    BY DEF Inv, Maps
  <2> QED BY <2>1, <2>2, <2>3, <2>4 DEF TypeOK
<1> QED BY <1>1, InvHolds, PTL

\* schedule_handler: among the sandboxes of a host that has too many is one whose
\* decision missed at least as many of the others as are too many.
THEOREM OvercommitHolds == Spec => []OvercommitIsBlind
<1>1. Inv => OvercommitIsBlind
  <2> SUFFICES ASSUME Inv, NEW h \in Hosts, Cardinality(On(h)) > Capacity
               PROVE  \E r \in On(h) :
                         Cardinality(req[r].blind \cap On(h)) >= Cardinality(On(h)) - Capacity
    BY DEF OvercommitIsBlind
  <2>1. On(h) \in SUBSET Bound(h)
    BY DEF On, Bound
  <2> QED BY <2>1 DEF Inv, Covered
<1> QED BY <1>1, InvHolds, PTL

\* heartbeat_handler: a host that heartbeats made known is listed as empty, without having
\* said so, only until the heartbeat that is being handled is recorded.
THEOREM UnsampledHolds == Spec => []UnsampledIsPending
<1>1. Inv => UnsampledIsPending
  BY DEF Inv
<1> QED BY <1>1, InvHolds, PTL

\* RegionRegistry: the members of the regions and host_regions agree about each host that
\* is not being moved, never was in two regions, and whose operations never overlapped.
THEOREM RegionsAgreeHold == Spec => []RegionsAgree
<1>1. Inv => RegionsAgree
  <2> SUFFICES ASSUME Inv, NEW h \in Hosts \ mixed, ~ Busy(h), NEW g \in Regions
               PROVE  h \in members[g] <=> homeOf[h] = g
    BY DEF RegionsAgree
  <2>1. In(h, homeOf[h])
    BY DEF Inv, Homes, Homed
  <2> QED BY <2>1 DEF In
<1> QED BY <1>1, InvHolds, PTL

=============================================================================
