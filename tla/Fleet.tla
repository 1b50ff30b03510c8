------------------------------- MODULE Fleet -------------------------------
(***************************************************************************)
(* The hosts the scheduler knows, and where it sends sandboxes: host_      *)
(* registry.rs, region_registry.rs and the handlers of main.rs that use    *)
(* them.                                                                   *)
(*                                                                         *)
(* Both registries are DashMaps, so one action is one access to one entry. *)
(* A handler that makes several is a task between them: the handler of a   *)
(* heartbeat (Beats), of a request for a sandbox (Requests), and the       *)
(* region registry's operations (Admins).                                  *)
(*                                                                         *)
(* A sandbox is the request that asked for it, takes one vcpu and one unit *)
(* of memory, and a host has Capacity of each.  The registry keeps only how*)
(* many a host uses; the model keeps which, to tell what a decision saw.   *)
(***************************************************************************)
EXTENDS Integers, FiniteSets, Sequences, Placement

CONSTANTS
    Hosts, Regions,
    Requests,   \* requests for a sandbox, one each
    Beats,      \* heartbeats under way or handled at the same time
    Admins,     \* tasks that change the region registry
    Capacity,   \* sandboxes that fit on a host
    Timeout,    \* heartbeat_timeout, in ticks of the model's clock
    MaxOps,     \* bound: operations of the administrators and failure reports
    None        \* no entry, no region, no host

ASSUME FleetAssumption ==
    /\ {Capacity, Timeout, MaxOps} \subseteq Nat
    /\ None \notin Hosts \cup Regions
    /\ IsFiniteSet(Requests) /\ IsFiniteSet(Hosts)

VARIABLES
    entry,      \* HostRegistry::hosts, one entry for each host it knows
    enabled,    \* the regions that are enabled
    members,    \* Region::hosts of each region
    homeOf,     \* host_regions: the region each host was last registered in
    beat,       \* each heartbeat, from its sample to its handling
    req,        \* each request, from its listing to the end of its sandbox
    admin,      \* what each administrator is in the middle of
    ops,        \* operations begun, at most MaxOps
    mixed       \* history: hosts whose registrations moved or overlapped, or whose
                \* region was registered again

registryVars == <<entry, enabled, members, homeOf>>
vars == <<entry, enabled, members, homeOf, beat, req, admin, ops, mixed>>

OneUnit == [vcpus |-> 1, mem |-> 1]

NoBeat == [pc |-> "idle", host |-> None, sample |-> {}]
NoOp == [pc |-> "idle", host |-> None, region |-> None]

\* left: hosts the listing has not come to; list: the snapshots so far; saw: for
\* each of them, the sandboxes it counts; blind: sandboxes of the chosen host, or
\* on their way to it, that its snapshot did not count.
NewRequest == [pc |-> "idle", region |-> None, left |-> {}, list |-> <<>>,
               host |-> None, blind |-> {}]

\* main registers the regions before it serves, and nothing registers hosts.
Init ==
    /\ entry = [h \in Hosts |-> None]
    /\ enabled = Regions
    /\ members = [g \in Regions |-> {}]
    /\ homeOf = [h \in Hosts |-> None]
    /\ beat = [b \in Beats |-> NoBeat]
    /\ req = [r \in Requests |-> NewRequest]
    /\ admin = [a \in Admins |-> NoOp]
    /\ ops = 0
    /\ mixed = {}

Known(h) == entry[h] # None
Fresh(h) == Known(h) /\ entry[h].age <= Timeout
On(h) == {r \in Requests : req[r].pc = "running" /\ req[r].host = h}
Bound(h) == {r \in Requests : req[r].pc \in {"placed", "running"} /\ req[r].host = h}

-----------------------------------------------------------------------------
(* Hosts and their heartbeats *)

SendHeartbeat(b, h) ==
    /\ beat[b].pc = "idle"
    /\ beat' = [beat EXCEPT ![b] = [pc |-> "sent", host |-> h, sample |-> On(h)]]
    /\ UNCHANGED <<entry, enabled, members, homeOf, req, admin, ops, mixed>>

LoseHeartbeat(b) ==
    /\ beat[b].pc = "sent"
    /\ beat' = [beat EXCEPT ![b] = NoBeat]
    /\ UNCHANGED <<entry, enabled, members, homeOf, req, admin, ops, mixed>>

\* A known host keeps its load and its breaker; a new one starts without either.
Upsert(h, origin) ==
    entry' = [entry EXCEPT ![h] =
                  IF Known(h) THEN [@ EXCEPT !.age = 0]
                  ELSE [used |-> {}, origin |-> origin, age |-> 0, circuit |-> "Closed"]]

HandleUpsert(b) ==
    /\ beat[b].pc = "sent"
    /\ Upsert(beat[b].host, "inserted")
    /\ beat' = [beat EXCEPT ![b].pc = "upserted"]
    /\ UNCHANGED <<enabled, members, homeOf, req, admin, ops, mixed>>

\* record_success: only a half-open breaker closes, after some successes.
Succeed(c) == IF c = "HalfOpen" THEN {"HalfOpen", "Closed"} ELSE {c}

\* Mutant: the load of a heartbeat is not recorded.
HandleHeartbeat_Ignored(b) ==
    /\ beat[b].pc = "upserted"
    /\ beat' = [beat EXCEPT ![b] = NoBeat]
    /\ UNCHANGED <<entry, enabled, members, homeOf, req, admin, ops, mixed>>

\* The load is recorded if the entry is still there; the host is told it was.
HandleHeartbeat(b) ==
    LET h == beat[b].host IN
    /\ beat[b].pc = "upserted"
    /\ \/ /\ Known(h)
          /\ \E c \in Succeed(entry[h].circuit) :
                entry' = [entry EXCEPT ![h] = [used |-> beat[b].sample, origin |-> "told",
                                               age |-> 0, circuit |-> c]]
       \/ ~ Known(h) /\ UNCHANGED entry
    /\ beat' = [beat EXCEPT ![b] = NoBeat]
    /\ UNCHANGED <<enabled, members, homeOf, req, admin, ops, mixed>>

\* A listing takes no time that the clock shows.
Tick ==
    /\ \A r \in Requests : req[r].pc # "listing"
    /\ \E h \in Hosts : Fresh(h)
    /\ entry' = [h \in Hosts |->
                    IF Fresh(h) THEN [entry[h] EXCEPT !.age = @ + 1] ELSE entry[h]]
    /\ UNCHANGED <<enabled, members, homeOf, beat, req, admin, ops, mixed>>

-----------------------------------------------------------------------------
(* Requests for a sandbox *)

Count == ops < MaxOps /\ ops' = ops + 1

BeginListing(r) ==
    /\ Count
    /\ req[r].pc = "idle"
    /\ req' = [req EXCEPT ![r].pc = "listing", ![r].left = Hosts]
    /\ UNCHANGED <<entry, enabled, members, homeOf, beat, admin, mixed>>

\* is_region_available, and then, under a lock of its own, the members.
CheckRegion(r, g) ==
    /\ Count
    /\ req[r].pc = "idle"
    /\ req' = [req EXCEPT ![r].pc = IF g \in enabled THEN "checked" ELSE "refused",
                          ![r].region = IF g \in enabled THEN g ELSE None]
    /\ UNCHANGED <<entry, enabled, members, homeOf, beat, admin, mixed>>

BeginRegionListing(r) ==
    /\ req[r].pc = "checked"
    /\ req' = [req EXCEPT ![r].pc = "listing", ![r].left = members[req[r].region]]
    /\ UNCHANGED <<entry, enabled, members, homeOf, beat, admin, ops, mixed>>

Snapshot(h, c) ==
    [host |-> h, circuit |-> c, saw |-> entry[h].used,
     totalVcpus |-> Capacity, usedVcpus |-> Cardinality(entry[h].used),
     totalMem |-> Capacity, usedMem |-> Cardinality(entry[h].used)]

\* state: an open breaker may be due, and becomes half open by being looked at.
Look(c) == IF c = "Open" THEN {"Open", "HalfOpen"} ELSE {c}

\* get_host, for a member of a region, does not care how old the heartbeat is.
Listable(r, h) == IF req[r].region = None THEN Fresh(h) ELSE Known(h)

\* Mutant: a host stays in the listing when it has been taken.
VisitHost_Again(r, h) ==
    /\ req[r].pc = "listing" /\ h \in req[r].left
    /\ Listable(r, h)
    /\ req' = [req EXCEPT ![r].list = Append(@, Snapshot(h, entry[h].circuit))]
    /\ UNCHANGED <<entry, enabled, members, homeOf, beat, admin, ops, mixed>>

VisitHost(r, h) ==
    /\ req[r].pc = "listing" /\ h \in req[r].left
    /\ \/ /\ Listable(r, h)
          /\ \E c \in Look(entry[h].circuit) :
                /\ entry' = [entry EXCEPT ![h].circuit = c]
                /\ req' = [req EXCEPT ![r].left = @ \ {h},
                                      ![r].list = Append(@, Snapshot(h, c))]
       \/ /\ ~ Listable(r, h)
          /\ req' = [req EXCEPT ![r].left = @ \ {h}]
          /\ UNCHANGED entry
    /\ UNCHANGED <<enabled, members, homeOf, beat, admin, ops, mixed>>

\* Where the chosen host is not known to be used, the snapshot is all there is:
\* nothing is reserved.
Place(r, Strategy(_, _)) ==
    LET list == req[r].list
        answer == Strategy(list, OneUnit)
    IN
    /\ req[r].pc = "listing" /\ req[r].left = {}
    /\ req' = [req EXCEPT ![r] =
          IF answer.placed
          THEN LET i == CHOOSE j \in DOMAIN list : list[j].host = answer.host
               IN  [pc |-> "placed", region |-> None, left |-> {}, list |-> <<>>,
                    host |-> answer.host, blind |-> Bound(answer.host) \ list[i].saw]
          ELSE [NewRequest EXCEPT !.pc = "refused"]]
    /\ UNCHANGED <<entry, enabled, members, homeOf, beat, admin, ops, mixed>>

\* schedule_handler and place_sandbox use the best fit, place_sandbox_with_strategy
\* whichever it is asked for.
PlaceSandbox(r) == Place(r, BestFit) \/ Place(r, FirstFit) \/ Place(r, LeastLoaded)

\* What the caller does with the answer.
StartSandbox(r) ==
    /\ req[r].pc = "placed"
    /\ req' = [req EXCEPT ![r].pc = "running"]
    /\ UNCHANGED <<entry, enabled, members, homeOf, beat, admin, ops, mixed>>

EndSandbox(r) ==
    /\ req[r].pc \in {"placed", "running"}
    /\ req' = [req EXCEPT ![r] = [NewRequest EXCEPT !.pc = "refused"]]
    /\ UNCHANGED <<entry, enabled, members, homeOf, beat, admin, ops, mixed>>

-----------------------------------------------------------------------------
(* Administration *)

\* record_failure: a closed breaker trips after some failures, a half-open one at once.
ReportFailure(h) ==
    /\ Count
    /\ Known(h)
    /\ \E c \in (CASE entry[h].circuit = "Closed" -> {"Closed", "Open"}
                   [] OTHER -> {"Open"}) :
          entry' = [entry EXCEPT ![h].circuit = c]
    /\ UNCHANGED <<enabled, members, homeOf, beat, req, admin, mixed>>

\* The handler removes the host from this registry only.
Decommission(h) ==
    /\ Count
    /\ Known(h)
    /\ entry' = [entry EXCEPT ![h] = None]
    /\ UNCHANGED <<enabled, members, homeOf, beat, req, admin, mixed>>

\* A listing of the region's hosts keeps its entry locked for reading.
Unlocked(g) == \A r \in Requests : req[r].pc = "listing" => req[r].region # g

SetEnabled(g) ==
    /\ Count
    /\ Unlocked(g)
    /\ \/ enabled' = enabled \cup {g}
       \/ enabled' = enabled \ {g}
    /\ UNCHANGED <<entry, members, homeOf, beat, req, admin, mixed>>

\* A region that is registered again starts without hosts.
RegisterRegion(g) ==
    /\ Count
    /\ Unlocked(g)
    /\ enabled' = enabled \cup {g}
    /\ members' = [members EXCEPT ![g] = {}]
    /\ mixed' = mixed \cup members[g] \cup {h \in Hosts : homeOf[h] = g}
                      \cup {admin[a].host : a \in {x \in Admins : admin[x].region = g}}
    /\ UNCHANGED <<entry, homeOf, beat, req, admin>>

Busy(h) == \E a \in Admins : admin[a].host = h

\* A host is mixed when it moves to another region or two operations overlap on it.
BeginOp(a, pc, h, g) ==
    /\ Count
    /\ admin[a].pc = "idle"
    /\ admin' = [admin EXCEPT ![a] = [pc |-> pc, host |-> h, region |-> g]]

RegisterHost(a, h, g) ==
    /\ BeginOp(a, "insert", h, g)
    /\ mixed' = IF Busy(h) \/ homeOf[h] \notin {None, g} THEN mixed \cup {h} ELSE mixed
    /\ UNCHANGED <<entry, enabled, members, homeOf, beat, req>>

InsertMember(a) ==
    LET h == admin[a].host
        g == admin[a].region
    IN
    /\ admin[a].pc = "insert" /\ Unlocked(g)
    /\ members' = [members EXCEPT ![g] = @ \cup {h}]
    /\ admin' = [admin EXCEPT ![a].pc = "home"]
    /\ UNCHANGED <<entry, enabled, homeOf, beat, req, ops, mixed>>

SetHome(a) ==
    /\ admin[a].pc = "home"
    /\ homeOf' = [homeOf EXCEPT ![admin[a].host] = admin[a].region]
    /\ admin' = [admin EXCEPT ![a].pc = "upsert"]
    /\ UNCHANGED <<entry, enabled, members, beat, req, ops, mixed>>

UpsertMember(a) ==
    /\ admin[a].pc = "upsert"
    /\ Upsert(admin[a].host, "told")
    /\ admin' = [admin EXCEPT ![a] = NoOp]
    /\ UNCHANGED <<enabled, members, homeOf, beat, req, ops, mixed>>

\* The region to remove the host from is read from host_regions and taken out of it.
RemoveHost(a, h) ==
    /\ homeOf[h] # None
    /\ BeginOp(a, "leave", h, homeOf[h])
    /\ homeOf' = [homeOf EXCEPT ![h] = None]
    /\ mixed' = IF Busy(h) THEN mixed \cup {h} ELSE mixed
    /\ UNCHANGED <<entry, enabled, members, beat, req>>

\* Mutant: the region goes on listing the host.
RemoveMember_Kept(a) ==
    /\ admin[a].pc = "leave"
    /\ admin' = [admin EXCEPT ![a].pc = "forget"]
    /\ UNCHANGED <<entry, enabled, members, homeOf, beat, req, ops, mixed>>

RemoveMember(a) ==
    LET h == admin[a].host
        g == admin[a].region
    IN
    /\ admin[a].pc = "leave" /\ Unlocked(g)
    /\ members' = [members EXCEPT ![g] = @ \ {h}]
    /\ admin' = [admin EXCEPT ![a].pc = "forget"]
    /\ UNCHANGED <<entry, enabled, homeOf, beat, req, ops, mixed>>

ForgetHost(a) ==
    /\ admin[a].pc = "forget"
    /\ entry' = [entry EXCEPT ![admin[a].host] = None]
    /\ admin' = [admin EXCEPT ![a] = NoOp]
    /\ UNCHANGED <<enabled, members, homeOf, beat, req, ops, mixed>>

-----------------------------------------------------------------------------

BeatStep(b) == HandleUpsert(b) \/ HandleHeartbeat(b)

RequestStep(r) ==
    \/ BeginListing(r) \/ BeginRegionListing(r)
    \/ \E g \in Regions : CheckRegion(r, g)
    \/ \E h \in Hosts : VisitHost(r, h)
    \/ PlaceSandbox(r)

AdminStep(a) ==
    \/ InsertMember(a) \/ SetHome(a) \/ UpsertMember(a)
    \/ RemoveMember(a) \/ ForgetHost(a)

Next ==
    \/ \E b \in Beats : BeatStep(b) \/ LoseHeartbeat(b)
    \/ \E b \in Beats, h \in Hosts : SendHeartbeat(b, h)
    \/ \E h \in Hosts : ReportFailure(h) \/ Decommission(h)
    \/ Tick
    \/ \E r \in Requests : RequestStep(r) \/ StartSandbox(r) \/ EndSandbox(r)
    \/ \E g \in Regions : SetEnabled(g) \/ RegisterRegion(g)
    \/ \E a \in Admins : AdminStep(a)
    \/ \E a \in Admins, h \in Hosts : RemoveHost(a, h)
    \/ \E a \in Admins, h \in Hosts, g \in Regions : RegisterHost(a, h, g)

Spec == Init /\ [][Next]_vars

-----------------------------------------------------------------------------
(* Properties *)

\* The types of the two registries and of the tasks of main.rs, and a listing has each
\* host at most once.
TypeOK ==
    /\ \A h \in Hosts : Known(h) =>
          entry[h] \in [used : SUBSET Requests, origin : {"inserted", "told"},
                        age : 0 .. Timeout + 1, circuit : {"Closed", "Open", "HalfOpen"}]
    /\ enabled \subseteq Regions
    /\ members \in [Regions -> SUBSET Hosts]
    /\ homeOf \in [Hosts -> Regions \cup {None}]
    /\ beat \in [Beats -> [pc : {"idle", "sent", "upserted"}, host : Hosts \cup {None},
                           sample : SUBSET Requests]]
    /\ \A r \in Requests :
          /\ req[r].pc \in {"idle", "checked", "listing", "placed", "running", "refused"}
          /\ req[r].host \in Hosts \cup {None}
          /\ req[r].blind \subseteq Requests \ {r}
          /\ Len(req[r].list) + Cardinality(req[r].left) <= Cardinality(Hosts)
    /\ ops \in 0 .. MaxOps

\* schedule_handler reserves nothing.  A host that has more sandboxes than fit got one
\* of them from a decision that did not see at least as many of the others as are too
\* many: a stale listing is all that overcommits a host.
OvercommitIsBlind ==
    \A h \in Hosts : Cardinality(On(h)) > Capacity =>
        \E r \in On(h) :
            Cardinality(req[r].blind \cap On(h)) >= Cardinality(On(h)) - Capacity

\* heartbeat_handler: a host looks empty without having said so only until the
\* heartbeat that made it known is recorded, or when it was registered by hand.
UnsampledIsPending ==
    \A h \in Hosts : Known(h) /\ entry[h].origin = "inserted" =>
        \E b \in Beats : beat[b].pc = "upserted" /\ beat[b].host = h

\* RegionRegistry: a host is a member of exactly the region that host_regions names for
\* it, when no operation on it is under way, none overlapped with another, it was not
\* registered in a second region, and its region was not registered again: each of
\* these leaves the two halves different for good.
RegionsAgree ==
    \A h \in Hosts \ mixed : ~ Busy(h) =>
        \A g \in Regions : h \in members[g] <=> homeOf[h] = g

=============================================================================
