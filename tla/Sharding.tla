------------------------------ MODULE Sharding ------------------------------
(***************************************************************************)
(* Which scheduler a sandbox belongs to: sharding.rs.                      *)
(*                                                                         *)
(* The registry is a DashMap, read one entry at a time.  Where it has no   *)
(* entry for a key, the ring of hashes decides, behind a lock, and the     *)
(* registry is asked again.  Registering a shard changes one and then the  *)
(* other; unregistering it leaves the ring alone.                          *)
(***************************************************************************)
EXTENDS Integers, Sequences

CONSTANTS
    Regions, Tenants,
    Points,     \* the hashes of each shard's virtual nodes
    Hashes,     \* the hashes of sandboxes' ids
    Routers,    \* tasks that look for the shard of a sandbox
    Registrars, \* tasks that register shards
    ShardChanges \* bound: shards registered or unregistered

\* A shard is named by its key: a region, a tenant, or one of each.
Shards == (Regions \cup {"any"}) \X (Tenants \cup {"any"})

ASSUME ShardingAssumption ==
    /\ ShardChanges \in Nat
    /\ DOMAIN Points \subseteq Shards /\ \A s \in DOMAIN Points : Points[s] \subseteq Nat

VARIABLES
    registry,   \* the shards that are registered
    ring,       \* points, which are pairs of a hash and a shard
    registrar,  \* the shard whose points each registrar has yet to add, or <<>>
    router,     \* what each router is in the middle of
    fallback,   \* default_shard, set before the registry is shared, or <<>>
    shardOps,   \* shards registered or unregistered, at most ShardChanges
    deserted    \* history: shards that were unregistered

shardVars == <<registry, ring, registrar, router, fallback, shardOps, deserted>>

\* next: the entry to look at.  History: steady, the shards that have been registered
\* since the route began; onRing, those whose points were on the ring by then; named,
\* the one that the ring named.
NoRoute == [pc |-> "idle", key |-> <<"any", "any">>, hash |-> 0, next |-> 1,
            answer |-> <<>>, steady |-> {}, onRing |-> {}, named |-> <<>>]

ShardingInit ==
    /\ registry = {}
    /\ ring = {}
    /\ registrar = [g \in Registrars |-> <<>>]
    /\ router = [t \in Routers |-> NoRoute]
    /\ fallback \in DOMAIN Points \cup {<<>>}
    /\ shardOps = 0
    /\ deserted = {}

ChangeShards == shardOps < ShardChanges /\ shardOps' = shardOps + 1 /\ UNCHANGED fallback

-----------------------------------------------------------------------------

\* shard_id, region, tenant: the entries resolve looks for, in this order.
Fallbacks(key) ==
    IF key[1] # "any" /\ key[2] # "any"
    THEN <<key, <<key[1], "any">>, <<"any", key[2]>>>>
    ELSE <<key>>

Asked(key) == Fallbacks(key) \o (IF fallback = <<>> THEN <<>> ELSE <<fallback>>)

AddShard(r, s) == r \cup {<<h, s>> : h \in Points[s]}

\* The points of r with the least hash: which of several the search finds is left open.
First(r) == {p \in r : \A q \in r : p[1] <= q[1]}

\* Mutant: the ring has an end.
GetShard_NoWrap(r, h) == {p[2] : p \in First({q \in r : q[1] >= h})}

\* Whose point is the first at or after the hash, or else the first of all; nobody's, if
\* there is none.
GetShard(r, h) ==
    LET later == {q \in r : q[1] >= h}
    IN  {p[2] : p \in First(IF later = {} THEN r ELSE later)}

-----------------------------------------------------------------------------

RegisterInfo(g, s) ==
    /\ ChangeShards
    /\ registrar[g] = <<>>
    /\ registry' = registry \cup {s}
    /\ registrar' = [registrar EXCEPT ![g] = s]
    /\ UNCHANGED <<ring, router, deserted>>

AddToRing(g) ==
    /\ registrar[g] # <<>>
    /\ ring' = AddShard(ring, registrar[g])
    /\ registrar' = [registrar EXCEPT ![g] = <<>>]
    /\ UNCHANGED <<registry, router, fallback, shardOps, deserted>>

UnregisterShard(s) ==
    /\ ChangeShards
    /\ s \in registry
    /\ registry' = registry \ {s}
    /\ deserted' = deserted \cup {s}
    /\ router' = [t \in Routers |-> [router[t] EXCEPT !.steady = @ \ {s}]]
    /\ UNCHANGED <<ring, registrar>>

Route(t, key, h) ==
    /\ router[t].pc = "idle"
    /\ router' = [router EXCEPT ![t] =
          [NoRoute EXCEPT !.pc = "resolve", !.key = key, !.hash = h, !.steady = registry,
                          !.onRing = {p[2] : p \in ring}]]
    /\ UNCHANGED <<registry, ring, registrar, fallback, shardOps, deserted>>

Resolve(t) ==
    LET asked == Asked(router[t].key)
        s == asked[router[t].next]
    IN
    /\ router[t].pc = "resolve" /\ router[t].next <= Len(asked)
    /\ router' = IF s \in registry
                 THEN [router EXCEPT ![t].pc = "done", ![t].answer = s]
                 ELSE [router EXCEPT ![t].next = @ + 1]
    /\ UNCHANGED <<registry, ring, registrar, fallback, shardOps, deserted>>

\* The ring is locked while the registry is searched for the shard it names.
RouteByRing(t) ==
    LET shards == GetShard(ring, router[t].hash) IN
    /\ router[t].pc = "resolve" /\ router[t].next > Len(Asked(router[t].key))
    /\ \E s \in IF shards = {} THEN {<<>>} ELSE shards :
          router' = [router EXCEPT ![t].pc = "done", ![t].named = s,
                                   ![t].answer = IF s \in registry THEN s ELSE <<>>]
    /\ UNCHANGED <<registry, ring, registrar, fallback, shardOps, deserted>>

Forget(t) ==
    /\ router[t].pc = "done"
    /\ router' = [router EXCEPT ![t] = NoRoute]
    /\ UNCHANGED <<registry, ring, registrar, fallback, shardOps, deserted>>

ShardingNext ==
    \/ \E g \in Registrars, s \in DOMAIN Points : RegisterInfo(g, s)
    \/ \E g \in Registrars : AddToRing(g)
    \/ \E s \in registry : UnregisterShard(s)
    \/ \E t \in Routers, key \in Shards, h \in Hashes : Route(t, key, h)
    \/ \E t \in Routers : Resolve(t) \/ RouteByRing(t) \/ Forget(t)

-----------------------------------------------------------------------------

\* The types of the registry and the ring of sharding.rs.
ShardingTypeOK ==
    /\ registry \subseteq DOMAIN Points /\ deserted \subseteq DOMAIN Points
    /\ \A p \in ring : p[2] \in DOMAIN Points /\ p[1] \in Points[p[2]]
    /\ \A t \in Routers : router[t].answer \in DOMAIN Points \cup {<<>>}
    /\ shardOps \in 0 .. ShardChanges

\* GlobalScheduler::route finds a shard that its key asks for and that is there all
\* the time, the more specific the better; and where no key helps, it finds nobody
\* only if the ring was empty when it began, or names a shard that was unregistered
\* at some time.
RouteAnswered ==
    \A t \in Routers : router[t].pc = "done" =>
        LET asked == Asked(router[t].key)
            answer == router[t].answer
        IN  /\ \A i \in DOMAIN asked : asked[i] \in router[t].steady =>
                   \E j \in 1 .. i : answer = asked[j]
            /\ answer = <<>> => router[t].onRing = {} \/ router[t].named \in deserted
=============================================================================
