------------------------------- MODULE Demand -------------------------------
(***************************************************************************)
(* How many sandboxes to keep warm: demand_tracker.rs, prewarm_policy.rs   *)
(* and the handlers of main.rs that use them.                              *)
(*                                                                         *)
(* A request takes the time, adds itself to its template's record and then *)
(* cuts the record, under two locks.  A run of the policy first collects   *)
(* the demand of every template and then works each out, reading the rate  *)
(* of the last run and storing the new one under two locks.                *)
(*                                                                         *)
(* Rates are integers, in hundredths of a request per minute; the code's   *)
(* are floating point numbers.                                             *)
(***************************************************************************)
EXTENDS Integers, Sequences, FiniteSets

CONSTANTS
    Kinds,        \* ids of templates
    Recorders,    \* requests under way
    Prewarmers,   \* runs of the policy under way
    MaxRecord,    \* max_events_per_template
    Window,       \* in ticks of the model's clock
    PerRequest,   \* what one request in the window adds to the rate
    LastTick,     \* bound: ticks
    DemandOps     \* bound: requests, clearings and runs begun

ASSUME DemandAssumption ==
    /\ {MaxRecord, PerRequest} \subseteq Nat \ {0}
    /\ {Window, LastTick, DemandOps} \subseteq Nat
    /\ "none" \notin Kinds

VARIABLES
    now,        \* the clock
    record,     \* events: the times of each template's requests
    recorder,   \* each request
    smoothed,   \* smoothed_rates, or Unknown
    prewarm,    \* each run of the policy
    seen,       \* history: the rates that were worked with, for each template
    demandOps   \* requests, clearings and runs begun, at most DemandOps

demandVars == <<now, record, recorder, smoothed, prewarm, seen, demandOps>>

Unknown == -1
NoRecord == [pc |-> "idle", kind |-> "none", time |-> 0]

\* History: steady, the templates that had a record all through the collecting.
NoRun == [pc |-> "idle", left |-> {}, demand |-> [k \in {} |-> 0], kind |-> "none",
          previous |-> Unknown, target |-> [k \in {} |-> 0], steady |-> {}]

DemandInit ==
    /\ now = 0
    /\ record = [k \in Kinds |-> <<>>]
    /\ recorder = [r \in Recorders |-> NoRecord]
    /\ smoothed = [k \in Kinds |-> Unknown]
    /\ prewarm = [p \in Prewarmers |-> NoRun]
    /\ seen = [k \in Kinds |-> {}]
    /\ demandOps = 0

Ask == demandOps < DemandOps /\ demandOps' = demandOps + 1

Tick ==
    /\ now < LastTick
    /\ now' = now + 1
    /\ UNCHANGED <<record, recorder, smoothed, prewarm, seen, demandOps>>

-----------------------------------------------------------------------------
(* The tracker *)

TakeTime(r, k) ==
    /\ Ask
    /\ recorder[r].pc = "idle"
    /\ recorder' = [recorder EXCEPT ![r] = [pc |-> "timed", kind |-> k, time |-> now]]
    /\ UNCHANGED <<now, record, smoothed, prewarm, seen>>

Push(r) ==
    /\ recorder[r].pc = "timed"
    /\ record' = [record EXCEPT ![recorder[r].kind] = Append(@, recorder[r].time)]
    /\ recorder' = [recorder EXCEPT ![r].pc = "pushed"]
    /\ UNCHANGED <<now, smoothed, prewarm, seen, demandOps>>

\* Mutant: the record is one longer before it is cut.
Evict_Late(r) ==
    LET k == recorder[r].kind
        excess == Len(record[k]) - MaxRecord - 1
    IN
    /\ recorder[r].pc = "pushed"
    /\ record' = IF excess > 0 THEN [record EXCEPT ![k] = SubSeq(@, excess + 1, Len(@))]
                 ELSE record
    /\ recorder' = [recorder EXCEPT ![r] = NoRecord]
    /\ UNCHANGED <<now, smoothed, prewarm, seen, demandOps>>

\* evict_if_needed cuts whatever is too much by then.
Evict(r) ==
    LET k == recorder[r].kind
        excess == Len(record[k]) - MaxRecord
    IN
    /\ recorder[r].pc = "pushed"
    /\ record' = IF excess > 0 THEN [record EXCEPT ![k] = SubSeq(@, excess + 1, Len(@))]
                 ELSE record
    /\ recorder' = [recorder EXCEPT ![r] = NoRecord]
    /\ UNCHANGED <<now, smoothed, prewarm, seen, demandOps>>

InWindow(k) == {i \in DOMAIN record[k] : record[k][i] >= now - Window}

Rate(k) == Cardinality(InWindow(k)) * PerRequest

Clear ==
    /\ Ask
    /\ record' = [k \in Kinds |-> <<>>]
    /\ prewarm' = [p \in Prewarmers |-> [prewarm[p] EXCEPT !.steady = {}]]
    /\ UNCHANGED <<now, recorder, smoothed, seen>>

-----------------------------------------------------------------------------
(* The policies, with the numbers of EmaPrewarmPolicy::new and its siblings *)

MinPool == 1
MaxPool == 20
HostCapacity == 20

Clamp(n) == IF n < MinPool THEN MinPool ELSE IF n > MaxPool THEN MaxPool ELSE n

\* alpha is 0.3.
Smooth(rate, previous) == (3 * rate + 7 * previous) \div 10

\* The rate times one and a half, rounded up to whole requests.
Desired(rate) ==
    LET size == Clamp((3 * rate + 199) \div 200)
    IN  IF size < HostCapacity THEN size ELSE HostCapacity

-----------------------------------------------------------------------------
(* compute_prewarm_targets *)

BeginRun(p) ==
    /\ Ask
    /\ prewarm[p].pc = "idle"
    /\ prewarm' = [prewarm EXCEPT ![p] = [NoRun EXCEPT !.pc = "collecting", !.left = Kinds,
                                              !.steady = {k \in Kinds : record[k] # <<>>}]]
    /\ UNCHANGED <<now, record, recorder, smoothed, seen>>

\* all_demands: a template without a record is not there; one whose requests are all
\* too old is, with a rate of zero.
Collect(p, k) ==
    LET rate == Rate(k) IN
    /\ prewarm[p].pc = "collecting" /\ k \in prewarm[p].left
    /\ \/ /\ record[k] # <<>>
          /\ prewarm' = [prewarm EXCEPT ![p].left = @ \ {k}, ![p].demand =
                [j \in DOMAIN @ \cup {k} |-> IF j = k THEN rate ELSE @[j]]]
          /\ seen' = [seen EXCEPT ![k] = @ \cup {rate}]
       \/ /\ record[k] = <<>>
          /\ prewarm' = [prewarm EXCEPT ![p].left = @ \ {k}]
          /\ UNCHANGED seen
    /\ UNCHANGED <<now, record, recorder, smoothed, demandOps>>

ReadRate(p, k) ==
    /\ \/ prewarm[p].pc = "collecting" /\ prewarm[p].left = {}
       \/ prewarm[p].pc = "reading"
    /\ k \in DOMAIN prewarm[p].demand \ DOMAIN prewarm[p].target
    /\ prewarm' = [prewarm EXCEPT ![p].pc = "storing", ![p].kind = k,
          ![p].previous = IF smoothed[k] = Unknown THEN prewarm[p].demand[k] ELSE smoothed[k]]
    /\ UNCHANGED <<now, record, recorder, smoothed, seen, demandOps>>

StoreRate(p) ==
    LET k == prewarm[p].kind
        rate == Smooth(prewarm[p].demand[k], prewarm[p].previous)
    IN
    /\ prewarm[p].pc = "storing"
    /\ smoothed' = [smoothed EXCEPT ![k] = rate]
    /\ prewarm' = [prewarm EXCEPT ![p].pc = "reading", ![p].target =
          [j \in DOMAIN @ \cup {k} |-> IF j = k THEN Desired(rate) ELSE @[j]]]
    /\ UNCHANGED <<now, record, recorder, seen, demandOps>>

Finished(p) ==
    /\ prewarm[p].pc # "storing" /\ prewarm[p].left = {}
    /\ DOMAIN prewarm[p].target = DOMAIN prewarm[p].demand

\* The response is sent.
Respond(p) ==
    /\ prewarm[p].pc # "idle" /\ Finished(p)
    /\ prewarm' = [prewarm EXCEPT ![p] = NoRun]
    /\ UNCHANGED <<now, record, recorder, smoothed, seen, demandOps>>

DemandNext ==
    \/ Tick \/ Clear
    \/ \E r \in Recorders : Push(r) \/ Evict(r) \/ \E k \in Kinds : TakeTime(r, k)
    \/ \E p \in Prewarmers : BeginRun(p) \/ StoreRate(p) \/ Respond(p)
    \/ \E p \in Prewarmers, k \in Kinds : Collect(p, k) \/ ReadRate(p, k)

-----------------------------------------------------------------------------

\* The types of the tracker, the smoothed rates and the runs of the policy.
DemandTypeOK ==
    /\ now \in 0 .. LastTick /\ demandOps \in 0 .. DemandOps
    /\ \A k \in Kinds : \A i \in DOMAIN record[k] : record[k][i] \in 0 .. now
    /\ \A r \in Recorders : recorder[r].pc \in {"idle", "timed", "pushed"}
    /\ \A k \in Kinds : smoothed[k] \in {Unknown} \cup Nat
    /\ \A p \in Prewarmers : prewarm[p].pc \in {"idle", "collecting", "reading", "storing"}

Between(n, ns) == (\E m \in ns : m <= n) /\ (\E m \in ns : n <= m)

Uncut(k) == {r \in Recorders : recorder[r].pc = "pushed" /\ recorder[r].kind = k}

\* DemandTracker and AdaptivePrewarmPolicy: a record is longer than its limit only by
\* requests that have yet to cut it.  The smoothed rate stays among the rates it was
\* made of, whoever overwrites whom, and a run that is through has a target for every
\* template that had a record all the time, between those of the lowest and the
\* highest rate.
PrewarmSound ==
    /\ \A k \in Kinds :
          /\ Len(record[k]) <= MaxRecord + Cardinality(Uncut(k))
          /\ smoothed[k] # Unknown => Between(smoothed[k], seen[k])
    /\ \A p \in Prewarmers : prewarm[p].pc # "idle" /\ Finished(p) =>
          /\ prewarm[p].steady \subseteq DOMAIN prewarm[p].target
          /\ \A k \in DOMAIN prewarm[p].target :
                 Between(prewarm[p].target[k], {Desired(rate) : rate \in seen[k]})
=============================================================================
