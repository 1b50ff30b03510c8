--------------------------- MODULE CircuitBreaker ---------------------------
(***************************************************************************)
(* The circuit breaker of one host: circuit_breaker.rs, as host_registry.rs*)
(* calls it.                                                               *)
(*                                                                         *)
(* The breaker lives in an entry of the registry's DashMap.  A heartbeat   *)
(* takes the entry for writing and so runs record_success alone.           *)
(* record_failure and state take it for reading: any number of them run    *)
(* side by side, each a sequence of loads and stores of four atomics.  One *)
(* action is one atomic operation.                                         *)
(*                                                                         *)
(* Time: only the age of opened_at matters, and only up to OpenDuration.   *)
(* opened_at is 0 in a new breaker, which is long ago.                     *)
(***************************************************************************)
EXTENDS Integers

CONSTANTS
    Reporters,          \* tasks that report a failure (POST .../failure)
    Readers,            \* tasks that look at the state (placement, listings)
    FailureThreshold,   \* FAILURE_THRESHOLD
    SuccessThreshold,   \* SUCCESS_THRESHOLD
    OpenDuration        \* OPEN_DURATION_SECS, in ticks of the model's clock

ASSUME TasksAssumption == Reporters \cap Readers = {}
ASSUME ThresholdsAssumption ==
    /\ FailureThreshold \in Nat \ {0}
    /\ SuccessThreshold \in Nat \ {0}
    /\ OpenDuration \in Nat \ {0}

VARIABLES
    state, failures, successes, \* the atomics of the breaker
    age,    \* how long ago opened_at is, at most OpenDuration
    pc,     \* what each task that holds the entry for reading does next
    probes  \* history: heartbeats since the breaker last became half open

vars == <<state, failures, successes, age, pc, probes>>

Tasks == Reporters \cup Readers

At(p, label) == pc[p] = label
GoTo(p, label) == pc' = [pc EXCEPT ![p] = label]

\* Nobody holds the entry: a writer may have it.
Quiet == \A p \in Tasks : At(p, "idle")

Init ==
    /\ state = "Closed"
    /\ failures = 0 /\ successes = 0
    /\ age = OpenDuration
    /\ pc = [p \in Tasks |-> "idle"]
    /\ probes = 0

-----------------------------------------------------------------------------
(* state *)

\* The state is loaded; unless it is Open that is the answer.
LoadState(p) ==
    /\ At(p, "idle")
    /\ state = "Open"
    /\ GoTo(p, "open")
    /\ UNCHANGED <<state, failures, successes, age, probes>>

\* opened_at is loaded and compared with the clock.
CompareAge(p) ==
    /\ At(p, "open")
    /\ GoTo(p, IF age >= OpenDuration THEN "expired" ELSE "idle")
    /\ UNCHANGED <<state, failures, successes, age, probes>>

\* The state is stored, whatever it is by now ...
StoreHalfOpen(p) ==
    /\ At(p, "expired")
    /\ state' = "HalfOpen"
    /\ probes' = 0
    /\ GoTo(p, "half")
    /\ UNCHANGED <<failures, successes, age>>

\* Mutant: the successes of an earlier probing phase still count.
ResetSuccesses_Kept(p) ==
    /\ At(p, "half") \/ At(p, "opened")
    /\ GoTo(p, "idle")
    /\ UNCHANGED <<state, failures, successes, age, probes>>

\* ... and the successes are reset.  A trip ends with the same store.
ResetSuccesses(p) ==
    /\ At(p, "half") \/ At(p, "opened")
    /\ successes' = 0
    /\ GoTo(p, "idle")
    /\ UNCHANGED <<state, failures, age, probes>>

-----------------------------------------------------------------------------
(* record_failure *)

\* The state is loaded and decides what is done.
ReportFailure(p) ==
    /\ At(p, "idle")
    /\ GoTo(p, CASE state = "Closed"   -> "count"
                 [] state = "Open"     -> "refresh"
                 [] state = "HalfOpen" -> "trip")
    /\ UNCHANGED <<state, failures, successes, age, probes>>

\* Mutant: trips one failure late.
CountFailure_Late(p) ==
    /\ At(p, "count")
    /\ failures' = failures + 1
    /\ GoTo(p, IF failures >= FailureThreshold THEN "trip" ELSE "idle")
    /\ UNCHANGED <<state, successes, age, probes>>

\* failures.fetch_add, and a trip at the threshold.
CountFailure(p) ==
    /\ At(p, "count")
    /\ failures' = failures + 1
    /\ GoTo(p, IF failures + 1 >= FailureThreshold THEN "trip" ELSE "idle")
    /\ UNCHANGED <<state, successes, age, probes>>

\* trip stores the state first ...
StoreOpen(p) ==
    /\ At(p, "trip")
    /\ state' = "Open"
    /\ GoTo(p, "stamp")
    /\ UNCHANGED <<failures, successes, age, probes>>

\* ... and only then the time.  A failure of an open breaker stores the time
\* alone.
StoreOpenedAt(p) ==
    /\ \/ At(p, "stamp") /\ GoTo(p, "opened")
       \/ At(p, "refresh") /\ GoTo(p, "idle")
    /\ age' = 0
    /\ UNCHANGED <<state, failures, successes, probes>>

-----------------------------------------------------------------------------
(* record_success: a heartbeat, alone on the entry *)

\* Mutant: the heartbeat does not wait for the tasks that read the entry.
RecordSuccess_Shared ==
    /\ \/ state = "Closed" /\ failures' = 0 /\ UNCHANGED <<state, successes>>
       \/ /\ state = "HalfOpen"
          /\ successes' = successes + 1
          /\ IF successes + 1 >= SuccessThreshold
             THEN state' = "Closed" /\ failures' = 0
             ELSE UNCHANGED <<state, failures>>
    /\ probes' = IF probes < SuccessThreshold THEN probes + 1 ELSE probes
    /\ UNCHANGED <<age, pc>>

\* Mutant: the success that closes the breaker is forgotten.
RecordSuccess_NeverCloses ==
    /\ Quiet
    /\ \/ state = "Closed" /\ failures' = 0 /\ UNCHANGED <<state, successes>>
       \/ /\ state = "HalfOpen"
          /\ successes' = (successes + 1) % SuccessThreshold
          /\ UNCHANGED <<state, failures>>
    /\ probes' = IF probes < SuccessThreshold THEN probes + 1 ELSE probes
    /\ UNCHANGED <<age, pc>>

\* Mutant: closes one success late.
RecordSuccess_Late ==
    /\ Quiet
    /\ \/ state = "Closed" /\ failures' = 0 /\ UNCHANGED <<state, successes>>
       \/ /\ state = "HalfOpen"
          /\ successes' = successes + 1
          /\ IF successes >= SuccessThreshold
             THEN state' = "Closed" /\ failures' = 0
             ELSE UNCHANGED <<state, failures>>
    /\ probes' = IF probes < SuccessThreshold THEN probes + 1 ELSE probes
    /\ UNCHANGED <<age, pc>>

\* A success clears the failures of a closed breaker, does nothing to an open
\* one, and closes a half open one at the threshold.
RecordSuccess ==
    /\ Quiet
    /\ \/ state = "Closed" /\ failures' = 0 /\ UNCHANGED <<state, successes>>
       \/ /\ state = "HalfOpen"
          /\ successes' = successes + 1
          /\ IF successes + 1 >= SuccessThreshold
             THEN state' = "Closed" /\ failures' = 0
             ELSE UNCHANGED <<state, failures>>
    /\ probes' = IF probes < SuccessThreshold THEN probes + 1 ELSE probes
    /\ UNCHANGED <<age, pc>>

\* The clock advances.
Tick ==
    /\ age < OpenDuration
    /\ age' = age + 1
    /\ UNCHANGED <<state, failures, successes, pc, probes>>

-----------------------------------------------------------------------------
Read(p) == LoadState(p) \/ CompareAge(p) \/ StoreHalfOpen(p)

Failing(p) == CountFailure(p) \/ StoreOpen(p) \/ StoreOpenedAt(p)

Next ==
    \/ \E p \in Readers : Read(p)
    \/ \E p \in Reporters : ReportFailure(p) \/ Failing(p)
    \/ \E p \in Tasks : ResetSuccesses(p)
    \/ RecordSuccess
    \/ Tick

Spec == Init /\ [][Next]_vars

(* A call that started ends; the schedulers and listings keep asking for the *)
(* state; the clock runs; heartbeats keep arriving, and a heartbeat gets the *)
(* entry if it is free again and again (the shard lock is not fair to        *)
(* writers, hence SF).  Nobody is obliged to report failures.                *)
Fairness ==
    /\ \A p \in Readers : WF_vars(Read(p) \/ ResetSuccesses(p))
    /\ \A p \in Reporters : WF_vars(Failing(p) \/ ResetSuccesses(p))
    /\ SF_vars(RecordSuccess)
    /\ WF_vars(Tick)

FairSpec == Spec /\ Fairness

-----------------------------------------------------------------------------
(* Properties *)

\* The variables keep to their ranges.
TypeOK ==
    /\ state \in {"Closed", "Open", "HalfOpen"}
    /\ failures \in Nat
    /\ successes \in 0..SuccessThreshold
    /\ age \in 0..OpenDuration
    /\ pc \in [Tasks -> {"idle", "open", "expired", "half", "count",
                         "refresh", "trip", "stamp", "opened"}]
    /\ probes \in 0..SuccessThreshold

\* A closed breaker has seen fewer failures than trip it since the last
\* success, unless the report that reaches the threshold is still at work: no
\* interleaving of reports, readers and heartbeats swallows the trip.
ClosedBelowThreshold ==
    state = "Closed" /\ failures >= FailureThreshold =>
        \E p \in Reporters : At(p, "trip")

\* A half open breaker closes only after SuccessThreshold heartbeats of the
\* same probing phase: the successes of an earlier phase never count.
ClosesAfterProbes ==
    [][state = "HalfOpen" /\ state' = "Closed"
         => probes + 1 >= SuccessThreshold]_vars

\* An open breaker closes only through HalfOpen, and a decision of state()
\* never lands on a breaker that has closed in the meantime.
LegalTransitions ==
    [][/\ state = "Open" => state' # "Closed"
       /\ state = "Closed" => state' # "HalfOpen"]_vars

\* Once reports cease, the breaker closes: an open breaker becomes half open
\* although no timer moves it, and the heartbeats close it.
Recovers == <>[](\A p \in Reporters : At(p, "idle")) => <>[](state = "Closed")

\* trips_after_threshold_failures and half_open_failure_reopens: a failure
\* that trips the breaker leaves it Open, and it is probed only when it has
\* been Open for the whole duration since the last failure.
HalfOpenWaited == Quiet /\ state = "HalfOpen" => age = OpenDuration
=============================================================================
