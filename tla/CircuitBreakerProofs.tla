------------------------ MODULE CircuitBreakerProofs ------------------------
(***************************************************************************)
(* What TLAPS proves of the circuit breaker, for any number of readers and *)
(* reports and any thresholds.                                             *)
(***************************************************************************)
EXTENDS CircuitBreaker, TLAPS

-----------------------------------------------------------------------------
(* The inductive invariant *)

\* A task that has moved the breaker and has not reset the successes yet.
Resetting(p) == pc[p] \in {"half", "stamp", "opened"}

\* Around a closed breaker tasks only report failures: every decision about an
\* open one is over.
NothingOpen == state = "Closed" => \A p \in Tasks : pc[p] \in {"idle", "count", "trip"}

\* The successes were counted in this phase, unless a reset is on its way.
FreshSuccesses ==
    \/ \E p \in Tasks : Resetting(p)
    \/ /\ state = "Open" => successes = 0
       /\ state = "HalfOpen" => successes <= probes /\ successes < SuccessThreshold

Inv == TypeOK /\ NothingOpen /\ FreshSuccesses /\ ClosedBelowThreshold

\* What GoTo leaves of pc: the labels of the others.
LEMMA Goes ==
    ASSUME TypeOK, NEW p \in Tasks, NEW label, GoTo(p, label)
    PROVE  /\ pc'[p] = label
           /\ \A r \in Tasks : r # p => pc'[r] = pc[r]
BY DEF TypeOK, GoTo

\* A task goes to a label: pc keeps its type.
LEMMA GoesTyped ==
    ASSUME TypeOK, NEW p \in Tasks,
           NEW label \in {"idle", "open", "expired", "half", "count",
                          "refresh", "trip", "stamp", "opened"},
           GoTo(p, label)
    PROVE  pc' \in [Tasks -> {"idle", "open", "expired", "half", "count",
                              "refresh", "trip", "stamp", "opened"}]
BY DEF TypeOK, GoTo

\* A breaker starts closed, with no task at work.
LEMMA InitInv == Init => Inv
BY ThresholdsAssumption
   DEF Init, Inv, TypeOK, NothingOpen, FreshSuccesses, ClosedBelowThreshold

-----------------------------------------------------------------------------
(* Each kind of step *)

\* A step of state(): loads, or the store of HalfOpen, after which a reset is
\* on its way.
LEMMA ReadInv ==
    ASSUME Inv, NEW p \in Tasks, Read(p)
    PROVE  Inv'
<1> USE DEF Inv
<1>1. CASE LoadState(p)
  <2>1. GoTo(p, "open") /\ state = "Open"
    BY <1>1 DEF LoadState
  <2>2. UNCHANGED <<state, failures, successes, age, probes>> /\ At(p, "idle")
    BY <1>1 DEF LoadState
  <2>3. TypeOK'
    BY <2>1, <2>2, GoesTyped DEF TypeOK
  <2>4. FreshSuccesses'
    BY <2>1, <2>2, Goes DEF FreshSuccesses, Resetting, At
  <2> QED
    BY <2>1, <2>2, <2>3, <2>4 DEF NothingOpen, ClosedBelowThreshold
<1>2. CASE CompareAge(p)
  <2>1. GoTo(p, IF age >= OpenDuration THEN "expired" ELSE "idle") /\ At(p, "open")
    BY <1>2 DEF CompareAge
  <2>2. UNCHANGED <<state, failures, successes, age, probes>> /\ state # "Closed"
    BY <1>2 DEF CompareAge, NothingOpen, At
  <2>3. TypeOK'
    BY <2>1, <2>2, GoesTyped DEF TypeOK
  <2>4. FreshSuccesses'
    BY <2>1, <2>2, Goes DEF FreshSuccesses, Resetting, At
  <2> QED
    BY <2>2, <2>3, <2>4 DEF NothingOpen, ClosedBelowThreshold
<1>3. CASE StoreHalfOpen(p)
  <2>1. GoTo(p, "half") /\ state' = "HalfOpen" /\ probes' = 0
    BY <1>3 DEF StoreHalfOpen
  <2>2. UNCHANGED <<failures, successes, age>>
    BY <1>3 DEF StoreHalfOpen
  <2>3. TypeOK'
    BY <2>1, <2>2, GoesTyped, ThresholdsAssumption DEF TypeOK
  <2>4. FreshSuccesses'
    BY <2>1, Goes DEF FreshSuccesses, Resetting
  <2> QED
    BY <2>1, <2>3, <2>4 DEF NothingOpen, ClosedBelowThreshold
<1> QED
  BY <1>1, <1>2, <1>3 DEF Read

\* The reset that ends a move: nobody's successes are left.
LEMMA ResetInv ==
    ASSUME Inv, NEW p \in Tasks, ResetSuccesses(p)
    PROVE  Inv'
<1> USE DEF Inv
<1>1. GoTo(p, "idle") /\ successes' = 0 /\ (At(p, "half") \/ At(p, "opened"))
  BY DEF ResetSuccesses
<1>2. UNCHANGED <<state, failures, age, probes>> /\ state # "Closed"
  BY <1>1 DEF ResetSuccesses, NothingOpen, At
<1>3. TypeOK'
  BY <1>1, <1>2, GoesTyped, ThresholdsAssumption DEF TypeOK
<1>4. FreshSuccesses'
  BY <1>1, <1>2, ThresholdsAssumption DEF FreshSuccesses, TypeOK
<1> QED
  BY <1>2, <1>3, <1>4 DEF NothingOpen, ClosedBelowThreshold

\* A report looks at the state: it is to count only if the breaker is closed.
LEMMA ReportInv ==
    ASSUME Inv, NEW p \in Reporters, ReportFailure(p)
    PROVE  Inv'
<1> USE DEF Inv
<1>0. p \in Tasks
  BY DEF Tasks
<1>1. PICK label \in {"count", "refresh", "trip"} :
         GoTo(p, label) /\ (state = "Closed" => label = "count")
  BY DEF ReportFailure, TypeOK
<1>2. UNCHANGED <<state, failures, successes, age, probes>> /\ At(p, "idle")
  BY DEF ReportFailure
<1>3. TypeOK'
  BY <1>0, <1>1, <1>2, GoesTyped DEF TypeOK
<1>4. NothingOpen'
  BY <1>0, <1>1, <1>2, Goes DEF NothingOpen
<1>5. FreshSuccesses'
  BY <1>0, <1>1, <1>2, Goes DEF FreshSuccesses, Resetting, At
<1>6. ClosedBelowThreshold'
  <2> SUFFICES ASSUME state' = "Closed", failures' >= FailureThreshold
               PROVE  \E r \in Reporters : pc'[r] = "trip"
    BY DEF ClosedBelowThreshold, At
  <2>1. PICK r \in Reporters : pc[r] = "trip"
    BY <1>2 DEF ClosedBelowThreshold, At
  <2> QED
    BY <1>0, <1>1, <1>2, <2>1, Goes DEF At, Tasks
<1> QED
  BY <1>3, <1>4, <1>5, <1>6

\* The rest of a report.  The count that reaches the threshold is followed by
\* the trip, and a trip by a reset.
LEMMA FailingInv ==
    ASSUME Inv, NEW p \in Reporters, Failing(p)
    PROVE  Inv'
<1> USE DEF Inv
<1>0. p \in Tasks
  BY DEF Tasks
<1>1. CASE CountFailure(p)
  <2>1. GoTo(p, IF failures + 1 >= FailureThreshold THEN "trip" ELSE "idle")
    BY <1>1 DEF CountFailure
  <2>2. At(p, "count") /\ failures' = failures + 1 /\ UNCHANGED <<state, successes, age, probes>>
    BY <1>1 DEF CountFailure
  <2>3. TypeOK'
    BY <1>0, <2>1, <2>2, GoesTyped DEF TypeOK
  <2>4. NothingOpen'
    BY <1>0, <2>1, <2>2, Goes DEF NothingOpen
  <2>5. FreshSuccesses'
    BY <1>0, <2>1, <2>2, Goes DEF FreshSuccesses, Resetting, At
  <2>6. ClosedBelowThreshold'
    BY <1>0, <2>1, <2>2, Goes DEF ClosedBelowThreshold, At
  <2> QED
    BY <2>3, <2>4, <2>5, <2>6
<1>2. CASE StoreOpen(p)
  <2>1. GoTo(p, "stamp") /\ state' = "Open" /\ UNCHANGED <<failures, successes, age, probes>>
    BY <1>2 DEF StoreOpen
  <2>2. TypeOK'
    BY <1>0, <2>1, GoesTyped DEF TypeOK
  <2>3. FreshSuccesses'
    BY <1>0, <2>1, Goes DEF FreshSuccesses, Resetting
  <2> QED
    BY <2>1, <2>2, <2>3 DEF NothingOpen, ClosedBelowThreshold
<1>3. CASE StoreOpenedAt(p)
  <2>1. PICK label \in {"opened", "idle"} :
           GoTo(p, label) /\ At(p, IF label = "opened" THEN "stamp" ELSE "refresh")
    BY <1>3 DEF StoreOpenedAt
  <2>2. age' = 0 /\ UNCHANGED <<state, failures, successes, probes>>
    BY <1>3 DEF StoreOpenedAt
  <2>3. state # "Closed"
    BY <1>0, <2>1 DEF NothingOpen, At
  <2>4. TypeOK'
    BY <1>0, <2>1, <2>2, GoesTyped, ThresholdsAssumption DEF TypeOK
  <2>5. FreshSuccesses'
    BY <1>0, <2>1, <2>2, Goes DEF FreshSuccesses, Resetting, At
  <2> QED
    BY <2>2, <2>3, <2>4, <2>5 DEF NothingOpen, ClosedBelowThreshold
<1> QED
  BY <1>1, <1>2, <1>3 DEF Failing

\* A heartbeat has the entry for itself: no reset is on its way.
LEMMA SuccessInv ==
    ASSUME Inv, RecordSuccess
    PROVE  Inv'
<1> USE DEF Inv
<1>1. Quiet /\ UNCHANGED <<age, pc>>
  BY DEF RecordSuccess
<1>2. probes' = IF probes < SuccessThreshold THEN probes + 1 ELSE probes
  BY DEF RecordSuccess
<1>3. /\ state = "Open" => successes = 0
      /\ state = "HalfOpen" => successes <= probes /\ successes < SuccessThreshold
  BY <1>1 DEF FreshSuccesses, Resetting, Quiet, At
<1>4. NothingOpen'
  BY <1>1 DEF NothingOpen, Quiet, At
<1>5. CASE state = "Closed" /\ failures' = 0 /\ UNCHANGED <<state, successes>>
  <2>1. TypeOK'
    BY <1>1, <1>2, <1>5, ThresholdsAssumption DEF TypeOK
  <2> QED
    BY <1>4, <1>5, <2>1, ThresholdsAssumption DEF FreshSuccesses, ClosedBelowThreshold
<1>6. CASE /\ state = "HalfOpen" /\ successes' = successes + 1
           /\ IF successes + 1 >= SuccessThreshold
              THEN state' = "Closed" /\ failures' = 0
              ELSE UNCHANGED <<state, failures>>
  <2>1. TypeOK'
    BY <1>1, <1>2, <1>3, <1>6, ThresholdsAssumption DEF TypeOK
  <2>2. FreshSuccesses'
    BY <1>2, <1>3, <1>6, ThresholdsAssumption DEF FreshSuccesses, TypeOK
  <2>3. ClosedBelowThreshold'
    BY <1>6, ThresholdsAssumption DEF ClosedBelowThreshold
  <2> QED
    BY <1>4, <2>1, <2>2, <2>3
<1> QED
  BY <1>5, <1>6 DEF RecordSuccess

\* The clock changes the age alone.
LEMMA TickInv ==
    ASSUME Inv, Tick
    PROVE  Inv'
BY ThresholdsAssumption
   DEF Tick, Inv, TypeOK, NothingOpen, FreshSuccesses, Resetting, ClosedBelowThreshold, At

\* No step touches a variable: the invariant stays.
LEMMA QuietInv == Inv /\ UNCHANGED vars => Inv'
BY DEF vars, Inv, TypeOK, NothingOpen, FreshSuccesses, Resetting, ClosedBelowThreshold, At

\* Every step keeps the invariant.
LEMMA NextInv == Inv /\ [Next]_vars => Inv'
<1> SUFFICES ASSUME Inv, Next PROVE Inv'
  BY QuietInv
<1>1. CASE \E p \in Readers : Read(p)
  BY <1>1, ReadInv DEF Tasks
<1>2. CASE \E p \in Reporters : ReportFailure(p) \/ Failing(p)
  BY <1>2, ReportInv, FailingInv
<1>3. CASE \E p \in Tasks : ResetSuccesses(p)
  BY <1>3, ResetInv
<1> QED
  BY <1>1, <1>2, <1>3, SuccessInv, TickInv DEF Next

\* The invariant holds of every behaviour of the breaker.
THEOREM Invariance == Spec => []Inv
BY InitInv, NextInv, PTL DEF Spec

-----------------------------------------------------------------------------
(* The properties *)

\* The variables keep to their ranges, the count of successes among them,
\* which no store bounds explicitly.
THEOREM TypeCorrect == Spec => []TypeOK
<1>1. Inv => TypeOK
  BY DEF Inv
<1> QED
  BY <1>1, Invariance, PTL

\* No interleaving of reports, readers and heartbeats swallows a trip.
THEOREM NoTripLost == Spec => []ClosedBelowThreshold
<1>1. Inv => ClosedBelowThreshold
  BY DEF Inv
<1> QED
  BY <1>1, Invariance, PTL

\* In a step that closes a half open breaker, the probes are enough.
LEMMA ClosingStep ==
    ASSUME Inv, Next, state = "HalfOpen", state' = "Closed"
    PROVE  probes + 1 >= SuccessThreshold
<1>1. ~(\E p \in Readers : Read(p))
  BY DEF Read, LoadState, CompareAge, StoreHalfOpen
<1>2. ~(\E p \in Reporters : ReportFailure(p) \/ Failing(p))
  BY DEF ReportFailure, Failing, CountFailure, StoreOpen, StoreOpenedAt
<1>3. RecordSuccess
  BY <1>1, <1>2 DEF Next, ResetSuccesses, Tick
<1>4. Quiet /\ successes + 1 >= SuccessThreshold
  BY <1>3 DEF RecordSuccess
<1>5. successes <= probes
  BY <1>4 DEF Inv, FreshSuccesses, Resetting, Quiet, At
<1> QED
  BY <1>4, <1>5, ThresholdsAssumption DEF Inv, TypeOK

\* A half open breaker closes only after SuccessThreshold heartbeats of the
\* same probing phase.
THEOREM ProbesPrecedeClosing == Spec => ClosesAfterProbes
<1>1. Inv /\ [Next]_vars
        => [state = "HalfOpen" /\ state' = "Closed"
              => probes + 1 >= SuccessThreshold]_vars
  BY ClosingStep DEF vars
<1> QED
  BY <1>1, Invariance, PTL DEF Spec, ClosesAfterProbes

\* A step neither closes an open breaker nor probes a closed one.
LEMMA LegalStep ==
    ASSUME Inv, Next
    PROVE  /\ state = "Open" => state' # "Closed"
           /\ state = "Closed" => state' # "HalfOpen"
<1>1. ASSUME NEW p \in Readers, Read(p)
      PROVE  (state' = state) \/ (state' = "HalfOpen" /\ state # "Closed")
  BY <1>1 DEF Read, LoadState, CompareAge, StoreHalfOpen, At, Inv, NothingOpen, Tasks
<1>2. ASSUME NEW p \in Reporters, ReportFailure(p) \/ Failing(p)
      PROVE  state' \in {state, "Open"}
  BY <1>2 DEF ReportFailure, Failing, CountFailure, StoreOpen, StoreOpenedAt
<1>3. ASSUME RecordSuccess
      PROVE  (state' = state) \/ (state' = "Closed" /\ state = "HalfOpen")
  BY <1>3 DEF RecordSuccess
<1>4. ASSUME (\E p \in Tasks : ResetSuccesses(p)) \/ Tick
      PROVE  state' = state
  BY <1>4 DEF ResetSuccesses, Tick
<1> QED
  BY <1>1, <1>2, <1>3, <1>4 DEF Next

\* An open breaker closes only through HalfOpen, and the stale decision of a
\* reader never lands on a breaker that has closed.
THEOREM TransitionsAreLegal == Spec => LegalTransitions
<1>1. Inv /\ [Next]_vars
        => [/\ state = "Open" => state' # "Closed"
            /\ state = "Closed" => state' # "HalfOpen"]_vars
  BY LegalStep DEF vars
<1> QED
  BY <1>1, Invariance, PTL DEF Spec, LegalTransitions
=============================================================================
