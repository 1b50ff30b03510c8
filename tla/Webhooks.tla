------------------------------ MODULE Webhooks ------------------------------
(***************************************************************************)
(* The delivery of events to webhooks: webhooks.rs.                        *)
(*                                                                         *)
(* dispatch reads the registrations one after the other and spawns a task  *)
(* for each that wants the event, with a copy of the registration.  A task *)
(* sends at most three times.  A request ends when it is answered or after *)
(* the ten seconds of the client, and the pauses are timers, so every task *)
(* goes on.                                                                *)
(***************************************************************************)
EXTENDS Integers

CONSTANTS
    Hooks,
    Events,        \* events of sandboxes, each of a kind of its own and dispatched once
    WebhookFaults  \* bound: requests that are not answered with a success

ASSUME WebhookAssumption == WebhookFaults \in Nat /\ "other" \notin Events

VARIABLES
    hook,       \* the registrations, with the events each is for
    dispatched, \* how far the dispatch of each event is
    delivery,   \* the task of each hook and event
    unanswered  \* requests that failed, at most WebhookFaults

webhookVars == <<hook, dispatched, delivery, unanswered>>

\* left: registrations the dispatch has yet to look at.  History: steady, the hooks
\* that want the event and were left alone since its dispatch began.
WebhooksInit ==
    /\ hook = [h \in Hooks |-> [known |-> FALSE, events |-> {}]]
    /\ dispatched = [e \in Events |->
          [pc |-> "idle", left |-> Hooks, matching |-> {}, steady |-> {}]]
    /\ delivery = [p \in Hooks \X Events |-> [pc |-> "none", attempt |-> 1, got |-> 0]]
    /\ unanswered = 0

\* A registration without events is for all of them.
Wants(h, e) == hook[h].known /\ (hook[h].events = {} \/ e \in hook[h].events)

-----------------------------------------------------------------------------

Replace(h, registration) ==
    /\ hook' = [hook EXCEPT ![h] = registration]
    /\ dispatched' = [e \in Events |-> [dispatched[e] EXCEPT !.steady = @ \ {h}]]
    /\ UNCHANGED <<delivery, unanswered>>

RegisterHook(h, events) == Replace(h, [known |-> TRUE, events |-> events])

UnregisterHook(h) == hook[h].known /\ Replace(h, [known |-> FALSE, events |-> {}])

Dispatch(e) ==
    /\ dispatched[e].pc = "idle"
    /\ dispatched' = [dispatched EXCEPT ![e].pc = "matching",
                                        ![e].steady = {h \in Hooks : Wants(h, e)}]
    /\ UNCHANGED <<hook, delivery, unanswered>>

Match(e, h) ==
    /\ dispatched[e].pc = "matching" /\ h \in dispatched[e].left
    /\ dispatched' = [dispatched EXCEPT ![e].left = @ \ {h},
                          ![e].matching = IF Wants(h, e) THEN @ \cup {h} ELSE @]
    /\ UNCHANGED <<hook, delivery, unanswered>>

Spawn(e) ==
    /\ dispatched[e].pc = "matching" /\ dispatched[e].left = {}
    /\ dispatched' = [dispatched EXCEPT ![e].pc = "done"]
    /\ delivery' = [p \in Hooks \X Events |->
          IF p[2] = e /\ p[1] \in dispatched[e].matching
          THEN [delivery[p] EXCEPT !.pc = "sending"]
          ELSE delivery[p]]
    /\ UNCHANGED <<hook, unanswered>>

-----------------------------------------------------------------------------
(* deliver_with_retry *)

\* Mutant: the last attempt is left out.
MaxAttempts_Two == 2

MaxAttempts == 3

\* Only a success is the end of it; the hook may have the event without it.
Send(h, e) ==
    LET d == delivery[<<h, e>>]
        Becomes(pc, n) ==
            delivery' = [delivery EXCEPT ![<<h, e>>] =
                            [pc |-> pc, attempt |-> d.attempt, got |-> d.got + n]]
    IN
    /\ d.pc = "sending"
    /\ \/ Becomes("ended", 1) /\ UNCHANGED unanswered
       \/ /\ unanswered < WebhookFaults /\ unanswered' = unanswered + 1
          /\ \E n \in {0, 1} :
                Becomes(IF d.attempt < MaxAttempts THEN "pausing" ELSE "ended", n)
    /\ UNCHANGED <<hook, dispatched>>

Retry(h, e) ==
    LET d == delivery[<<h, e>>] IN
    /\ d.pc = "pausing"
    /\ delivery' = [delivery EXCEPT ![<<h, e>>] =
                        [pc |-> "sending", attempt |-> d.attempt + 1, got |-> d.got]]
    /\ UNCHANGED <<hook, dispatched, unanswered>>

DispatchStep(e) == Spawn(e) \/ \E h \in Hooks : Match(e, h)
Deliver(h, e) == Send(h, e) \/ Retry(h, e)

WebhooksNext ==
    \/ \E h \in Hooks : UnregisterHook(h)
    \/ \E h \in Hooks, events \in SUBSET (Events \cup {"other"}) : RegisterHook(h, events)
    \/ \E e \in Events : Dispatch(e) \/ DispatchStep(e)
    \/ \E h \in Hooks, e \in Events : Deliver(h, e)

\* dispatch does not block, and neither a request nor a pause lasts for ever.
WebhooksFairness ==
    /\ \A e \in Events : WF_webhookVars(DispatchStep(e))
    /\ \A h \in Hooks, e \in Events : WF_webhookVars(Deliver(h, e))

-----------------------------------------------------------------------------

\* The types of the registrations, dispatches and deliveries of webhooks.rs.
WebhooksTypeOK ==
    /\ hook \in [Hooks -> [known : BOOLEAN, events : SUBSET (Events \cup {"other"})]]
    /\ \A e \in Events : /\ dispatched[e].pc \in {"idle", "matching", "done"}
                         /\ dispatched[e].matching \subseteq Hooks
    /\ delivery \in [Hooks \X Events -> [pc : {"none", "sending", "pausing", "ended"},
                                         attempt : 1 .. 3, got : 0 .. 3]]
    /\ unanswered \in 0 .. WebhookFaults

\* dispatch and deliver_with_retry: every hook that wanted an event all through its
\* dispatch comes to have it, whether or not it is unregistered after that, unless three
\* requests failed.
DeliveredAtLeastOnce ==
    \A h \in Hooks, e \in Events :
        (dispatched[e].pc = "done" /\ h \in dispatched[e].steady) ~>
        (/\ delivery[<<h, e>>].pc = "ended"
         /\ delivery[<<h, e>>].got > 0 \/ delivery[<<h, e>>].attempt = 3)
=============================================================================
