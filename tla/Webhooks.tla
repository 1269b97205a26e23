------------------------------ MODULE Webhooks ------------------------------
(***************************************************************************)
(* Webhook subscriptions and the delivery of lifecycle events to them.  An *)
(* event is dispatched from a goroutine that keeps the context of the      *)
(* request (or of the round of health checks) it came from; one more       *)
(* goroutine for each subscription makes up to Attempts posts and records  *)
(* the outcome of each.  The context ends when the request does.           *)
(***************************************************************************)
EXTENDS Naturals, FiniteSets

CONSTANTS
    Subs,       \* subscriptions, each made once
    Owners,     \* the users who make them
    Events,     \* occurrences of an event
    Attempts    \* posts that are made at most

ASSUME WebhooksAssumption == Attempts \in Nat \ {0}

VARIABLES
    sub,        \* webhook_subscriptions: who owns each one, and its state
    event,      \* each event: "none", "queued", "fanned" or "lost"
    live,       \* the events whose context has not ended
    job,        \* the goroutine of each event and subscription
    log,        \* webhook_deliveries
    posted,     \* ghost: the posts that were made
    early       \* ghost: the subscriptions that were gone before each event

webhooksVars == <<sub, event, live, job, log, posted, early>>

-----------------------------------------------------------------------------
NoSub == [state |-> "none", owner |-> "nobody"]
IdleJob == [pc |-> "idle", attempt |-> 1, ok |-> FALSE]

WebhooksInit ==
    /\ sub = [s \in Subs |-> NoSub]
    /\ event = [e \in Events |-> "none"]
    /\ live = {}
    /\ job = [x \in Events \X Subs |-> IdleJob]
    /\ log = {}
    /\ posted = {}
    /\ early = [e \in Events |-> {}]

InsertSub(s, u) ==
    /\ sub[s].state = "none"
    /\ sub' = [sub EXCEPT ![s] = [state |-> "active", owner |-> u]]

CreateSubscription(s, u) ==
    /\ InsertSub(s, u)
    /\ UNCHANGED <<event, live, job, log, posted, early>>

\* The recorded deliveries of a subscription go with it.
RemoveSub(s) ==
    /\ sub' = [sub EXCEPT ![s].state = "deleted"]
    /\ log' = {d \in log : d.sub # s}

\* Only its owner may delete a subscription.
Unsubscribe(s, u) ==
    /\ sub[s].state = "active"
    /\ sub[s].owner = u
    /\ RemoveSub(s)

DeleteSubscription(s, u) ==
    /\ Unsubscribe(s, u)
    /\ UNCHANGED <<event, live, job, posted, early>>

-----------------------------------------------------------------------------
\* A handler, or the health checker, hands the event over and goes on.
DispatchWebhook(e) ==
    /\ event[e] = "none"
    /\ event' = [event EXCEPT ![e] = "queued"]
    /\ live' = live \cup {e}
    /\ early' = [early EXCEPT ![e] = {s \in Subs : sub[s].state = "deleted"}]
    /\ UNCHANGED <<sub, job, log, posted>>

\* The handler returns: the server ends the context of its request.
EndRequest(e) ==
    /\ e \in live
    /\ live' = live \ {e}
    /\ UNCHANGED <<sub, event, job, log, posted, early>>

\* Slip: the subscriptions are listed whatever their state.
ListAll(e) == {s \in Subs : sub[s].state # "none"}

ListByEvent(e) == {s \in Subs : sub[s].state = "active"}

\* The listing fails when the context has ended, or the database does: the
\* event is dropped.
Dispatch(e) ==
    /\ event[e] = "queued"
    /\ \/ /\ event' = [event EXCEPT ![e] = "lost"]
          /\ UNCHANGED job
       \/ /\ e \in live
          /\ event' = [event EXCEPT ![e] = "fanned"]
          /\ job' = [x \in Events \X Subs |->
                        IF x[1] = e /\ x[2] \in ListByEvent(e)
                        THEN [IdleJob EXCEPT !.pc = "post"] ELSE job[x]]
    /\ UNCHANGED <<sub, live, log, posted, early>>

\* A post under an ended context is not made.  One that is made succeeds, or
\* fails: it is lost, or the subscriber's answer is, or it is not a good one.
DoDelivery(e, s) ==
    /\ job[<<e, s>>].pc = "post"
    /\ \E ok \in {FALSE, (e \in live)} :
          job' = [job EXCEPT ![<<e, s>>].pc = "record", ![<<e, s>>].ok = ok]
    /\ posted' = IF e \in live THEN posted \cup {<<e, s, job[<<e, s>>].attempt>>}
                 ELSE posted
    /\ UNCHANGED <<sub, event, live, log, early>>

\* Slips: the loop goes on after a success, or does not count.
AfterOk(j) ==
    IF j.attempt = Attempts THEN [j EXCEPT !.pc = "failed"]
    ELSE [j EXCEPT !.pc = "post", !.attempt = @ + 1]
Uncounted(j) ==
    IF j.ok THEN [j EXCEPT !.pc = "delivered"] ELSE [j EXCEPT !.pc = "post"]

\* The loop ends with the first success, or after the last attempt; it waits
\* before each further one.
Continue(j) ==
    IF j.ok THEN [j EXCEPT !.pc = "delivered"]
    ELSE IF j.attempt = Attempts THEN [j EXCEPT !.pc = "failed"]
    ELSE [j EXCEPT !.pc = "post", !.attempt = @ + 1]

\* The attempt is recorded under the same context, for a subscription that is
\* still there; that it cannot be is not looked at.
RecordDelivery(e, s) ==
    LET j == job[<<e, s>>] IN
    /\ j.pc = "record"
    /\ \/ UNCHANGED log
       \/ /\ e \in live
          /\ sub[s].state = "active"
          /\ log' = log \cup {[event |-> e, sub |-> s, attempt |-> j.attempt, ok |-> j.ok]}
    /\ job' = [job EXCEPT ![<<e, s>>] = Continue(j)]
    /\ UNCHANGED <<sub, event, live, posted, early>>

\* The process stops: its goroutines and contexts go, the tables stay.
DeliveriesLost ==
    /\ live # {} \/ \E x \in Events \X Subs : job[x].pc \in {"post", "record"}
    /\ live' = {}
    /\ event' = [e \in Events |-> IF event[e] = "queued" THEN "lost" ELSE event[e]]
    /\ job' = [x \in Events \X Subs |->
                  IF job[x].pc \in {"post", "record"}
                  THEN [job[x] EXCEPT !.pc = "lost"] ELSE job[x]]
    /\ UNCHANGED <<sub, log, posted, early>>

-----------------------------------------------------------------------------
Deliver(e, s) == DoDelivery(e, s) \/ RecordDelivery(e, s)

WebhooksNext ==
    \/ \E s \in Subs, u \in Owners :
          CreateSubscription(s, u) \/ DeleteSubscription(s, u)
    \/ \E e \in Events : DispatchWebhook(e) \/ EndRequest(e) \/ Dispatch(e)
    \/ \E e \in Events, s \in Subs : Deliver(e, s)
    \/ DeliveriesLost

WebhooksSpec == WebhooksInit /\ [][WebhooksNext]_webhooksVars

\* A goroutine that has work to do is scheduled: none waits for another.
WebhooksFairness ==
    /\ \A e \in Events : WF_webhooksVars(Dispatch(e))
    /\ \A e \in Events, s \in Subs : WF_webhooksVars(Deliver(e, s))

WebhooksFairSpec == WebhooksSpec /\ WebhooksFairness

-----------------------------------------------------------------------------
(* Properties *)

\* Retries, deletions and events that overlap leave a table of deliveries that
\* can be relied on: once a success is recorded nothing was posted after it, no
\* row is left of a subscription that is gone, and a subscription that was gone
\* before an event was never sent it.
LogTells ==
    /\ \A d \in log :
          /\ sub[d.sub].state = "active"
          /\ d.ok => \A p \in posted :
                         p[1] = d.event /\ p[2] = d.sub => p[3] =< d.attempt
    /\ \A p \in posted : p[2] \notin early[p[1]]

\* Every event that is dispatched is dealt with at last: fanned out or dropped,
\* and each of its deliveries made, given up or lost with the process.
DeliveryEnds ==
    \A e \in Events, s \in Subs :
        event[e] = "queued" \/ job[<<e, s>>].pc \in {"post", "record"} ~>
            event[e] # "queued" /\ job[<<e, s>>].pc \notin {"post", "record"}

\* A delivery that is given up has been retried: it was posted as often as the
\* loop goes round.
GivenUpAfterRetries ==
    \A e \in Events, s \in Subs :
        job[<<e, s>>].pc = "failed" =>
            \A a \in 1 .. Attempts : <<e, s, a>> \in posted
=============================================================================
