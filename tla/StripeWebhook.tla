--------------------------- MODULE StripeWebhook ---------------------------
(***************************************************************************)
(* The subscription of one user as Stripe keeps it, and the copy the API   *)
(* keeps of it from webhook events and from the answers to its own calls.  *)
(*                                                                         *)
(* Stripe delivers an event until it is acknowledged, in any order and     *)
(* more than once, to any replica.  A worker is one HTTP request in        *)
(* flight: it claims the event in the ledger, reads the row of the         *)
(* subscription, writes it, refreshes the plan cache of the user and marks *)
(* the event processed, each in a statement of its own.                    *)
(***************************************************************************)
EXTENDS Naturals, FiniteSets

CONSTANTS
    Workers,      \* requests served at the same time, by all replicas
    Events,       \* events of Stripe, named by their ids, which are ordered
    Statuses,     \* statuses the subscription may take at Stripe
    Lease,        \* BILLING_EVENT_LEASE_MS, in seconds of the clock
    PeriodEnd,    \* when the current period of the subscription ends
    MaxTime,      \* bound on the clock
    MaxCrashes,   \* bound on the requests that die or fail
    MaxManages    \* bound on the calls of the user to cancel or resume

\* subscriptionStatusRank.
Rank_ActiveFirst == [CANCELED |-> 10, EXPIRED |-> 20, UNPAID |-> 30, INCOMPLETE |-> 40,
                     PAST_DUE |-> 50, ACTIVE |-> 60, TRIALING |-> 60]
Rank == [CANCELED |-> 60, EXPIRED |-> 50, UNPAID |-> 40, INCOMPLETE |-> 30,
         PAST_DUE |-> 20, ACTIVE |-> 10, TRIALING |-> 10]

ASSUME EventsAssumption == Events \subseteq Nat \ {0}
ASSUME StatusesAssumption == Statuses \subseteq DOMAIN Rank
ASSUME TimesAssumption == {Lease, PeriodEnd, MaxTime} \subseteq Nat /\ Lease > 0

VARIABLES
    now,       \* the clock, in seconds
    stripe,    \* the subscription at Stripe
    event,     \* [Events -> event]; kind "NONE" before it is created
    acked,     \* events Stripe had a 2xx answer for
    ledger,    \* [Events -> row of table BillingEvent]
    sub,       \* the row of table Subscription
    plan,      \* User.subscriptionPlan
    worker,    \* [Workers -> request in flight]
    crashes,   \* requests that died or failed
    manages    \* calls to cancel or resume

vars == <<now, stripe, event, acked, ledger, sub, plan, worker, crashes, manages>>

NoId == 0   \* lastProviderEventId "api:...", which sorts before every "evt_..."

\* `at` is lastProviderEventAt in half seconds: an event is created at a full
\* second (event.created), a call of the API is stamped within one.
SubRow == [status : Statuses \cup {"NONE"}, ending : BOOLEAN, at : Nat,
           id : Events \cup {NoId}]

NoSub == [status |-> "NONE", ending |-> FALSE, at |-> 0, id |-> NoId]

\* A "snapshot" event (customer.subscription.*) carries the subscription; for a
\* "fetch" event (checkout completed, payment failed) the handler asks Stripe.
Event == [kind : {"NONE", "snapshot", "fetch"}, row : SubRow]

LedgerRow == [state : {"absent", "started", "processed"}, since : Nat]

Plans == {"FREE", "PLUS"}

Stages == {"idle", "claim", "found", "reclaim", "handle", "read", "upsert",
           "readPlan", "readRows", "writePlan", "mark", "ack", "cancel", "resume", "stamp"}

\* `event` is NoId for a call of the user; `since` is the time of the claim; `plan` is
\* that of the user as it was read, then the one to write.
WorkerRecord == [at : Stages, event : Events \cup {NoId}, since : Nat,
                 row : SubRow, plan : Plans]

Idle == [at |-> "idle", event |-> NoId, since |-> 0, row |-> NoSub, plan |-> "FREE"]

TypeOK ==
    /\ now \in 0..MaxTime
    /\ stripe \in [status : Statuses \cup {"NONE"}, ending : BOOLEAN]
    /\ event \in [Events -> Event]
    /\ acked \subseteq Events
    /\ ledger \in [Events -> LedgerRow]
    /\ sub \in SubRow
    /\ plan \in Plans
    /\ worker \in [Workers -> WorkerRecord]
    /\ crashes \in Nat
    /\ manages \in Nat

Init ==
    /\ now = 0
    /\ stripe = [status |-> "NONE", ending |-> FALSE]
    /\ event = [e \in Events |-> [kind |-> "NONE", row |-> NoSub]]
    /\ acked = {}
    /\ ledger = [e \in Events |-> [state |-> "absent", since |-> 0]]
    /\ sub = NoSub
    /\ plan = "FREE"
    /\ worker = [w \in Workers |-> Idle]
    /\ crashes = 0
    /\ manages = 0

database == <<ledger, sub, plan>>
bounds == <<crashes, manages>>

-----------------------------------------------------------------------------
(* Stripe.                                                                 *)

Emitted(e) == event[e].kind # "NONE"

Emit(e, kind, s) ==
    /\ ~Emitted(e)
    /\ event' = [event EXCEPT ![e] = [kind |-> kind,
          row |-> [status |-> s.status, ending |-> s.ending, at |-> 2 * now, id |-> e]]]

\* A cancelled subscription never comes back.
StripeChanges(e) ==
    /\ stripe.status # "CANCELED"
    /\ \E s \in Statuses \ {stripe.status} : stripe' = [stripe EXCEPT !.status = s]
    /\ Emit(e, "snapshot", stripe')
    /\ UNCHANGED <<now, acked, database, worker, bounds>>

StripeNotifies(e) ==
    /\ stripe.status # "NONE"
    /\ Emit(e, "fetch", stripe)
    /\ UNCHANGED <<now, stripe, acked, database, worker, bounds>>

Tick ==
    /\ now < MaxTime
    /\ now' = now + 1
    /\ UNCHANGED <<stripe, event, acked, database, worker, bounds>>

\* Also of an event acknowledged before.
Deliver(w, e) ==
    /\ Emitted(e)
    /\ worker[w].at = "idle"
    /\ worker' = [worker EXCEPT ![w] = [Idle EXCEPT !.at = "claim", !.event = e, !.since = now]]
    /\ UNCHANGED <<now, stripe, event, acked, database, bounds>>

-----------------------------------------------------------------------------
(* StripeWebhookService.claimBillingEvent.                                 *)

Proceed(w, at) == worker' = [worker EXCEPT ![w].at = at]

Return(w) == worker' = [worker EXCEPT ![w] = Idle]

\* The insert, or a P2002.
Claim(w) ==
    LET e == worker[w].event IN
    /\ worker[w].at = "claim"
    /\ \/ /\ ledger[e].state = "absent"
          /\ ledger' = [ledger EXCEPT ![e] = [state |-> "started", since |-> worker[w].since]]
          /\ Proceed(w, "handle")
       \/ /\ ledger[e].state # "absent"
          /\ Proceed(w, "found")
          /\ UNCHANGED ledger
    /\ UNCHANGED <<now, stripe, event, acked, sub, plan, bounds>>

Duplicate_Started(e) == ledger[e].state # "absent"
Duplicate(e) == ledger[e].state = "processed"

\* processingStartedAt > leaseCutoff, against the time the delivery came in.
LeaseActive_Forever(e, since) == TRUE
LeaseActive(e, since) == ledger[e].since + Lease > since

\* The row is read: answer 200 to a duplicate, 503 while the lease is live.
Found(w) ==
    LET e == worker[w].event IN
    /\ worker[w].at = "found"
    /\ \/ /\ Duplicate(e)
          /\ acked' = acked \cup {e}
          /\ Return(w)
       \/ /\ ~Duplicate(e)
          /\ LeaseActive(e, worker[w].since)
          /\ Return(w)
          /\ UNCHANGED acked
       \/ /\ ~Duplicate(e)
          /\ ~LeaseActive(e, worker[w].since)
          /\ Proceed(w, "reclaim")
          /\ UNCHANGED acked
    /\ UNCHANGED <<now, stripe, event, database, bounds>>

\* The WHERE clause of the updateMany tests both again.
Reclaimable_NotRetested(e, since) == TRUE
Reclaimable(e, since) == ~Duplicate(e) /\ ~LeaseActive(e, since)

Reclaim(w) ==
    LET e == worker[w].event IN
    /\ worker[w].at = "reclaim"
    /\ \/ /\ Reclaimable(e, worker[w].since)
          /\ ledger' = [ledger EXCEPT ![e].since = worker[w].since]
          /\ Proceed(w, "handle")
       \/ /\ ~Reclaimable(e, worker[w].since)
          /\ Return(w)
          /\ UNCHANGED ledger
    /\ UNCHANGED <<now, stripe, event, acked, sub, plan, bounds>>

-----------------------------------------------------------------------------
(* dispatchSupportedEvent and syncStripeSubscription.                      *)

\* What a fetch event brings is the subscription of now under the time and the
\* id of the event.
Incoming(e) ==
    IF event[e].kind = "fetch"
    THEN [event[e].row EXCEPT !.status = stripe.status, !.ending = stripe.ending]
    ELSE event[e].row

Handle(w) ==
    /\ worker[w].at = "handle"
    /\ worker' = [worker EXCEPT ![w] =
          [@ EXCEPT !.at = "read", !.row = Incoming(worker[w].event)]]
    /\ UNCHANGED <<now, stripe, event, acked, database, bounds>>

\* shouldSkipStaleEvent.
Stale_NeverAsked(old, new) == FALSE
Stale(old, new) ==
    /\ old.status # "NONE"
    /\ \/ new.at < old.at
       \/ /\ new.at = old.at
          /\ \/ Rank[new.status] < Rank[old.status]
             \/ Rank[new.status] = Rank[old.status] /\ new.id <= old.id

ReadSub(w) ==
    /\ worker[w].at = "read"
    /\ Proceed(w, IF Stale(sub, worker[w].row) THEN "mark" ELSE "upsert")
    /\ UNCHANGED <<now, stripe, event, acked, database, bounds>>

AfterUpsert_CreateOnly == IF sub = NoSub THEN "readPlan" ELSE "mark"
AfterUpsert == "readPlan"

\* The upsert does not test again what was read.
Upsert(w) ==
    /\ worker[w].at = "upsert"
    /\ sub' = worker[w].row
    /\ Proceed(w, AfterUpsert)
    /\ UNCHANGED <<now, stripe, event, acked, ledger, plan, bounds>>

\* subscriptionGrantsPlus.
Grants(s) ==
    \/ s.status \in {"ACTIVE", "TRIALING", "PAST_DUE"}
    \/ s.status = "CANCELED" /\ now < PeriodEnd

PlanOf(s) == IF Grants(s) THEN "PLUS" ELSE "FREE"

\* syncPlanCacheFromEntitlements reads the user, then the rows, then writes.
ReadPlan(w) ==
    /\ worker[w].at = "readPlan"
    /\ worker' = [worker EXCEPT ![w].at = "readRows", ![w].plan = plan]
    /\ UNCHANGED <<now, stripe, event, acked, database, bounds>>

ReadRows(w) ==
    /\ worker[w].at = "readRows"
    /\ worker' = [worker EXCEPT ![w].at = IF PlanOf(sub) = worker[w].plan THEN "mark"
                                                                        ELSE "writePlan",
                                ![w].plan = PlanOf(sub)]
    /\ UNCHANGED <<now, stripe, event, acked, database, bounds>>

WritePlan(w) ==
    /\ worker[w].at = "writePlan"
    /\ plan' = worker[w].plan
    /\ Proceed(w, "mark")
    /\ UNCHANGED <<now, stripe, event, acked, ledger, sub, bounds>>

\* markBillingEventProcessed; a call of the user is over here.
Mark(w) ==
    /\ worker[w].at = "mark"
    /\ \/ /\ worker[w].event # NoId
          /\ ledger' = [ledger EXCEPT ![worker[w].event].state = "processed"]
          /\ Proceed(w, "ack")
       \/ /\ worker[w].event = NoId
          /\ Return(w)
          /\ UNCHANGED ledger
    /\ UNCHANGED <<now, stripe, event, acked, sub, plan, bounds>>

Ack(w) ==
    /\ worker[w].at = "ack"
    /\ acked' = acked \cup {worker[w].event}
    /\ Return(w)
    /\ UNCHANGED <<now, stripe, event, database, bounds>>

\* The process dies, or the handler throws and Stripe gets a 500.  The second
\* guard is a bound: the lease runs out before the clock stops.
Crash(w) ==
    /\ worker[w].at # "idle"
    /\ crashes < MaxCrashes
    /\ now + Lease <= MaxTime
    /\ crashes' = crashes + 1
    /\ Return(w)
    /\ UNCHANGED <<now, stripe, event, acked, database, manages>>

-----------------------------------------------------------------------------
(* BillingService.scheduleCancelAtPeriodEnd and resumeSubscription.        *)

ReadManage(w) ==
    /\ worker[w].at = "idle"
    /\ manages < MaxManages
    /\ \/ /\ Grants(sub) /\ ~sub.ending
          /\ worker' = [worker EXCEPT ![w].at = "cancel"]
       \/ /\ sub.status \in {"ACTIVE", "TRIALING", "PAST_DUE", "CANCELED"} /\ sub.ending
          /\ worker' = [worker EXCEPT ![w].at = "resume"]
    /\ manages' = manages + 1
    /\ UNCHANGED <<now, stripe, event, acked, database, crashes>>

\* Stripe refuses for a cancelled subscription; otherwise it changes the
\* subscription, creates an event and answers with the subscription.
CallStripe(w) ==
    /\ worker[w].at \in {"cancel", "resume"}
    /\ \/ /\ stripe.status # "CANCELED"
          /\ stripe' = [stripe EXCEPT !.ending = worker[w].at = "cancel"]
          /\ \E e \in Events : Emit(e, "snapshot", stripe')
          /\ worker' = [worker EXCEPT ![w] =
                [@ EXCEPT !.at = "stamp",
                          !.row = [NoSub EXCEPT !.status = stripe'.status,
                                                !.ending = stripe'.ending]]]
       \/ /\ stripe.status = "CANCELED" \/ \A e \in Events : Emitted(e)   \* bound: none left
          /\ Return(w)
          /\ UNCHANGED <<stripe, event>>
    /\ UNCHANGED <<now, acked, database, bounds>>

\* syncManagementSnapshot takes the time after the answer.
Stamped(row) == [row EXCEPT !.at = 2 * now + 1]

Stamp(w) ==
    /\ worker[w].at = "stamp"
    /\ worker' = [worker EXCEPT ![w] =
          [@ EXCEPT !.at = "read", !.row = Stamped(worker[w].row)]]
    /\ UNCHANGED <<now, stripe, event, acked, database, bounds>>

-----------------------------------------------------------------------------

Step(w) ==
    \/ Claim(w)
    \/ Found(w)
    \/ Reclaim(w)
    \/ Handle(w)
    \/ ReadSub(w)
    \/ Upsert(w)
    \/ ReadPlan(w)
    \/ ReadRows(w)
    \/ WritePlan(w)
    \/ Mark(w)
    \/ Ack(w)
    \/ CallStripe(w)
    \/ Stamp(w)

Next ==
    \/ \E e \in Events : StripeChanges(e) \/ StripeNotifies(e)
    \/ Tick
    \/ \E w \in Workers, e \in Events : Deliver(w, e)
    \/ \E w \in Workers : Step(w) \/ Crash(w) \/ ReadManage(w)

Spec == Init /\ [][Next]_vars

\* A request that does not die is served to its end, time goes on, and Stripe
\* delivers an event again as long as it is not acknowledged.
Fairness ==
    /\ WF_vars(Tick)
    /\ \A w \in Workers : WF_vars(Step(w))
    /\ \A e \in Events : SF_vars(e \notin acked /\ \E w \in Workers : Deliver(w, e))

-----------------------------------------------------------------------------
(* Properties.                                                             *)

Processing(w) ==
    /\ worker[w].at \in {"handle", "read", "upsert", "readPlan", "readRows", "writePlan",
                        "mark"}
    /\ worker[w].event # NoId

\* Two requests work on one event only if the later one claimed it after the
\* lease of the earlier one had run out.
ClaimsApart ==
    \A v, w \in Workers :
        v # w /\ Processing(v) /\ Processing(w) /\ worker[v].event = worker[w].event =>
            \/ worker[v].since + Lease <= worker[w].since
            \/ worker[w].since + Lease <= worker[v].since

\* A request at work on an event has its id, and has found its row if it goes
\* on to claim it again; a call of the user has none.
StageInv ==
    \A w \in Workers :
        /\ worker[w].at \in {"claim", "found", "reclaim", "handle", "ack"} =>
              worker[w].event \in Events
        /\ worker[w].at \in {"found", "reclaim"} => ledger[worker[w].event].state # "absent"
        /\ worker[w].at \in {"idle", "cancel", "resume", "stamp"} => worker[w].event = NoId

\* Why ClaimsApart holds: the ledger has the time of the latest claim.
LedgerInv ==
    \A w \in Workers :
        Processing(w) => /\ ledger[worker[w].event].state # "absent"
                         /\ worker[w].since <= ledger[worker[w].event].since

IInv ==
    /\ TypeOK
    /\ StageInv
    /\ LedgerInv
    /\ ClaimsApart

(* Liveness.                                                               *)

\* Every event is processed in the end, although requests die and the event
\* comes back while a lease is live.
EventProcessed ==
    \A e \in Events : Emitted(e) ~> ledger[e].state = "processed"

(* What the documents and the tests say, and the code does not keep.       *)

\* An older event does not overwrite newer state.
OlderNeverOverwrites ==
    [][sub'.at >= sub.at]_vars
=============================================================================
