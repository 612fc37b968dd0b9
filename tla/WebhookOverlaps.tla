-------------------------- MODULE WebhookOverlaps --------------------------
(***************************************************************************)
(* What the row of the subscription and the plan cache of StripeWebhook    *)
(* show of the events, however many requests are served at once.  They     *)
(* show it but for three holes of the code, each of which is a variable    *)
(* here and is closed again by a later write: a request writes without     *)
(* testing again the row it has read, stamps an answer of Stripe after it  *)
(* was given, and refreshes the plan in statements of its own.             *)
(***************************************************************************)
EXTENDS StripeWebhook

VARIABLES
    lost,        \* events that the row reflected before an older one was written over them
    overtaken,   \* calls of the user past which the row was written after Stripe's answer
    behind       \* the refresh of the plan was lost, or the row written past one

overlapVars == <<vars, lost, overtaken, behind>>

\* The row reflects an event, or something newer.
Applied(e) ==
    /\ sub.status # "NONE"
    /\ sub.at >= event[e].row.at
    /\ event[e].kind = "snapshot" => Stale(sub, event[e].row)

\* The row has become newer than what the request is about to write over it.
LateWrite == \E w \in Workers : Upsert(w) /\ Stale(sub, worker[w].row)

\* A call of the user has its answer and has not written it.
Answered(w) == worker[w].at \in {"stamp", "read", "upsert"} /\ worker[w].event = NoId

\* Between the upsert and the end of the refresh; the plan is decided on, not written.
Refreshing(w) == worker[w].at \in {"readPlan", "readRows", "writePlan"}
Deciding(w) == worker[w].at = "writePlan"

\* A refresh that sees the plan and the row as they are, with no other one to follow.
RefreshesAlone(w) ==
    /\ ReadRows(w)
    /\ worker[w].plan = plan
    /\ \A v \in Workers : ~Deciding(v)

Losing ==
    lost' = {e \in IF LateWrite THEN lost \cup {d \in Events : Applied(d)} ELSE lost :
                ~Applied(e)'}

Overtaking ==
    overtaken' = {w \in Workers :
        /\ Answered(w)'
        /\ w \in overtaken \/ (\E v \in Workers \ {w} : Upsert(v))}

FallingBehind ==
    behind' =
        \/ \E w \in Workers : Upsert(w) /\ \E v \in Workers : Deciding(v)
        \/ \E w \in Workers : Crash(w) /\ Refreshing(w)
        \/ behind /\ ~ \E w \in Workers : RefreshesAlone(w)

OverlapInit == Init /\ lost = {} /\ overtaken = {} /\ behind = FALSE

OverlapNext == Next /\ Losing /\ Overtaking /\ FallingBehind

OverlapSpec == OverlapInit /\ [][OverlapNext]_overlapVars

OverlapFairSpec == OverlapSpec /\ Fairness

-----------------------------------------------------------------------------
(* Properties.                                                             *)

AllIdle == \A w \in Workers : worker[w].at = "idle"

\* Nothing is on its way: every event has been created, handled and answered.
Quiescent == AllIdle /\ {e \in Events : Emitted(e)} = acked

DistinctSeconds ==
    \A d, e \in acked : event[d].row.at = event[e].row.at => d = e

\* Stripe is told that an event is done with only when the row reflects it, or
\* something newer: no crash, redelivery or request beside it makes the API forget
\* an event, unless an older one was written over it.
AckedIsApplied == \A e \in acked \ lost : Applied(e)

\* Whatever order the events came in, the row ends up with Stripe's status (as
\* long as the user makes no call: the API stamps Stripe's answer later than it
\* was made, so what Stripe changes in between looks older than the answer).
RowFollowsStripe ==
    Quiescent /\ DistinctSeconds /\ lost = {} /\ manages = 0 => sub.status = stripe.status

SubCanceled == sub.status = "CANCELED" /\ sub.id # NoId /\ event[sub.id].kind = "snapshot"

\* A cancellation Stripe has sent is not undone by another event, be it of the
\* same second, nor by a call of the user, unless the row was written between what
\* the request read, or asked Stripe for, and its own write.
CanceledIsFinal ==
    [][SubCanceled =>
          \/ sub'.status = "CANCELED"
          \/ LateWrite
          \/ \E w \in overtaken : Upsert(w)]_overlapVars

\* The plan cache shows what the row grants, unless a request died between the two
\* or two of them refreshed it together (a cancelled subscription stops granting
\* without anybody writing).
CacheMirrorsRow ==
    AllIdle /\ ~behind /\ sub.status # "CANCELED" => plan = PlanOf(sub)

(* The inductive invariant behind them.                                    *)

Snapshots == {e \in Events : event[e].kind = "snapshot"}

\* What Stripe was last heard to say is in a snapshot, and nothing but the same is
\* said after a cancellation.
EventInv ==
    /\ \A e \in Events : Emitted(e) =>
          /\ event[e].row.id = e /\ event[e].row.status # "NONE"
          /\ event[e].row.at <= 2 * now
          /\ stripe.status # "NONE"
    /\ stripe.status # "NONE" => \E d \in Snapshots :
          /\ event[d].row.status = stripe.status
          /\ \A e \in Snapshots : event[e].row.at <= event[d].row.at
    /\ \A d \in Snapshots : event[d].row.status = "CANCELED" =>
          /\ stripe.status = "CANCELED"
          /\ \A e \in Snapshots : event[e].row.status # "CANCELED" =>
                event[e].row.at <= event[d].row.at

\* The row an event brings: of a snapshot, what it carries; of another, what Stripe
\* said when it was asked, which Stripe has contradicted in a later snapshot at most.
RowOf(row, e) ==
    /\ row.id = e /\ row.at = event[e].row.at /\ row.status # "NONE"
    /\ event[e].kind = "snapshot" => row = event[e].row
    /\ event[e].kind = "fetch" =>
          /\ row.status = stripe.status \/ \E d \in Snapshots : row.at <= event[d].row.at
          /\ row.status # "CANCELED" => \A d \in Snapshots :
                event[d].row.status = "CANCELED" => row.at <= event[d].row.at

SubInv ==
    /\ sub.id # NoId => Emitted(sub.id) /\ RowOf(sub, sub.id)
    /\ sub.id = NoId /\ sub.status # "NONE" => manages > 0
    /\ sub.status # "NONE" => stripe.status # "NONE"

\* An event is marked, and acknowledged, when the row reflects it.
AppliedInv ==
    /\ \A e \in Events : ledger[e].state = "processed" =>
          Emitted(e) /\ (Applied(e) \/ e \in lost)
    /\ \A e \in acked : ledger[e].state = "processed"

\* A request has the row of its event.  Once the row is cancelled, no call of the user
\* is about to write what Stripe said before, but those overtaken.
RequestInv ==
    \A w \in Workers :
        LET k == worker[w] IN
        /\ k.event # NoId => Emitted(k.event)
        /\ k.event = NoId /\ k.at # "idle" => manages > 0 /\ stripe.status # "NONE"
        /\ Answered(w) =>
              k.row.id = NoId /\ k.row.status # "NONE" /\ (SubCanceled => w \in overtaken)
        /\ k.at \in {"read", "upsert"} /\ k.event # NoId => RowOf(k.row, k.event)
        /\ (Refreshing(w) \/ k.at = "mark") /\ k.event # NoId =>
              Applied(k.event) \/ k.event \in lost
        /\ k.at = "ack" => ledger[k.event].state = "processed"

\* A request that is about to write the plan, if another than the row grants is there.
Corrects(w) ==
    /\ Refreshing(w)
    /\ worker[w].at = "readRows" => worker[w].plan # PlanOf(sub)

\* Whoever writes the plan writes what the row grants, and until it is there somebody
\* will.
CacheInv ==
    sub.status # "CANCELED" /\ ~behind =>
        /\ \A w \in Workers : Deciding(w) => worker[w].plan = PlanOf(sub)
        /\ plan = PlanOf(sub) \/ \E w \in Workers : Corrects(w)

RowInv ==
    /\ lost \subseteq Events
    /\ behind \in BOOLEAN
    /\ EventInv
    /\ SubInv
    /\ AppliedInv
    /\ RequestInv
    /\ CacheInv
=============================================================================
