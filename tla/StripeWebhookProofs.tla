------------------------ MODULE StripeWebhookProofs ------------------------
(***************************************************************************)
(* Proofs about StripeWebhook and WebhookOverlaps, for any number of       *)
(* requests and events, any lease and any bounds: first of the claims      *)
(* (IInv), then of the row and the plan cache (RowInv).                    *)
(***************************************************************************)
EXTENDS WebhookOverlaps, TLAPS

(***************************************************************************)
(* Nothing is claimed at first.                                            *)
(***************************************************************************)
LEMMA InitInv == Init => IInv
<1> SUFFICES ASSUME Init
             PROVE  IInv
  OBVIOUS
<1> USE DEF Init
<1>1. NoSub \in SubRow
  BY DEF NoSub, SubRow
<1>2. TypeOK
  <2>1. worker \in [Workers -> WorkerRecord]
    BY <1>1 DEF Idle, WorkerRecord, Stages, Plans
  <2>2. event \in [Events -> Event]
    BY <1>1 DEF Event
  <2>3. stripe \in [status : Statuses \cup {"NONE"}, ending : BOOLEAN]
    OBVIOUS
  <2> QED
    BY <1>1, <2>1, <2>2, <2>3, TimesAssumption DEF TypeOK, LedgerRow, Plans
<1>3. \A w \in Workers : worker[w].at = "idle" /\ worker[w].event = NoId
  BY DEF Idle
<1> QED
  BY <1>2, <1>3 DEF IInv, StageInv, LedgerInv, ClaimsApart, Processing

-----------------------------------------------------------------------------
(* Types.                                                                  *)

(***************************************************************************)
(* The ways a step writes its own request.                                 *)
(***************************************************************************)
LEMMA ProceedType ==
    ASSUME worker \in [Workers -> WorkerRecord], NEW w \in Workers, NEW at \in Stages,
           Proceed(w, at)
    PROVE  worker' \in [Workers -> WorkerRecord]
  BY DEF Proceed, WorkerRecord

\* A request that has returned is a record of a worker.
LEMMA IdleType == Idle \in WorkerRecord
  BY DEF Idle, NoSub, SubRow, WorkerRecord, Stages, Plans

\* A request that returns, or whose process dies, keeps the type of the workers.
LEMMA ReturnType ==
    ASSUME worker \in [Workers -> WorkerRecord], NEW w \in Workers, Return(w)
    PROVE  worker' \in [Workers -> WorkerRecord]
  BY IdleType DEF Return

(***************************************************************************)
(* Every step keeps the types; an event is indexed only where StageInv     *)
(* says that the request has one.                                          *)
(***************************************************************************)
LEMMA NextType == IInv /\ [Next]_vars => TypeOK'
<1> SUFFICES ASSUME TypeOK, StageInv, [Next]_vars
             PROVE  TypeOK'
  BY DEF IInv
<1>0. /\ now \in 0..MaxTime /\ MaxTime \in Nat
      /\ stripe \in [status : Statuses \cup {"NONE"}, ending : BOOLEAN]
      /\ event \in [Events -> Event]
      /\ acked \subseteq Events
      /\ ledger \in [Events -> LedgerRow]
      /\ sub \in SubRow
      /\ plan \in Plans
      /\ worker \in [Workers -> WorkerRecord]
      /\ crashes \in Nat
      /\ manages \in Nat
  BY TimesAssumption DEF TypeOK
<1>s. Stages = {"idle", "claim", "found", "reclaim", "handle", "read", "upsert",
                "readPlan", "readRows", "writePlan", "mark", "ack", "cancel", "resume",
                "stamp"}
  BY DEF Stages
<1>e. ASSUME NEW e \in Events, NEW kind \in {"snapshot", "fetch"},
             NEW s \in [status : Statuses \cup {"NONE"}, ending : BOOLEAN],
             Emit(e, kind, s)
      PROVE  event' \in [Events -> Event]
  BY <1>0, <1>e DEF Emit, Event, SubRow
<1>1. ASSUME NEW e \in Events, StripeChanges(e)
      PROVE  TypeOK'
  <2>1. stripe' \in [status : Statuses \cup {"NONE"}, ending : BOOLEAN]
    BY <1>0, <1>1 DEF StripeChanges
  <2>2. event' \in [Events -> Event]
    BY <1>1, <1>e, <2>1 DEF StripeChanges
  <2> QED
    BY <1>0, <1>1, <2>1, <2>2 DEF StripeChanges, TypeOK, database, bounds
<1>2. ASSUME NEW e \in Events, StripeNotifies(e)
      PROVE  TypeOK'
  <2>1. event' \in [Events -> Event]
    BY <1>0, <1>2, <1>e DEF StripeNotifies
  <2> QED
    BY <1>0, <1>2, <2>1 DEF StripeNotifies, TypeOK, database, bounds
<1>3. CASE Tick
  BY <1>0, <1>3 DEF Tick, TypeOK, database, bounds
<1>4. ASSUME NEW w \in Workers, NEW e \in Events, Deliver(w, e)
      PROVE  TypeOK'
  <2>1. [Idle EXCEPT !.at = "claim", !.event = e, !.since = now] \in WorkerRecord
    <3>1. Idle \in WorkerRecord
      BY IdleType
    <3>2. now \in Nat
      BY <1>0
    <3> QED
      BY <1>s, <3>1, <3>2 DEF WorkerRecord
  <2>2. worker' \in [Workers -> WorkerRecord]
    BY <1>0, <1>4, <2>1 DEF Deliver
  <2> QED
    BY <1>0, <1>4, <2>2 DEF Deliver, TypeOK, database, bounds
<1>5. ASSUME NEW w \in Workers, Claim(w)
      PROVE  TypeOK'
  <2>1. worker[w].event \in Events /\ worker[w].since \in Nat
    BY <1>0, <1>5 DEF Claim, StageInv, WorkerRecord
  <2>2. ledger' \in [Events -> LedgerRow]
    BY <1>0, <1>5, <2>1 DEF Claim, LedgerRow
  <2>3. worker' \in [Workers -> WorkerRecord]
    BY <1>0, <1>s, <1>5, ProceedType DEF Claim
  <2> QED
    BY <1>0, <1>5, <2>2, <2>3 DEF Claim, TypeOK, bounds
<1>6. ASSUME NEW w \in Workers, Found(w)
      PROVE  TypeOK'
  <2>1. worker[w].event \in Events
    BY <1>6 DEF Found, StageInv
  <2>2. worker' \in [Workers -> WorkerRecord]
    BY <1>0, <1>s, <1>6, ProceedType, ReturnType DEF Found
  <2>3. acked' \subseteq Events
    BY <1>0, <1>6, <2>1 DEF Found
  <2> QED
    BY <1>0, <1>6, <2>2, <2>3 DEF Found, TypeOK, database, bounds
<1>7. ASSUME NEW w \in Workers, Reclaim(w)
      PROVE  TypeOK'
  <2>1. worker[w].event \in Events /\ worker[w].since \in Nat
    BY <1>0, <1>7 DEF Reclaim, StageInv, WorkerRecord
  <2>2. ledger' \in [Events -> LedgerRow]
    BY <1>0, <1>7, <2>1 DEF Reclaim, LedgerRow
  <2>3. worker' \in [Workers -> WorkerRecord]
    BY <1>0, <1>s, <1>7, ProceedType, ReturnType DEF Reclaim
  <2> QED
    BY <1>0, <1>7, <2>2, <2>3 DEF Reclaim, TypeOK, bounds
<1>8. ASSUME NEW w \in Workers, Handle(w)
      PROVE  TypeOK'
  <2>1. worker[w].event \in Events
    BY <1>8 DEF Handle, StageInv
  <2>2. Incoming(worker[w].event) \in SubRow
    BY <1>0, <2>1 DEF Incoming, Event, SubRow
  <2>3. worker' \in [Workers -> WorkerRecord]
    <3>1. worker[w] \in WorkerRecord
      BY <1>0
    <3>2. [worker[w] EXCEPT !.at = "read", !.row = Incoming(worker[w].event)] \in WorkerRecord
      BY <1>s, <2>2, <3>1 DEF WorkerRecord
    <3> QED
      BY <1>0, <1>8, <3>2 DEF Handle
  <2> QED
    BY <1>0, <1>8, <2>3 DEF Handle, TypeOK, database, bounds
<1>9. ASSUME NEW w \in Workers, ReadSub(w)
      PROVE  TypeOK'
  <2>1. worker' \in [Workers -> WorkerRecord]
    BY <1>0, <1>s, <1>9, ProceedType DEF ReadSub
  <2> QED
    BY <1>0, <1>9, <2>1 DEF ReadSub, TypeOK, database, bounds
<1>10. ASSUME NEW w \in Workers, Upsert(w)
       PROVE  TypeOK'
  <2>1. worker' \in [Workers -> WorkerRecord]
    BY <1>0, <1>s, <1>10, ProceedType DEF Upsert, AfterUpsert
  <2>2. sub' \in SubRow
    BY <1>0, <1>10 DEF Upsert, WorkerRecord
  <2> QED
    BY <1>0, <1>10, <2>1, <2>2 DEF Upsert, TypeOK, bounds
<1>11. ASSUME NEW w \in Workers, ReadPlan(w) \/ ReadRows(w)
       PROVE  TypeOK'
  <2>1. PlanOf(sub) \in Plans
    BY DEF PlanOf, Plans
  <2>2. ASSUME NEW at \in Stages, NEW p \in Plans,
               worker' = [worker EXCEPT ![w].at = at, ![w].plan = p]
        PROVE  worker' \in [Workers -> WorkerRecord]
    BY <1>0, <2>2 DEF WorkerRecord
  <2>3. worker' \in [Workers -> WorkerRecord]
    BY <1>0, <1>s, <1>11, <2>1, <2>2 DEF ReadPlan, ReadRows
  <2> QED
    BY <1>0, <1>11, <2>3 DEF ReadPlan, ReadRows, TypeOK, database, bounds
<1>12. ASSUME NEW w \in Workers, WritePlan(w)
       PROVE  TypeOK'
  <2>1. worker' \in [Workers -> WorkerRecord]
    BY <1>0, <1>s, <1>12, ProceedType DEF WritePlan
  <2>2. plan' \in Plans
    BY <1>0, <1>12 DEF WritePlan, WorkerRecord
  <2> QED
    BY <1>0, <1>12, <2>1, <2>2 DEF WritePlan, TypeOK, bounds
<1>13. ASSUME NEW w \in Workers, Mark(w)
       PROVE  TypeOK'
  <2>1. worker' \in [Workers -> WorkerRecord]
    BY <1>0, <1>s, <1>13, ProceedType, ReturnType DEF Mark
  <2>2. ledger' \in [Events -> LedgerRow]
    BY <1>0, <1>13 DEF Mark, LedgerRow
  <2> QED
    BY <1>0, <1>13, <2>1, <2>2 DEF Mark, TypeOK, bounds
<1>14. ASSUME NEW w \in Workers, Ack(w)
       PROVE  TypeOK'
  <2>1. worker[w].event \in Events
    BY <1>14 DEF Ack, StageInv
  <2>2. worker' \in [Workers -> WorkerRecord]
    BY <1>0, <1>14, ReturnType DEF Ack
  <2> QED
    BY <1>0, <1>14, <2>1, <2>2 DEF Ack, TypeOK, database, bounds
<1>15. ASSUME NEW w \in Workers, CallStripe(w)
       PROVE  TypeOK'
  <2>1. CASE stripe.status # "CANCELED"
             /\ stripe' = [stripe EXCEPT !.ending = worker[w].at = "cancel"]
             /\ \E e \in Events : Emit(e, "snapshot", stripe')
             /\ worker' = [worker EXCEPT ![w] =
                   [@ EXCEPT !.at = "stamp",
                             !.row = [NoSub EXCEPT !.status = stripe'.status,
                                                   !.ending = stripe'.ending]]]
    <3>1. stripe' \in [status : Statuses \cup {"NONE"}, ending : BOOLEAN]
      BY <1>0, <2>1
    <3>2. event' \in [Events -> Event]
      BY <1>e, <2>1, <3>1
    <3>3. worker' \in [Workers -> WorkerRecord]
      <4> DEFINE r == [NoSub EXCEPT !.status = stripe'.status, !.ending = stripe'.ending]
      <4>1. r \in SubRow
        BY <3>1 DEF NoSub, SubRow
      <4>2. worker[w] \in WorkerRecord
        BY <1>0
      <4>3. [worker[w] EXCEPT !.at = "stamp", !.row = r] \in WorkerRecord
        BY <1>s, <4>1, <4>2 DEF WorkerRecord
      <4> QED
        BY <1>0, <2>1, <4>3
    <3> QED
      BY <1>0, <1>15, <3>1, <3>2, <3>3 DEF CallStripe, TypeOK, database, bounds
  <2>2. CASE Return(w) /\ UNCHANGED <<stripe, event>>
    <3>1. worker' \in [Workers -> WorkerRecord]
      BY <1>0, <2>2, ReturnType
    <3> QED
      BY <1>0, <1>15, <2>2, <3>1 DEF CallStripe, TypeOK, database, bounds
  <2> QED
    BY <1>15, <2>1, <2>2 DEF CallStripe
<1>16. ASSUME NEW w \in Workers, Stamp(w)
       PROVE  TypeOK'
  <2>1. worker' \in [Workers -> WorkerRecord]
    <3>1. worker[w] \in WorkerRecord /\ 2 * now + 1 \in Nat
      BY <1>0
    <3>2. Stamped(worker[w].row) \in SubRow
      BY <3>1 DEF WorkerRecord, SubRow, Stamped
    <3>3. [worker[w] EXCEPT !.at = "read", !.row = Stamped(worker[w].row)] \in WorkerRecord
      BY <1>s, <3>1, <3>2 DEF WorkerRecord
    <3> QED
      BY <1>0, <1>16, <3>3 DEF Stamp
  <2> QED
    BY <1>0, <1>16, <2>1 DEF Stamp, TypeOK, database, bounds
<1>17. ASSUME NEW w \in Workers, Crash(w)
       PROVE  TypeOK'
  <2>1. worker' \in [Workers -> WorkerRecord]
    BY <1>0, <1>17, ReturnType DEF Crash
  <2> QED
    BY <1>0, <1>17, <2>1 DEF Crash, TypeOK, database
<1>18. ASSUME NEW w \in Workers, ReadManage(w)
       PROVE  TypeOK'
  <2>1. worker' \in [Workers -> WorkerRecord]
    BY <1>0, <1>s, <1>18 DEF ReadManage, WorkerRecord
  <2> QED
    BY <1>0, <1>18, <2>1 DEF ReadManage, TypeOK, database
<1>19. CASE UNCHANGED vars
  BY <1>0, <1>19 DEF vars, TypeOK
<1> QED
  BY <1>1, <1>2, <1>3, <1>4, <1>5, <1>6, <1>7, <1>8, <1>9, <1>10, <1>11, <1>12,
     <1>13, <1>14, <1>15, <1>16, <1>17, <1>18, <1>19 DEF Next, Step

-----------------------------------------------------------------------------
(* Claims.                                                                 *)

(***************************************************************************)
(* The steps of a request after its claim.                                 *)
(***************************************************************************)
LEMMA NextStage == IInv /\ [Next]_vars => StageInv'
<1> SUFFICES ASSUME IInv, [Next]_vars
             PROVE  StageInv'
  OBVIOUS
<1>0. /\ ledger \in [Events -> LedgerRow]
      /\ worker \in [Workers -> WorkerRecord]
      /\ StageInv
  BY DEF IInv, TypeOK
<1>1. ASSUME NEW w \in Workers, NEW r,
             worker' = [worker EXCEPT ![w] = r],
             r.at \in {"claim", "handle", "ack"} => r.event \in Events,
             r.at \notin {"found", "reclaim"},
             r.at \in {"idle", "cancel", "resume", "stamp"} => r.event = NoId,
             \A e \in Events : ledger[e].state # "absent" => ledger'[e].state # "absent"
      PROVE  StageInv'
  BY <1>0, <1>1 DEF StageInv
<1>2. ASSUME UNCHANGED <<ledger, worker>>
      PROVE  StageInv'
  BY <1>0, <1>2 DEF StageInv
<1>3. ASSUME NEW w \in Workers, Return(w), 
             \A e \in Events : ledger[e].state # "absent" => ledger'[e].state # "absent"
      PROVE  StageInv'
  BY <1>0, <1>3 DEF Return, Idle, StageInv
<1>4. ASSUME NEW w \in Workers, NEW at, Proceed(w, at),
             at \notin {"claim", "found", "reclaim", "handle", "ack",
                        "idle", "cancel", "resume", "stamp"},
             ledger' = ledger
      PROVE  StageInv'
  BY <1>0, <1>4 DEF Proceed, StageInv, WorkerRecord
<1>5. ASSUME NEW e \in Events, StripeChanges(e) \/ StripeNotifies(e)
      PROVE  StageInv'
  BY <1>2, <1>5 DEF StripeChanges, StripeNotifies, database
<1>6. CASE Tick
  BY <1>2, <1>6 DEF Tick, database
<1>7. ASSUME NEW w \in Workers, NEW e \in Events, Deliver(w, e)
      PROVE  StageInv'
  BY <1>0, <1>7 DEF Deliver, database, StageInv, Idle
<1>8. ASSUME NEW w \in Workers, Claim(w)
      PROVE  StageInv'
  <2>1. worker[w].event \in Events
    BY <1>0, <1>8 DEF Claim, StageInv
  <2>2. CASE Proceed(w, "handle")
             /\ ledger' = [ledger EXCEPT ![worker[w].event] =
                              [state |-> "started", since |-> worker[w].since]]
    BY <1>0, <2>1, <2>2 DEF Proceed, StageInv, WorkerRecord, LedgerRow
  <2>3. CASE Proceed(w, "found") /\ ledger[worker[w].event].state # "absent" /\ ledger' = ledger
    BY <1>0, <2>1, <2>3 DEF Proceed, StageInv, WorkerRecord
  <2> QED
    BY <1>8, <2>2, <2>3 DEF Claim
<1>9. ASSUME NEW w \in Workers, Found(w)
      PROVE  StageInv'
  <2>1. CASE Return(w)
    BY <1>3, <1>9, <2>1 DEF Found, database
  <2>2. CASE Proceed(w, "reclaim")
    BY <1>0, <1>9, <2>2 DEF Found, Proceed, StageInv, WorkerRecord, database
  <2> QED
    BY <1>9, <2>1, <2>2 DEF Found
<1>10. ASSUME NEW w \in Workers, Reclaim(w)
       PROVE  StageInv'
  BY <1>0, <1>10 DEF Reclaim, Proceed, Return, Idle, StageInv, WorkerRecord, LedgerRow
<1>11. ASSUME NEW w \in Workers, Handle(w)
       PROVE  StageInv'
  BY <1>0, <1>11 DEF Handle, StageInv, WorkerRecord, database
<1>12. ASSUME NEW w \in Workers, ReadSub(w)
       PROVE  StageInv'
  BY <1>4, <1>12 DEF ReadSub, database
<1>13. ASSUME NEW w \in Workers, Upsert(w)
       PROVE  StageInv'
  BY <1>4, <1>13 DEF Upsert, AfterUpsert
<1>14. ASSUME NEW w \in Workers, ReadPlan(w) \/ ReadRows(w)
       PROVE  StageInv'
  <2>1. ASSUME NEW at \in {"readRows", "mark", "writePlan"}, NEW p,
               worker' = [worker EXCEPT ![w].at = at, ![w].plan = p], ledger' = ledger
        PROVE  StageInv'
    BY <1>0, <2>1 DEF StageInv, WorkerRecord
  <2> QED
    BY <1>14, <2>1 DEF ReadPlan, ReadRows, database
<1>15. ASSUME NEW w \in Workers, WritePlan(w)
       PROVE  StageInv'
  BY <1>4, <1>15 DEF WritePlan
<1>16. ASSUME NEW w \in Workers, Mark(w)
       PROVE  StageInv'
  <2>1. worker[w].event # NoId => worker[w].event \in Events
    BY <1>0 DEF WorkerRecord
  <2> QED
    BY <1>0, <1>3, <1>16, <2>1 DEF Mark, Proceed, StageInv, WorkerRecord, LedgerRow
<1>17. ASSUME NEW w \in Workers, Ack(w) \/ Crash(w)
       PROVE  StageInv'
  BY <1>3, <1>17 DEF Ack, Crash, database
<1>18. ASSUME NEW w \in Workers, CallStripe(w)
       PROVE  StageInv'
  <2>1. CASE Return(w)
    BY <1>3, <1>18, <2>1 DEF CallStripe, database
  <2>2. CASE ~Return(w)
    <3> DEFINE r == [NoSub EXCEPT !.status = stripe'.status, !.ending = stripe'.ending]
    <3>1. worker' = [worker EXCEPT ![w] = [@ EXCEPT !.at = "stamp", !.row = r]]
      BY <1>18, <2>2 DEF CallStripe
    <3> HIDE DEF r
    <3>2. worker[w] \in WorkerRecord /\ worker[w].event = NoId
      BY <1>0, <1>18 DEF CallStripe, StageInv
    <3>3. worker'[w].at = "stamp" /\ worker'[w].event = NoId
      BY <1>0, <3>1, <3>2 DEF WorkerRecord
    <3>4. ledger' = ledger /\ \A v \in Workers \ {w} : worker'[v] = worker[v]
      BY <1>0, <1>18, <3>1 DEF CallStripe, database
    <3> QED
      BY <1>0, <3>3, <3>4 DEF StageInv
  <2> QED
    BY <2>1, <2>2
<1>19. ASSUME NEW w \in Workers, Stamp(w)
       PROVE  StageInv'
  BY <1>0, <1>19 DEF Stamp, StageInv, WorkerRecord, database
<1>20. ASSUME NEW w \in Workers, ReadManage(w)
       PROVE  StageInv'
  BY <1>0, <1>20 DEF ReadManage, StageInv, WorkerRecord, database
<1>21. CASE UNCHANGED vars
  BY <1>2, <1>21 DEF vars
<1> QED
  BY <1>5, <1>6, <1>7, <1>8, <1>9, <1>10, <1>11, <1>12, <1>13, <1>14, <1>15,
     <1>16, <1>17, <1>18, <1>19, <1>20, <1>21 DEF Next, Step

(***************************************************************************)
(* A step that starts no claim keeps the claims apart.                     *)
(***************************************************************************)
LEMMA NoNewClaim ==
    ASSUME IInv, TypeOK',
           \A w \in Workers : Processing(w)' =>
               /\ Processing(w)
               /\ worker'[w].event = worker[w].event
               /\ worker'[w].since = worker[w].since,
           \A e \in Events : /\ ledger[e].state # "absent" => ledger'[e].state # "absent"
                              /\ ledger'[e].since = ledger[e].since
    PROVE  LedgerInv' /\ ClaimsApart'
<1>1. \A w \in Workers : Processing(w) => worker[w].event \in Events
  BY DEF IInv, TypeOK, WorkerRecord, Processing
<1>2. LedgerInv'
  BY <1>1 DEF IInv, LedgerInv
<1>3. ClaimsApart'
  BY DEF IInv, ClaimsApart
<1> QED
  BY <1>2, <1>3

(***************************************************************************)
(* A claim that finds no row, or one whose lease is over, keeps apart from *)
(* every claim of the same event: none of them is later than the row says. *)
(***************************************************************************)
LEMMA NewClaim ==
    ASSUME IInv, NEW w \in Workers, NEW e \in Events,
           worker[w].event = e,
           Proceed(w, "handle"),
           \/ ledger[e].state = "absent"
           \/ ledger[e].since + Lease <= worker[w].since,
           ledger'[e].state # "absent",
           ledger'[e].since = worker[w].since,
           \A d \in Events \ {e} : ledger'[d] = ledger[d]
    PROVE  LedgerInv' /\ ClaimsApart'
<1>1. worker \in [Workers -> WorkerRecord] /\ ledger \in [Events -> LedgerRow]
  BY DEF IInv, TypeOK
<1>2. /\ worker'[w].event = e
      /\ worker'[w].since = worker[w].since
      /\ \A v \in Workers \ {w} : worker'[v] = worker[v]
  BY <1>1 DEF Proceed, WorkerRecord
<1>3. \A v \in Workers : worker[v].since \in Nat
  BY <1>1 DEF WorkerRecord
<1>4. \A v \in Workers : Processing(v) => worker[v].event \in Events
  BY <1>1 DEF WorkerRecord, Processing
<1>5. ledger[e].since \in Nat /\ Lease \in Nat
  BY <1>1, TimesAssumption DEF LedgerRow
<1>6. \A v \in Workers \ {w} : Processing(v)' <=> Processing(v)
  BY <1>2 DEF Processing
<1>7. \A v \in Workers \ {w} :
         Processing(v) /\ worker[v].event = e => worker[v].since + Lease <= worker[w].since
  <2> SUFFICES ASSUME NEW v \in Workers \ {w}, Processing(v), worker[v].event = e
               PROVE  worker[v].since + Lease <= worker[w].since
    OBVIOUS
  <2>1. ledger[e].state # "absent" /\ worker[v].since <= ledger[e].since
    BY DEF IInv, LedgerInv
  <2>2. ledger[e].since + Lease <= worker[w].since
    BY <2>1
  <2>3. worker[v].since \in Nat /\ worker[w].since \in Nat
    BY <1>3
  <2> QED
    BY <1>5, <2>1, <2>2, <2>3
<1>8. LedgerInv'
  <2> SUFFICES ASSUME NEW v \in Workers, Processing(v)'
               PROVE  /\ ledger'[worker'[v].event].state # "absent"
                      /\ worker'[v].since <= ledger'[worker'[v].event].since
    BY DEF LedgerInv
  <2>1. CASE v = w
    <3>1. worker[w].since <= worker[w].since
      BY <1>3
    <3> QED
      BY <1>2, <2>1, <3>1
  <2>2. CASE v # w /\ worker[v].event = e
    <3>1. worker'[v] = worker[v] /\ Processing(v)
      BY <1>2, <1>6, <2>2
    <3>2. worker[v].since + Lease <= worker[w].since
      BY <1>7, <2>2, <3>1
    <3>3. worker[v].since <= worker[w].since
      BY <1>3, <1>5, <3>2
    <3> QED
      BY <2>2, <3>1, <3>3
  <2>3. CASE v # w /\ worker[v].event # e
    <3>1. worker'[v] = worker[v] /\ Processing(v)
      BY <1>2, <1>6, <2>3
    <3>2. ledger'[worker[v].event] = ledger[worker[v].event]
      BY <1>4, <2>3, <3>1
    <3> QED
      BY <3>1, <3>2 DEF IInv, LedgerInv
  <2> QED
    BY <2>1, <2>2, <2>3
<1>9. ClaimsApart'
  <2> SUFFICES ASSUME NEW u \in Workers, NEW v \in Workers, u # v,
                      Processing(u)', Processing(v)', worker'[u].event = worker'[v].event
               PROVE  \/ worker'[u].since + Lease <= worker'[v].since
                      \/ worker'[v].since + Lease <= worker'[u].since
    BY DEF ClaimsApart
  <2>1. CASE u = w
    <3>1. worker'[v] = worker[v] /\ Processing(v) /\ worker[v].event = e
      BY <1>2, <1>6, <2>1
    <3> QED
      BY <1>2, <1>7, <2>1, <3>1
  <2>2. CASE v = w
    <3>1. worker'[u] = worker[u] /\ Processing(u) /\ worker[u].event = e
      BY <1>2, <1>6, <2>2
    <3> QED
      BY <1>2, <1>7, <2>2, <3>1
  <2>3. CASE u # w /\ v # w
    <3>1. /\ worker'[u] = worker[u] /\ Processing(u)
          /\ worker'[v] = worker[v] /\ Processing(v)
      BY <1>2, <1>6, <2>3
    <3> QED
      BY <3>1 DEF IInv, ClaimsApart
  <2> QED
    BY <2>1, <2>2, <2>3
<1> QED
  BY <1>8, <1>9

(***************************************************************************)
(* Only Claim and Reclaim start a claim.                                   *)
(***************************************************************************)
LEMMA NextClaims == IInv /\ [Next]_vars => LedgerInv' /\ ClaimsApart'
<1> SUFFICES ASSUME IInv, [Next]_vars
             PROVE  LedgerInv' /\ ClaimsApart'
  OBVIOUS
<1>t. TypeOK'
  BY NextType
<1>0. /\ ledger \in [Events -> LedgerRow]
      /\ worker \in [Workers -> WorkerRecord]
      /\ StageInv
  BY DEF IInv, TypeOK
<1>1. ASSUME UNCHANGED <<ledger, worker>>
      PROVE  LedgerInv' /\ ClaimsApart'
  BY <1>t, <1>1, NoNewClaim DEF Processing
<1>2. ASSUME NEW w \in Workers, Return(w), ledger' = ledger
      PROVE  LedgerInv' /\ ClaimsApart'
  <2>1. \A v \in Workers : Processing(v)' => Processing(v) /\ worker'[v] = worker[v]
    BY <1>0, <1>2 DEF Return, Idle, Processing
  <2> QED
    BY <1>t, <1>2, <2>1, NoNewClaim
<1>3. ASSUME NEW w \in Workers,
             \A v \in Workers \ {w} : worker'[v] = worker[v],
             Processing(w)' => /\ Processing(w)
                               /\ worker'[w].event = worker[w].event
                               /\ worker'[w].since = worker[w].since,
             \A e \in Events : /\ ledger[e].state # "absent" => ledger'[e].state # "absent"
                                /\ ledger'[e].since = ledger[e].since
      PROVE  LedgerInv' /\ ClaimsApart'
  <2>1. \A v \in Workers : Processing(v)' =>
               /\ Processing(v)
               /\ worker'[v].event = worker[v].event
               /\ worker'[v].since = worker[v].since
    BY <1>3 DEF Processing
  <2> QED
    BY <1>t, <1>3, <2>1, NoNewClaim
<1>4. ASSUME NEW e \in Events, StripeChanges(e) \/ StripeNotifies(e)
      PROVE  LedgerInv' /\ ClaimsApart'
  BY <1>1, <1>4 DEF StripeChanges, StripeNotifies, database
<1>5. CASE Tick
  BY <1>1, <1>5 DEF Tick, database
<1>6. ASSUME NEW w \in Workers, NEW e \in Events, Deliver(w, e)
      PROVE  LedgerInv' /\ ClaimsApart'
  <2>1. ~Processing(w)'
    BY <1>0, <1>6 DEF Deliver, Idle, Processing
  <2> QED
    BY <1>0, <1>3, <1>6, <2>1 DEF Deliver, database
<1>7. ASSUME NEW w \in Workers, Claim(w)
      PROVE  LedgerInv' /\ ClaimsApart'
  <2> DEFINE e == worker[w].event
  <2>1. e \in Events
    BY <1>0, <1>7 DEF Claim, StageInv
  <2>2. CASE ledger[e].state = "absent"
    <3>1. ledger' = [ledger EXCEPT ![e] = [state |-> "started", since |-> worker[w].since]]
      BY <1>7, <2>2 DEF Claim
    <3>2. Proceed(w, "handle")
      BY <1>7, <2>2 DEF Claim
    <3>3. /\ ledger'[e].state # "absent"
          /\ ledger'[e].since = worker[w].since
          /\ \A d \in Events \ {e} : ledger'[d] = ledger[d]
      BY <1>0, <2>1, <3>1
    <3> QED
      BY <2>1, <2>2, <3>2, <3>3, NewClaim
  <2>3. CASE ledger[e].state # "absent"
    <3>1. Proceed(w, "found") /\ ledger' = ledger
      BY <1>7, <2>3 DEF Claim
    <3>2. ~Processing(w)' /\ \A v \in Workers \ {w} : worker'[v] = worker[v]
      BY <1>0, <3>1 DEF Proceed, Processing, WorkerRecord
    <3> QED
      BY <1>3, <3>1, <3>2
  <2> QED
    BY <2>2, <2>3
<1>8. ASSUME NEW w \in Workers, Found(w)
      PROVE  LedgerInv' /\ ClaimsApart'
  <2>1. ~Processing(w)' /\ \A v \in Workers \ {w} : worker'[v] = worker[v]
    BY <1>0, <1>8 DEF Found, Proceed, Return, Idle, Processing, WorkerRecord
  <2> QED
    BY <1>3, <1>8, <2>1 DEF Found, database
<1>9. ASSUME NEW w \in Workers, Reclaim(w)
      PROVE  LedgerInv' /\ ClaimsApart'
  <2> DEFINE e == worker[w].event
  <2>1. /\ e \in Events
        /\ ledger[e].state # "absent"
        /\ ledger[e].since \in Nat /\ worker[w].since \in Nat /\ Lease \in Nat
    BY <1>0, <1>9, TimesAssumption DEF Reclaim, StageInv, LedgerRow, WorkerRecord
  <2>2. CASE Reclaimable(e, worker[w].since)
    <3>1. ledger' = [ledger EXCEPT ![e].since = worker[w].since]
      BY <1>9, <2>2 DEF Reclaim
    <3>2. Proceed(w, "handle")
      BY <1>9, <2>2 DEF Reclaim
    <3>3. /\ ledger'[e].state # "absent"
          /\ ledger'[e].since = worker[w].since
          /\ \A d \in Events \ {e} : ledger'[d] = ledger[d]
      BY <1>0, <2>1, <3>1 DEF LedgerRow
    <3>4. ledger[e].since + Lease <= worker[w].since
      BY <2>1, <2>2 DEF Reclaimable, LeaseActive
    <3> QED
      BY <2>1, <3>2, <3>3, <3>4, NewClaim
  <2>3. CASE ~Reclaimable(e, worker[w].since)
    BY <1>2, <1>9, <2>3 DEF Reclaim
  <2> QED
    BY <2>2, <2>3
<1>10. ASSUME NEW w \in Workers, Handle(w) \/ ReadSub(w) \/ ReadPlan(w) \/ ReadRows(w)
       PROVE  LedgerInv' /\ ClaimsApart'
  <2>1. /\ Processing(w) <=> worker[w].event # NoId
        /\ ledger' = ledger /\ \A v \in Workers \ {w} : worker'[v] = worker[v]
    BY <1>0, <1>10 DEF Handle, ReadSub, ReadPlan, ReadRows, Proceed, database, Processing
  <2>2. /\ worker'[w].event = worker[w].event
        /\ worker'[w].since = worker[w].since
    <3>1. ASSUME NEW at, NEW p, worker' = [worker EXCEPT ![w].at = at, ![w].plan = p]
          PROVE  worker'[w].event = worker[w].event /\ worker'[w].since = worker[w].since
      BY <1>0, <3>1 DEF WorkerRecord
    <3>2. CASE Handle(w) \/ ReadSub(w)
      BY <1>0, <3>2 DEF Handle, ReadSub, Proceed, WorkerRecord
    <3> QED
      BY <1>10, <3>1, <3>2 DEF ReadPlan, ReadRows
  <2> QED
    BY <1>3, <2>1, <2>2 DEF Processing
<1>11. ASSUME NEW w \in Workers, Upsert(w) \/ WritePlan(w)
       PROVE  LedgerInv' /\ ClaimsApart'
  <2>1. Processing(w)' => /\ Processing(w)
                          /\ worker'[w].event = worker[w].event
                          /\ worker'[w].since = worker[w].since
    BY <1>0, <1>11 DEF Upsert, WritePlan, Proceed, Processing, WorkerRecord
  <2>2. ledger' = ledger /\ \A v \in Workers \ {w} : worker'[v] = worker[v]
    BY <1>0, <1>11 DEF Upsert, WritePlan, Proceed
  <2> QED
    BY <1>3, <2>1, <2>2
<1>12. ASSUME NEW w \in Workers, Mark(w)
       PROVE  LedgerInv' /\ ClaimsApart'
  <2>1. ~Processing(w)' /\ \A v \in Workers \ {w} : worker'[v] = worker[v]
    BY <1>0, <1>12 DEF Mark, Proceed, Return, Idle, Processing, WorkerRecord
  <2>2. \A e \in Events : /\ ledger[e].state # "absent" => ledger'[e].state # "absent"
                           /\ ledger'[e].since = ledger[e].since
    BY <1>0, <1>12 DEF Mark, LedgerRow
  <2> QED
    BY <1>3, <2>1, <2>2
<1>13. ASSUME NEW w \in Workers, Ack(w) \/ Crash(w)
       PROVE  LedgerInv' /\ ClaimsApart'
  BY <1>2, <1>13 DEF Ack, Crash, database
<1>14. ASSUME NEW w \in Workers, CallStripe(w) \/ Stamp(w) \/ ReadManage(w)
       PROVE  LedgerInv' /\ ClaimsApart'
  <2>1. worker[w].event = NoId
    BY <1>0, <1>14 DEF CallStripe, Stamp, ReadManage, StageInv
  <2>2. ~Processing(w)' /\ \A v \in Workers \ {w} : worker'[v] = worker[v]
    <3>1. CASE CallStripe(w) /\ ~Return(w)
      <4> DEFINE r == [NoSub EXCEPT !.status = stripe'.status, !.ending = stripe'.ending]
      <4>1. worker' = [worker EXCEPT ![w] = [@ EXCEPT !.at = "stamp", !.row = r]]
        BY <3>1 DEF CallStripe
      <4> HIDE DEF r
      <4> QED
        BY <1>0, <4>1 DEF Processing, WorkerRecord
    <3>2. CASE Return(w)
      BY <1>0, <3>2 DEF Return, Idle, Processing
    <3>3. CASE Stamp(w)
      BY <1>0, <2>1, <3>3 DEF Stamp, Processing, WorkerRecord
    <3>4. CASE ReadManage(w)
      BY <1>0, <3>4 DEF ReadManage, Processing, WorkerRecord
    <3> QED
      BY <1>14, <3>1, <3>2, <3>3, <3>4
  <2>3. ledger' = ledger
    BY <1>14 DEF CallStripe, Stamp, ReadManage, database
  <2> QED
    BY <1>3, <2>2, <2>3
<1>15. CASE UNCHANGED vars
  BY <1>1, <1>15 DEF vars
<1> QED
  BY <1>4, <1>5, <1>6, <1>7, <1>8, <1>9, <1>10, <1>11, <1>12, <1>13, <1>14, <1>15
     DEF Next, Step

-----------------------------------------------------------------------------
(* Theorems.                                                               *)

(***************************************************************************)
(* The inductive invariant of claimBillingEvent and its callers.           *)
(***************************************************************************)
THEOREM Invariance == Spec => []IInv
<1>1. IInv /\ [Next]_vars => IInv'
  BY NextType, NextStage, NextClaims DEF IInv
<1> QED
  BY InitInv, <1>1, PTL DEF Spec

(***************************************************************************)
(* Every variable keeps its type.                                          *)
(***************************************************************************)
THEOREM TypeCorrect == Spec => []TypeOK
<1>1. IInv => TypeOK
  BY DEF IInv
<1> QED
  BY Invariance, <1>1, PTL

(***************************************************************************)
(* Two requests work on one event only if the lease of the earlier claim   *)
(* was over when the later one came in, however many replicas there are    *)
(* and however long the lease is.                                          *)
(***************************************************************************)
THEOREM OneClaimPerLease == Spec => []ClaimsApart
<1>1. IInv => ClaimsApart
  BY DEF IInv
<1> QED
  BY Invariance, <1>1, PTL

-----------------------------------------------------------------------------
(* The row and the plan cache.                                             *)

\* Every status has a rank and CANCELED the highest (subscriptionStatusRank).
LEMMA Ranks ==
    \A s \in Statuses : /\ Rank[s] \in Nat /\ s # "NONE"
                        /\ s # "CANCELED" => Rank[s] < Rank["CANCELED"]
<1>1. DOMAIN Rank = {"CANCELED", "EXPIRED", "UNPAID", "INCOMPLETE", "PAST_DUE", "ACTIVE",
                     "TRIALING"}
  BY DEF Rank
<1>2. \A s \in DOMAIN Rank : /\ Rank[s] \in Nat /\ s # "NONE"
                             /\ s # "CANCELED" => Rank[s] < Rank["CANCELED"]
  BY <1>1 DEF Rank
<1> QED
  BY <1>2, StatusesAssumption

\* A row that exists can be compared with another.
LEMMA RowTypes ==
    ASSUME NEW row \in SubRow, row.status # "NONE"
    PROVE  row.at \in Nat /\ row.id \in Nat /\ Rank[row.status] \in Nat
<1>1. row.at \in Nat /\ row.status \in Statuses /\ row.id \in Events \cup {NoId}
  BY DEF SubRow
<1>2. row.id \in Nat
  <2>1. Events \subseteq Nat /\ NoId \in Nat
    BY EventsAssumption DEF NoId
  <2> QED
    BY <1>1, <2>1
<1>3. Rank[row.status] \in Nat
  BY <1>1, Ranks
<1> QED
  BY <1>1, <1>2, <1>3

\* shouldSkipStaleEvent compares rows in one order: what is older than a row is older
\* than the row that may replace it.
LEMMA StaleOrder ==
    ASSUME NEW a \in SubRow, NEW b \in SubRow, NEW c \in SubRow,
           a.status # "NONE", b.status # "NONE", c.status # "NONE", ~Stale(a, b)
    PROVE  /\ a.at <= b.at
           /\ Stale(a, c) => Stale(b, c)
<1>1. /\ a.at \in Nat /\ a.id \in Nat /\ Rank[a.status] \in Nat
      /\ b.at \in Nat /\ b.id \in Nat /\ Rank[b.status] \in Nat
      /\ c.at \in Nat /\ c.id \in Nat /\ Rank[c.status] \in Nat
  BY RowTypes
<1> QED
  BY <1>1 DEF Stale

\* The row of an event is stale after its own upsert.
LEMMA StaleItself ==
    ASSUME NEW a \in SubRow, a.status # "NONE"
    PROVE  Stale(a, a)
  BY RowTypes DEF Stale

\* The types of what the steps look at.
LEMMA Typing ==
    ASSUME TypeOK
    PROVE  /\ now \in Nat
           /\ sub \in SubRow /\ sub.id \in Events \cup {NoId} /\ sub.at \in Nat
           /\ sub.status \in Statuses \cup {"NONE"}
           /\ stripe.status \in Statuses \cup {"NONE"}
           /\ \A e \in Events : /\ event[e] \in Event /\ event[e].row \in SubRow
                                /\ event[e].row.at \in Nat
                                /\ event[e].row.status \in Statuses \cup {"NONE"}
                                /\ event[e].kind \in {"NONE", "snapshot", "fetch"}
           /\ worker \in [Workers -> WorkerRecord]
           /\ \A w \in Workers : /\ worker[w].row \in SubRow /\ worker[w].at \in Stages
                                 /\ worker[w].event \in Events \cup {NoId}
                                 /\ worker[w].row.at \in Nat
                                 /\ worker[w].row.id \in Events \cup {NoId}
                                 /\ worker[w].row.status \in Statuses \cup {"NONE"}
           /\ NoId \notin Events
<1>1. now \in Nat /\ NoId \notin Events
  BY TimesAssumption, EventsAssumption DEF TypeOK, NoId
<1>2. sub \in SubRow /\ stripe \in [status : Statuses \cup {"NONE"}, ending : BOOLEAN]
      /\ worker \in [Workers -> WorkerRecord] /\ event \in [Events -> Event]
  BY DEF TypeOK
<1>3. \A e \in Events : /\ event[e] \in Event /\ event[e].row \in SubRow
                        /\ event[e].kind \in {"NONE", "snapshot", "fetch"}
  BY <1>2 DEF Event
<1>4. \A w \in Workers : /\ worker[w].row \in SubRow /\ worker[w].at \in Stages
                         /\ worker[w].event \in Events \cup {NoId}
  BY <1>2 DEF WorkerRecord
<1>5. \A row \in SubRow : /\ row.at \in Nat /\ row.id \in Events \cup {NoId}
                          /\ row.status \in Statuses \cup {"NONE"}
  BY DEF SubRow
<1> QED
  BY <1>1, <1>2, <1>3, <1>4, <1>5

\* Stripe creates an event about its subscription.
Sent(e, kind) ==
    /\ ~Emitted(e)
    /\ event'[e].kind = kind
    /\ event'[e].row.id = e
    /\ event'[e].row.at = 2 * now
    /\ event'[e].row.status = stripe'.status
    /\ \A d \in Events \ {e} : event'[d] = event[d]
    /\ now' = now

\* Stripe creates an event with the status of the subscription and the time of now.
LEMMA EmitSends ==
    ASSUME event \in [Events -> Event], NEW e \in Events, NEW kind, NEW s, Emit(e, kind, s),
           s.status = stripe'.status, now' = now
    PROVE  Sent(e, kind)
<1>1. event'[e] = [kind |-> kind, row |-> [status |-> s.status, ending |-> s.ending,
                                           at |-> 2 * now, id |-> e]]
  BY DEF Emit
<1>2. \A d \in Events \ {e} : event'[d] = event[d]
  BY DEF Emit
<1> QED
  BY <1>1, <1>2 DEF Emit, Sent

StripeSteps ==
    \/ UNCHANGED <<stripe, event>>
    \/ \E e \in Events : /\ Sent(e, "snapshot") /\ stripe.status # "CANCELED"
                         /\ stripe'.status # "NONE"
    \/ \E e \in Events : Sent(e, "fetch") /\ stripe' = stripe /\ stripe.status # "NONE"

\* A step changes nothing at Stripe, or creates one event; only a snapshot tells a
\* change.
LEMMA StripeFrame ==
    ASSUME IInv, RowInv, [Next]_vars
    PROVE  StripeSteps
<1>t. /\ event \in [Events -> Event]
      /\ stripe \in [status : Statuses \cup {"NONE"}, ending : BOOLEAN]
  BY DEF IInv, TypeOK
<1>1. ASSUME NEW e \in Events, StripeChanges(e)
      PROVE  StripeSteps
  <2>1. stripe.status # "CANCELED" /\ stripe'.status \in Statuses /\ now' = now
    BY <1>t, <1>1 DEF StripeChanges
  <2>2. Emit(e, "snapshot", stripe')
    BY <1>1 DEF StripeChanges
  <2>3. Sent(e, "snapshot")
    BY <1>t, <2>1, <2>2, EmitSends
  <2> QED
    BY <2>1, <2>3, Ranks DEF StripeSteps
<1>2. ASSUME NEW e \in Events, StripeNotifies(e)
      PROVE  StripeSteps
  <2>1. stripe.status # "NONE" /\ stripe' = stripe /\ now' = now /\ Emit(e, "fetch", stripe)
    BY <1>2 DEF StripeNotifies
  <2>2. Sent(e, "fetch")
    BY <1>t, <2>1, EmitSends
  <2> QED
    BY <2>1, <2>2 DEF StripeSteps
<1>3. ASSUME NEW w \in Workers, CallStripe(w)
      PROVE  StripeSteps
  <2>1. CASE UNCHANGED <<stripe, event>>
    BY <2>1 DEF StripeSteps
  <2>2. CASE /\ stripe.status # "CANCELED"
             /\ stripe' = [stripe EXCEPT !.ending = worker[w].at = "cancel"]
             /\ \E e \in Events : Emit(e, "snapshot", stripe')
    <3>1. stripe.status # "NONE"
      <4>1. worker[w].event = NoId /\ worker[w].at # "idle"
        BY <1>3 DEF CallStripe, IInv, StageInv
      <4> QED
        BY <4>1 DEF RowInv, RequestInv
    <3>2. stripe'.status = stripe.status /\ now' = now
      BY <1>t, <1>3, <2>2 DEF CallStripe
    <3>3. PICK e \in Events : Emit(e, "snapshot", stripe')
      BY <2>2
    <3>4. Sent(e, "snapshot")
      BY <1>t, <3>2, <3>3, EmitSends
    <3> QED
      BY <2>2, <3>1, <3>2, <3>4 DEF StripeSteps
  <2> QED
    BY <1>3, <2>1, <2>2 DEF CallStripe
<1>4. CASE UNCHANGED <<stripe, event>>
  BY <1>4 DEF StripeSteps
<1>5. ASSUME NEW w \in Workers,
             \/ Claim(w) \/ Found(w) \/ Reclaim(w) \/ Handle(w) \/ ReadSub(w) \/ Upsert(w)
             \/ ReadPlan(w) \/ ReadRows(w) \/ WritePlan(w) \/ Mark(w) \/ Ack(w)
             \/ Stamp(w) \/ Crash(w) \/ ReadManage(w)
      PROVE  UNCHANGED <<stripe, event>>
  BY <1>5 DEF Claim, Found, Reclaim, Handle, ReadSub, Upsert, ReadPlan, ReadRows, WritePlan, Mark, Ack,
              Stamp, Crash, ReadManage
<1>6. ASSUME NEW w \in Workers, NEW e \in Events, Deliver(w, e)
      PROVE  UNCHANGED <<stripe, event>>
  BY <1>6 DEF Deliver
<1> QED
  BY <1>1, <1>2, <1>3, <1>4, <1>5, <1>6 DEF Next, Step, Tick, vars

\* The clock does not go back.
LEMMA TimeFrame ==
    ASSUME IInv, [Next]_vars
    PROVE  now \in Nat /\ now' \in Nat /\ now <= now'
<1>1. now \in Nat
  BY Typing DEF IInv
<1>2. now' = now \/ now' = now + 1
  BY DEF Next, Step, StripeChanges, StripeNotifies, Tick, Deliver, Claim, Found, Reclaim,
         Handle, ReadSub, Upsert, ReadPlan, ReadRows, WritePlan, Mark, Ack, CallStripe, Stamp, Crash,
         ReadManage, vars
<1> QED
  BY <1>1, <1>2

\* An event that exists stays as it is, and Stripe neither forgets the subscription nor
\* takes back a cancellation.
LEMMA EventsStay ==
    ASSUME IInv, RowInv, [Next]_vars
    PROVE  /\ \A e \in Events : Emitted(e) => event'[e] = event[e] /\ Emitted(e)'
           /\ Snapshots \subseteq Snapshots'
           /\ stripe.status # "NONE" => stripe'.status # "NONE"
           /\ stripe.status = "CANCELED" => stripe'.status = "CANCELED"
<1>1. \A e \in Events : Emitted(e) => event'[e] = event[e] /\ Emitted(e)'
  BY StripeFrame DEF StripeSteps, Sent, Emitted
<1>2. Snapshots \subseteq Snapshots'
  BY <1>1 DEF Snapshots, Emitted
<1>3. /\ stripe.status # "NONE" => stripe'.status # "NONE"
      /\ stripe.status = "CANCELED" => stripe'.status = "CANCELED"
  BY StripeFrame DEF StripeSteps
<1> QED
  BY <1>1, <1>2, <1>3

\* Every step keeps EventInv.
LEMMA EventStep == IInv /\ RowInv /\ [Next]_vars => EventInv'
<1> SUFFICES ASSUME IInv, RowInv, [Next]_vars
             PROVE  EventInv'
  OBVIOUS
<1>a. EventInv /\ TypeOK
  BY DEF RowInv, IInv
<1>b. now \in Nat /\ now' \in Nat /\ now <= now'
  BY TimeFrame
<1>c. \A e \in Events : event[e].row.at \in Nat
  BY <1>a, Typing
<1>1. CASE UNCHANGED <<stripe, event>>
  <2>1. \A e \in Events : Emitted(e)' <=> Emitted(e)
    BY <1>1 DEF Emitted
  <2>2. Snapshots' = Snapshots
    BY <1>1 DEF Snapshots
  <2>3. \A e \in Events : Emitted(e)' => event'[e].row.at <= 2 * now'
    BY <1>a, <1>b, <1>c, <1>1, <2>1 DEF EventInv
  <2> QED
    BY <1>a, <1>1, <2>1, <2>2, <2>3 DEF EventInv
<1>2. ASSUME NEW e \in Events, Sent(e, "snapshot"), stripe.status # "CANCELED",
             stripe'.status # "NONE"
      PROVE  EventInv'
  <2>1. Snapshots' = Snapshots \cup {e} /\ e \notin Snapshots
    BY <1>2 DEF Snapshots, Sent, Emitted
  <2>2. \A d \in Events \ {e} : event'[d] = event[d] /\ (Emitted(d)' <=> Emitted(d))
    BY <1>2 DEF Sent, Emitted
  <2>3. \A d \in Snapshots : /\ event'[d] = event[d] /\ event[d].row.at <= 2 * now
                             /\ event[d].row.status # "CANCELED"
    BY <1>a, <1>2, <2>1, <2>2 DEF EventInv, Snapshots, Emitted
  <2>4. \A d \in Events : Emitted(d)' =>
           /\ event'[d].row.id = d /\ event'[d].row.status # "NONE"
           /\ event'[d].row.at <= 2 * now'
    BY <1>a, <1>b, <1>2, <2>2 DEF EventInv, Sent
  <2>5. /\ event'[e].row.status = stripe'.status
        /\ \A d \in Snapshots' : event'[d].row.at <= event'[e].row.at
    BY <1>b, <1>2, <2>1, <2>3 DEF Sent
  <2>6. \A d \in Snapshots' : event'[d].row.status = "CANCELED" =>
           /\ stripe'.status = "CANCELED"
           /\ \A f \in Snapshots' : event'[f].row.status # "CANCELED" =>
                 event'[f].row.at <= event'[d].row.at
    BY <2>1, <2>3, <2>5
  <2> QED
    BY <1>2, <2>1, <2>4, <2>5, <2>6 DEF EventInv
<1>3. ASSUME NEW e \in Events, Sent(e, "fetch"), stripe' = stripe, stripe.status # "NONE"
      PROVE  EventInv'
  <2>1. Snapshots' = Snapshots /\ e \notin Snapshots
    BY <1>3 DEF Snapshots, Sent, Emitted
  <2>2. \A d \in Events \ {e} : event'[d] = event[d] /\ (Emitted(d)' <=> Emitted(d))
    BY <1>3 DEF Sent, Emitted
  <2>3. \A d \in Snapshots : event'[d] = event[d]
    BY <2>1, <2>2 DEF Snapshots
  <2>4. \A d \in Events : Emitted(d)' =>
           /\ event'[d].row.id = d /\ event'[d].row.status # "NONE"
           /\ event'[d].row.at <= 2 * now'
    BY <1>a, <1>b, <1>3, <2>2 DEF EventInv, Sent
  <2> QED
    BY <1>a, <1>3, <2>1, <2>3, <2>4 DEF EventInv
<1> QED
  BY <1>1, <1>2, <1>3, StripeFrame DEF StripeSteps

\* The row of an event remains one: when Stripe says something else, it sends a snapshot.
LEMMA RowKept ==
    ASSUME IInv, RowInv, [Next]_vars, NEW e \in Events, Emitted(e), NEW row, RowOf(row, e)
    PROVE  RowOf(row, e)'
<1>a. EventInv /\ TypeOK
  BY DEF RowInv, IInv
<1>1. event'[e] = event[e]
  BY EventsStay
<1>2. CASE event[e].kind # "fetch"
  BY <1>1, <1>2 DEF RowOf
<1>3. CASE event[e].kind = "fetch"
  <2>1. \A d \in Snapshots : d \in Snapshots' /\ event'[d] = event[d]
    BY EventsStay DEF Snapshots, Emitted
  <2>2. row.at <= 2 * now
    BY <1>a DEF EventInv, RowOf
  <2>3. ASSUME NEW d \in Snapshots' \ Snapshots
        PROVE  row.at <= event'[d].row.at
    BY <2>2, StripeFrame DEF StripeSteps, Sent, Snapshots
  <2>4. row.status = stripe'.status \/ \E d \in Snapshots' : row.at <= event'[d].row.at
    <3>1. CASE \E d \in Snapshots : row.at <= event[d].row.at
      BY <2>1, <3>1
    <3>2. CASE row.status = stripe.status /\ stripe'.status = stripe.status
      BY <3>2
    <3>3. CASE stripe'.status # stripe.status
      <4>1. PICK d \in Events : Sent(d, "snapshot")
        BY <3>3, StripeFrame DEF StripeSteps
      <4>2. d \in Snapshots' /\ event'[d].row.at = 2 * now
        BY <4>1 DEF Snapshots, Sent
      <4> QED
        BY <2>2, <4>2
    <3> QED
      BY <1>3, <3>1, <3>2, <3>3 DEF RowOf
  <2>5. row.status # "CANCELED" => \A d \in Snapshots' :
           event'[d].row.status = "CANCELED" => row.at <= event'[d].row.at
    BY <1>3, <2>1, <2>3 DEF RowOf
  <2> QED
    BY <1>1, <1>3, <2>4, <2>5 DEF RowOf
<1> QED
  BY <1>2, <1>3

\* What is applied stays so while the row is not written.
LEMMA AppliedKept ==
    ASSUME IInv, RowInv, [Next]_vars, NEW e \in Events, Emitted(e), Applied(e), sub' = sub
    PROVE  Applied(e)'
<1>1. event'[e] = event[e]
  BY EventsStay
<1> QED
  BY <1>1 DEF Applied, Stale

\* A row that overwrites nothing newer keeps what was applied.
LEMMA AppliedOver ==
    ASSUME IInv, RowInv, NEW w \in Workers, Upsert(w), NEW e \in Events, Emitted(e),
           Applied(e), ~LateWrite
    PROVE  Applied(e)'
<1>1. /\ sub' = worker[w].row /\ event' = event /\ worker[w].at = "upsert"
  BY DEF Upsert
<1>2. worker[w].row.status # "NONE" /\ ~Stale(sub, worker[w].row)
  BY <1>1 DEF RowInv, RequestInv, Answered, RowOf, LateWrite
<1>3. event[e].row.status # "NONE" /\ sub.status # "NONE"
  BY DEF RowInv, EventInv, Applied
<1>4. /\ sub \in SubRow /\ worker[w].row \in SubRow /\ event[e].row \in SubRow
      /\ sub.at \in Nat /\ worker[w].row.at \in Nat /\ event[e].row.at \in Nat
  BY Typing DEF IInv
<1>5. /\ sub.at <= worker[w].row.at
      /\ Stale(sub, event[e].row) => Stale(worker[w].row, event[e].row)
  BY <1>2, <1>3, <1>4, StaleOrder
<1>6. event[e].row.at <= worker[w].row.at
  BY <1>4, <1>5 DEF Applied
<1>7. Stale(sub, event[e].row) => Stale(sub, event[e].row)'
  BY <1>1, <1>5 DEF Stale
<1> QED
  BY <1>1, <1>2, <1>6, <1>7 DEF Applied

\* Only an upsert writes the row, and it leaves the other requests alone.
LEMMA Untouched ==
    ASSUME [Next]_vars
    PROVE  sub' = sub \/ \E w \in Workers : Upsert(w)
  BY DEF Next, Step, StripeChanges, StripeNotifies, Tick, Deliver, Claim, Found, Reclaim,
         Handle, ReadSub, ReadPlan, ReadRows, WritePlan, Mark, Ack, CallStripe, Stamp, Crash,
         ReadManage, vars, database

\* What the row reflected it still reflects, unless it is known to be lost.
LEMMA Remembered ==
    ASSUME IInv, RowInv, [OverlapNext]_overlapVars, NEW e \in Events, Emitted(e),
           Applied(e) \/ e \in lost
    PROVE  Applied(e)' \/ e \in lost'
<1>0. [Next]_vars
  BY DEF OverlapNext, overlapVars
<1>1. CASE UNCHANGED overlapVars
  BY <1>1 DEF overlapVars, vars, Applied, Stale
<1>2. CASE OverlapNext
  <2>1. CASE LateWrite \/ e \in lost
    BY <1>2, <2>1 DEF OverlapNext, Losing
  <2>2. CASE ~LateWrite /\ Applied(e)
    BY <1>0, <2>2, Untouched, AppliedKept, AppliedOver
  <2> QED
    BY <2>1, <2>2
<1> QED
  BY <1>1, <1>2

\* A call of the user past which the row is written is overtaken, and stays so.
LEMMA Overtaken ==
    ASSUME IInv, [OverlapNext]_overlapVars, NEW w \in Workers, Answered(w)'
    PROVE  /\ w \in overtaken => w \in overtaken'
           /\ w \in overtaken' \/ sub' = sub \/ Upsert(w)
<1>0. [Next]_vars
  BY DEF OverlapNext, overlapVars
<1>1. CASE UNCHANGED overlapVars
  BY <1>1 DEF overlapVars, vars
<1>2. CASE OverlapNext
  BY <1>0, <1>2, Untouched DEF OverlapNext, Overtaking
<1> QED
  BY <1>1, <1>2

\* An event that is marked remains marked.
LEMMA LedgerGrows ==
    ASSUME IInv, [Next]_vars, NEW e \in Events, ledger[e].state = "processed"
    PROVE  ledger'[e].state = "processed"
<1> USE DEF database
<1>0. ledger \in [Events -> LedgerRow]
  BY DEF IInv, TypeOK
<1>1. CASE ledger' = ledger
  BY <1>1
<1>2. ASSUME NEW w \in Workers, Claim(w)
      PROVE  ledger'[e].state = "processed"
  BY <1>0, <1>2 DEF Claim
<1>3. ASSUME NEW w \in Workers, Reclaim(w) \/ Mark(w)
      PROVE  ledger'[e].state = "processed"
  BY <1>0, <1>3 DEF Reclaim, Mark, LedgerRow
<1> QED
  BY <1>1, <1>2, <1>3 DEF Next, Step, StripeChanges, StripeNotifies, Tick, Deliver, Found,
         Handle, ReadSub, Upsert, ReadPlan, ReadRows, WritePlan, Ack, CallStripe, Stamp, Crash,
         ReadManage, vars

\* The user has called once he has called.
LEMMA ManagesGrow ==
    ASSUME IInv, [Next]_vars
    PROVE  manages > 0 => manages' > 0
<1>1. manages \in Nat
  BY DEF IInv, TypeOK
<1>2. manages' = manages \/ manages' = manages + 1
  BY DEF Next, Step, StripeChanges, StripeNotifies, Tick, Deliver, Claim, Found, Reclaim,
         Handle, ReadSub, Upsert, ReadPlan, ReadRows, WritePlan, Mark, Ack, CallStripe, Stamp, Crash,
         ReadManage, vars, bounds
<1> QED
  BY <1>1, <1>2

\* Every step keeps SubInv.
LEMMA SubStep == IInv /\ RowInv /\ [Next]_vars => SubInv'
<1> SUFFICES ASSUME IInv, RowInv, [Next]_vars
             PROVE  SubInv'
  OBVIOUS
<1>a. SubInv /\ EventInv /\ RequestInv /\ TypeOK
  BY DEF RowInv, IInv
<1>b. sub.id \in Events \cup {NoId}
  BY <1>a, Typing
<1>1. CASE sub' = sub
  <2>1. sub.id # NoId => Emitted(sub.id)' /\ RowOf(sub, sub.id)'
    <3> SUFFICES ASSUME sub.id # NoId
                 PROVE  Emitted(sub.id)' /\ RowOf(sub, sub.id)'
      OBVIOUS
    <3>1. PICK e \in Events : e = sub.id
      BY <1>b
    <3>5. PICK row : row = sub
      OBVIOUS
    <3>2. Emitted(e) /\ RowOf(row, e)
      BY <1>a, <3>1, <3>5 DEF SubInv
    <3>3. Emitted(e)' /\ RowOf(row, e)'
      BY <3>2, EventsStay, RowKept
    <3> QED
      BY <1>1, <3>1, <3>5, <3>3
  <2> QED
    BY <1>a, <1>1, <2>1, EventsStay, ManagesGrow DEF SubInv
<1>2. ASSUME NEW w \in Workers, Upsert(w)
      PROVE  SubInv'
  <2>1. /\ sub' = worker[w].row /\ worker[w].at = "upsert"
        /\ event' = event /\ stripe' = stripe /\ manages' = manages
    BY <1>2 DEF Upsert, bounds
  <2>2. worker[w].event \in Events \cup {NoId}
    BY <1>a, Typing
  <2>3. CASE worker[w].event = NoId
    BY <1>a, <2>1, <2>3 DEF RequestInv, Answered, SubInv
  <2>4. CASE worker[w].event # NoId
    <3>0. PICK row : row = worker[w].row
      OBVIOUS
    <3>1. PICK e \in Events : row = worker[w].row /\ e = worker[w].event
      BY <2>2, <2>4, <3>0
    <3>2. Emitted(e) /\ RowOf(row, e) /\ row.id = e /\ row.status # "NONE"
      BY <1>a, <2>1, <2>4, <3>1 DEF RequestInv, RowOf
    <3>3. Emitted(e)' /\ RowOf(row, e)'
      BY <3>2, EventsStay, RowKept
    <3>4. stripe'.status # "NONE"
      BY <1>a, <2>1, <3>2 DEF EventInv
    <3> QED
      BY <2>1, <2>4, <3>1, <3>2, <3>3, <3>4 DEF SubInv
  <2> QED
    BY <2>3, <2>4
<1> QED
  BY <1>1, <1>2, Untouched

\* Every step keeps AppliedInv: an event is marked after its row is written.
LEMMA AppliedStep == IInv /\ RowInv /\ [OverlapNext]_overlapVars => AppliedInv'
<1> SUFFICES ASSUME IInv, RowInv, [OverlapNext]_overlapVars
             PROVE  AppliedInv'
  OBVIOUS
<1> USE DEF database, bounds
<1>a. AppliedInv /\ RequestInv /\ TypeOK /\ StageInv /\ ledger \in [Events -> LedgerRow]
      /\ acked \subseteq Events
  BY DEF RowInv, IInv, TypeOK
<1>n. [Next]_vars
  BY DEF OverlapNext, overlapVars
<1>b. \A e \in Events : Emitted(e) /\ (Applied(e) \/ e \in lost) =>
                           Emitted(e)' /\ (Applied(e)' \/ e \in lost')
  BY <1>n, Remembered, EventsStay
<1>c. \A w \in Workers : worker[w].event # NoId => worker[w].event \in Events
  BY <1>a, Typing
<1>1. ASSUME \A e \in Events : ledger'[e].state = "processed" => ledger[e].state = "processed",
             \A e \in Events : ledger[e].state = "processed" => ledger'[e].state = "processed",
             acked' = acked
      PROVE  AppliedInv'
  BY <1>a, <1>b, <1>1 DEF AppliedInv
<1>2. CASE ledger' = ledger /\ acked' = acked
  BY <1>1, <1>2
<1>3. ASSUME NEW w \in Workers, NEW e \in Events, ledger' = ledger,
             acked' = acked \cup {e}, ledger[e].state = "processed"
      PROVE  AppliedInv'
  BY <1>a, <1>b, <1>3 DEF AppliedInv
<1>4. ASSUME NEW w \in Workers, Claim(w)
      PROVE  AppliedInv'
  <2>1. worker[w].event \in Events
    BY <1>a, <1>4 DEF Claim, StageInv
  <2>2. CASE /\ ledger[worker[w].event].state = "absent"
             /\ ledger' = [ledger EXCEPT ![worker[w].event] =
                              [state |-> "started", since |-> worker[w].since]]
    BY <1>a, <1>1, <1>4, <2>1, <2>2 DEF Claim
  <2> QED
    BY <1>2, <1>4, <2>2 DEF Claim
<1>5. ASSUME NEW w \in Workers, Found(w)
      PROVE  AppliedInv'
  <2>1. worker[w].event \in Events
    BY <1>a, <1>5 DEF Found, StageInv
  <2> QED
    BY <1>2, <1>3, <1>5, <2>1 DEF Found, Duplicate
<1>6. ASSUME NEW w \in Workers, Reclaim(w)
      PROVE  AppliedInv'
  <2>1. worker[w].event \in Events
    BY <1>a, <1>6 DEF Reclaim, StageInv
  <2>2. \A e \in Events : ledger'[e].state = ledger[e].state
    BY <1>a, <1>6, <2>1 DEF Reclaim, LedgerRow
  <2> QED
    BY <1>1, <1>6, <2>2 DEF Reclaim
<1>7. ASSUME NEW w \in Workers, Mark(w)
      PROVE  AppliedInv'
  <2>1. CASE worker[w].event = NoId
    BY <1>2, <1>7, <2>1 DEF Mark
  <2>2. CASE worker[w].event # NoId
    <3> DEFINE e == worker[w].event
    <3>1. e \in Events /\ Emitted(e) /\ (Applied(e) \/ e \in lost)
      BY <1>a, <1>c, <1>7, <2>2 DEF Mark, RequestInv
    <3>2. /\ ledger'[e].state = "processed" /\ acked' = acked
          /\ \A d \in Events \ {e} : ledger'[d] = ledger[d]
      BY <1>a, <1>7, <2>2, <3>1 DEF Mark, LedgerRow
    <3> HIDE DEF e
    <3>3. \A d \in Events : ledger'[d].state = "processed" =>
             Emitted(d) /\ (Applied(d) \/ d \in lost)
      BY <1>a, <3>1, <3>2 DEF AppliedInv
    <3> QED
      BY <1>a, <1>b, <3>2, <3>3 DEF AppliedInv
  <2> QED
    BY <2>1, <2>2
<1>8. ASSUME NEW w \in Workers, Ack(w)
      PROVE  AppliedInv'
  <2>1. worker[w].event \in Events /\ ledger[worker[w].event].state = "processed"
    BY <1>a, <1>8 DEF Ack, StageInv, RequestInv
  <2> QED
    BY <1>3, <1>8, <2>1 DEF Ack
<1>9. ASSUME NEW w \in Workers,
             \/ Handle(w) \/ ReadSub(w) \/ Upsert(w) \/ ReadPlan(w) \/ ReadRows(w) \/ WritePlan(w)
             \/ CallStripe(w) \/ Stamp(w) \/ Crash(w) \/ ReadManage(w)
      PROVE  AppliedInv'
  BY <1>2, <1>9 DEF Handle, ReadSub, Upsert, ReadPlan, ReadRows, WritePlan, CallStripe, Stamp, Crash,
                    ReadManage
<1>10. ASSUME NEW e \in Events,
              (\E w \in Workers : Deliver(w, e)) \/ StripeChanges(e) \/ StripeNotifies(e)
       PROVE  AppliedInv'
  BY <1>2, <1>10 DEF Deliver, StripeChanges, StripeNotifies
<1>11. CASE Tick \/ UNCHANGED vars
  BY <1>2, <1>11 DEF Tick, vars
<1> QED
  BY <1>n, <1>4, <1>5, <1>6, <1>7, <1>8, <1>9, <1>10, <1>11 DEF Next, Step

\* What RequestInv says of one request.
Sound(w) ==
    LET k == worker[w] IN
    /\ k.event # NoId => Emitted(k.event)
    /\ k.event = NoId /\ k.at # "idle" => manages > 0 /\ stripe.status # "NONE"
    /\ Answered(w) =>
          k.row.id = NoId /\ k.row.status # "NONE" /\ (SubCanceled => w \in overtaken)
    /\ k.at \in {"read", "upsert"} /\ k.event # NoId => RowOf(k.row, k.event)
    /\ (Refreshing(w) \/ k.at = "mark") /\ k.event # NoId =>
          Applied(k.event) \/ k.event \in lost
    /\ k.at = "ack" => ledger[k.event].state = "processed"

\* RequestInv, request by request.
LEMMA RequestInvSound == RequestInv <=> \A w \in Workers : Sound(w)
  BY DEF RequestInv, Sound

\* A cancellation Stripe has sent and the row has was made at Stripe.
LEMMA CanceledAtStripe ==
    ASSUME IInv, RowInv, SubCanceled
    PROVE  /\ stripe.status = "CANCELED" /\ sub.id \in Snapshots
           /\ sub = event[sub.id].row
<1>1. sub.id \in Events
  BY Typing DEF IInv, SubCanceled
<1> QED
  BY <1>1 DEF SubCanceled, RowInv, SubInv, RowOf, EventInv, Snapshots

\* Events that come later do not change what the row was written from.
LEMMA CanceledStays ==
    ASSUME IInv, RowInv, [Next]_vars, sub' = sub
    PROVE  SubCanceled' <=> SubCanceled
<1>1. CASE sub.id # NoId
  <2>1. sub.id \in Events /\ Emitted(sub.id)
    BY <1>1, Typing DEF IInv, RowInv, SubInv
  <2>2. event'[sub.id] = event[sub.id]
    BY <2>1, EventsStay
  <2> QED
    BY <2>2 DEF SubCanceled
<1>2. CASE sub.id = NoId
  BY <1>2 DEF SubCanceled
<1> QED
  BY <1>1, <1>2

\* An answer of Stripe that waits while the row becomes cancelled is overtaken.
LEMMA AnswerKept ==
    ASSUME IInv, RowInv, [OverlapNext]_overlapVars, NEW w \in Workers,
           Answered(w), Answered(w)'
    PROVE  SubCanceled' => w \in overtaken'
<1>n. [Next]_vars
  BY DEF OverlapNext, overlapVars
<1>1. SubCanceled => w \in overtaken
  BY DEF RowInv, RequestInv
<1>2. ~Upsert(w)
  <2>1. worker \in [Workers -> WorkerRecord]
    BY Typing DEF IInv
  <2> QED
    BY <2>1 DEF Upsert, AfterUpsert, Proceed, WorkerRecord, Answered
<1> QED
  BY <1>n, <1>1, <1>2, Overtaken, CanceledStays

\* What is said of a request stays true while it waits.
LEMMA SoundKept ==
    ASSUME IInv, RowInv, [OverlapNext]_overlapVars, NEW w \in Workers, worker'[w] = worker[w]
    PROVE  Sound(w)'
<1>n. [Next]_vars
  BY DEF OverlapNext, overlapVars
<1>a. Sound(w) /\ TypeOK /\ StageInv
  BY RequestInvSound DEF RowInv, IInv
<1>b. /\ worker[w].event \in Events \cup {NoId}
      /\ worker[w].at = "ack" => worker[w].event \in Events /\ NoId \notin Events
  BY <1>a, Typing DEF StageInv
<1>1. stripe.status # "NONE" => stripe'.status # "NONE"
  BY <1>n, EventsStay
<1>4. CASE worker[w].event = NoId
  <2>1. Answered(w)' => Answered(w)
    BY DEF Answered
  <2>2. Answered(w)' => (SubCanceled' => w \in overtaken')
    BY <2>1, AnswerKept
  <2>3. worker[w].at # "ack"
    BY <1>b, <1>4
  <2> QED
    BY <1>n, <1>a, <1>1, <1>4, <2>1, <2>2, <2>3, ManagesGrow DEF Sound
<1>5. CASE worker[w].event # NoId
  <2>1. PICK e \in Events : e = worker[w].event
    BY <1>b, <1>5
  <2>2. PICK row : row = worker[w].row
    OBVIOUS
  <2>3. Emitted(e)
    BY <1>a, <1>5, <2>1 DEF Sound
  <2>4. Emitted(e)'
    BY <1>n, <2>3, EventsStay
  <2>5. RowOf(row, e) => RowOf(row, e)'
    BY <1>n, <2>3, RowKept
  <2>6. Applied(e) \/ e \in lost => Applied(e)' \/ e \in lost'
    BY <2>3, Remembered
  <2>7. /\ worker'[w].event = e /\ worker'[w].row = row /\ worker'[w].at = worker[w].at
        /\ worker[w].event = e /\ worker[w].row = row
    BY <2>1, <2>2
  <2>8. worker[w].at \in {"read", "upsert"} => RowOf(row, e)'
    BY <1>a, <1>5, <2>5, <2>7 DEF Sound
  <2>9. Refreshing(w) \/ worker[w].at = "mark" => Applied(e)' \/ e \in lost'
    BY <1>a, <1>5, <2>6, <2>7 DEF Sound
  <2>10. worker[w].at = "ack" => ledger'[e].state = "processed"
    BY <1>n, <1>a, <2>7, LedgerGrows DEF Sound, IInv
  <2> QED
    BY <1>5, <2>4, <2>7, <2>8, <2>9, <2>10 DEF Sound, Answered, Refreshing
<1> QED
  BY <1>4, <1>5

\* What is said of a request in its next state, from the parts of it.
LEMMA SoundEvent ==
    ASSUME IInv, RowInv, [OverlapNext]_overlapVars, NEW w \in Workers, NEW e \in Events,
           e # NoId, worker'[w].event = e, Emitted(e),
           worker'[w].at \in {"idle", "claim", "found", "reclaim", "handle"}
    PROVE  Sound(w)'
<1>n. [Next]_vars
  BY DEF OverlapNext, overlapVars
<1>1. Emitted(e)'
  BY <1>n, EventsStay
<1> QED
  BY <1>1 DEF Sound, Answered, Refreshing

\* A request that has returned has nothing to keep.
LEMMA SoundReturned ==
    ASSUME IInv, NEW w \in Workers, Return(w)
    PROVE  Sound(w)'
<1>1. worker'[w] = Idle
  BY DEF Return, IInv, TypeOK
<1> QED
  BY <1>1 DEF Idle, Sound, Answered, Refreshing

\* The steps of the claim.
LEMMA SoundClaims ==
    ASSUME IInv, RowInv, [OverlapNext]_overlapVars, NEW w \in Workers,
           Claim(w) \/ Found(w) \/ Reclaim(w)
    PROVE  Sound(w)'
<1>n. [Next]_vars
  BY DEF OverlapNext, overlapVars
<1>a. Sound(w) /\ worker \in [Workers -> WorkerRecord] /\ worker[w].event \in Events
      /\ NoId \notin Events
  BY RequestInvSound, Typing DEF RowInv, IInv, StageInv, Claim, Found, Reclaim
<1>1. CASE Return(w)
  BY <1>1, SoundReturned
<1>2. ASSUME NEW at \in {"handle", "found", "reclaim"}, Proceed(w, at)
      PROVE  Sound(w)'
  <2>1. worker'[w].at = at /\ worker'[w].event = worker[w].event
    BY <1>a, <1>2 DEF Proceed, WorkerRecord
  <2>2. PICK e \in Events : e = worker[w].event
    BY <1>a
  <2>3. Emitted(e) /\ e # NoId
    BY <1>a, <2>2 DEF Sound
  <2> QED
    BY <2>1, <2>2, <2>3, SoundEvent
<1> QED
  BY <1>1, <1>2 DEF Claim, Found, Reclaim

\* A request takes the row its event carries, or asks Stripe for it.
LEMMA SoundHandle ==
    ASSUME IInv, RowInv, [OverlapNext]_overlapVars, NEW w \in Workers, Handle(w)
    PROVE  Sound(w)'
<1>n. [Next]_vars
  BY DEF OverlapNext, overlapVars
<1>a. /\ Sound(w) /\ EventInv /\ worker \in [Workers -> WorkerRecord]
      /\ worker[w].event \in Events /\ NoId \notin Events /\ event \in [Events -> Event]
  BY RequestInvSound, Typing DEF RowInv, IInv, StageInv, Handle, TypeOK
<1>1. PICK e \in Events : e = worker[w].event
  BY <1>a
<1>2. Emitted(e) /\ e # NoId
  BY <1>a, <1>1 DEF Sound
<1>3. PICK row : row = Incoming(e)
  OBVIOUS
<1>4. worker'[w].at = "read" /\ worker'[w].row = row /\ worker'[w].event = e
  <2>1. worker[w] \in WorkerRecord
    BY <1>a
  <2>2. worker'[w] = [worker[w] EXCEPT !.at = "read", !.row = row]
    BY <1>a, <1>1, <1>3 DEF Handle
  <2> QED
    BY <1>1, <2>1, <2>2 DEF WorkerRecord
<1>6. RowOf(row, e)
  <2>1. CASE event[e].kind = "fetch"
    <3>1. event[e].row \in SubRow
      BY <1>a DEF Event
    <3>2. row = [event[e].row EXCEPT !.status = stripe.status, !.ending = stripe.ending]
      BY <1>3, <2>1 DEF Incoming
    <3>3. row.id = event[e].row.id /\ row.at = event[e].row.at /\ row.status = stripe.status
      BY <3>1, <3>2 DEF SubRow
    <3> QED
      BY <1>a, <1>2, <2>1, <3>3 DEF RowOf, EventInv, Snapshots
  <2>2. CASE event[e].kind # "fetch"
    <3>1. row = event[e].row
      BY <1>3, <2>2 DEF Incoming
    <3> QED
      BY <1>a, <1>2, <2>2, <3>1 DEF RowOf, EventInv
  <2> QED
    BY <2>1, <2>2
<1>7. Emitted(e)' /\ RowOf(row, e)'
  BY <1>n, <1>2, <1>6, EventsStay, RowKept
<1> QED
  BY <1>2, <1>4, <1>7 DEF Sound, Answered, Refreshing

\* The row read is compared with the one to be written; if it is newer the event is
\* applied already.
LEMMA SoundRead ==
    ASSUME IInv, RowInv, [OverlapNext]_overlapVars, NEW w \in Workers, ReadSub(w)
    PROVE  Sound(w)'
<1>n. [Next]_vars
  BY DEF OverlapNext, overlapVars
<1>a. /\ Sound(w) /\ TypeOK /\ worker \in [Workers -> WorkerRecord]
      /\ worker[w].event \in Events \cup {NoId} /\ worker[w].at = "read"
  BY RequestInvSound, Typing DEF RowInv, IInv, ReadSub
<1>b. UNCHANGED <<sub, event, stripe, manages>>
  BY DEF ReadSub, database, bounds
<1>1. PICK row : row = worker[w].row
  OBVIOUS
<1>2. PICK at : Proceed(w, at) /\ at = IF Stale(sub, row) THEN "mark" ELSE "upsert"
  BY <1>1 DEF ReadSub
<1>3. worker'[w].at = at /\ worker'[w].event = worker[w].event /\ worker'[w].row = row
  BY <1>a, <1>1, <1>2 DEF Proceed, WorkerRecord
<1>5. CASE worker[w].event = NoId
  <2>1. Answered(w)
    BY <1>a, <1>5 DEF Answered
  <2> QED
    BY <1>a, <1>b, <1>1, <1>2, <1>3, <1>5, <2>1, AnswerKept DEF Sound
<1>6. CASE worker[w].event # NoId
  <2>1. PICK e \in Events : e = worker[w].event
    BY <1>a, <1>6
  <2>2. Emitted(e) /\ RowOf(row, e)
    BY <1>a, <1>1, <1>6, <2>1 DEF Sound
  <2>3. Emitted(e)' /\ RowOf(row, e)'
    BY <1>n, <2>2, EventsStay, RowKept
  <2>4. at = "mark" => Applied(e)'
    <3> SUFFICES ASSUME at = "mark"
                 PROVE  Applied(e)'
      OBVIOUS
    <3>1. Stale(sub, row)
      BY <1>2
    <3>2. sub.at \in Nat /\ row.at \in Nat
      BY <1>a, <1>1, Typing
    <3>3. Applied(e)
      BY <2>2, <3>1, <3>2 DEF Stale, Applied, RowOf
    <3> QED
      BY <1>n, <1>b, <2>2, <3>3, AppliedKept
  <2> QED
    BY <1>2, <1>3, <1>6, <2>1, <2>3, <2>4 DEF Sound, Answered, Refreshing
<1> QED
  BY <1>5, <1>6

\* The row written reflects the event.
LEMMA SoundUpsert ==
    ASSUME IInv, RowInv, [OverlapNext]_overlapVars, NEW w \in Workers, Upsert(w)
    PROVE  Sound(w)'
<1>n. [Next]_vars
  BY DEF OverlapNext, overlapVars
<1>a. /\ Sound(w) /\ TypeOK /\ worker \in [Workers -> WorkerRecord]
      /\ worker[w].event \in Events \cup {NoId} /\ worker[w].at = "upsert"
      /\ sub' = worker[w].row /\ event' = event
      /\ UNCHANGED <<stripe, manages>>
  BY RequestInvSound, Typing DEF RowInv, IInv, Upsert, bounds
<1>1. worker'[w].at = "readPlan" /\ worker'[w].event = worker[w].event
  BY <1>a DEF Upsert, AfterUpsert, Proceed, WorkerRecord
<1>2. CASE worker[w].event = NoId
  BY <1>a, <1>1, <1>2 DEF Sound, Answered, Refreshing
<1>3. CASE worker[w].event # NoId
  <2>1. PICK e \in Events : e = worker[w].event
    BY <1>a, <1>3
  <2>2. PICK row \in SubRow : row = worker[w].row
    BY <1>a, Typing
  <2>3. Emitted(e) /\ RowOf(row, e)
    BY <1>a, <1>3, <2>1, <2>2 DEF Sound
  <2>4. Emitted(e)'
    BY <1>n, <2>3, EventsStay
  <2>5. row.status # "NONE" /\ row.at = event[e].row.at /\ row.at \in Nat
    BY <1>a, <2>2, <2>3, Typing DEF RowOf
  <2>6. event[e].kind = "snapshot" => row = event[e].row /\ Stale(row, row)
    BY <2>2, <2>3, <2>5, StaleItself DEF RowOf
  <2>7. Applied(e)'
    BY <1>a, <2>2, <2>5, <2>6 DEF Applied, Stale
  <2> QED
    BY <1>1, <1>3, <2>1, <2>4, <2>7 DEF Sound, Answered, Refreshing
<1> QED
  BY <1>2, <1>3

\* The plan cache is refreshed after the row is written.
LEMMA SoundPlan ==
    ASSUME IInv, RowInv, [OverlapNext]_overlapVars, NEW w \in Workers,
           ReadPlan(w) \/ ReadRows(w) \/ WritePlan(w)
    PROVE  Sound(w)'
<1>n. [Next]_vars
  BY DEF OverlapNext, overlapVars
<1>a. /\ Sound(w) /\ TypeOK /\ worker \in [Workers -> WorkerRecord]
      /\ worker[w].event \in Events \cup {NoId}
      /\ Refreshing(w)
      /\ UNCHANGED <<sub, event, stripe, manages>>
  BY RequestInvSound, Typing
  DEF RowInv, IInv, ReadPlan, ReadRows, WritePlan, Refreshing, database, bounds
<1>1. /\ worker'[w].at \in {"readRows", "writePlan", "mark"}
      /\ worker'[w].event = worker[w].event
  <2>1. worker[w] \in WorkerRecord
    BY <1>a
  <2>2. \A at, p : worker' = [worker EXCEPT ![w].at = at, ![w].plan = p] =>
                     worker'[w].at = at /\ worker'[w].event = worker[w].event
    BY <1>a, <2>1 DEF WorkerRecord
  <2>3. CASE WritePlan(w)
    BY <1>a, <2>1, <2>3 DEF WritePlan, Proceed, WorkerRecord
  <2> QED
    BY <2>2, <2>3 DEF ReadPlan, ReadRows
<1>2. CASE worker[w].event = NoId
  BY <1>a, <1>1, <1>2 DEF Sound, Answered, Refreshing
<1>3. CASE worker[w].event # NoId
  <2>1. PICK e \in Events : e = worker[w].event
    BY <1>a, <1>3
  <2>2. Emitted(e) /\ (Applied(e) \/ e \in lost)
    BY <1>a, <1>3, <2>1 DEF Sound
  <2>3. Emitted(e)' /\ (Applied(e)' \/ e \in lost')
    BY <1>n, <2>2, EventsStay, Remembered
  <2> QED
    BY <1>1, <1>3, <2>1, <2>3 DEF Sound, Answered, Refreshing
<1> QED
  BY <1>2, <1>3

\* An event is marked after its row is written.
LEMMA SoundMark ==
    ASSUME IInv, RowInv, [OverlapNext]_overlapVars, NEW w \in Workers, Mark(w)
    PROVE  Sound(w)'
<1>n. [Next]_vars
  BY DEF OverlapNext, overlapVars
<1>a. /\ Sound(w) /\ TypeOK /\ worker \in [Workers -> WorkerRecord]
      /\ ledger \in [Events -> LedgerRow]
      /\ worker[w].event \in Events \cup {NoId} /\ worker[w].at = "mark"
  BY RequestInvSound, Typing DEF RowInv, IInv, Mark, TypeOK
<1>1. CASE Return(w)
  BY <1>1, SoundReturned
<1>2. CASE worker[w].event # NoId
  <2>1. PICK e \in Events : e = worker[w].event
    BY <1>a, <1>2
  <2>2. worker'[w].at = "ack" /\ worker'[w].event = e
    BY <1>a, <1>2, <2>1 DEF Mark, Proceed, WorkerRecord
  <2>3. ledger'[e].state = "processed"
    BY <1>a, <1>2, <2>1 DEF Mark, LedgerRow
  <2>4. Emitted(e)'
    BY <1>n, <1>a, <1>2, <2>1, EventsStay DEF Sound
  <2> QED
    BY <1>2, <2>1, <2>2, <2>3, <2>4 DEF Sound, Answered, Refreshing
<1> QED
  BY <1>1, <1>2 DEF Mark

\* A call of the user: Stripe refuses it once the subscription is cancelled.
LEMMA SoundManage ==
    ASSUME IInv, RowInv, [OverlapNext]_overlapVars, NEW w \in Workers,
           ReadManage(w) \/ CallStripe(w) \/ Stamp(w)
    PROVE  Sound(w)'
<1>n. [Next]_vars
  BY DEF OverlapNext, overlapVars
<1>a. /\ Sound(w) /\ TypeOK /\ worker \in [Workers -> WorkerRecord]
      /\ worker[w].event = NoId /\ sub' = sub
      /\ manages \in Nat
  BY RequestInvSound, Typing
  DEF RowInv, IInv, ReadManage, CallStripe, Stamp, StageInv, database, TypeOK
<1>b. SubCanceled' <=> SubCanceled
  BY <1>n, <1>a, CanceledStays
<1>c. stripe.status # "NONE" => stripe'.status # "NONE"
  BY <1>n, EventsStay
<1>1. CASE ReadManage(w)
  <2>1. worker'[w].at \in {"cancel", "resume"} /\ worker'[w].event = NoId /\ manages' > 0
    BY <1>a, <1>1 DEF ReadManage, WorkerRecord
  <2>2. sub.status # "NONE"
    BY <1>1 DEF ReadManage, Grants
  <2>3. stripe'.status # "NONE"
    BY <1>c, <2>2 DEF RowInv, SubInv
  <2> QED
    BY <2>1, <2>3 DEF Sound, Answered, Refreshing
<1>2. CASE CallStripe(w)
  <2>1. CASE Return(w)
    BY <2>1, SoundReturned
  <2>2. CASE ~Return(w)
    <3> DEFINE row == [NoSub EXCEPT !.status = stripe'.status, !.ending = stripe'.ending]
    <3>1. /\ stripe.status # "CANCELED" /\ worker[w].at # "idle" /\ manages' = manages
          /\ worker' = [worker EXCEPT ![w] = [@ EXCEPT !.at = "stamp", !.row = row]]
      BY <1>2, <2>2 DEF CallStripe, bounds
    <3>2. row.id = NoId /\ row.status = stripe'.status
      BY DEF NoSub
    <3> HIDE DEF row
    <3>3. worker'[w].at = "stamp" /\ worker'[w].event = NoId /\ worker'[w].row = row
      BY <1>a, <3>1 DEF WorkerRecord
    <3>4. stripe'.status # "NONE" /\ manages' > 0
      BY <1>a, <1>c, <3>1 DEF Sound
    <3>5. ~SubCanceled
      BY <3>1, CanceledAtStripe
    <3> QED
      BY <1>b, <3>2, <3>3, <3>4, <3>5 DEF Sound, Answered, Refreshing
  <2> QED
    BY <2>1, <2>2
<1>3. CASE Stamp(w)
  <2>1. worker[w].at = "stamp" /\ manages' = manages
    BY <1>3 DEF Stamp, bounds
  <2>2. PICK row \in SubRow : row = worker[w].row
    BY <1>a, Typing
  <2>3. Stamped(row).id = row.id /\ Stamped(row).status = row.status
    BY DEF Stamped, SubRow
  <2>4. worker'[w].at = "read" /\ worker'[w].event = NoId /\ worker'[w].row = Stamped(row)
    <3>1. worker[w] \in WorkerRecord
      BY <1>a
    <3>2. worker'[w] = [worker[w] EXCEPT !.at = "read", !.row = Stamped(row)]
      BY <1>a, <1>3, <2>2 DEF Stamp
    <3> QED
      BY <1>a, <3>1, <3>2 DEF WorkerRecord
  <2>5. Answered(w) /\ Answered(w)'
    BY <1>a, <2>1, <2>4 DEF Answered
  <2>6. row.id = NoId /\ row.status # "NONE" /\ manages > 0 /\ stripe.status # "NONE"
    BY <1>a, <2>1, <2>2, <2>5 DEF Sound
  <2> QED
    BY <1>c, <2>1, <2>3, <2>4, <2>5, <2>6, AnswerKept DEF Sound
<1> QED
  BY <1>1, <1>2, <1>3

\* A step is of one request.
LEMMA OneMoves ==
    ASSUME IInv, [Next]_vars
    PROVE  \/ UNCHANGED <<worker, sub, plan>>
           \/ \E w \in Workers : /\ \/ Step(w) \/ Crash(w) \/ ReadManage(w)
                                    \/ \E e \in Events : Deliver(w, e)
                                 /\ \A v \in Workers \ {w} : worker'[v] = worker[v]
<1>a. worker \in [Workers -> WorkerRecord]
  BY DEF IInv, TypeOK
<1>1. ASSUME NEW w \in Workers, \/ Step(w) \/ Crash(w) \/ ReadManage(w)
                                \/ \E e \in Events : Deliver(w, e)
      PROVE  \A v \in Workers \ {w} : worker'[v] = worker[v]
  BY <1>a, <1>1 DEF Step, Claim, Found, Reclaim, Handle, ReadSub, Upsert, ReadPlan, ReadRows, WritePlan,
     Mark, Ack, CallStripe, Stamp, Crash, ReadManage, Deliver, Proceed, Return
<1>2. ASSUME NEW e \in Events, StripeChanges(e) \/ StripeNotifies(e)
      PROVE  UNCHANGED <<worker, sub, plan>>
  BY <1>2 DEF StripeChanges, StripeNotifies, database
<1> QED
  BY <1>1, <1>2 DEF Next, Tick, vars, database

\* Every step keeps RequestInv.
LEMMA RequestStep == IInv /\ RowInv /\ [OverlapNext]_overlapVars => RequestInv'
<1> SUFFICES ASSUME IInv, RowInv, [OverlapNext]_overlapVars, NEW v \in Workers
             PROVE  Sound(v)'
  BY RequestInvSound DEF RequestInv, Sound
<1>n. [Next]_vars
  BY DEF OverlapNext, overlapVars
<1>1. CASE worker'[v] = worker[v]
  BY <1>1, SoundKept
<1>2. CASE Step(v) \/ Crash(v) \/ ReadManage(v)
  <2>1. CASE Crash(v) \/ Ack(v)
    BY <2>1, SoundReturned DEF Crash, Ack
  <2> QED
    BY <1>2, <2>1, SoundClaims, SoundHandle, SoundRead, SoundUpsert, SoundPlan, SoundMark,
       SoundManage DEF Step
<1>3. ASSUME NEW e \in Events, Deliver(v, e)
      PROVE  Sound(v)'
  <2>1. worker \in [Workers -> WorkerRecord] /\ e # NoId
    BY Typing DEF IInv
  <2>2. worker'[v].at = "claim" /\ worker'[v].event = e /\ Emitted(e)
    BY <1>3, <2>1 DEF Deliver, Idle
  <2> QED
    BY <2>1, <2>2, SoundEvent
<1> QED
  BY <1>n, <1>1, <1>2, <1>3, OneMoves

\* The plan is known to be behind until a request refreshes it alone.
LEMMA StaysBehind ==
    ASSUME [OverlapNext]_overlapVars, behind, \A w \in Workers : ~ReadRows(w)
    PROVE  behind'
  BY DEF OverlapNext, overlapVars, FallingBehind, RefreshesAlone

\* A request that has read the rows goes on to write the plan, or to mark its event.
LEMMA RowsRead ==
    ASSUME IInv, NEW w \in Workers, ReadRows(w)
    PROVE  /\ worker[w].at = "readRows" /\ UNCHANGED <<sub, plan>>
           /\ \/ worker'[w].at = "mark" /\ worker[w].plan = PlanOf(sub)
              \/ Deciding(w)' /\ worker'[w].plan = PlanOf(sub)
           /\ worker'[w].at # "readRows"
<1>1. worker[w] \in WorkerRecord /\ worker \in [Workers -> WorkerRecord]
  BY DEF IInv, TypeOK
<1>2. PICK at \in {"mark", "writePlan"}, p \in {PlanOf(sub)} :
         /\ worker' = [worker EXCEPT ![w].at = at, ![w].plan = p]
         /\ at = IF PlanOf(sub) = worker[w].plan THEN "mark" ELSE "writePlan"
  BY DEF ReadRows
<1>3. worker'[w].at = at /\ worker'[w].plan = p
  BY <1>1, <1>2 DEF WorkerRecord
<1> QED
  BY <1>2, <1>3 DEF ReadRows, Deciding, database

\* A step of a request that is not refreshing the plan keeps CacheInv, unless it writes
\* the row.
LEMMA CacheAside ==
    ASSUME IInv, RowInv, [OverlapNext]_overlapVars, UNCHANGED <<sub, plan>>,
           NEW W \in SUBSET Workers,
           \A w \in W : ~Refreshing(w) /\ ~Refreshing(w)',
           \A v \in Workers \ W : worker'[v] = worker[v]
    PROVE  CacheInv'
<1>a. CacheInv
  BY DEF RowInv
<1>1. \A v \in Workers : ~ReadRows(v)
  BY RowsRead DEF Refreshing
<1>2. behind => behind'
  BY <1>1, StaysBehind
<1>3. sub.status # "CANCELED" => PlanOf(sub)' = PlanOf(sub)
  BY DEF PlanOf, Grants
<1>4. \A v \in Workers : /\ Deciding(v)' => Deciding(v) /\ worker'[v] = worker[v]
                         /\ Refreshing(v) => v \notin W /\ Refreshing(v)'
  BY DEF Deciding, Refreshing
<1>5. sub.status # "CANCELED" => \A v \in Workers : Corrects(v) => Corrects(v)'
  BY <1>3, <1>4 DEF Corrects
<1> QED
  BY <1>a, <1>2, <1>3, <1>4, <1>5 DEF CacheInv

\* A step of a request that refreshes the plan keeps CacheInv: what is decided is what
\* the row grants, unless the row is written, or a request dies, in between.
LEMMA CacheRefresh ==
    ASSUME IInv, RowInv, OverlapNext, NEW w \in Workers,
           \A v \in Workers \ {w} : worker'[v] = worker[v],
           \/ Upsert(w) \/ ReadPlan(w) \/ ReadRows(w) \/ WritePlan(w)
           \/ (Crash(w) /\ Refreshing(w))
    PROVE  CacheInv'
<1>a. CacheInv /\ worker \in [Workers -> WorkerRecord] /\ worker[w] \in WorkerRecord
  BY DEF RowInv, IInv, TypeOK
<1>b. sub' = sub /\ sub.status # "CANCELED" => PlanOf(sub)' = PlanOf(sub)
  BY DEF PlanOf, Grants
<1>c. sub' = sub /\ sub.status # "CANCELED" =>
         \A v \in Workers \ {w} : Corrects(v) => Corrects(v)'
  BY <1>b DEF Corrects, Refreshing
<1>1. CASE Upsert(w)
  <2>1. worker'[w].at = "readPlan"
    BY <1>a, <1>1 DEF Upsert, AfterUpsert, Proceed, WorkerRecord
  <2>2. ~behind' => \A v \in Workers : ~Deciding(v)
    BY <1>1 DEF OverlapNext, FallingBehind
  <2>3. ~behind' => \A v \in Workers : ~Deciding(v)'
    BY <2>1, <2>2 DEF Deciding
  <2>4. Corrects(w)'
    BY <2>1 DEF Corrects, Refreshing
  <2> QED
    BY <2>3, <2>4 DEF CacheInv
<1>2. CASE ReadPlan(w)
  <2>1. /\ sub' = sub /\ plan' = plan /\ worker[w].at = "readPlan"
        /\ worker'[w].at = "readRows" /\ worker'[w].plan = plan
    BY <1>a, <1>2 DEF ReadPlan, database, WorkerRecord
  <2>2. \A v \in Workers : ~ReadRows(v)
    BY <2>1, RowsRead
  <2>3. behind => behind'
    BY <2>2, StaysBehind
  <2>4. sub.status # "CANCELED" => plan = PlanOf(sub) \/ Corrects(w)'
    BY <1>b, <2>1 DEF Corrects, Refreshing
  <2>5. \A v \in Workers : Deciding(v)' => Deciding(v) /\ worker'[v] = worker[v]
    BY <2>1 DEF Deciding
  <2> QED
    BY <1>a, <1>b, <1>c, <2>1, <2>3, <2>4, <2>5 DEF CacheInv
<1>3. CASE ReadRows(w)
  <2>1. /\ worker[w].at = "readRows" /\ sub' = sub /\ plan' = plan
        /\ \/ worker'[w].at = "mark" /\ worker[w].plan = PlanOf(sub)
           \/ Deciding(w)' /\ worker'[w].plan = PlanOf(sub)
    BY <1>3, RowsRead
  <2>2. ASSUME sub.status # "CANCELED", ~behind
        PROVE  CacheInv'
    <3>1. \A v \in Workers : Deciding(v)' => worker'[v].plan = PlanOf(sub)
      BY <1>a, <2>1, <2>2 DEF CacheInv, Deciding
    <3>2. Corrects(w) => Corrects(w)'
      BY <2>1 DEF Corrects, Refreshing, Deciding
    <3> QED
      BY <1>a, <1>b, <1>c, <2>1, <2>2, <3>1, <3>2 DEF CacheInv
  <2>3. ASSUME sub.status # "CANCELED", behind, ~behind'
        PROVE  CacheInv'
    <3>1. PICK v \in Workers : RefreshesAlone(v)
      BY <2>3 DEF OverlapNext, FallingBehind
    <3>2. v = w
      BY <3>1, RowsRead DEF RefreshesAlone
    <3>3. worker[w].plan = plan /\ \A u \in Workers : ~Deciding(u)
      BY <3>1, <3>2 DEF RefreshesAlone
    <3>4. \A u \in Workers : Deciding(u)' => worker'[u].plan = PlanOf(sub)
      BY <2>1, <3>3 DEF Deciding
    <3>5. plan = PlanOf(sub) \/ Corrects(w)'
      BY <2>1, <3>3 DEF Corrects, Refreshing, Deciding
    <3> QED
      BY <1>b, <2>1, <2>3, <3>4, <3>5 DEF CacheInv
  <2> QED
    BY <2>1, <2>2, <2>3 DEF CacheInv
<1>4. CASE WritePlan(w)
  <2>1. /\ Deciding(w) /\ worker'[w].at = "mark" /\ sub' = sub /\ plan' = worker[w].plan
    BY <1>a, <1>4 DEF WritePlan, Proceed, WorkerRecord, Deciding
  <2>2. \A v \in Workers : ~ReadRows(v)
    BY <2>1, RowsRead DEF Deciding
  <2>3. behind => behind'
    BY <2>2, StaysBehind
  <2>4. sub.status # "CANCELED" /\ ~behind' => worker[w].plan = PlanOf(sub)
    BY <1>a, <2>1, <2>3 DEF CacheInv
  <2>5. sub.status # "CANCELED" /\ ~behind' =>
           \A v \in Workers : Deciding(v)' => worker'[v].plan = PlanOf(sub)
    BY <1>a, <2>1, <2>3 DEF CacheInv, Deciding
  <2> QED
    BY <1>b, <2>1, <2>4, <2>5 DEF CacheInv
<1>5. CASE Crash(w) /\ Refreshing(w)
  BY <1>5 DEF CacheInv, OverlapNext, FallingBehind
<1> QED
  BY <1>1, <1>2, <1>3, <1>4, <1>5

\* The stages before and after a step of a request that is not refreshing the plan.
LEMMA NotRefreshing ==
    ASSUME IInv, NEW w \in Workers,
           \/ Claim(w) \/ Found(w) \/ Reclaim(w) \/ Handle(w) \/ ReadSub(w) \/ Mark(w)
           \/ Ack(w) \/ CallStripe(w) \/ Stamp(w) \/ ReadManage(w)
           \/ (\E e \in Events : Deliver(w, e))
           \/ (Crash(w) /\ ~Refreshing(w))
    PROVE  ~Refreshing(w) /\ ~Refreshing(w)' /\ UNCHANGED <<sub, plan>>
<1>a. worker \in [Workers -> WorkerRecord] /\ worker[w] \in WorkerRecord
  BY DEF IInv, TypeOK
<1> USE DEF database, Refreshing
<1>1. CASE Return(w)
  BY <1>a, <1>1 DEF Return, Idle, Claim, Found, Reclaim, Handle, ReadSub, Mark, Ack, CallStripe,
     Stamp, ReadManage, Deliver, Crash
<1>2. CASE Claim(w) \/ Found(w) \/ Reclaim(w) \/ ReadSub(w) \/ Mark(w) \/ Ack(w)
  <2>1. ~Refreshing(w) /\ UNCHANGED <<sub, plan>>
    BY <1>2 DEF Claim, Found, Reclaim, ReadSub, Mark, Ack
  <2>2. ~Refreshing(w)'
    BY <1>a, <1>1, <1>2 DEF Claim, Found, Reclaim, ReadSub, Mark, Ack, Proceed, WorkerRecord
  <2> QED
    BY <2>1, <2>2
<1>3. ASSUME NEW at \in {"read", "stamp"}, NEW row,
             worker' = [worker EXCEPT ![w] = [@ EXCEPT !.at = at, !.row = row]]
      PROVE  ~Refreshing(w)'
  <2>1. worker'[w].at = at
    BY <1>a, <1>3 DEF WorkerRecord
  <2> QED
    BY <2>1
<1>4. CASE Handle(w) \/ Stamp(w) \/ CallStripe(w)
  BY <1>1, <1>3, <1>4 DEF Handle, Stamp, CallStripe
<1>5. CASE ReadManage(w)
  BY <1>a, <1>5 DEF ReadManage, WorkerRecord
<1>6. ASSUME NEW e \in Events, Deliver(w, e)
      PROVE  ~Refreshing(w) /\ ~Refreshing(w)' /\ UNCHANGED <<sub, plan>>
  <2>1. worker'[w].at = "claim"
    BY <1>a, <1>6 DEF Deliver, Idle
  <2> QED
    BY <1>6, <2>1 DEF Deliver
<1> QED
  BY <1>1, <1>2, <1>4, <1>5, <1>6 DEF Crash

\* Every step keeps CacheInv.
LEMMA CacheStep == IInv /\ RowInv /\ [OverlapNext]_overlapVars => CacheInv'
<1> SUFFICES ASSUME IInv, RowInv, [OverlapNext]_overlapVars
             PROVE  CacheInv'
  OBVIOUS
<1>n. [Next]_vars
  BY DEF OverlapNext, overlapVars
<1>1. ASSUME UNCHANGED <<sub, plan, worker>>
      PROVE  CacheInv'
  <2>1. /\ {} \in SUBSET Workers
        /\ \A w \in {} : ~Refreshing(w) /\ ~Refreshing(w)'
        /\ \A v \in Workers \ {} : worker'[v] = worker[v]
    BY <1>1
  <2> QED
    BY <1>1, <2>1, CacheAside
<1>2. ASSUME NEW w \in Workers, OverlapNext, \A v \in Workers \ {w} : worker'[v] = worker[v],
             \/ Step(w) \/ Crash(w) \/ ReadManage(w) \/ \E e \in Events : Deliver(w, e)
      PROVE  CacheInv'
  <2>1. CASE Upsert(w) \/ ReadPlan(w) \/ ReadRows(w) \/ WritePlan(w) \/ (Crash(w) /\ Refreshing(w))
    BY <1>2, <2>1, CacheRefresh
  <2>2. ASSUME ~Refreshing(w) /\ ~Refreshing(w)' /\ UNCHANGED <<sub, plan>>
        PROVE  CacheInv'
    BY <1>2, <2>2, CacheAside, {w} \in SUBSET Workers
  <2> QED
    BY <1>2, <2>1, <2>2, NotRefreshing DEF Step
<1> QED
  BY <1>n, <1>1, <1>2, OneMoves DEF overlapVars, vars

\* At first there is neither an event nor a row.
LEMMA InitRow == OverlapInit => RowInv
<1> SUFFICES ASSUME OverlapInit
             PROVE  RowInv
  OBVIOUS
<1>1. /\ \A e \in Events : ~Emitted(e) /\ ledger[e].state = "absent"
      /\ Snapshots = {} /\ acked = {} /\ lost = {} /\ behind = FALSE
      /\ stripe.status = "NONE" /\ sub.status = "NONE" /\ sub.id = NoId
      /\ \A w \in Workers : worker[w].at = "idle" /\ worker[w].event = NoId
      /\ plan = "FREE"
  BY DEF OverlapInit, Init, Emitted, Snapshots, NoSub, Idle
<1>2. PlanOf(sub) = "FREE"
  BY <1>1 DEF PlanOf, Grants
<1> QED
  BY <1>1, <1>2
  DEF RowInv, EventInv, SubInv, AppliedInv, RequestInv, CacheInv, Answered, Deciding,
      Refreshing

\* The variables of WebhookOverlaps only watch.
LEMMA Watching == OverlapSpec => Spec
<1>1. OverlapInit => Init
  BY DEF OverlapInit
<1>2. [OverlapNext]_overlapVars => [Next]_vars
  BY DEF OverlapNext, overlapVars
<1> QED
  BY <1>1, <1>2, PTL DEF OverlapSpec, Spec

\* What the row and the plan cache show of the events, and which of them are lost, for any
\* number of requests at once, of events, of requests that die and of calls of the user.
THEOREM RowInvariance == OverlapSpec => []RowInv
<1>1. IInv /\ RowInv /\ [OverlapNext]_overlapVars => RowInv'
  <2> SUFFICES ASSUME IInv, RowInv, [OverlapNext]_overlapVars
               PROVE  RowInv'
    OBVIOUS
  <2>1. [Next]_vars
    BY DEF OverlapNext, overlapVars
  <2>2. lost' \subseteq Events /\ behind' \in BOOLEAN
    BY DEF RowInv, OverlapNext, overlapVars, Losing, FallingBehind
  <2> QED
    BY <2>1, <2>2, EventStep, SubStep, AppliedStep, RequestStep, CacheStep DEF RowInv
<1> QED
  BY InitRow, <1>1, Invariance, Watching, PTL DEF OverlapSpec

\* Stripe is told that an event is done with only when the row reflects it or something
\* newer, wherever requests die, however often the event is delivered and whatever request
\* runs beside it, unless an older row was written over it.
THEOREM AckedMeansApplied == OverlapSpec => []AckedIsApplied
<1>1. IInv /\ RowInv => AckedIsApplied
  BY DEF IInv, TypeOK, RowInv, AppliedInv, AckedIsApplied
<1> QED
  BY <1>1, Invariance, RowInvariance, Watching, PTL

\* A cancellation Stripe has sent is not undone by another event, by an answer of Stripe
\* asked for earlier, or by a call of the user, whatever requests overlap, except by one
\* past which the row was written after it read it or had its answer.
THEOREM CancellationStays == OverlapSpec => CanceledIsFinal
<1>1. IInv /\ RowInv =>
         [SubCanceled => \/ sub'.status = "CANCELED"
                         \/ LateWrite
                         \/ \E w \in overtaken : Upsert(w)]_overlapVars
      \/ ~[Next]_vars
  <2> SUFFICES ASSUME IInv, RowInv, [Next]_vars, SubCanceled, ~LateWrite,
                      \A w \in overtaken : ~Upsert(w)
               PROVE  sub'.status = "CANCELED"
    OBVIOUS
  <2>1. CASE sub' = sub
    BY <2>1 DEF SubCanceled
  <2>2. ASSUME NEW w \in Workers, Upsert(w)
        PROVE  sub'.status = "CANCELED"
    <3> DEFINE row == worker[w].row
               e == worker[w].event
    <3>1. /\ Sound(w) /\ EventInv /\ TypeOK /\ sub' = row /\ worker[w].at = "upsert"
          /\ w \notin overtaken /\ ~Stale(sub, row)
      BY <2>2, RequestInvSound DEF RowInv, IInv, Upsert, LateWrite
    <3>2. e # NoId /\ e \in Events
      BY <3>1, Typing DEF Sound, Answered, Refreshing
    <3>3. RowOf(row, e) /\ Emitted(e)
      BY <3>1, <3>2 DEF Sound
    <3> SUFFICES ASSUME row.status # "CANCELED"
                 PROVE  FALSE
      BY <3>1
    <3>4. sub.id \in Snapshots /\ sub = event[sub.id].row /\ sub.status = "CANCELED"
      BY CanceledAtStripe DEF SubCanceled
    <3>5. row.at <= sub.at
      <4>1. CASE event[e].kind = "fetch"
        BY <3>3, <3>4, <4>1 DEF RowOf
      <4>2. CASE event[e].kind = "snapshot"
        <5>1. row = event[e].row /\ e \in Snapshots
          BY <3>2, <3>3, <4>2 DEF RowOf, Snapshots
        <5> QED
          BY <3>1, <3>4, <5>1 DEF EventInv
      <4> QED
        BY <3>1, <3>2, <3>3, <4>1, <4>2, Typing DEF Emitted
    <3>6. row.status \in Statuses /\ row.at \in Nat /\ sub.at \in Nat
      BY <3>1, <3>3, Typing DEF RowOf
    <3>7. Rank[row.status] < Rank[sub.status]
      BY <3>4, <3>6, Ranks
    <3> QED
      BY <3>1, <3>4, <3>5, <3>6, <3>7 DEF Stale
  <2> QED
    BY <2>1, <2>2, Untouched
<1>2. [OverlapNext]_overlapVars => [Next]_vars
  BY DEF OverlapNext, overlapVars
<1> QED
  BY <1>1, <1>2, Invariance, RowInvariance, Watching, PTL DEF OverlapSpec, CanceledIsFinal

\* The plan cache shows what the row grants, whatever requests refresh it together, unless
\* a request died before its refresh or the row was written past one.
THEOREM CacheMirrors == OverlapSpec => []CacheMirrorsRow
<1>1. RowInv => CacheMirrorsRow
  BY DEF RowInv, CacheInv, CacheMirrorsRow, AllIdle, Corrects, Refreshing
<1> QED
  BY <1>1, RowInvariance, PTL

\* In whatever order the events came and whatever requests overlapped, the row ends up
\* with the status at Stripe, unless an older row was written over a newer one.
THEOREM RowFollows == OverlapSpec => []RowFollowsStripe
<1>1. IInv /\ RowInv => RowFollowsStripe
  <2> SUFFICES ASSUME IInv, RowInv, Quiescent, DistinctSeconds, manages = 0, lost = {}
               PROVE  sub.status = stripe.status
    BY DEF RowFollowsStripe
  <2>a. EventInv /\ SubInv /\ AppliedInv /\ TypeOK
    BY DEF RowInv, IInv
  <2>1. CASE stripe.status = "NONE"
    BY <2>a, <2>1 DEF SubInv
  <2>2. CASE stripe.status # "NONE"
    <3>1. PICK d \in Snapshots : /\ event[d].row.status = stripe.status
                                 /\ \A e \in Snapshots : event[e].row.at <= event[d].row.at
      BY <2>a, <2>2 DEF EventInv
    <3>2. d \in Events /\ d \in acked
      BY <3>1 DEF Snapshots, Emitted, Quiescent
    <3>3. Applied(d)
      BY <2>a, <3>2 DEF AppliedInv
    <3>4. PICK e \in Events : e = sub.id
      BY <2>a, <3>3, Typing DEF Applied, SubInv
    <3>5. Emitted(e) /\ e # NoId /\ e \in acked
      BY <2>a, <3>4, Typing DEF SubInv, Quiescent
    <3>6. RowOf(sub, e)
      BY <2>a, <3>4, <3>5 DEF SubInv
    <3>7. CASE e = d
      BY <3>1, <3>6, <3>7 DEF RowOf, Snapshots
    <3>8. CASE e # d
      <4>1. event[e].row.at # event[d].row.at
        BY <3>2, <3>5, <3>8 DEF DistinctSeconds
      <4>2. event[d].row.at < sub.at /\ sub.at = event[e].row.at
        BY <2>a, <3>2, <3>3, <3>6, <4>1, Typing DEF Applied, RowOf
      <4>3. event[d].row.at \in Nat /\ sub.at \in Nat
            /\ \A f \in Snapshots : event[f].row.at \in Nat
        BY <2>a, <3>2, Typing DEF Snapshots
      <4>4. e \notin Snapshots
        BY <3>1, <4>2, <4>3
      <4>5. event[e].kind = "fetch"
        BY <2>a, <3>5, <4>4, Typing DEF Snapshots, Emitted
      <4>6. ~ \E f \in Snapshots : sub.at <= event[f].row.at
        BY <3>1, <4>2, <4>3
      <4> QED
        BY <3>6, <4>5, <4>6 DEF RowOf
    <3> QED
      BY <3>7, <3>8
  <2> QED
    BY <2>1, <2>2
<1> QED
  BY <1>1, Invariance, RowInvariance, Watching, PTL
=============================================================================
