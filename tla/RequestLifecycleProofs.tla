----------------------- MODULE RequestLifecycleProofs -----------------------
(***************************************************************************)
(* Proofs about RequestLifecycle, for any limits and any number of         *)
(* requests, calls and replicas.                                           *)
(***************************************************************************)
EXTENDS RequestLifecycle, FiniteSetTheorems, TLAPS

IInv == TypeOK /\ SentInv

\* The rows the program starts from satisfy the invariant.
LEMMA InitInv == Init => IInv
  BY LimitsAssumption DEF Init, IInv, TypeOK, SentInv, Stored, NoRequest, RequestRow

(***************************************************************************)
(* What the scan sets out to send are notices with well-formed keys.       *)
(***************************************************************************)
LEMMA NoticeType ==
    ASSUME TypeOK, NEW r \in Requests
    PROVE  NoticeOf(r) \in Keys
  BY DEF NoticeOf, TypeOK, Keys, Kinds, RequestRow

\* A scan that has treated a notice keeps its type.
LEMMA TakenType ==
    ASSUME TypeOK, NEW w \in Replicas, NEW k
    PROVE  Taken(w, k) \in
               [Replicas -> [at : {"due", "running", "done"}, todo : SUBSET Keys]]
  BY DEF Taken, TypeOK

\* Every handler, every step of a scan and the clock keep the invariant.
LEMMA NextInv == IInv /\ [Next]_vars => IInv'
<1> SUFFICES ASSUME IInv, [Next]_vars
             PROVE  IInv'
  OBVIOUS
<1> USE DEF IInv
<1>1. ASSUME NEW c \in Calls, ReadCreate(c)
      PROVE  IInv'
  BY <1>1 DEF ReadCreate, TypeOK, SentInv, preferences
<1>2. ASSUME NEW c \in Calls, Create(c)
      PROVE  IInv'
  BY <1>2 DEF Create, TypeOK, SentInv, preferences, Stored, RequestRow
<1>3. CASE BuyerActs
  <2>1. PICK r \in Requests :
           Renew(r) \/ Edit(r) \/ Pause(r) \/ Close(r) \/ Remove(r) \/ Accept(r)
    BY <1>3 DEF BuyerActs
  <2>2. row \in [Requests -> RequestRow] /\ now \in 0..MaxTime
    BY DEF TypeOK
  <2>3. {"CERRADA", "NEGOCIANDO"} \subseteq Stored
    BY DEF Stored
  <2>4. row' \in [Requests -> RequestRow]
    <3> HIDE DEF IInv
    <3>1. CASE Renew(r) \/ Edit(r)
      BY <2>2, <3>1 DEF Renew, Edit, RequestRow
    <3>2. CASE Pause(r) \/ Remove(r)
      BY <2>2, <3>2 DEF Pause, Remove, PausedRow, RequestRow
    <3>3. CASE Close(r)
      BY <2>2, <2>3, <3>3 DEF Close, RequestRow
    <3>4. CASE Accept(r)
      BY <2>2, <2>3, <3>4 DEF Accept, RequestRow
    <3> QED
      BY <2>1, <3>1, <3>2, <3>3, <3>4
  <2> QED
    BY <1>3, <2>4 DEF BuyerActs, TypeOK, SentInv, preferences
<1>4. ASSUME NEW w \in Replicas, ScanStart(w)
      PROVE  IInv'
  <2> DEFINE todo == {NoticeOf(r) : r \in {q \in Requests : ScanWhere(q)}}
  <2>1. todo \subseteq Keys
    BY NoticeType
  <2>2. scan' = [scan EXCEPT ![w] =
                    [at |-> IF todo = {} THEN "done" ELSE "running", todo |-> todo]]
    BY <1>4 DEF ScanStart
  <2> HIDE DEF todo
  <2>3. UNCHANGED <<now, row, call, told, sent, off, switches, declined, clears, failures>>
    BY <1>4 DEF ScanStart, preferences
  <2> QED
    BY <2>1, <2>2, <2>3 DEF TypeOK, SentInv
<1>5. ASSUME NEW w \in Replicas, Notify(w)
      PROVE  IInv'
  <2>1. PICK k \in scan[w].todo :
           /\ IF Gated(k) THEN /\ declined' = declined \cup {k}
                               /\ UNCHANGED <<told, sent>>
              ELSE IF Inserts(k) THEN /\ told' = told \cup {k}
                                      /\ sent' = [sent EXCEPT ![k] = @ + 1]
                                      /\ UNCHANGED declined
              ELSE UNCHANGED <<told, sent, declined>>
           /\ scan' = Taken(w, k)
    BY <1>5 DEF Notify
  <2>2. k \in Keys /\ UNCHANGED <<now, row, call, off, switches, clears, failures>>
    BY <1>5 DEF Notify, TypeOK
  <2>3. CASE ~Gated(k) /\ Inserts(k)
    <3>1. TypeOK'
      BY <2>1, <2>2, <2>3, TakenType DEF TypeOK
    <3>2. SentInv'
      BY <2>1, <2>2, <2>3 DEF SentInv, TypeOK, Inserts
    <3> QED
      BY <3>1, <3>2
  <2>4. CASE Gated(k) \/ ~Inserts(k)
    BY <2>1, <2>2, <2>4, TakenType DEF TypeOK, SentInv
  <2> QED
    BY <2>3, <2>4
<1>6. ASSUME NEW w \in Replicas, NotifyFails(w)
      PROVE  IInv'
  BY <1>6, TakenType DEF NotifyFails, TypeOK, SentInv, preferences
<1>7. ASSUME NEW w \in Replicas, ScanFails(w)
      PROVE  IInv'
  BY <1>7 DEF ScanFails, TypeOK, SentInv, preferences
<1>8. CASE ClearAll
  BY <1>8 DEF ClearAll, TypeOK, SentInv, preferences
<1>9. CASE Tick
  <2>1. now' \in 0..MaxTime
    BY <1>9, LimitsAssumption DEF Tick, TypeOK
  <2> QED
    BY <1>9, <2>1 DEF Tick, TypeOK, SentInv, preferences
<1>10. CASE SetPreferences
  BY <1>10 DEF SetPreferences, TypeOK, SentInv
<1>11. CASE UNCHANGED vars
  BY <1>11 DEF vars, TypeOK, SentInv, preferences
<1> QED
  BY <1>1, <1>2, <1>3, <1>4, <1>5, <1>6, <1>7, <1>8, <1>9, <1>10, <1>11 DEF Next

\* The invariant of the lifecycle holds for any limit, cutoffs and replicas.
THEOREM Invariance == Spec => []IInv
  BY InitInv, NextInv, PTL DEF Spec

(***************************************************************************)
(* The rows and the scans are well typed.                                  *)
(***************************************************************************)
THEOREM TypeCorrect == Spec => []TypeOK
<1>1. IInv => TypeOK
  BY DEF IInv
<1> QED
  BY <1>1, Invariance, PTL

(***************************************************************************)
(* The buyer is told a thing once, and again only after deleting it, by    *)
(* however many replicas.                                                  *)
(***************************************************************************)
THEOREM OnceWhileKept == Spec => []ToldOncePerClear
<1>1. IInv => ToldOncePerClear
  BY DEF IInv, TypeOK, SentInv, ToldOncePerClear
<1> QED
  BY <1>1, Invariance, PTL

(***************************************************************************)
(* For any limits and any age of the request, the SQL and the TypeScript   *)
(* agree: on what takes offers, ...                                        *)
(***************************************************************************)
THEOREM NothingOfferableIsHidden == Spec => []OfferableIsListed
<1>1. ASSUME TypeOK, NEW r \in Requests, IsOfferable(r)
      PROVE  Listed(r)
  <2>1. now \in Int /\ row[r].since \in Int
    BY <1>1, LimitsAssumption DEF TypeOK, RequestRow
  <2>2. /\ row[r].active
        /\ row[r].status \in {"ACTIVA", "NEGOCIANDO"}
        /\ ~row[r].paused
        /\ ~(Idle(r) >= Archive)
        /\ ~(Idle(r) >= Confirmation)
    BY <1>1 DEF IsOfferable, EffectiveStatus, Closed, TypeOK, Stored, RequestRow
  <2> QED
    BY <2>1, <2>2, LimitsAssumption
    DEF Listed, VisibleToSellersWhere, Published, Closed, Idle, ConfirmationCutoff,
        InactiveCutoff, ArchiveCutoff
<1>2. IInv => OfferableIsListed
  BY <1>1 DEF IInv, OfferableIsListed
<1> QED
  BY <1>2, Invariance, PTL

(***************************************************************************)
(* ... on what a seller may see, away from the instants of change, ...     *)
(***************************************************************************)
THEOREM ListAgrees == Spec => []ListMatchesStatus
<1>1. ASSUME TypeOK, NEW r \in Requests, Published(r),
             Idle(r) \notin {Confirmation, Inactive, Archive}
      PROVE  Listed(r) <=> IsVisibleToSellers(r)
  <2>1. now \in Int /\ row[r].since \in Int
    BY <1>1, LimitsAssumption DEF TypeOK, RequestRow
  <2>2. row[r].status \in {"ACTIVA", "NEGOCIANDO", "CERRADA"}
    BY <1>1 DEF TypeOK, Stored, Published, RequestRow
  <2>3. VisibleToSellersWhere(r) <=>
           EffectiveStatus(r) \in {"ACTIVA", "NEGOCIANDO", "INACTIVA"}
    BY <1>1, <2>1, <2>2, LimitsAssumption
    DEF VisibleToSellersWhere, EffectiveStatus, Published, Closed, Idle,
        ConfirmationCutoff, InactiveCutoff, ArchiveCutoff
  <2> QED
    BY <2>3 DEF Listed, IsVisibleToSellers
<1>2. IInv => ListMatchesStatus
  BY <1>1 DEF IInv, ListMatchesStatus
<1> QED
  BY <1>2, Invariance, PTL

(***************************************************************************)
(* ... and, at those instants too, on what the scan has to report.         *)
(***************************************************************************)
THEOREM ScanAgrees == Spec => []ScanMatchesStatus
<1>1. ASSUME TypeOK, NEW r \in Requests, Published(r)
      PROVE  ScanWhere(r) <=>
               /\ row[r].active
               /\ EffectiveStatus(r) \in {"PENDIENTE_DE_CONFIRMACION", "INACTIVA"}
  <2>1. now \in Int /\ row[r].since \in Int
    BY <1>1, LimitsAssumption DEF TypeOK, RequestRow
  <2>2. row[r].status \in {"ACTIVA", "NEGOCIANDO", "CERRADA"}
    BY <1>1 DEF TypeOK, Stored, Published, RequestRow
  <2> QED
    BY <1>1, <2>1, <2>2, LimitsAssumption
    DEF ScanWhere, EffectiveStatus, Published, Closed, Idle, ConfirmationCutoff,
        InactiveCutoff, ArchiveCutoff
<1>2. IInv => ScanMatchesStatus
  BY <1>1 DEF IInv, ScanMatchesStatus
<1> QED
  BY <1>2, Invariance, PTL
-----------------------------------------------------------------------------
(***************************************************************************)
(* The buyer is told before the request is archived.  Every notice is due  *)
(* for some periods, and every replica scans in each of them, so that one  *)
(* that was neither sent nor held back by the buyer's preferences has cost *)
(* a failure per replica and period.                                       *)
(***************************************************************************)
\* A notice is due from one age of the request until the next.
From(kind) == IF kind = "EXPIRING" THEN Confirmation ELSE Inactive
Until(kind) == IF kind = "EXPIRING" THEN Inactive ELSE Archive

KeyOf(kind, r) == <<kind, r, row[r].since>>

\* A request that grows old.
Live(r) == Published(r) /\ row[r].active /\ ~Closed(r) /\ ~row[r].paused

Due(kind, r) == From(kind) <= Idle(r) /\ Idle(r) < Until(kind)

\* The periods that are over and in which the notice was due.
DuePeriods(kind, r) ==
    IF Idle(r) <= From(kind) THEN 0
    ELSE IF Idle(r) <= Until(kind) THEN Idle(r) - From(kind)
    ELSE Until(kind) - From(kind)

\* The replicas that have let this period's chance go by.
Missed(kind, r) ==
    {w \in Replicas : /\ Due(kind, r)
                      /\ scan[w].at # "due"
                      /\ scan[w].at = "running" => KeyOf(kind, r) \notin scan[w].todo}

Cost(kind, r) ==
    Cardinality(Replicas) * DuePeriods(kind, r) + Cardinality(Missed(kind, r))

MissedInv ==
    \A kind \in Kinds, r \in Requests :
        Live(r) /\ ~Served(KeyOf(kind, r)) => failures >= Cost(kind, r)

ToldInv == \A k \in told : sent[k] > 0

FailuresInv == failures <= MaxFailures

NoticeInv == IInv /\ MissedInv /\ ToldInv /\ FailuresInv

\* Fewer scans and notifications fail than a notice has chances to be sent.
FewFailures ==
    /\ IsFiniteSet(Replicas)
    /\ MaxFailures \in Nat
    /\ \A kind \in Kinds :
          MaxFailures < Cardinality(Replicas) * (Until(kind) - From(kind))

\* The ages are numbers, in their order.
LEMMA AgesAreNumbers ==
    ASSUME NEW kind \in Kinds
    PROVE  /\ From(kind) \in Nat /\ Until(kind) \in Nat
           /\ 0 < From(kind) /\ From(kind) < Until(kind) /\ Until(kind) <= Archive
  BY LimitsAssumption DEF Kinds, From, Until

\* The periods are a number, and so are the replicas that missed the present one.
LEMMA CostIsNumber ==
    ASSUME TypeOK, FewFailures, NEW kind \in Kinds, NEW r \in Requests
    PROVE  /\ DuePeriods(kind, r) \in Nat
           /\ IsFiniteSet(Missed(kind, r))
           /\ Cardinality(Missed(kind, r)) \in Nat
           /\ Cardinality(Replicas) \in Nat
           /\ Cost(kind, r) \in Nat
<1>1. now \in Int /\ row[r].since \in Int
  BY LimitsAssumption DEF TypeOK, RequestRow
<1>2. DuePeriods(kind, r) \in Nat
  BY <1>1, AgesAreNumbers DEF DuePeriods, Idle
<1>3. Missed(kind, r) \subseteq Replicas
  BY DEF Missed
<1>4. IsFiniteSet(Missed(kind, r))
  BY <1>3, FS_Subset DEF FewFailures
<1>5. Cardinality(Missed(kind, r)) \in Nat /\ Cardinality(Replicas) \in Nat
  BY <1>4, FS_CardinalityType DEF FewFailures
<1>6. Cost(kind, r) \in Nat
  <2>1. \A m, n, k \in Nat : m * n + k \in Nat
    OBVIOUS
  <2> QED
    BY <1>2, <1>5, <2>1 DEF Cost
<1> QED
  BY <1>2, <1>4, <1>5, <1>6

\* A step that touches neither the clock nor the request, at which no replica misses its
\* chance without a failure.
LEMMA MissedKept ==
    ASSUME NoticeInv, FewFailures, TypeOK', NEW kind \in Kinds, NEW r \in Requests,
           now' = now, row'[r] = row[r], failures' >= failures,
           ~Served(KeyOf(kind, r)), Missed(kind, r)' \subseteq Missed(kind, r),
           Live(r)', ~Served(KeyOf(kind, r))'
    PROVE  failures' >= Cost(kind, r)'
<1>1. /\ KeyOf(kind, r)' = KeyOf(kind, r)
      /\ DuePeriods(kind, r)' = DuePeriods(kind, r)
      /\ Live(r)
  BY DEF KeyOf, DuePeriods, Idle, Live, Published, Closed
<1>2. failures >= Cost(kind, r) /\ failures \in Nat /\ failures' \in Nat
  BY <1>1 DEF NoticeInv, IInv, TypeOK, MissedInv
<1>3. Missed(kind, r)' \subseteq Missed(kind, r)
  BY <1>1
<1>4. /\ Cardinality(Missed(kind, r)') <= Cardinality(Missed(kind, r))
      /\ Cardinality(Missed(kind, r)') \in Nat
      /\ Cardinality(Missed(kind, r)) \in Nat
      /\ Cost(kind, r) \in Nat
      /\ DuePeriods(kind, r) \in Nat /\ Cardinality(Replicas) \in Nat
  BY <1>3, CostIsNumber, FS_Subset, FS_CardinalityType DEF NoticeInv, IInv
<1>5. Cost(kind, r)' = Cardinality(Replicas) * DuePeriods(kind, r) + Cardinality(Missed(kind, r)')
  BY <1>1 DEF Cost
<1>6. \A a, b, c, f, g \in Int : f >= a + b /\ c <= b /\ g >= f => g >= a + c
  OBVIOUS
<1>7. Cardinality(Replicas) * DuePeriods(kind, r) \in Int
  <2>1. \A m, n \in Nat : m * n \in Int
    OBVIOUS
  <2> QED
    BY <1>4, <2>1
<1> QED
  BY <1>2, <1>4, <1>5, <1>6, <1>7 DEF Cost

\* A replica that misses its chance by a failure has it counted.
LEMMA MissedByFailure ==
    ASSUME NoticeInv, FewFailures, TypeOK', NEW kind \in Kinds, NEW r \in Requests,
           NEW w \in Replicas,
           now' = now, row' = row, sent' = sent, declined' = declined, failures' = failures + 1,
           Missed(kind, r)' \subseteq Missed(kind, r) \cup {w},
           Live(r)', ~Served(KeyOf(kind, r))'
    PROVE  failures' >= Cost(kind, r)'
<1>1. /\ KeyOf(kind, r)' = KeyOf(kind, r)
      /\ DuePeriods(kind, r)' = DuePeriods(kind, r)
      /\ Live(r)
  BY DEF KeyOf, DuePeriods, Idle, Live, Published, Closed
<1>2. failures >= Cost(kind, r) /\ failures \in Nat
  BY <1>1 DEF NoticeInv, IInv, TypeOK, MissedInv, Served
<1>3. /\ IsFiniteSet(Missed(kind, r))
      /\ Cardinality(Missed(kind, r)) \in Nat
      /\ DuePeriods(kind, r) \in Nat /\ Cardinality(Replicas) \in Nat
  BY CostIsNumber DEF NoticeInv, IInv
<1>4. /\ IsFiniteSet(Missed(kind, r) \cup {w})
      /\ Cardinality(Missed(kind, r) \cup {w}) \in Nat
      /\ Cardinality(Missed(kind, r) \cup {w}) <= Cardinality(Missed(kind, r)) + 1
  <2>1. IsFiniteSet(Missed(kind, r) \cup {w})
    BY <1>3, FS_AddElement
  <2>2. \/ Cardinality(Missed(kind, r) \cup {w}) = Cardinality(Missed(kind, r))
        \/ Cardinality(Missed(kind, r) \cup {w}) = Cardinality(Missed(kind, r)) + 1
    BY <1>3, FS_AddElement
  <2> QED
    BY <1>3, <2>1, <2>2
<1>5. /\ Cardinality(Missed(kind, r)') <= Cardinality(Missed(kind, r)) + 1
      /\ Cardinality(Missed(kind, r)') \in Nat
  <2>1. /\ IsFiniteSet(Missed(kind, r)')
        /\ Cardinality(Missed(kind, r)') <= Cardinality(Missed(kind, r) \cup {w})
    BY <1>4, FS_Subset
  <2> QED
    BY <1>3, <1>4, <2>1, FS_CardinalityType
<1>6. Cost(kind, r)' = Cardinality(Replicas) * DuePeriods(kind, r) + Cardinality(Missed(kind, r)')
  BY <1>1 DEF Cost
<1>7. \A a, b, c, f \in Int : f >= a + b /\ c <= b + 1 => f + 1 >= a + c
  OBVIOUS
<1>8. Cardinality(Replicas) * DuePeriods(kind, r) \in Int
  <2>1. \A m, n \in Nat : m * n \in Int
    OBVIOUS
  <2> QED
    BY <1>3, <2>1
<1> QED
  BY <1>2, <1>3, <1>5, <1>6, <1>7, <1>8 DEF Cost

\* When the period ends, all replicas have missed a notice that was due and not sent.
LEMMA MissedByPeriod ==
    ASSUME NoticeInv, FewFailures, TypeOK', Tick, NEW kind \in Kinds, NEW r \in Requests,
           Live(r)', ~Served(KeyOf(kind, r))'
    PROVE  failures' >= Cost(kind, r)'
<1>1. /\ KeyOf(kind, r)' = KeyOf(kind, r)
      /\ Live(r)
      /\ Idle(r)' = (now + 1) - row[r].since
      /\ failures' = failures
      /\ sent' = sent /\ declined' = declined
  BY DEF Tick, preferences, KeyOf, Idle, Live, Published, Closed
<1>2. failures >= Cost(kind, r) /\ failures \in Nat
  BY <1>1 DEF NoticeInv, IInv, TypeOK, MissedInv, Served
<1>3. /\ Cardinality(Missed(kind, r)) \in Nat
      /\ DuePeriods(kind, r) \in Nat /\ Cardinality(Replicas) \in Nat
  BY CostIsNumber DEF NoticeInv, IInv
<1>4. now \in Int /\ row[r].since \in Int
  BY LimitsAssumption DEF NoticeInv, IInv, TypeOK, RequestRow
<1>5. Missed(kind, r)' = {}
  BY DEF Tick, Missed
<1>6. Cost(kind, r)' = Cardinality(Replicas) * DuePeriods(kind, r)'
  <2>1. Cardinality(Missed(kind, r)') = 0
    BY <1>5, FS_EmptySet
  <2>2. DuePeriods(kind, r)' \in Nat
    BY <1>1, <1>4, AgesAreNumbers DEF DuePeriods
  <2>3. \A m, n \in Nat : m * n + 0 = m * n
    OBVIOUS
  <2> QED
    BY <1>3, <2>1, <2>2, <2>3 DEF Cost
<1>7. CASE Due(kind, r)
  <2>1. DuePeriods(kind, r)' = DuePeriods(kind, r) + 1
    BY <1>1, <1>4, <1>7, AgesAreNumbers DEF DuePeriods, Idle, Due
  <2>2. Missed(kind, r) = Replicas
    BY <1>7 DEF Missed, Tick
  <2>3. \A m, n \in Nat : m * (n + 1) = m * n + m
    OBVIOUS
  <2> QED
    BY <1>1, <1>2, <1>3, <1>6, <2>1, <2>2, <2>3 DEF Cost
<1>8. CASE ~Due(kind, r)
  <2>1. DuePeriods(kind, r)' = DuePeriods(kind, r)
    BY <1>1, <1>4, <1>8, AgesAreNumbers DEF DuePeriods, Idle, Due
  <2>2. \A m, n, k, f \in Nat : f >= m * n + k => f >= m * n
    OBVIOUS
  <2> QED
    BY <1>1, <1>2, <1>3, <1>6, <2>1, <2>2 DEF Cost
<1> QED
  BY <1>7, <1>8

\* The buyer's activity makes the request young: nothing is due of it.
LEMMA YoungOwesNothing ==
    ASSUME TypeOK', FewFailures, NEW kind \in Kinds, NEW r \in Requests,
           row'[r].since = now'
    PROVE  failures' >= Cost(kind, r)'
<1>1. now' \in Int /\ Idle(r)' = 0
  <2>1. now' \in 0..MaxTime /\ MaxTime \in Nat
    BY LimitsAssumption DEF TypeOK
  <2>2. Idle(r)' = now' - now'
    BY DEF Idle
  <2>3. \A n \in Int : n - n = 0
    OBVIOUS
  <2>4. now' \in Int
    BY <2>1
  <2> QED
    BY <2>2, <2>3, <2>4
<1>2. DuePeriods(kind, r)' = 0 /\ ~Due(kind, r)'
  BY <1>1, AgesAreNumbers DEF DuePeriods, Due
<1>3. Cardinality(Missed(kind, r)') = 0
  BY <1>2, FS_EmptySet DEF Missed
<1>4. Cardinality(Replicas) \in Nat
  BY FS_CardinalityType DEF FewFailures
<1>5. Cost(kind, r)' = 0
  BY <1>2, <1>3, <1>4 DEF Cost
<1> QED
  BY <1>5 DEF TypeOK

\* The scan reads every request of which a notice is due, and means that notice.
LEMMA ScanReadsDue ==
    ASSUME TypeOK, NEW kind \in Kinds, NEW r \in Requests, Live(r), Due(kind, r)
    PROVE  ScanWhere(r) /\ NoticeOf(r) = KeyOf(kind, r)
<1>1. now \in Int /\ row[r].since \in Int
  BY LimitsAssumption DEF TypeOK, RequestRow
<1>2. ScanWhere(r)
  BY <1>1, LimitsAssumption
  DEF Live, Due, From, Until, Kinds, ScanWhere, Idle, ConfirmationCutoff, InactiveCutoff,
      ArchiveCutoff
<1>3. EffectiveStatus(r) = "INACTIVA" <=> kind = "INACTIVE"
  BY <1>1, LimitsAssumption
  DEF Live, Due, From, Until, Kinds, EffectiveStatus, Idle, Closed, TypeOK, RequestRow, Stored
<1> QED
  BY <1>2, <1>3 DEF NoticeOf, KeyOf, Kinds

\* A scan that has treated another notice still has this one to treat.
LEMMA TakenMisses ==
    ASSUME TypeOK, NEW w \in Replicas, NEW k, scan' = Taken(w, k), scan[w].at = "running",
           now' = now, row' = row, NEW kind \in Kinds, NEW r \in Requests
    PROVE  /\ Missed(kind, r)' \subseteq Missed(kind, r) \cup {w}
           /\ KeyOf(kind, r) # k => Missed(kind, r)' \subseteq Missed(kind, r)
<1>1. /\ \A v \in Replicas : v # w => scan'[v] = scan[v]
      /\ scan'[w].todo = scan[w].todo \ {k}
      /\ scan'[w].at = IF scan[w].todo \ {k} = {} THEN "done" ELSE "running"
  BY DEF Taken, TypeOK
<1>2. Due(kind, r)' = Due(kind, r) /\ KeyOf(kind, r)' = KeyOf(kind, r)
  BY DEF Due, Idle, KeyOf
<1>3. Missed(kind, r)' \subseteq Missed(kind, r) \cup {w}
  BY <1>1, <1>2 DEF Missed
<1>4. ASSUME KeyOf(kind, r) # k, w \in Missed(kind, r)' PROVE w \in Missed(kind, r)
  BY <1>1, <1>2, <1>4 DEF Missed
<1> QED
  BY <1>3, <1>4

\* The clock, the scans, the buyer and the calls keep the invariant of the notices.
LEMMA NextNoticeInv ==
    ASSUME FewFailures, NoticeInv, [Next]_vars
    PROVE  NoticeInv'
<1>1. IInv' /\ TypeOK' /\ TypeOK
  BY NextInv DEF NoticeInv, IInv
<1> DEFINE Owed == \A kind \in Kinds, r \in Requests :
                      Live(r)' /\ ~Served(KeyOf(kind, r))' => failures' >= Cost(kind, r)'
<1>2. SUFFICES Owed /\ ToldInv' /\ FailuresInv'
  BY <1>1 DEF NoticeInv, MissedInv
<1>3. failures \in Nat /\ MaxFailures \in Nat /\ failures <= MaxFailures
  BY <1>1 DEF TypeOK, NoticeInv, FailuresInv, FewFailures
<1>4. CASE UNCHANGED <<now, row, scan, sent, declined, failures>> /\ told' \in {told, {}}
  <2>1. \A kind \in Kinds, r \in Requests :
           Missed(kind, r)' = Missed(kind, r) /\ Live(r)' = Live(r)
           /\ KeyOf(kind, r)' = KeyOf(kind, r) /\ Cost(kind, r)' = Cost(kind, r)
    BY <1>4 DEF Missed, Live, KeyOf, Cost, Due, DuePeriods, Idle, Published, Closed
  <2> QED
    BY <1>4, <2>1 DEF NoticeInv, MissedInv, ToldInv, FailuresInv, Served
<1>5. ASSUME NEW q \in Requests, NEW new, row' = [row EXCEPT ![q] = new],
             UNCHANGED <<now, scan, told, sent, declined, failures>>,
             \/ new.since = now
             \/ new.paused
             \/ ~new.active
      PROVE  Owed /\ ToldInv' /\ FailuresInv'
  <2>1. ASSUME NEW kind \in Kinds, NEW r \in Requests, Live(r)', ~Served(KeyOf(kind, r))',
               r # q
        PROVE  failures' >= Cost(kind, r)'
    <3>1. row'[r] = row[r]
      BY <1>1, <1>5, <2>1 DEF TypeOK
    <3>2. Missed(kind, r)' \subseteq Missed(kind, r)
      BY <1>5, <3>1 DEF Missed, Due, Idle, KeyOf
    <3> QED
      BY <1>1, <1>3, <1>5, <2>1, <3>1, <3>2, MissedKept DEF Served, KeyOf
  <2>2. ASSUME NEW kind \in Kinds, Live(q)', ~Served(KeyOf(kind, q))'
        PROVE  failures' >= Cost(kind, q)'
    <3>1. row'[q] = new
      BY <1>1, <1>5 DEF TypeOK
    <3>2. row'[q].since = now'
      BY <1>5, <2>2, <3>1 DEF Live
    <3> QED
      BY <1>1, <3>2, YoungOwesNothing
  <2> QED
    BY <1>5, <2>1, <2>2 DEF NoticeInv, ToldInv, FailuresInv
<1>6. ASSUME NEW c \in Calls, Create(c) PROVE Owed /\ ToldInv' /\ FailuresInv'
  <2>1. PICK q \in Requests :
           row' = [row EXCEPT ![q] = [status |-> "ACTIVA", active |-> TRUE,
                                      paused |-> FALSE, since |-> now]]
    BY <1>6 DEF Create
  <2> DEFINE new == [status |-> "ACTIVA", active |-> TRUE, paused |-> FALSE, since |-> now]
  <2>2. new.since = now /\ row' = [row EXCEPT ![q] = new]
    BY <2>1
  <2> HIDE DEF new, Owed
  <2> QED
    BY <1>5, <1>6, <2>2 DEF Create, preferences
<1>7. CASE BuyerActs
  <2>1. PICK q \in Requests :
           Renew(q) \/ Edit(q) \/ Pause(q) \/ Close(q) \/ Remove(q) \/ Accept(q)
    BY <1>7 DEF BuyerActs
  <2>2. row[q] \in RequestRow /\ row \in [Requests -> RequestRow]
    BY <1>1 DEF TypeOK
  <2>3. UNCHANGED <<now, scan, told, sent, declined, failures>>
    BY <1>7 DEF BuyerActs, preferences
  <2>4. row' = [row EXCEPT ![q] = row'[q]]
    BY <2>1, <2>2 DEF Renew, Edit, Pause, Close, Remove, Accept
  <2>5. row'[q].since = now \/ row'[q].paused \/ ~row'[q].active
    <3>1. CASE Renew(q) \/ Edit(q)
      BY <2>2, <3>1 DEF Renew, Edit, RequestRow
    <3>2. CASE Pause(q) \/ Remove(q)
      BY <2>2, <3>2 DEF Pause, Remove, PausedRow, RequestRow
    <3>3. CASE Close(q) \/ Accept(q)
      BY <2>2, <3>3 DEF Close, Accept, RequestRow
    <3> QED
      BY <2>1, <3>1, <3>2, <3>3
  <2>6. PICK new : new = row'[q]
    OBVIOUS
  <2> HIDE DEF Owed
  <2> QED
    BY <1>5, <2>3, <2>4, <2>5, <2>6
<1>8. ASSUME NEW w \in Replicas, ScanStart(w) PROVE Owed /\ ToldInv' /\ FailuresInv'
  <2> DEFINE todo == {NoticeOf(r) : r \in {q \in Requests : ScanWhere(q)}}
  <2>1. /\ scan[w].at = "due"
        /\ scan' = [scan EXCEPT ![w] =
              [at |-> IF todo = {} THEN "done" ELSE "running", todo |-> todo]]
        /\ UNCHANGED <<now, row, told, sent, declined, failures>>
    BY <1>8 DEF ScanStart, preferences
  <2>2. ASSUME NEW kind \in Kinds, NEW r \in Requests, Live(r)', ~Served(KeyOf(kind, r))'
        PROVE  failures' >= Cost(kind, r)'
    <3>1. Live(r) /\ KeyOf(kind, r)' = KeyOf(kind, r) /\ Due(kind, r)' = Due(kind, r)
      BY <2>1, <2>2 DEF Live, Published, Closed, KeyOf, Due, Idle
    <3>2. Due(kind, r) => KeyOf(kind, r) \in todo
      BY <1>1, <3>1, ScanReadsDue
    <3> HIDE DEF todo
    <3>3. Missed(kind, r)' \subseteq Missed(kind, r)
      <4>1. /\ \A v \in Replicas : v # w => scan'[v] = scan[v]
            /\ scan'[w].todo = todo
            /\ scan'[w].at = IF todo = {} THEN "done" ELSE "running"
        BY <1>1, <2>1 DEF TypeOK
      <4>2. w \notin Missed(kind, r)'
        BY <3>1, <3>2, <4>1 DEF Missed
      <4> QED
        BY <3>1, <4>1, <4>2 DEF Missed
    <3> QED
      BY <1>1, <1>3, <2>1, <2>2, <3>3, <3>1, MissedKept DEF Served
  <2> QED
    BY <2>1, <2>2 DEF NoticeInv, ToldInv, FailuresInv
<1>9. ASSUME NEW w \in Replicas, Notify(w) PROVE Owed /\ ToldInv' /\ FailuresInv'
  <2>1. PICK k \in scan[w].todo :
           /\ IF Gated(k) THEN /\ declined' = declined \cup {k}
                               /\ UNCHANGED <<told, sent>>
              ELSE IF Inserts(k) THEN /\ told' = told \cup {k}
                                      /\ sent' = [sent EXCEPT ![k] = @ + 1]
                                      /\ UNCHANGED declined
              ELSE UNCHANGED <<told, sent, declined>>
           /\ scan' = Taken(w, k)
    BY <1>9 DEF Notify
  <2>2. /\ scan[w].at = "running"
        /\ UNCHANGED <<now, row, failures>>
    BY <1>9 DEF Notify
  <2>3. k \in Keys /\ sent \in [Keys -> Nat]
    BY <1>1 DEF TypeOK
  <2>4. Served(k)' /\ \A key \in Keys : Served(key) => Served(key)'
    <3>1. CASE Gated(k)
      BY <2>1, <3>1 DEF Served
    <3>2. CASE ~Gated(k) /\ Inserts(k)
      BY <2>1, <2>3, <3>2 DEF Served
    <3>3. CASE ~Gated(k) /\ ~Inserts(k)
      BY <2>1, <2>3, <3>3 DEF Served, Inserts, NoticeInv, ToldInv
    <3> QED
      BY <3>1, <3>2, <3>3
  <2>5. ASSUME NEW kind \in Kinds, NEW r \in Requests, Live(r)', ~Served(KeyOf(kind, r))'
        PROVE  failures' >= Cost(kind, r)'
    <3>1. KeyOf(kind, r)' = KeyOf(kind, r) /\ KeyOf(kind, r) \in Keys
      BY <1>1, <2>2 DEF KeyOf, Keys, Kinds, TypeOK, RequestRow
    <3>2. KeyOf(kind, r) # k /\ ~Served(KeyOf(kind, r))
      BY <2>4, <2>5, <3>1 DEF Served
    <3>3. Missed(kind, r)' \subseteq Missed(kind, r)
      BY <1>1, <2>1, <2>2, <3>2, TakenMisses
    <3> QED
      BY <1>1, <1>3, <2>2, <2>5, <3>2, <3>3, MissedKept
  <2>6. ToldInv'
    BY <1>1, <2>1, <2>3 DEF ToldInv, NoticeInv, TypeOK
  <2> QED
    BY <2>2, <2>5, <2>6 DEF NoticeInv, FailuresInv
<1>10. ASSUME NEW w \in Replicas, NotifyFails(w) \/ ScanFails(w)
       PROVE  Owed /\ ToldInv' /\ FailuresInv'
  <2>1. /\ failures < MaxFailures /\ failures' = failures + 1
        /\ UNCHANGED <<now, row, told, sent, declined>>
    BY <1>10 DEF NotifyFails, ScanFails, preferences
  <2>2. ASSUME NEW kind \in Kinds, NEW r \in Requests
        PROVE  Missed(kind, r)' \subseteq Missed(kind, r) \cup {w}
    <3>1. CASE NotifyFails(w)
      BY <1>1, <2>1, <3>1, TakenMisses DEF NotifyFails
    <3>2. CASE ScanFails(w)
      <4>1. \A v \in Replicas : v # w => scan'[v] = scan[v]
        BY <1>1, <3>2 DEF ScanFails, TypeOK
      <4> QED
        BY <2>1, <4>1 DEF Missed, Due, Idle, KeyOf
    <3> QED
      BY <1>10, <3>1, <3>2
  <2>3. Owed
    BY <1>1, <2>1, <2>2, MissedByFailure
  <2> QED
    BY <1>3, <2>1, <2>3 DEF ToldInv, FailuresInv, NoticeInv
<1>11. CASE Tick
  <2>1. Owed
    BY <1>1, <1>11, MissedByPeriod
  <2> QED
    BY <1>11, <2>1 DEF Tick, ToldInv, FailuresInv, NoticeInv
<1>12. CASE \/ \E c \in Calls : ReadCreate(c)
            \/ ClearAll \/ SetPreferences \/ UNCHANGED vars
  <2>1. UNCHANGED <<now, row, scan, sent, declined, failures>> /\ told' \in {told, {}}
    BY <1>12 DEF ReadCreate, ClearAll, SetPreferences, vars, preferences
  <2> QED
    BY <1>4, <2>1
<1> QED
  BY <1>6, <1>7, <1>8, <1>9, <1>10, <1>11, <1>12 DEF Next

\* The invariant of the notices, for any limits and replicas.
THEOREM NoticeInvariance ==
    ASSUME FewFailures
    PROVE  Spec => []NoticeInv
<1>1. Init => NoticeInv
  <2> SUFFICES ASSUME Init PROVE MissedInv /\ ToldInv /\ FailuresInv
    BY InitInv DEF NoticeInv
  <2>1. \A r \in Requests : ~Live(r)
    BY DEF Init, NoRequest, Live, Published
  <2> QED
    BY <2>1 DEF Init, MissedInv, ToldInv, FailuresInv, FewFailures
<1>2. NoticeInv /\ [Next]_vars => NoticeInv'
  BY NextNoticeInv
<1> QED
  BY <1>1, <1>2, PTL DEF Spec

(***************************************************************************)
(* A request is not archived behind the buyer's back: unless as many scans *)
(* and notifications fail as a notice has chances, both were sent for this *)
(* very activity, or came up while the buyer had their kind turned off     *)
(* (scanRequestLifecycle and create of notifications.service.ts).          *)
(***************************************************************************)
THEOREM BuyerIsTold ==
    ASSUME FewFailures
    PROVE  Spec => []ToldBeforeArchived
<1>1. NoticeInv => ToldBeforeArchived
  <2> SUFFICES ASSUME NoticeInv, NEW r \in Requests, Published(r), row[r].active,
                      EffectiveStatus(r) = "ARCHIVADA", NEW kind \in Kinds,
                      ~Served(KeyOf(kind, r))
               PROVE  FALSE
    BY DEF ToldBeforeArchived, Kinds, KeyOf
  <2>1. TypeOK /\ failures \in Nat /\ failures <= MaxFailures
    BY DEF NoticeInv, IInv, TypeOK, FailuresInv
  <2>2. now \in Int /\ row[r].since \in Int
    BY <2>1, LimitsAssumption DEF TypeOK, RequestRow
  <2>3. Live(r) /\ Idle(r) >= Archive
    BY <2>1, <2>2, LimitsAssumption DEF EffectiveStatus, Live, Idle, Closed, TypeOK, RequestRow, Stored
  <2>4. KeyOf(kind, r) \in Keys
    BY <2>1 DEF KeyOf, Keys, Kinds, TypeOK, RequestRow
  <2>5. failures >= Cost(kind, r)
    BY <2>1, <2>3 DEF NoticeInv, MissedInv
  <2>6. DuePeriods(kind, r) = Until(kind) - From(kind)
    BY <2>2, <2>3, AgesAreNumbers, LimitsAssumption DEF DuePeriods, Idle
  <2>7. /\ Cardinality(Missed(kind, r)) \in Nat
        /\ DuePeriods(kind, r) \in Nat /\ Cardinality(Replicas) \in Nat
    BY <2>1, CostIsNumber
  <2>8. \A m, n, k, f \in Nat : f >= m * n + k => f >= m * n
    OBVIOUS
  <2>9. failures >= Cardinality(Replicas) * (Until(kind) - From(kind))
    BY <2>1, <2>5, <2>6, <2>7, <2>8 DEF Cost
  <2>10. /\ MaxFailures < Cardinality(Replicas) * (Until(kind) - From(kind))
         /\ MaxFailures \in Nat
    BY DEF FewFailures
  <2>11. Cardinality(Replicas) * (Until(kind) - From(kind)) \in Int
    <3>1. \A m, n \in Nat : m * n \in Int
      OBVIOUS
    <3> QED
      BY <2>6, <2>7, <3>1
  <2>12. PICK bound \in Int : bound = Cardinality(Replicas) * (Until(kind) - From(kind))
    BY <2>11
  <2>13. failures >= bound /\ MaxFailures < bound
    BY <2>9, <2>10, <2>12
  <2> HIDE DEF FewFailures
  <2> QED
    BY <2>1, <2>10, <2>12, <2>13
<1> QED
  BY <1>1, NoticeInvariance, PTL
=============================================================================
