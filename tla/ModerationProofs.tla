-------------------------- MODULE ModerationProofs --------------------------
(***************************************************************************)
(* Nothing is hidden and nobody suspended by fewer people than the         *)
(* threshold says, and what enough people reported is acted on, for any    *)
(* number of reports and reporters, any thresholds and any overlap.  A     *)
(* count is old when it is acted on, but stored rows stay, so that it is   *)
(* never too high; and the last call to store its row counts them all.     *)
(***************************************************************************)
EXTENDS Moderation, FiniteSetTheorems, FunctionTheorems, TLAPS

Steps == {"unused", "accepted", "rejected", "lost", "count", "content", "user", "suspend",
          "done", "dead"}

Row == [at : Steps, reporter : Reporters \cup {"none"}, target : Targets, ip : Nat,
        weight : {0, 1}, count : Nat]

\* The types of what the thresholds are computed from.
ModerationTypeOK ==
    /\ report \in [Reports -> Row]
    /\ request \in [hidden : BOOLEAN, review : BOOLEAN]
    /\ owner \in [suspended : BOOLEAN, blocked : BOOLEAN]

\* Only a report that was read is stored.
SignedInv ==
    \A r \in Reports : report[r].at \notin {"unused", "rejected", "lost"} =>
        report[r].reporter \in Reporters

\* The count a call holds is at most the one it would get now.
CountInv ==
    \A r \in Reports : report[r].at = "content" => report[r].count <= Counted("request")

MInv == ModerationTypeOK /\ SignedInv /\ CountInv

-----------------------------------------------------------------------------
\* The reporters of any rows are finitely many, since the calls are.
LEMMA FinitelyMany ==
    ASSUME NEW f, NEW S \in SUBSET Reports
    PROVE  /\ IsFiniteSet({f[r].reporter : r \in S})
           /\ Cardinality({f[r].reporter : r \in S}) \in Nat
<1> DEFINE T == {f[r].reporter : r \in S}
           g == [r \in S |-> f[r].reporter]
<1>1. IsFiniteSet(S)
  <2>1. 1 \in Int /\ MaxReports \in Int
    BY ThresholdsAssumption
  <2>2. IsFiniteSet(1 .. MaxReports)
    BY <2>1, FS_Interval
  <2> QED
    BY <2>2, FS_Subset DEF Reports
<1>2. g \in [S -> T]
  OBVIOUS
<1>3. \A t \in T : \E s \in S : g[s] = t
  OBVIOUS
<1>4. g \in Surjection(S, T)
  <2> HIDE DEF g, T
  <2> QED
    BY <1>2, <1>3, Fun_IsSurj
<1>5. IsFiniteSet(T)
  <2> HIDE DEF g, T
  <2> QED
    BY <1>1, <1>4, FS_Surjection
<1>6. QED
  BY <1>5, FS_CardinalityType

\* A count is a number, now and after the step.
LEMMA CountsAreNumbers ==
    ASSUME NEW target
    PROVE  /\ Counted(target) \in Nat
           /\ IsFiniteSet(UniqueReporters(target)')
<1>1. {q \in AboutTarget(target) : report[q].weight = 1} \in SUBSET Reports
  BY DEF AboutTarget, Stored
<1>2. {q \in AboutTarget(target)' : report'[q].weight = 1} \in SUBSET Reports
  BY DEF AboutTarget, Stored
<1>3. Counted(target) \in Nat
  BY <1>1, FinitelyMany DEF Counted, UniqueReporters
<1>4. IsFiniteSet(UniqueReporters(target)')
  BY <1>2, FinitelyMany DEF UniqueReporters
<1>5. QED
  BY <1>3, <1>4

\* countUniqueReporters counts people.
LEMMA PeopleAreCounted ==
    ASSUME SignedInv, NEW target
    PROVE  People(target) = Counted(target)
<1>1. {p \in Reporters : \E r \in AboutTarget(target) :
                            report[r].weight = 1 /\ report[r].reporter = p}
        = UniqueReporters(target)
  <2>1. \A r \in AboutTarget(target) : report[r].weight = 1 => report[r].reporter \in Reporters
    BY DEF AboutTarget, Stored, Unstored, SignedInv
  <2> QED
    BY <2>1 DEF UniqueReporters
<1>2. QED
  BY <1>1 DEF People, Counted

\* Rows that are stored stay as they are.
RowsStay ==
    \A r \in Stored : /\ r \in Stored'
                      /\ report'[r].reporter = report[r].reporter
                      /\ report'[r].target = report[r].target
                      /\ report'[r].weight = report[r].weight

\* A count does not go down as long as rows stay.
LEMMA CountGrows ==
    ASSUME RowsStay
    PROVE  Counted("request") <= Counted("request")'
<1>1. UniqueReporters("request") \subseteq UniqueReporters("request")'
  BY DEF UniqueReporters, AboutTarget, RowsStay
<1>2. IsFiniteSet(UniqueReporters("request")')
  BY CountsAreNumbers
<1>3. QED
  BY <1>1, <1>2, FS_Subset DEF Counted

-----------------------------------------------------------------------------
\* Nothing is reported in the initial states.
LEMMA InitMInv == ModerationInit => MInv
  BY ThresholdsAssumption
  DEF ModerationInit, MInv, ModerationTypeOK, SignedInv, CountInv, NoReport, Row, Steps,
      Targets, Unstored

\* A step of a call changes the call's row, and no report that is stored but in its step.
CallStep(r) ==
    /\ report' = [report EXCEPT ![r] = report'[r]]
    /\ report'[r] \in Row
    /\ r \in Stored => /\ report'[r].at \notin Unstored
                       /\ report'[r].reporter = report[r].reporter
                       /\ report'[r].target = report[r].target
                       /\ report'[r].weight = report[r].weight
    /\ report'[r].at \notin {"unused", "rejected", "lost"} => report'[r].reporter \in Reporters
    /\ report'[r].at = "content" => report'[r].count = Counted("request")

AnyStep(r) ==
    \/ \E p \in Reporters, t \in Targets, ip \in Addresses : ReadReport(r, p, t, ip)
    \/ InsertReport(r)
    \/ CountContent(r)
    \/ EvaluateContent(r)
    \/ ReadReported(r)
    \/ EvaluateUser(r)
    \/ ReportDies(r)

\* A call whose count is used or lost.
LEMMA RowsMove ==
    ASSUME NEW row \in Row, NEW step \in Steps, NEW n \in Nat
    PROVE  [row EXCEPT !.at = step, !.count = n] \in Row
  BY DEF Row

\* Every step of ReportsService.create is such a step.
LEMMA StepOfCall ==
    ASSUME MInv, NEW r \in Reports, AnyStep(r)
    PROVE  CallStep(r)
<1> USE DEF MInv, ModerationTypeOK
<1>0. /\ report[r] \in Row
      /\ report \in [Reports -> Row]
  OBVIOUS
<1>1. CASE \E p \in Reporters, t \in Targets, ip \in Addresses : ReadReport(r, p, t, ip)
  <2>1. PICK p \in Reporters, t \in Targets, ip \in Addresses : ReadReport(r, p, t, ip)
    BY <1>1
  <2>2. ip \in Nat /\ Weight(p, t, ip) \in {0, 1}
    BY ThresholdsAssumption DEF Addresses, Weight
  <2>3. \/ report'[r] = [NoReport EXCEPT !.at = "rejected"]
        \/ report'[r] = [at |-> "accepted", reporter |-> p, target |-> t, ip |-> ip,
                         weight |-> Weight(p, t, ip), count |-> 0]
    BY <1>0, <2>1 DEF ReadReport
  <2>4. report' = [report EXCEPT ![r] = report'[r]] /\ r \notin Stored
    BY <1>0, <2>1 DEF ReadReport, Stored, Unstored
  <2> HIDE DEF MInv, ModerationTypeOK
  <2> QED
    BY <2>2, <2>3, <2>4 DEF CallStep, Row, Steps, Targets, NoReport, Unstored
<1>2. CASE InsertReport(r)
  <2>1. report' = [report EXCEPT ![r] = report'[r]] /\ r \notin Stored
    BY <1>0, <1>2 DEF InsertReport, Reported, Stored, Unstored
  <2>2. report'[r] = [report[r] EXCEPT !.at = AfterInsert(r)]
    BY <1>0, <1>2 DEF InsertReport, Reported
  <2>3. report[r].reporter \in Reporters
    BY <1>0, <1>2 DEF InsertReport, SignedInv
  <2> HIDE DEF MInv, ModerationTypeOK
  <2> QED
    BY <1>0, <2>1, <2>2, <2>3 DEF CallStep, Row, Steps, AfterInsert
<1>3. CASE CountContent(r)
  <2>1. report' = [report EXCEPT ![r] = report'[r]]
    BY <1>0, <1>3 DEF CountContent
  <2>2. report'[r] = [report[r] EXCEPT !.at = "content", !.count = Counted("request")]
    BY <1>0, <1>3 DEF CountContent
  <2>3. report[r].reporter \in Reporters /\ Counted("request") \in Nat
    BY <1>0, <1>3, CountsAreNumbers DEF CountContent, SignedInv
  <2> HIDE DEF MInv, ModerationTypeOK
  <2> QED
    BY <1>0, <2>1, <2>2, <2>3 DEF CallStep, Row, Steps, Unstored
<1>4. CASE EvaluateContent(r)
  <2>1. report' = [report EXCEPT ![r] = report'[r]]
    BY <1>0, <1>4 DEF EvaluateContent
  <2>2. PICK n \in Nat : report'[r] = [report[r] EXCEPT !.at = "user", !.count = n]
    BY <1>0, <1>4 DEF EvaluateContent
  <2>3. report[r].reporter \in Reporters
    BY <1>0, <1>4 DEF EvaluateContent, SignedInv
  <2> HIDE DEF MInv, ModerationTypeOK
  <2>4. report'[r] \in Row
    BY <1>0, <2>2, RowsMove DEF Steps
  <2>5. /\ report'[r].at = "user"
        /\ report'[r].reporter = report[r].reporter
        /\ report'[r].target = report[r].target
        /\ report'[r].weight = report[r].weight
    BY <1>0, <2>2 DEF Row
  <2> QED
    BY <2>1, <2>3, <2>4, <2>5 DEF CallStep, Unstored
<1>5. CASE ReadReported(r) \/ EvaluateUser(r)
  <2>1. report' = [report EXCEPT ![r] = report'[r]]
    BY <1>0, <1>5 DEF ReadReported, EvaluateUser, Reported
  <2>2. PICK step \in {"done", "suspend"} : report'[r] = [report[r] EXCEPT !.at = step]
    BY <1>0, <1>5 DEF ReadReported, EvaluateUser, Reported
  <2>3. report[r].reporter \in Reporters
    BY <1>0, <1>5 DEF ReadReported, EvaluateUser, SignedInv
  <2> HIDE DEF MInv, ModerationTypeOK
  <2> QED
    BY <1>0, <2>1, <2>2, <2>3 DEF CallStep, Row, Steps, Unstored
<1>6. CASE ReportDies(r)
  <2>1. report' = [report EXCEPT ![r] = report'[r]]
    BY <1>0, <1>6 DEF ReportDies
  <2>2. \/ /\ report[r].at = "accepted"
           /\ report'[r] = [NoReport EXCEPT !.at = "lost"]
        \/ /\ report[r].at \notin {"unused", "rejected", "lost"}
           /\ \E n \in Nat : report'[r] = [report[r] EXCEPT !.at = "dead", !.count = n]
    BY <1>0, <1>6 DEF ReportDies
  <2>3. report[r].at \notin {"unused", "rejected", "lost"} => report[r].reporter \in Reporters
    BY DEF SignedInv
  <2> HIDE DEF MInv, ModerationTypeOK
  <2>4. CASE report[r].at = "accepted" /\ report'[r] = [NoReport EXCEPT !.at = "lost"]
    <3>1. report'[r] \in Row /\ report'[r].at = "lost"
      BY <2>4 DEF NoReport, Row, Steps, Targets
    <3> QED
      BY <2>1, <2>4, <3>1 DEF CallStep, Stored, Unstored
  <2>5. CASE /\ report[r].at \notin {"unused", "rejected", "lost"}
             /\ \E n \in Nat : report'[r] = [report[r] EXCEPT !.at = "dead", !.count = n]
    <3>1. report'[r] \in Row
      BY <1>0, <2>5, RowsMove DEF Steps
    <3>2. /\ report'[r].at = "dead"
          /\ report'[r].reporter = report[r].reporter
          /\ report'[r].target = report[r].target
          /\ report'[r].weight = report[r].weight
      BY <1>0, <2>5 DEF Row
    <3> QED
      BY <2>1, <2>3, <2>5, <3>1, <3>2 DEF CallStep, Unstored
  <2> QED
    BY <2>2, <2>4, <2>5
<1>7. QED
  BY <1>1, <1>2, <1>3, <1>4, <1>5, <1>6 DEF AnyStep

\* Such a step keeps the rows typed, and the stored ones signed.
LEMMA CallStepKeeps ==
    ASSUME MInv, NEW r \in Reports, CallStep(r)
    PROVE  /\ report' \in [Reports -> Row]
           /\ SignedInv'
           /\ CountInv'
<1>0. /\ report \in [Reports -> Row]
      /\ report'[r] \in Row
      /\ \A q \in Reports : q # r => report'[q] = report[q]
  BY DEF MInv, ModerationTypeOK, CallStep
<1>1. report' \in [Reports -> Row]
  BY <1>0 DEF CallStep
<1>2. SignedInv'
  BY <1>0 DEF MInv, SignedInv, CallStep
<1>3. RowsStay
  BY <1>0 DEF RowsStay, CallStep, Stored
<1>4. /\ Counted("request") <= Counted("request")'
      /\ Counted("request") \in Nat
      /\ Counted("request")' \in Nat
  <2>1. Cardinality(UniqueReporters("request")') \in Nat
    BY CountsAreNumbers, FS_CardinalityType
  <2>2. Counted("request")' \in Nat
    BY <2>1 DEF Counted
  <2> QED
    BY <1>3, <2>2, CountGrows, CountsAreNumbers
<1>5. CountInv'
  <2> SUFFICES ASSUME NEW q \in Reports, report'[q].at = "content"
               PROVE  report'[q].count <= Counted("request")'
    BY DEF CountInv
  <2>1. report'[q].count <= Counted("request") /\ report'[q].count \in Nat
    BY <1>0, <1>1, <1>4 DEF CallStep, MInv, CountInv, Row
  <2> QED
    BY <1>4, <2>1
<1>6. QED
  BY <1>1, <1>2, <1>5

\* The flags stay flags.
LEMMA FlagsStay ==
    ASSUME MInv, ModerationNext
    PROVE  /\ request' \in [hidden : BOOLEAN, review : BOOLEAN]
           /\ owner' \in [suspended : BOOLEAN, blocked : BOOLEAN]
<1>0. /\ request \in [hidden : BOOLEAN, review : BOOLEAN]
      /\ owner \in [suspended : BOOLEAN, blocked : BOOLEAN]
  BY DEF MInv, ModerationTypeOK
<1>1. \/ request' = request
      \/ request' = [hidden |-> FALSE, review |-> FALSE]
      \/ \E r \in Reports : request' = EvaluatedContent(request, report[r].count)
  BY DEF ModerationNext, ReadReport, InsertReport, CountContent, EvaluateContent,
         ReadReported, EvaluateUser, ReportDies, RestoreRequest, UnsuspendUser,
         BlockOwner, BlockReporter
<1>2. \/ owner' = owner
      \/ owner' = [owner EXCEPT !.suspended = FALSE]
      \/ owner' = [owner EXCEPT !.suspended = @ \/ Counted("user") >= SuspendUser]
      \/ owner' = [owner EXCEPT !.blocked = ~@]
  BY DEF ModerationNext, ReadReport, InsertReport, CountContent, EvaluateContent,
         ReadReported, EvaluateUser, ReportDies, RestoreRequest, UnsuspendUser,
         BlockOwner, BlockReporter
<1>3. request' \in [hidden : BOOLEAN, review : BOOLEAN]
  <2> DEFINE hides(n) == request.hidden \/ n >= HideContent
             reviews(n) == request.review \/ n >= ReviewRequired
  <2>1. \A n : hides(n) \in BOOLEAN /\ reviews(n) \in BOOLEAN
    OBVIOUS
  <2>2. \A n : EvaluatedContent(request, n) = [hidden |-> hides(n), review |-> reviews(n)]
    BY DEF EvaluatedContent
  <2>3. \A n : EvaluatedContent(request, n) \in [hidden : BOOLEAN, review : BOOLEAN]
    <3> HIDE DEF hides, reviews
    <3> QED
      BY <2>1, <2>2
  <2>4. [hidden |-> FALSE, review |-> FALSE] \in [hidden : BOOLEAN, review : BOOLEAN]
    OBVIOUS
  <2> QED
    <3> HIDE DEF hides, reviews
    <3>1. CASE request' = request
      BY <1>0, <3>1
    <3>2. CASE request' = [hidden |-> FALSE, review |-> FALSE]
      BY <2>4, <3>2
    <3>3. CASE \E r \in Reports : request' = EvaluatedContent(request, report[r].count)
      BY <2>3, <3>3, Zenon
    <3> QED
      BY <1>1, <3>1, <3>2, <3>3
<1>4. owner' \in [suspended : BOOLEAN, blocked : BOOLEAN]
  <2> DEFINE suspends == owner.suspended \/ Counted("user") >= SuspendUser
  <2>1. suspends \in BOOLEAN
    OBVIOUS
  <2>2. [owner EXCEPT !.suspended = suspends] \in [suspended : BOOLEAN, blocked : BOOLEAN]
    <3> HIDE DEF suspends
    <3> QED
      BY <1>0, <2>1
  <2> QED
    BY <1>0, <1>2, <2>2
<1>5. QED
  BY <1>3, <1>4

\* Calls and administrators keep the invariant.
LEMMA NextMInv == MInv /\ [ModerationNext]_moderationVars => MInv'
<1> SUFFICES ASSUME MInv, [ModerationNext]_moderationVars
             PROVE  MInv'
  OBVIOUS
<1>1. CASE \E r \in Reports : AnyStep(r)
  <2>1. PICK r \in Reports : AnyStep(r)
    BY <1>1
  <2>2. ModerationNext
    BY <2>1 DEF AnyStep, ModerationNext
  <2> QED
    BY <2>1, <2>2, StepOfCall, CallStepKeeps, FlagsStay DEF MInv, ModerationTypeOK
<1>2. CASE RestoreRequest \/ UnsuspendUser \/ BlockOwner \/ \E p \in Reporters : BlockReporter(p)
  <2>1. report' = report /\ ModerationNext
    BY <1>2 DEF RestoreRequest, UnsuspendUser, BlockOwner, BlockReporter, AdminActs, ModerationNext
  <2>2. SignedInv' /\ CountInv'
    BY <2>1 DEF MInv, SignedInv, CountInv, Counted, UniqueReporters, AboutTarget, Stored
  <2> QED
    BY <2>1, <2>2, FlagsStay DEF MInv, ModerationTypeOK
<1>3. CASE UNCHANGED moderationVars
  BY <1>3 DEF moderationVars, MInv, ModerationTypeOK, SignedInv, CountInv, Counted,
              UniqueReporters, AboutTarget, Stored
<1>4. QED
  BY <1>1, <1>2, <1>3 DEF ModerationNext, AnyStep

\* What a call knows of its reads is true of the rows in every state.
THEOREM ModerationInvariance == ModerationSpec => []MInv
<1>1. QED
  BY InitMInv, NextMInv, PTL DEF ModerationSpec

\* A step that flags or suspends acts on a count that many people stand behind.
LEMMA StepsAreEarned == MInv /\ [ModerationNext]_moderationVars => [EarnedAction]_moderationVars
<1> SUFFICES ASSUME MInv, ModerationNext
             PROVE  EarnedAction
  OBVIOUS
<1>0. \A target : People(target) = Counted(target) /\ Counted(target) \in Nat
  BY PeopleAreCounted, CountsAreNumbers DEF MInv
<1>1. CASE \E r \in Reports : EvaluateContent(r)
  <2>1. PICK r \in Reports : EvaluateContent(r)
    BY <1>1
  <2>2. report[r].count <= Counted("request") /\ report[r].count \in Nat
    BY <2>1 DEF EvaluateContent, MInv, CountInv, ModerationTypeOK, Row
  <2>3. request' = EvaluatedContent(request, report[r].count) /\ owner' = owner
    BY <2>1 DEF EvaluateContent
  <2>4. /\ request'.hidden /\ ~request.hidden => report[r].count >= HideContent
        /\ request'.review /\ ~request.review => report[r].count >= ReviewRequired
    BY <2>3 DEF EvaluatedContent
  <2> QED
    BY <1>0, <2>2, <2>3, <2>4, ThresholdsAssumption DEF EarnedAction
<1>2. CASE \E r \in Reports : EvaluateUser(r)
  <2>1. request' = request /\ owner' = [owner EXCEPT !.suspended = @ \/ Counted("user") >= SuspendUser]
    BY <1>2 DEF EvaluateUser
  <2>2. owner'.suspended /\ ~owner.suspended => Counted("user") >= SuspendUser
    BY <2>1 DEF MInv, ModerationTypeOK
  <2> QED
    BY <1>0, <2>1, <2>2 DEF EarnedAction
<1>3. CASE /\ request' = request \/ request' = [hidden |-> FALSE, review |-> FALSE]
           /\ owner'.suspended => owner.suspended
  BY <1>3 DEF EarnedAction
<1>4. QED
  <2>1. (\E r \in Reports : EvaluateContent(r) \/ EvaluateUser(r))
        \/ /\ request' = request \/ request' = [hidden |-> FALSE, review |-> FALSE]
           /\ owner'.suspended => owner.suspended
    BY DEF ModerationNext, ReadReport, InsertReport, CountContent, ReadReported, ReportDies,
           RestoreRequest, UnsuspendUser, BlockOwner, BlockReporter, MInv, ModerationTypeOK
  <2> QED
    BY <1>1, <1>2, <1>3, <2>1

\* Nothing is hidden, and nobody suspended, by fewer people than the threshold says.
THEOREM ActionsEarned == ModerationSpec => ActionsAreEarned
<1>1. QED
  BY ModerationInvariance, StepsAreEarned, PTL DEF ModerationSpec, ActionsAreEarned

-----------------------------------------------------------------------------
(* The other direction: what enough people reported is acted on.           *)

\* A call that still has to count, or has counted enough, or died before it did.
OwesContent(threshold) ==
    \E r \in Reports : \/ report[r].at \in {"count", "dead"}
                       \/ report[r].at = "content" /\ report[r].count >= threshold

OwesUser == \E r \in Reports : report[r].at \in {"count", "content", "user", "suspend", "dead"}

\* Until an administrator intervenes, what enough people reported is flagged or some
\* call is going to flag it.
ActInv ==
    ~undone =>
        /\ Counted("request") >= HideContent => request.hidden \/ OwesContent(HideContent)
        /\ Counted("request") >= ReviewRequired =>
               request.review \/ OwesContent(ReviewRequired)
        /\ Counted("user") >= SuspendUser => owner.suspended \/ OwesUser
        /\ ~owner.blocked

\* What one call contributes to the two.
OwesContentAt(r, threshold) ==
    \/ report[r].at \in {"count", "dead"}
    \/ report[r].at = "content" /\ report[r].count >= threshold

OwesUserAt(r) == report[r].at \in {"count", "content", "user", "suspend", "dead"}

\* A step that adds no report that counts to those of the target leaves its count.
LEMMA CountStays ==
    ASSUME MInv, NEW r \in Reports, CallStep(r), NEW target,
           \/ r \in Stored
           \/ r \notin Stored'
           \/ report'[r].weight # 1
           \/ target = "request" /\ report'[r].target # "request"
    PROVE  Counted(target)' = Counted(target)
<1>1. /\ report \in [Reports -> Row]
      /\ \A q \in Reports : q # r => report'[q] = report[q]
  BY DEF MInv, ModerationTypeOK, CallStep
<1> DEFINE Rows == {q \in AboutTarget(target) : report[q].weight = 1}
           RowsNext == {q \in AboutTarget(target)' : report'[q].weight = 1}
<1>2. \A q \in Rows : q \in RowsNext /\ report'[q].reporter = report[q].reporter
  BY <1>1 DEF CallStep, AboutTarget, Stored
<1>3. \A q \in RowsNext : q \in Rows
  BY <1>1 DEF CallStep, AboutTarget, Stored
<1>4. UniqueReporters(target)' = UniqueReporters(target)
  <2>1. UniqueReporters(target) = {report[q].reporter : q \in Rows}
    BY DEF UniqueReporters
  <2>2. UniqueReporters(target)' = {report'[q].reporter : q \in RowsNext}
    BY DEF UniqueReporters
  <2> HIDE DEF Rows, RowsNext
  <2> QED
    BY <1>2, <1>3, <2>1, <2>2
<1> QED
  BY <1>4 DEF Counted

\* A call that counts nobody new keeps what is owed, if it keeps what it owed itself.
LEMMA ActKept ==
    ASSUME MInv, ActInv, NEW r \in Reports, CallStep(r),
           Counted("request")' = Counted("request"), Counted("user")' = Counted("user"),
           undone' = undone, owner'.blocked = owner.blocked,
           request.hidden => request'.hidden, request.review => request'.review,
           owner.suspended => owner'.suspended,
           ~undone => /\ OwesContentAt(r, HideContent) =>
                            request'.hidden \/ OwesContentAt(r, HideContent)'
                      /\ OwesContentAt(r, ReviewRequired) =>
                            request'.review \/ OwesContentAt(r, ReviewRequired)'
                      /\ OwesUserAt(r) /\ Counted("user") >= SuspendUser =>
                            owner'.suspended \/ OwesUserAt(r)'
    PROVE  ActInv'
<1>1. \A q \in Reports : q # r => report'[q] = report[q]
  BY DEF MInv, ModerationTypeOK, CallStep
<1> SUFFICES ASSUME ~undone PROVE ActInv'
  BY DEF ActInv
<1>2. OwesContent(HideContent) => request'.hidden \/ OwesContent(HideContent)'
  BY <1>1 DEF OwesContent, OwesContentAt
<1>3. OwesContent(ReviewRequired) => request'.review \/ OwesContent(ReviewRequired)'
  BY <1>1 DEF OwesContent, OwesContentAt
<1>4. OwesUser /\ Counted("user") >= SuspendUser => owner'.suspended \/ OwesUser'
  BY <1>1 DEF OwesUser, OwesUserAt
<1> QED
  BY <1>2, <1>3, <1>4 DEF ActInv

\* What a step makes of a call's row.
LEMMA RowEffect ==
    ASSUME MInv, NEW r \in Reports, NEW row \in Row, NEW step \in Steps, NEW n \in Nat
    PROVE  /\ report' = [report EXCEPT ![r] = [row EXCEPT !.at = step]] =>
                 report'[r].at = step /\ report'[r].count = row.count
           /\ report' = [report EXCEPT ![r] = [row EXCEPT !.at = step, !.count = n]] =>
                 report'[r].at = step /\ report'[r].count = n
<1>1. report \in [Reports -> Row]
  BY DEF MInv, ModerationTypeOK
<1>2. /\ [row EXCEPT !.at = step].at = step /\ [row EXCEPT !.at = step].count = row.count
      /\ [row EXCEPT !.at = step, !.count = n].at = step
      /\ [row EXCEPT !.at = step, !.count = n].count = n
  BY DEF Row
<1> QED
  BY <1>1, <1>2

\* Whoever counts and stores comes before whoever may find the threshold missed.
LEMMA CallsAct ==
    ASSUME MInv, ActInv, NEW r \in Reports, AnyStep(r)
    PROVE  ActInv'
<1>1. /\ CallStep(r) /\ report[r] \in Row /\ report \in [Reports -> Row]
      /\ \A target : Counted(target) \in Nat
  BY StepOfCall, CountsAreNumbers DEF MInv, ModerationTypeOK
<1>2. CASE \E p \in Reporters, t \in Targets, ip \in Addresses : ReadReport(r, p, t, ip)
  <2>1. /\ report[r].at = "unused" /\ report'[r].at \in {"rejected", "accepted"}
        /\ UNCHANGED <<request, owner, undone>>
    BY <1>1, <1>2 DEF ReadReport, NoReport
  <2>2. r \notin Stored'
    BY <2>1 DEF Stored, Unstored
  <2>3. Counted("request")' = Counted("request") /\ Counted("user")' = Counted("user")
    BY <1>1, <2>2, CountStays
  <2> QED
    BY <1>1, <2>1, <2>3, ActKept DEF OwesContentAt, OwesUserAt
<1>3. CASE InsertReport(r)
  <2>1. /\ report[r].at = "accepted" /\ report' = [report EXCEPT ![r].at = AfterInsert(r)]
        /\ UNCHANGED <<request, owner, undone>>
    BY <1>3 DEF InsertReport, Reported
  <2>2. /\ report'[r].at = AfterInsert(r) /\ report'[r].weight = report[r].weight
        /\ report'[r].target = report[r].target
    BY <1>1, <2>1 DEF Row
  <2>3. \A q \in Reports : q # r => report'[q] = report[q]
    BY <1>1, <2>1
  <2>4. CASE report[r].weight = 0
    <3>1. Counted("request")' = Counted("request") /\ Counted("user")' = Counted("user")
      BY <1>1, <2>2, <2>4, CountStays
    <3> QED
      BY <1>1, <2>1, <3>1, ActKept DEF OwesContentAt, OwesUserAt
  <2>5. CASE report[r].weight # 0 /\ report[r].target = "request"
    <3>1. report'[r].at = "count"
      BY <2>2, <2>5 DEF AfterInsert
    <3>2. OwesContent(HideContent)' /\ OwesContent(ReviewRequired)' /\ OwesUser'
      BY <3>1 DEF OwesContent, OwesUser
    <3> QED
      BY <2>1, <3>2 DEF ActInv
  <2>6. CASE report[r].weight # 0 /\ report[r].target # "request"
    <3>1. report'[r].at = "user"
      BY <2>2, <2>6 DEF AfterInsert
    <3>2. OwesUser'
      BY <3>1 DEF OwesUser
    <3>3. Counted("request")' = Counted("request")
      BY <1>1, <2>2, <2>6, CountStays
    <3>4. /\ OwesContent(HideContent) => OwesContent(HideContent)'
          /\ OwesContent(ReviewRequired) => OwesContent(ReviewRequired)'
      <4>1. \A q \in Reports : report[q].at \in {"count", "content", "dead"} =>
                                   q # r /\ report'[q] = report[q]
        BY <2>1, <2>3
      <4> QED
        BY <4>1 DEF OwesContent
    <3> QED
      BY <2>1, <3>2, <3>3, <3>4 DEF ActInv
  <2> QED
    BY <2>4, <2>5, <2>6
<1>4. ASSUME report[r].at \notin Unstored
      PROVE  Counted("request")' = Counted("request") /\ Counted("user")' = Counted("user")
  BY <1>1, <1>4, CountStays DEF Stored
<1>5. CASE CountContent(r)
  <2>1. /\ report[r].at = "count" /\ UNCHANGED <<request, owner, undone>>
        /\ report' = [report EXCEPT ![r] =
                        [report[r] EXCEPT !.at = "content", !.count = Counted("request")]]
    BY <1>5 DEF CountContent
  <2>2. report'[r].at = "content" /\ report'[r].count = Counted("request")
    BY <1>1, <2>1, RowEffect DEF Steps
  <2>3. Counted("request")' = Counted("request") /\ Counted("user")' = Counted("user")
    BY <1>4, <2>1 DEF Unstored
  <2>4. OwesUser' /\ \A threshold : Counted("request") >= threshold => OwesContent(threshold)'
    BY <2>2 DEF OwesUser, OwesContent
  <2> QED
    BY <2>1, <2>3, <2>4 DEF ActInv
<1>6. CASE EvaluateContent(r)
  <2>1. /\ report[r].at = "content" /\ UNCHANGED <<owner, undone>>
        /\ request' = EvaluatedContent(request, report[r].count)
        /\ report' = [report EXCEPT ![r] = [report[r] EXCEPT !.at = "user", !.count = 0]]
    BY <1>6 DEF EvaluateContent
  <2>2. report'[r].at = "user"
    BY <1>1, <2>1, RowEffect DEF Steps
  <2>3. Counted("request")' = Counted("request") /\ Counted("user")' = Counted("user")
    BY <1>4, <2>1 DEF Unstored
  <2>4. /\ request.hidden \/ report[r].count >= HideContent => request'.hidden
        /\ request.review \/ report[r].count >= ReviewRequired => request'.review
    BY <2>1 DEF EvaluatedContent
  <2> QED
    BY <1>1, <2>1, <2>2, <2>3, <2>4, ActKept DEF OwesContentAt, OwesUserAt
<1>7. CASE ReadReported(r)
  <2>1. /\ report[r].at = "user" /\ UNCHANGED <<request, owner, undone>>
        /\ report' = [report EXCEPT ![r].at =
                        IF owner.blocked \/ owner.suspended THEN "done" ELSE "suspend"]
    BY <1>7 DEF ReadReported, Reported
  <2>2. report'[r].at = IF owner.blocked \/ owner.suspended THEN "done" ELSE "suspend"
    BY <1>1, <2>1 DEF Row
  <2>3. Counted("request")' = Counted("request") /\ Counted("user")' = Counted("user")
    BY <1>4, <2>1 DEF Unstored
  <2>4. ~undone => owner.suspended \/ report'[r].at = "suspend"
    BY <2>2 DEF ActInv
  <2> QED
    BY <1>1, <2>1, <2>3, <2>4, ActKept DEF OwesContentAt, OwesUserAt
<1>8. CASE EvaluateUser(r)
  <2>1. /\ report[r].at = "suspend" /\ UNCHANGED <<request, undone>>
        /\ owner' = [owner EXCEPT !.suspended = @ \/ Counted("user") >= SuspendUser]
    BY <1>8 DEF EvaluateUser
  <2>2. /\ owner.suspended \/ Counted("user") >= SuspendUser => owner'.suspended
        /\ owner'.blocked = owner.blocked
    BY <2>1 DEF MInv, ModerationTypeOK
  <2>3. Counted("request")' = Counted("request") /\ Counted("user")' = Counted("user")
    BY <1>4, <2>1 DEF Unstored
  <2> QED
    BY <1>1, <2>1, <2>2, <2>3, ActKept DEF OwesContentAt, OwesUserAt
<1>9. CASE ReportDies(r)
  <2>1. /\ report[r].at \notin {"unused", "rejected", "done", "lost", "dead"}
        /\ UNCHANGED <<request, owner, undone>>
    BY <1>9 DEF ReportDies
  <2>2. CASE report[r].at = "accepted"
    <3>1. report' = [report EXCEPT ![r] = [NoReport EXCEPT !.at = "lost"]]
      BY <1>9, <2>2 DEF ReportDies
    <3>2. report'[r].at = "lost"
      BY <1>1, <3>1 DEF NoReport
    <3>3. r \notin Stored'
      BY <3>2 DEF Stored, Unstored
    <3>4. Counted("request")' = Counted("request") /\ Counted("user")' = Counted("user")
      BY <1>1, <3>3, CountStays
    <3> QED
      BY <1>1, <2>1, <2>2, <3>4, ActKept DEF OwesContentAt, OwesUserAt
  <2>3. CASE report[r].at # "accepted"
    <3>1. report' = [report EXCEPT ![r] = [report[r] EXCEPT !.at = "dead", !.count = 0]]
      BY <1>9, <2>3 DEF ReportDies
    <3>2. report'[r].at = "dead"
      BY <1>1, <3>1, RowEffect DEF Steps
    <3>3. Counted("request")' = Counted("request") /\ Counted("user")' = Counted("user")
      BY <1>4, <2>1, <2>3 DEF Unstored
    <3> QED
      BY <1>1, <2>1, <3>2, <3>3, ActKept DEF OwesContentAt, OwesUserAt
  <2> QED
    BY <2>2, <2>3
<1> QED
  BY <1>2, <1>3, <1>5, <1>6, <1>7, <1>8, <1>9 DEF AnyStep

\* In the beginning nobody has reported anything.
LEMMA InitActInv == ModerationInit => ActInv
<1> SUFFICES ASSUME ModerationInit PROVE ActInv
  OBVIOUS
<1>1. Stored = {}
  BY DEF ModerationInit, NoReport, Stored, Unstored
<1>2. \A target : UniqueReporters(target) = {}
  BY <1>1 DEF UniqueReporters, AboutTarget
<1>3. Counted("request") = 0 /\ Counted("user") = 0
  BY <1>2, FS_EmptySet DEF Counted
<1>4. ~owner.blocked
  BY DEF ModerationInit
<1> QED
  BY <1>3, <1>4, ThresholdsAssumption DEF ActInv

\* What the thresholds are owed, in every state.
THEOREM OwedInvariance == ModerationSpec => [](MInv /\ ActInv)
<1>1. ModerationInit => MInv /\ ActInv
  BY InitMInv, InitActInv
<1>2. MInv /\ ActInv /\ [ModerationNext]_moderationVars => (MInv /\ ActInv)'
  <2> SUFFICES ASSUME MInv, ActInv, [ModerationNext]_moderationVars PROVE ActInv'
    BY NextMInv
  <2>1. ASSUME NEW r \in Reports, AnyStep(r) PROVE ActInv'
    BY <2>1, CallsAct
  <2>2. CASE RestoreRequest \/ UnsuspendUser \/ BlockOwner
    <3>1. undone' = TRUE
      BY <2>2 DEF RestoreRequest, UnsuspendUser, BlockOwner
    <3> QED
      BY <3>1 DEF ActInv
  <2>3. CASE (\E p \in Reporters : BlockReporter(p)) \/ UNCHANGED moderationVars
    <3>1. UNCHANGED <<report, request, owner, undone>>
      BY <2>3 DEF BlockReporter, AdminActs, moderationVars
    <3> QED
      BY <3>1 DEF ActInv, Counted, UniqueReporters, AboutTarget, Stored, OwesContent, OwesUser
  <2> QED
    BY <2>1, <2>2, <2>3 DEF ModerationNext, AnyStep
<1> QED
  BY <1>1, <1>2, PTL DEF ModerationSpec

\* Reports that arrive together do not all miss the threshold: each counts after it is
\* stored (evaluateContent and evaluateUser, which ReportsService.create calls last).
THEOREM EnoughAreHeard == ModerationSpec => []ThresholdIsActedOn
<1>1. MInv /\ ActInv => ThresholdIsActedOn
  <2> SUFFICES ASSUME MInv, ActInv, Idle, ~undone
               PROVE  /\ Counted("request") >= HideContent => request.hidden
                      /\ Counted("request") >= ReviewRequired => request.review
                      /\ Counted("user") >= SuspendUser => owner.suspended
    BY PeopleAreCounted DEF ThresholdIsActedOn, MInv
  <2>1. \A threshold : ~OwesContent(threshold)
    BY DEF OwesContent, Idle
  <2>2. ~OwesUser
    BY DEF OwesUser, Idle
  <2> QED
    BY <2>1, <2>2 DEF ActInv
<1> QED
  BY <1>1, OwedInvariance, PTL
=============================================================================
