----------------------------- MODULE Moderation -----------------------------
(***************************************************************************)
(* Moderation by reports: ReportsService.create, called by several users   *)
(* at once, weighs a report, stores it and acts when enough people have    *)
(* reported the request or its owner; an administrator undoes it.  A call  *)
(* is a row of Report once it is stored.                                   *)
(***************************************************************************)
EXTENDS Integers, FiniteSets

CONSTANTS MaxReports,       \* calls of create, each the row it may store
          Reporters,        \* users who report the request or its owner
          MaxAddresses,     \* the addresses they report from
          ReviewRequired, HideContent, SuspendUser,   \* MODERATION_THRESHOLDS
          MaxAdminActs      \* acts of the administrator

ASSUME ThresholdsAssumption ==
    /\ MaxReports \in Nat /\ MaxAddresses \in Nat
    /\ ReviewRequired \in Nat \ {0}
    /\ HideContent \in Nat \ {0}
    /\ SuspendUser \in Nat \ {0}
    /\ ReviewRequired <= HideContent
    /\ MaxAdminActs \in Nat

VARIABLES
    report,      \* the calls and the rows they became
    standing,    \* the reporters that are verified and neither blocked nor suspended
    request,     \* the moderation flags of the reported request
    owner,       \* the flags of its owner's account
    undone,      \* an administrator undid an automatic action
    adminActs

moderationVars == <<report, standing, request, owner, undone, adminActs>>

Reports == 1 .. MaxReports
Targets == {"request", "user"}
NoReport == [at |-> "unused", reporter |-> "none", target |-> "request", ip |-> 0,
             weight |-> 0, count |-> 0]

\* What happens to a call until its row is stored, and after.
Unstored == {"unused", "accepted", "rejected", "lost"}
Stored == {r \in Reports : report[r].at \notin Unstored}

\* Rows about the target.  A report of the request is stored with its owner as
\* the reported user, so it is also one about the owner.
AboutTarget(target) ==
    {r \in Stored : target = "user" \/ report[r].target = "request"}

\* countUniqueReporters: the reporters of rows that count.
UniqueReporters(target) ==
    {report[r].reporter : r \in {q \in AboutTarget(target) : report[q].weight = 1}}

\* A mutant: every row that counts, whoever wrote it.
Counted_Rows(target) == Cardinality({r \in AboutTarget(target) : report[r].weight = 1})

Counted(target) == Cardinality(UniqueReporters(target))

ModerationInit ==
    /\ report = [r \in Reports |-> NoReport]
    /\ standing \in {Reporters} \cup {Reporters \ {p} : p \in Reporters}
    /\ request = [hidden |-> FALSE, review |-> FALSE]
    /\ owner = [suspended |-> FALSE, blocked |-> FALSE]
    /\ undone = FALSE
    /\ adminActs = 0

----------------------------------------------------------------------------
(* ReportsService.create.                                                  *)

\* primaryTargetWhere finds an earlier report of the same user.
AlreadyReported(reporter, target) ==
    \E r \in AboutTarget(target) : report[r].reporter = reporter

\* A report weighs nothing when its author has no good standing or the address
\* already has a report of the content that counts.
Weight(reporter, target, ip) ==
    IF /\ reporter \in standing
       /\ ~\E r \in AboutTarget(target) : report[r].ip = ip /\ report[r].weight = 1
    THEN 1 ELSE 0

\* Addresses are numbered in the order they are seen.
Addresses ==
    {ip \in 1 .. MaxAddresses : \A i \in 1 .. ip - 1 : \E r \in Reports : report[r].ip = i}

\* Calls are numbered in the order they arrive.
ReadReport(r, reporter, target, ip) ==
    /\ report[r].at = "unused"
    /\ \A q \in 1 .. r - 1 : report[q].at # "unused"
    /\ report' = [report EXCEPT ![r] =
         IF AlreadyReported(reporter, target) THEN [NoReport EXCEPT !.at = "rejected"]
         ELSE [at |-> "accepted", reporter |-> reporter, target |-> target, ip |-> ip,
               weight |-> Weight(reporter, target, ip), count |-> 0]]
    /\ UNCHANGED <<standing, request, owner, undone, adminActs>>

Reported(r, step) == report' = [report EXCEPT ![r].at = step]

\* Only a report that counts has the thresholds evaluated.
AfterInsert(r) ==
    IF report[r].weight = 0 THEN "done"
    ELSE IF report[r].target = "request" THEN "count" ELSE "user"

InsertReport(r) ==
    /\ report[r].at = "accepted"
    /\ Reported(r, AfterInsert(r))
    /\ UNCHANGED <<standing, request, owner, undone, adminActs>>

CountContent(r) ==
    /\ report[r].at = "count"
    /\ report' = [report EXCEPT ![r] =
                    [@ EXCEPT !.at = "content", !.count = Counted("request")]]
    /\ UNCHANGED <<standing, request, owner, undone, adminActs>>

\* A mutant: the threshold itself is not enough.
EvaluatedContent_Above(flags, count) ==
    [hidden |-> flags.hidden \/ count > HideContent,
     review |-> flags.review \/ count > ReviewRequired]

\* evaluateContent: hide, or else ask for review.
EvaluatedContent(flags, count) ==
    [hidden |-> flags.hidden \/ count >= HideContent,
     review |-> flags.review \/ count >= ReviewRequired]

EvaluateContent(r) ==
    /\ report[r].at = "content"
    /\ request' = EvaluatedContent(request, report[r].count)
    /\ report' = [report EXCEPT ![r] = [@ EXCEPT !.at = "user", !.count = 0]]
    /\ UNCHANGED <<standing, owner, undone, adminActs>>

\* evaluateUser reads the account, and then counts and suspends.
ReadReported(r) ==
    /\ report[r].at = "user"
    /\ Reported(r, IF owner.blocked \/ owner.suspended THEN "done" ELSE "suspend")
    /\ UNCHANGED <<standing, request, owner, undone, adminActs>>

EvaluateUser(r) ==
    /\ report[r].at = "suspend"
    /\ owner' = [owner EXCEPT !.suspended = @ \/ Counted("user") >= SuspendUser]
    /\ Reported(r, "done")
    /\ UNCHANGED <<standing, request, undone, adminActs>>

\* The process dies: a stored report stays, and nobody evaluates it.  Bound: one
\* call dies.
ReportDies(r) ==
    /\ \A q \in Reports : report[q].at \notin {"lost", "dead"}
    /\ report[r].at \notin {"unused", "rejected", "done"}
    /\ report' = [report EXCEPT ![r] =
                    IF @.at = "accepted" THEN [NoReport EXCEPT !.at = "lost"]
                    ELSE [@ EXCEPT !.at = "dead", !.count = 0]]
    /\ UNCHANGED <<standing, request, owner, undone, adminActs>>

----------------------------------------------------------------------------
(* AdminService.                                                           *)

AdminActs ==
    /\ adminActs < MaxAdminActs
    /\ adminActs' = adminActs + 1
    /\ UNCHANGED report

RestoreRequest ==
    /\ AdminActs
    /\ request.hidden \/ request.review
    /\ request' = [hidden |-> FALSE, review |-> FALSE]
    /\ undone' = TRUE
    /\ UNCHANGED <<standing, owner>>

UnsuspendUser ==
    /\ AdminActs
    /\ owner.suspended
    /\ owner' = [owner EXCEPT !.suspended = FALSE]
    /\ undone' = TRUE
    /\ UNCHANGED <<standing, request>>

\* blockUser and unblockUser.  Blocking the owner stops evaluateUser, for good
\* unless somebody reports again.
BlockOwner ==
    /\ AdminActs
    /\ owner' = [owner EXCEPT !.blocked = ~@]
    /\ undone' = TRUE
    /\ UNCHANGED <<standing, request>>

BlockReporter(p) ==
    /\ AdminActs
    /\ standing' = standing \ {p}
    /\ UNCHANGED <<request, owner, undone>>

----------------------------------------------------------------------------
ModerationNext ==
    \/ \E r \in Reports :
          \/ \E p \in Reporters, t \in Targets, ip \in Addresses : ReadReport(r, p, t, ip)
          \/ InsertReport(r)
          \/ CountContent(r)
          \/ EvaluateContent(r)
          \/ ReadReported(r)
          \/ EvaluateUser(r)
          \/ ReportDies(r)
    \/ RestoreRequest
    \/ UnsuspendUser
    \/ BlockOwner
    \/ \E p \in Reporters : BlockReporter(p)

ModerationSpec == ModerationInit /\ [][ModerationNext]_moderationVars

----------------------------------------------------------------------------
(* Properties.                                                             *)

\* The people whose reports count.
People(target) ==
    Cardinality({p \in Reporters :
                   \E r \in AboutTarget(target) :
                      report[r].weight = 1 /\ report[r].reporter = p})

\* Nothing is hidden, and nobody suspended, by fewer people than the threshold
\* says, although two reports of one person can slip past the test for an
\* earlier one.
EarnedAction ==
    /\ request'.hidden /\ ~request.hidden => People("request") >= HideContent
    /\ request'.review /\ ~request.review => People("request") >= ReviewRequired
    /\ owner'.suspended /\ ~owner.suspended => People("user") >= SuspendUser

ActionsAreEarned == [][EarnedAction]_moderationVars

\* Reports that arrive together do not all miss the threshold: once no call is
\* running, what enough people reported is hidden and its owner suspended,
\* unless a call died after its row was stored or an administrator intervened.
Idle == \A r \in Reports : report[r].at \in {"unused", "rejected", "lost", "done"}

ThresholdIsActedOn ==
    Idle /\ ~undone =>
        /\ People("request") >= HideContent => request.hidden
        /\ People("request") >= ReviewRequired => request.review
        /\ People("user") >= SuspendUser => owner.suspended

=============================================================================
