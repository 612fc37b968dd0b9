-------------------------- MODULE RequestLifecycle --------------------------
(***************************************************************************)
(* The requests of one buyer over time.  The row stores a status and the   *)
(* moment of the buyer's last activity; that a request is pending of       *)
(* confirmation, inactive or archived is derived from the clock, once in   *)
(* TypeScript (effectiveRequestStatus) and again in SQL (the WHERE clauses *)
(* of request-status.ts).  An hourly scan tells the buyer.                 *)
(*                                                                         *)
(* Renew, pause, close, remove and edit are one step each: what happens    *)
(* between their reads and their writes is the matter of Negotiation.      *)
(***************************************************************************)
EXTENDS Integers, FiniteSets

CONSTANTS
    Requests,      \* rows of table Request of the buyer
    Calls,         \* calls of create() served at the same time
    Replicas,      \* processes of the API, each with its own cron
    MaxActive,     \* MAX_ACTIVE_REQUESTS
    Confirmation,  \* idle time until the request is pending of confirmation,
    Inactive,      \*   until it is inactive,
    Archive,       \*   and until it is archived, in periods of the scan
    MaxTime,       \* bound on the clock
    MaxFailures,   \* bound on the scans and notifications that fail
    MaxClears,     \* bound on the times the buyer deletes notifications
    MaxSwitches    \* bound on the changes of the buyer's preferences

ASSUME LimitsAssumption ==
    /\ {Confirmation, Inactive, Archive, MaxTime} \subseteq Nat
    /\ 0 < Confirmation /\ Confirmation < Inactive /\ Inactive < Archive

VARIABLES
    now,       \* the clock
    row,       \* [Requests -> row]
    call,      \* [Calls -> "idle", or "create" before the insert]
    scan,      \* [Replicas -> the scan of this period]
    told,      \* notifications in the buyer's list
    sent,      \* how often each notification was sent
    off,       \* kinds the buyer has turned off (notificationPreferences)
    switches,  \* how often the buyer changed them
    declined,  \* notifications that were due and not sent, because their kind was off
    clears,    \* how often the buyer emptied the list
    failures   \* scans and notifications that failed

preferences == <<off, switches, declined>>
vars == <<now, row, call, scan, told, sent, preferences, clears, failures>>

Stored == {"NONE", "ACTIVA", "NEGOCIANDO", "CERRADA"}

\* A notification and its dedupe key: the kind, the request and the activity
\* of the buyer that it is about.
Kinds == {"EXPIRING", "INACTIVE"}
Keys == Kinds \X Requests \X (0..MaxTime)

RequestRow == [status : Stored, active : BOOLEAN, paused : BOOLEAN, since : 0..MaxTime]

NoRequest == [status |-> "NONE", active |-> FALSE, paused |-> FALSE, since |-> 0]

TypeOK ==
    /\ now \in 0..MaxTime
    /\ row \in [Requests -> RequestRow]
    /\ call \in [Calls -> {"idle", "create"}]
    /\ scan \in [Replicas -> [at : {"due", "running", "done"}, todo : SUBSET Keys]]
    /\ told \subseteq Keys
    /\ sent \in [Keys -> Nat]
    /\ off \subseteq Kinds
    /\ switches \in Nat
    /\ declined \subseteq Keys
    /\ clears \in Nat
    /\ failures \in Nat

Init ==
    /\ now = 0
    /\ row = [r \in Requests |-> NoRequest]
    /\ call = [c \in Calls |-> "idle"]
    /\ scan = [w \in Replicas |-> [at |-> "due", todo |-> {}]]
    /\ told = {}
    /\ sent = [k \in Keys |-> 0]
    /\ off = {}
    /\ switches = 0
    /\ declined = {}
    /\ clears = 0
    /\ failures = 0

-----------------------------------------------------------------------------
(* The status, as packages/shared derives it.                              *)

Published(r) == row[r].status # "NONE"
Closed(r) == row[r].status = "CERRADA"
Idle(r) == now - row[r].since

EffectiveStatus(r) ==
    IF Closed(r) THEN "CERRADA"
    ELSE IF row[r].paused THEN "PAUSADA"
    ELSE IF Idle(r) >= Archive THEN "ARCHIVADA"
    ELSE IF Idle(r) >= Inactive THEN "INACTIVA"
    ELSE IF Idle(r) >= Confirmation THEN "PENDIENTE_DE_CONFIRMACION"
    ELSE row[r].status

IsVisibleToSellers(r) ==
    row[r].active /\ EffectiveStatus(r) \in {"ACTIVA", "NEGOCIANDO", "INACTIVA"}

IsOfferable(r) ==
    row[r].active /\ EffectiveStatus(r) \in {"ACTIVA", "NEGOCIANDO"}

(* The same, as the WHERE clauses of request-status.ts derive it.          *)

ConfirmationCutoff == now - Confirmation
InactiveCutoff == now - Inactive
ArchiveCutoff == now - Archive

VisibleToSellersWhere_NoNot(r) ==
    /\ Published(r) /\ ~Closed(r) /\ ~row[r].paused
    /\ row[r].since >= ArchiveCutoff
VisibleToSellersWhere(r) ==
    /\ Published(r) /\ ~Closed(r) /\ ~row[r].paused
    /\ row[r].since >= ArchiveCutoff
    /\ row[r].since >= ConfirmationCutoff \/ row[r].since < InactiveCutoff
    /\ ~(row[r].since < ConfirmationCutoff /\ row[r].since >= InactiveCutoff)

\* The list of the sellers asks for active requests on top of it.
Listed(r) == row[r].active /\ VisibleToSellersWhere(r)

CountsTowardBuyerLimit(r) ==
    /\ row[r].active
    /\ (row[r].paused /\ ~Closed(r)) \/ VisibleToSellersWhere(r)

ScanWhere_LtConfirmation(r) ==
    /\ Published(r) /\ row[r].active /\ ~Closed(r) /\ ~row[r].paused
    /\ \/ row[r].since < ConfirmationCutoff /\ row[r].since > InactiveCutoff
       \/ row[r].since <= InactiveCutoff /\ row[r].since > ArchiveCutoff
ScanWhere_ActiveOnly(r) ==
    /\ Published(r) /\ row[r].active /\ row[r].status = "ACTIVA" /\ ~row[r].paused
    /\ row[r].since <= ConfirmationCutoff /\ row[r].since > ArchiveCutoff
ScanWhere(r) ==
    /\ Published(r) /\ row[r].active /\ ~Closed(r) /\ ~row[r].paused
    /\ \/ row[r].since <= ConfirmationCutoff /\ row[r].since > InactiveCutoff
       \/ row[r].since <= InactiveCutoff /\ row[r].since > ArchiveCutoff

-----------------------------------------------------------------------------
(* RequestsService.                                                        *)

ActiveCount == Cardinality({r \in Requests : CountsTowardBuyerLimit(r)})

\* create() counts what the buyer has, then inserts.
ReadCreate(c) ==
    /\ call[c] = "idle"
    /\ ActiveCount < MaxActive
    /\ \E r \in Requests : ~Published(r)   \* bound: rows left to insert
    /\ call' = [call EXCEPT ![c] = "create"]
    /\ UNCHANGED <<now, row, scan, told, sent, preferences, clears, failures>>

Create(c) ==
    /\ call[c] = "create"
    /\ \E r \in Requests :
          /\ ~Published(r)
          /\ row' = [row EXCEPT ![r] = [status |-> "ACTIVA", active |-> TRUE,
                                        paused |-> FALSE, since |-> now]]
    /\ call' = [call EXCEPT ![c] = "idle"]
    /\ UNCHANGED <<now, scan, told, sent, preferences, clears, failures>>

Open(r) == Published(r) /\ row[r].active /\ ~Closed(r)

PausedRow(r) == [row[r] EXCEPT !.paused = TRUE]

Renew(r) == Open(r) /\ row' = [row EXCEPT ![r].paused = FALSE, ![r].since = now]
Edit(r) == Open(r) /\ row[r].status = "ACTIVA" /\ row' = [row EXCEPT ![r].since = now]
Pause(r) == Open(r) /\ ~row[r].paused /\ row' = [row EXCEPT ![r] = PausedRow(r)]
Close(r) ==
    /\ Open(r)
    /\ row' = [row EXCEPT ![r].status = "CERRADA", ![r].paused = FALSE, ![r].since = now]
Remove(r) == Published(r) /\ row[r].active /\ row' = [row EXCEPT ![r].active = FALSE]

\* What OffersService.accept does to the request.
Accept(r) ==
    /\ Open(r)
    /\ row' = [row EXCEPT ![r].status = "NEGOCIANDO", ![r].since = now]

BuyerActs ==
    /\ \E r \in Requests :
          Renew(r) \/ Edit(r) \/ Pause(r) \/ Close(r) \/ Remove(r) \/ Accept(r)
    /\ UNCHANGED <<now, call, scan, told, sent, preferences, clears, failures>>

-----------------------------------------------------------------------------
(* NotificationsService.scanRequestLifecycle, once per period and replica. *)

NoticeOf(r) ==
    <<IF EffectiveStatus(r) = "INACTIVA" THEN "INACTIVE" ELSE "EXPIRING", r, row[r].since>>

\* The rows are read once; the loop works on that copy.
ScanStart(w) ==
    LET todo == {NoticeOf(r) : r \in {q \in Requests : ScanWhere(q)}} IN
    /\ scan[w].at = "due"
    /\ scan' = [scan EXCEPT ![w] =
          [at |-> IF todo = {} THEN "done" ELSE "running", todo |-> todo]]
    /\ UNCHANGED <<now, row, call, told, sent, preferences, clears, failures>>

Taken(w, k) ==
    LET todo == scan[w].todo \ {k} IN
    [scan EXCEPT ![w] = [at |-> IF todo = {} THEN "done" ELSE "running", todo |-> todo]]

\* isNotificationTypeEnabled: create() returns before the insert.
Gated(k) == k[1] \in off

\* The unique index on the dedupe key turns the second insert into a no-op.
Inserts_NoIndex(k) == TRUE
Inserts(k) == k \notin told

Notify(w) ==
    /\ scan[w].at = "running"
    /\ \E k \in scan[w].todo :
          /\ IF Gated(k) THEN /\ declined' = declined \cup {k}
                              /\ UNCHANGED <<told, sent>>
             ELSE IF Inserts(k) THEN /\ told' = told \cup {k}
                                     /\ sent' = [sent EXCEPT ![k] = @ + 1]
                                     /\ UNCHANGED declined
             ELSE UNCHANGED <<told, sent, declined>>
          /\ scan' = Taken(w, k)
    /\ UNCHANGED <<now, row, call, off, switches, clears, failures>>

\* bestEffort swallows the error of one notification; the loop goes on.
NotifyFails(w) ==
    /\ scan[w].at = "running"
    /\ failures < MaxFailures
    /\ \E k \in scan[w].todo : scan' = Taken(w, k)
    /\ failures' = failures + 1
    /\ UNCHANGED <<now, row, call, told, sent, preferences, clears>>

\* The query fails, or the process is down, for this period.
ScanFails(w) ==
    /\ scan[w].at # "done"
    /\ failures < MaxFailures
    /\ scan' = [scan EXCEPT ![w] = [at |-> "done", todo |-> {}]]
    /\ failures' = failures + 1
    /\ UNCHANGED <<now, row, call, told, sent, preferences, clears>>

\* NotificationsService.clearAll (remove deletes one row the same way).
ClearAll ==
    /\ told # {}
    /\ clears < MaxClears
    /\ told' = {}
    /\ clears' = clears + 1
    /\ UNCHANGED <<now, row, call, scan, sent, preferences, failures>>

\* UsersService.updatePreferences.
SetPreferences ==
    /\ switches < MaxSwitches
    /\ \E kinds \in SUBSET Kinds \ {off} : off' = kinds
    /\ switches' = switches + 1
    /\ UNCHANGED <<now, row, call, scan, told, sent, declined, clears, failures>>

\* A scan takes less than a period; the next one is due when the period is over.
Tick ==
    /\ now < MaxTime
    /\ \A w \in Replicas : scan[w].at = "done"
    /\ now' = now + 1
    /\ scan' = [w \in Replicas |-> [at |-> "due", todo |-> {}]]
    /\ UNCHANGED <<row, call, told, sent, preferences, clears, failures>>

Next ==
    \/ \E c \in Calls : ReadCreate(c) \/ Create(c)
    \/ BuyerActs
    \/ \E w \in Replicas : ScanStart(w) \/ Notify(w) \/ NotifyFails(w) \/ ScanFails(w)
    \/ ClearAll
    \/ SetPreferences
    \/ Tick

Spec == Init /\ [][Next]_vars

-----------------------------------------------------------------------------
(* Properties.                                                             *)

\* No request that takes offers is missing from the list of the sellers, at
\* any distance from the buyer's last activity.
OfferableIsListed ==
    \A r \in Requests : IsOfferable(r) => Listed(r)

\* Away from the very instants where the status changes, the SQL of the list
\* and the TypeScript of the detail page agree on what a seller may see.
ListMatchesStatus ==
    \A r \in Requests :
        Published(r) /\ Idle(r) \notin {Confirmation, Inactive, Archive} =>
            (Listed(r) <=> IsVisibleToSellers(r))

\* The scan reads exactly the requests whose owner is to be told something, at
\* those instants too.
ScanMatchesStatus ==
    \A r \in Requests :
        Published(r) => (ScanWhere(r) <=>
            row[r].active /\ EffectiveStatus(r) \in {"PENDIENTE_DE_CONFIRMACION", "INACTIVA"})

\* The notice was sent, or held back because the buyer had turned its kind off.
Served(k) == sent[k] > 0 \/ k \in declined

\* A request is not archived behind the buyer's back: both notices were sent for
\* this very activity, although some scans and notifications failed and rows were
\* read before the buyer acted.  Only one that came up while the buyer had its kind
\* turned off may be missing.
ToldBeforeArchived ==
    \A r \in Requests :
        Published(r) /\ row[r].active /\ EffectiveStatus(r) = "ARCHIVADA" =>
            \A kind \in Kinds : Served(<<kind, r, row[r].since>>)

\* The scans of all replicas together tell the buyer a thing once; again only
\* if the buyer has deleted the notice.
ToldOncePerClear ==
    \A k \in Keys : sent[k] <= clears + 1

\* Why ToldOncePerClear holds: a notice that is gone was deleted.
SentInv ==
    \A k \in Keys : sent[k] <= clears + (IF k \in told THEN 1 ELSE 0)

(* What the documents and the tests say, and the code does not keep.       *)

\* A buyer has at most MaxActive active requests.
ActiveCap == ActiveCount <= MaxActive
=============================================================================
