--------------------------- MODULE MatchingAlerts ---------------------------
(***************************************************************************)
(* The saved searches of one seller without Plus, and the alerts about     *)
(* requests that match them.  Publishing a request looks for searches,     *)
(* saving a search looks for requests: each stores its row first and reads *)
(* the other's afterwards.  A filter is the set of requests it matches.    *)
(***************************************************************************)
EXTENDS Integers, FiniteSets

CONSTANTS MaxPosts,       \* requests of buyers, published in this order
          MaxSearches,    \* calls to save a search, each the row it may store
          MaxSmartAlerts, \* FREE_MAX_SMART_ALERTS
          MaxEdits,       \* later calls on the stored searches
          MaxMishaps      \* failed notifications and deaths of the process

ASSUME AlertsAssumption ==
    /\ MaxPosts \in Nat /\ MaxSearches \in Nat
    /\ MaxSmartAlerts \in Nat
    /\ MaxEdits \in Nat /\ MaxMishaps \in Nat

VARIABLES
    post,       \* the requests, and how far the call that creates each has come
    search,     \* the searches, and the calls that create them
    edit,       \* the call that updates a search
    rows,       \* requests with a MATCHING_REQUEST row in the seller's inbox
    alerts,     \* how often the seller was alerted of each
    wanted,     \* the seller's preference for these alerts
    excused,    \* pairs <<search, request>> the seller need not hear of
    serial,     \* no two calls on the searches have overlapped
    clears, edits, mishaps

searches == <<search, edit, serial>>
inbox == <<rows, alerts, wanted, clears>>
alertVars == <<post, searches, inbox, excused, edits, mishaps>>

Posts == 1 .. MaxPosts
Searches == 1 .. MaxSearches
Filters == SUBSET Posts

NoPost == [at |-> "unpublished", open |-> FALSE]
NoSearch == [at |-> "unused", row |-> FALSE, filter |-> {}, default |-> FALSE, todo |-> {}]
NoEdit == [at |-> "idle", of |-> 0, filter |-> {}, default |-> FALSE]

\* A mutant: the row is committed together with its alerts.
SavedRows_Afterwards == {s \in Searches : search[s].row /\ search[s].at = "saved"}

SavedRows == {s \in Searches : search[s].row}

\* isOfferable and visibleToSellersWhere, of one request.
OfferedPosts == {r \in Posts : post[r].open}

AlertsInit ==
    /\ post = [r \in Posts |-> NoPost]
    /\ search = [s \in Searches |-> NoSearch]
    /\ edit = NoEdit
    /\ rows = {}
    /\ alerts = [r \in Posts |-> 0]
    /\ wanted = TRUE
    /\ excused = {}
    /\ serial = TRUE
    /\ clears = 0
    /\ edits = 0
    /\ mishaps = 0

----------------------------------------------------------------------------
(* NotificationsService.                                                   *)

\* A mutant: no unique index on the dedupe key.
IsNewAlert_NoIndex(r) == TRUE

\* The unique index on <<user, MATCHING_REQUEST:request>>.
IsNewAlert(r) == r \notin rows

\* notifyMatchingRequest: a refused preference and an earlier row end quietly.
Alert(r) ==
    /\ IF wanted /\ IsNewAlert(r)
       THEN /\ rows' = rows \cup {r}
            /\ alerts' = [alerts EXCEPT ![r] = @ + 1]
       ELSE UNCHANGED <<rows, alerts>>
    /\ excused' = IF wanted THEN excused ELSE excused \cup (Searches \X {r})
    /\ UNCHANGED mishaps

\* The insert fails and is only logged.
AlertFails(r) ==
    /\ mishaps < MaxMishaps
    /\ mishaps' = mishaps + 1
    /\ excused' = excused \cup (Searches \X {r})
    /\ UNCHANGED <<rows, alerts>>

TryAlert(r) ==
    /\ Alert(r) \/ AlertFails(r)
    /\ UNCHANGED <<wanted, clears>>

\* updatePreferences, and clearAll or remove in the inbox.
SetPreference ==
    /\ edits < MaxEdits
    /\ edits' = edits + 1
    /\ wanted' = ~wanted
    /\ UNCHANGED <<post, searches, rows, alerts, clears, excused, mishaps>>

ClearInbox ==
    /\ rows # {}
    /\ edits < MaxEdits
    /\ edits' = edits + 1
    /\ rows' = {}
    /\ clears' = clears + 1
    /\ UNCHANGED <<post, searches, alerts, wanted, excused, mishaps>>

----------------------------------------------------------------------------
(* RequestsService.create and processMatchingRequestAlerts.                *)

PostAt(r, step) == post' = [post EXCEPT ![r].at = step]

StorePost(r) ==
    /\ post[r].at = "unpublished"
    /\ \A q \in 1 .. r - 1 : post[q].at # "unpublished"
    /\ post' = [post EXCEPT ![r] = [at |-> "stored", open |-> TRUE]]
    /\ UNCHANGED <<searches, inbox, excused, edits, mishaps>>

Matches(s, r) == r \in search[s].filter

\* The seller is alerted once, whichever of the searches it is for.
ReadSearches(r) ==
    /\ post[r].at = "stored"
    /\ PostAt(r, IF post[r].open /\ \E s \in SavedRows : Matches(s, r)
                 THEN "alert" ELSE "published")
    /\ UNCHANGED <<searches, inbox, excused, edits, mishaps>>

AlertOfPost(r) ==
    /\ post[r].at = "alert"
    /\ TryAlert(r)
    /\ PostAt(r, "published")
    /\ UNCHANGED <<searches, edits>>

\* The process dies with the call: the request is published, nobody is alerted.
PublishingDies(r) ==
    /\ post[r].at \in {"stored", "alert"}
    /\ mishaps < MaxMishaps
    /\ mishaps' = mishaps + 1
    /\ PostAt(r, "published")
    /\ excused' = excused \cup (Searches \X {r})
    /\ UNCHANGED <<searches, inbox, edits>>

\* A request is closed, paused or hidden.
WithdrawPost(r) ==
    /\ post[r].open
    /\ edits < MaxEdits
    /\ edits' = edits + 1
    /\ post' = [post EXCEPT ![r].open = FALSE]
    /\ UNCHANGED <<searches, inbox, excused, mishaps>>

----------------------------------------------------------------------------
(* SavedSearchesService.                                                   *)

SearchAt(s, step) == search' = [search EXCEPT ![s].at = step]

Writing(s) == search[s].at \in {"clear", "insert"}
Busy == edit.at # "idle" \/ \E s \in Searches : Writing(s)

\* assertSavedSearchLimit
WithinLimit == Cardinality(SavedRows) < MaxSmartAlerts

\* create, the reads: the limit, and a search with the same filters.  Two
\* filters that match the same requests may still differ.
CheckSearch(s, filter, default) ==
    /\ search[s].at = "unused"
    /\ \A q \in 1 .. s - 1 : search[q].at # "unused"
    /\ \E same \in BOOLEAN :
          /\ same => \E q \in SavedRows : search[q].filter = filter
          /\ search' = [search EXCEPT ![s] =
                IF same \/ ~WithinLimit THEN [@ EXCEPT !.at = "refused"]
                ELSE [at |-> IF default THEN "clear" ELSE "insert",
                      row |-> FALSE, filter |-> filter, default |-> default, todo |-> {}]]
    /\ serial' = (serial /\ ~Busy)
    /\ UNCHANGED <<post, edit, inbox, excused, edits, mishaps>>

WithoutDefault(kept) ==
    [q \in Searches |-> IF search[q].row /\ q # kept
                        THEN [search[q] EXCEPT !.default = FALSE] ELSE search[q]]

ClearDefaults(s) ==
    /\ search[s].at = "clear"
    /\ search' = [WithoutDefault(s) EXCEPT ![s].at = "insert"]
    /\ UNCHANGED <<post, edit, serial, inbox, excused, edits, mishaps>>

\* The name may be taken: then the call is refused, with the old default gone.
InsertSearch(s) ==
    /\ search[s].at = "insert"
    /\ \/ search' = [search EXCEPT ![s] = [@ EXCEPT !.at = "stored", !.row = TRUE]]
       \/ /\ SavedRows # {}
          /\ search' = [search EXCEPT ![s] = [NoSearch EXCEPT !.at = "refused"]]
    /\ UNCHANGED <<post, edit, serial, inbox, excused, edits, mishaps>>

\* processMatchingAlertsForSavedSearch: of the newest hundred requests, the ones
\* that match.  Bound: there are not a hundred.
ScanPosts(s) ==
    /\ search[s].at = "stored"
    /\ search' = [search EXCEPT ![s] =
          [@ EXCEPT !.at = "scan",
                    !.todo = IF search[s].row THEN OfferedPosts \cap search[s].filter
                             ELSE {}]]
    /\ UNCHANGED <<post, edit, serial, inbox, excused, edits, mishaps>>

AlertOfScan(s) ==
    /\ search[s].at = "scan" /\ search[s].todo # {}
    /\ LET r == CHOOSE q \in search[s].todo : \A p \in search[s].todo : p <= q
       IN  /\ TryAlert(r)
           /\ search' = [search EXCEPT ![s].todo = @ \ {r}]
    /\ UNCHANGED <<post, edit, serial, edits>>

ScanEnds(s) ==
    /\ search[s].at = "scan" /\ search[s].todo = {}
    /\ SearchAt(s, "saved")
    /\ UNCHANGED <<post, edit, serial, inbox, excused, edits, mishaps>>

SavingDies(s) ==
    /\ search[s].at \in {"clear", "insert", "stored", "scan"}
    /\ mishaps < MaxMishaps
    /\ mishaps' = mishaps + 1
    /\ search' = [search EXCEPT ![s] =
          IF Writing(s) THEN [NoSearch EXCEPT !.at = "refused"]
          ELSE [@ EXCEPT !.at = "saved", !.todo = {}]]
    /\ excused' = excused \cup ({s} \X Posts)
    /\ UNCHANGED <<post, edit, serial, inbox, edits>>

\* update: other defaults are cleared first, then the row is written, unless
\* the new name is taken or the row is gone.
BeginUpdate(s, filter, default) ==
    /\ edit.at = "idle" /\ edits < MaxEdits
    /\ search[s].row
    /\ edits' = edits + 1
    /\ edit' = [at |-> IF default THEN "clear" ELSE "write",
                of |-> s, filter |-> filter, default |-> default]
    /\ serial' = (serial /\ ~Busy)
    /\ UNCHANGED <<post, search, inbox, excused, mishaps>>

UpdateClears ==
    /\ edit.at = "clear"
    /\ search' = WithoutDefault(edit.of)
    /\ edit' = [edit EXCEPT !.at = "write"]
    /\ UNCHANGED <<post, serial, inbox, excused, edits, mishaps>>

\* Requests that looked for searches before are not compared with the new filter.
UpdateWrites ==
    /\ edit.at = "write"
    /\ edit' = NoEdit
    /\ \/ /\ search[edit.of].row
          /\ \E kept \in BOOLEAN :
                search' = [search EXCEPT ![edit.of] =
                   [@ EXCEPT !.filter = edit.filter, !.default = edit.default \/ (kept /\ @)]]
          /\ excused' = excused \cup ({edit.of} \X
                {r \in Posts : post[r].at \in {"alert", "published"}})
       \/ /\ ~search[edit.of].row \/ Cardinality(SavedRows) > 1
          /\ UNCHANGED <<search, excused>>
    /\ UNCHANGED <<post, serial, inbox, edits, mishaps>>

\* setDefault is one transaction.
SetDefault(s) ==
    /\ search[s].row /\ edits < MaxEdits
    /\ edits' = edits + 1
    /\ search' = [WithoutDefault(s) EXCEPT ![s].default = TRUE]
    /\ serial' = (serial /\ ~Busy)
    /\ UNCHANGED <<post, edit, inbox, excused, mishaps>>

\* remove: a call that still scans for the row goes on.
RemoveSearch(s) ==
    /\ search[s].row /\ edits < MaxEdits
    /\ edits' = edits + 1
    /\ search' = [search EXCEPT ![s].row = FALSE]
    /\ UNCHANGED <<post, edit, serial, inbox, excused, mishaps>>

----------------------------------------------------------------------------
PostStep(r) ==
    \/ StorePost(r)
    \/ ReadSearches(r)
    \/ AlertOfPost(r)
    \/ PublishingDies(r)
    \/ WithdrawPost(r)

SearchStep(s) ==
    \/ \E f \in Filters, d \in BOOLEAN : CheckSearch(s, f, d) \/ BeginUpdate(s, f, d)
    \/ ClearDefaults(s)
    \/ InsertSearch(s)
    \/ ScanPosts(s)
    \/ AlertOfScan(s)
    \/ ScanEnds(s)
    \/ SavingDies(s)
    \/ SetDefault(s)
    \/ RemoveSearch(s)

AlertsNext ==
    \/ \E r \in Posts : PostStep(r)
    \/ \E s \in Searches : SearchStep(s)
    \/ UpdateClears
    \/ UpdateWrites
    \/ SetPreference
    \/ ClearInbox

AlertsSpec == AlertsInit /\ [][AlertsNext]_alertVars

----------------------------------------------------------------------------
(* Properties.                                                             *)

AlertsTypeOK ==
    /\ post \in [Posts -> [at : {"unpublished", "stored", "alert", "published"},
                           open : BOOLEAN]]
    /\ search \in [Searches ->
          [at : {"unused", "refused", "clear", "insert", "stored", "scan", "saved"},
           row : BOOLEAN, filter : Filters, default : BOOLEAN, todo : Filters]]
    /\ edit \in [at : {"idle", "clear", "write"}, of : Searches \cup {0},
                 filter : Filters, default : BOOLEAN]
    /\ rows \subseteq Posts
    /\ alerts \in [Posts -> Nat]
    /\ wanted \in BOOLEAN
    /\ excused \subseteq Searches \X Posts
    /\ serial \in BOOLEAN
    /\ clears \in Nat /\ edits \in Nat /\ mishaps \in Nat

\* A request and a search that match do not pass each other: when no call is
\* running, the seller has been alerted of every offered request that a search
\* matches, unless a notification failed or was not wanted, a call died, or the
\* filter was edited afterwards.
Settled ==
    /\ \A r \in Posts : post[r].at \in {"unpublished", "published"}
    /\ \A s \in Searches : search[s].at \in {"unused", "refused", "saved"}
    /\ edit.at = "idle"

NoMatchMissed ==
    Settled => \A s \in SavedRows, r \in OfferedPosts :
                  Matches(s, r) /\ <<s, r>> \notin excused => alerts[r] > 0

\* However many searches match, and although publishing and saving both alert,
\* the seller hears of a request once for each time the inbox is cleared.
AlertedOnce == \A r \in Posts : alerts[r] <= 1 + clears

\* Calls that do not overlap keep to the limit of the free plan.
LimitHoldsSerially == serial => Cardinality(SavedRows) <= MaxSmartAlerts

----------------------------------------------------------------------------
(* The inductive invariant behind the three.                               *)

\* Where the calls are: only a published request is offered, only a search whose
\* call has inserted it has a row, and an update is of some search.
CallsAreSound ==
    /\ \A r \in Posts : post[r].open => post[r].at # "unpublished"
    /\ \A s \in SavedRows : search[s].at \in {"stored", "scan", "saved"}
    /\ edit.at # "idle" => edit.of \in Searches

\* The seller was alerted of what the inbox has, and of nothing twice since the
\* inbox was cleared.
InboxInv ==
    \A r \in Posts : /\ r \in rows => alerts[r] > 0
                     /\ alerts[r] <= clears + IF r \in rows THEN 1 ELSE 0

\* One of the two calls still has to see the other's row, or to alert of it.
Pending(s, r) ==
    \/ post[r].at \in {"stored", "alert"}
    \/ search[s].at = "stored"
    \/ search[s].at = "scan" /\ r \in search[s].todo

PairsInv ==
    \A s \in SavedRows, r \in OfferedPosts :
        Matches(s, r) /\ <<s, r>> \notin excused => alerts[r] > 0 \/ Pending(s, r)

\* While calls do not overlap, one that passed the check is the only one, and
\* the place it saw is still free.
LimitInv ==
    serial => /\ Cardinality(SavedRows) <= MaxSmartAlerts
              /\ \A s \in Searches : Writing(s) =>
                    /\ Cardinality(SavedRows) < MaxSmartAlerts
                    /\ edit.at = "idle"
                    /\ \A q \in Searches : Writing(q) => q = s

AlertsInv ==
    /\ AlertsTypeOK
    /\ CallsAreSound
    /\ InboxInv
    /\ PairsInv
    /\ LimitInv

=============================================================================
