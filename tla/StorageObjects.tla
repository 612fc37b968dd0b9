--------------------------- MODULE StorageObjects ---------------------------
(***************************************************************************)
(* The images of one user: objects in the storage, rows that refer to them *)
(* by URL, and StorageObjectsService, which deletes what an update or a    *)
(* failed creation leaves behind.  The rows and the objects are written    *)
(* apart, and each table is counted by a query of its own.                 *)
(***************************************************************************)
EXTENDS Naturals, FiniteSets

CONSTANTS MaxUploads,           \* objects the user uploads
          StorageCalls,         \* calls of the API that run at the same time
          MaxStorageFailures    \* queries that fail and processes that die

VARIABLES
    uploads,           \* so many objects were uploaded: every key is new
    stored,            \* objects in the storage
    holds,             \* [Places -> URLs in the row]
    work,              \* [StorageCalls -> call]
    storageFailures,
    sentGone,          \* URLs a form sent when their object was gone already
    raced              \* a call attached an image while another counted its rows

storageVars == <<uploads, stored, holds, work, storageFailures, sentGone, raced>>

\* The user's row has two avatars; one request and one offer stand for all.
Places == {"buyerAvatar", "sellerAvatar", "request", "offer"}
Tables == {"user", "request", "offer"}
Urls == 1..MaxUploads
NoUrl == 0

Working == [at : {"idle", "write", "check", "delete"}, place : Places, creates : BOOLEAN,
            old : SUBSET Urls, new : SUBSET Urls, todo : SUBSET Urls,
            url : Urls \cup {NoUrl}, counted : SUBSET Tables]
Resting == [at |-> "idle", place |-> "request", creates |-> FALSE, old |-> {}, new |-> {},
            todo |-> {}, url |-> NoUrl, counted |-> {}]

StorageInit ==
    /\ uploads = 0
    /\ stored = {}
    /\ holds = [p \in Places |-> {}]
    /\ work = [c \in StorageCalls |-> Resting]
    /\ storageFailures = 0
    /\ sentGone = {}
    /\ raced = FALSE

\* What the query of one table finds.
Referenced_BuyersOnly(table, u) ==
    u \in holds[IF table = "user" THEN "buyerAvatar" ELSE table]

Referenced(table, u) ==
    IF table = "user" THEN u \in holds["buyerAvatar"] \cup holds["sellerAvatar"]
    ELSE u \in holds[table]

\* URLs that a call is about to attach while another one counts their references.
Attaches(c, u) == work[c].at = "write" /\ u \in work[c].new
Counts(c, u) == work[c].url = u
Racing == \E u \in Urls, c, d \in StorageCalls : Attaches(c, u) /\ Counts(d, u)

Step(c, next) ==
    /\ work' = [work EXCEPT ![c] = next]
    /\ raced' = Racing'

\* The loop over the URLs that may be left behind.
Check(c, todo) ==
    IF todo = {} THEN Resting ELSE [Resting EXCEPT !.at = "check", !.todo = todo]

-----------------------------------------------------------------------------
Upload ==
    /\ uploads < MaxUploads
    /\ uploads' = uploads + 1
    /\ stored' = stored \cup {uploads'}
    /\ UNCHANGED <<holds, work, storageFailures, sentGone, raced>>

\* The reads and checks of create, of update and of the three updates of a profile.
\* assertOwnedImageUrls looks at the shape and the owner of a URL, not for the object: a
\* form that is sent again after a failed creation attaches images that its compensation
\* deleted.  A row is created once.
ReadRow(c, p, urls) ==
    /\ work[c].at = "idle"
    /\ urls \subseteq 1..uploads
    /\ sentGone' = sentGone \cup (urls \ stored)
    /\ p \in {"buyerAvatar", "sellerAvatar"} => Cardinality(urls) <= 1
    /\ \E creates \in BOOLEAN :
          /\ p = "offer" => creates
          /\ creates => p \in {"request", "offer"} /\ holds[p] = {} /\ urls # {}
          /\ creates /\ p = "request" => \A d \in StorageCalls : ~(work[d].at = "write" /\ work[d].creates)
          /\ Step(c, [Resting EXCEPT !.at = "write", !.place = p, !.creates = creates,
                                     !.old = IF creates THEN {} ELSE holds[p], !.new = urls])
    /\ UNCHANGED <<uploads, stored, holds, storageFailures>>

\* The unique index of the offers lets one of two creations through.
Duplicate(c) == work[c].place = "offer" /\ holds["offer"] # {}

\* What the row had when it was read, and is not in it any more.
Removed(c) == work[c].old \ work[c].new

WriteRow(c) ==
    /\ work[c].at = "write" /\ ~Duplicate(c)
    /\ holds' = [holds EXCEPT ![work[c].place] = work[c].new]
    /\ Step(c, IF work[c].creates THEN Resting ELSE Check(c, Removed(c)))
    /\ UNCHANGED <<uploads, stored, storageFailures, sentGone>>

\* withCreateCompensation, and nothing for a failed update.
Compensated(c) == IF work[c].creates THEN Check(c, work[c].new) ELSE Resting

WriteRefused(c) ==
    /\ work[c].at = "write" /\ Duplicate(c)
    /\ Step(c, Compensated(c))
    /\ UNCHANGED <<uploads, stored, holds, storageFailures, sentGone>>

StorageFails ==
    /\ storageFailures < MaxStorageFailures
    /\ storageFailures' = storageFailures + 1

\* The caller sees an error, whether the row was committed or not.
WriteFails(c) ==
    /\ StorageFails
    /\ work[c].at = "write"
    /\ \/ UNCHANGED holds
       \/ ~Duplicate(c) /\ holds' = [holds EXCEPT ![work[c].place] = work[c].new]
    /\ Step(c, Compensated(c))
    /\ UNCHANGED <<uploads, stored, sentGone>>

\* isStorageUrlReferenced counts three tables at once, in any order.
CountTable(c, u, table) ==
    /\ work[c].at = "check" /\ u \in work[c].todo /\ work[c].url \in {u, NoUrl}
    /\ table \notin work[c].counted
    /\ LET counted == work[c].counted \cup {table} IN
       Step(c, IF Referenced(table, u) THEN Check(c, work[c].todo \ {u})
               ELSE [work[c] EXCEPT !.url = u, !.counted = counted,
                                    !.at = IF counted = Tables THEN "delete" ELSE "check"])
    /\ UNCHANGED <<uploads, stored, holds, storageFailures, sentGone>>

DeleteObject(c) ==
    /\ work[c].at = "delete"
    /\ stored' = stored \ {work[c].url}
    /\ Step(c, Check(c, work[c].todo \ {work[c].url}))
    /\ UNCHANGED <<uploads, holds, storageFailures, sentGone>>

\* The storage refuses: logged, and the loop goes on.
DeleteFails(c) ==
    /\ StorageFails
    /\ work[c].at = "delete"
    /\ Step(c, Check(c, work[c].todo \ {work[c].url}))
    /\ UNCHANGED <<uploads, stored, holds, sentGone>>

\* What was left to delete stays for good.
StorageDies(c) ==
    /\ StorageFails
    /\ work[c].at # "idle"
    /\ Step(c, Resting)
    /\ UNCHANGED <<uploads, stored, holds, sentGone>>

\* After a race nothing is promised: an image that was attached between the count of
\* its table and the deletion is gone.  No behaviour goes on from there.
StorageNext == ~raced /\
    \/ Upload
    \/ \E c \in StorageCalls :
          \/ \E p \in Places, urls \in SUBSET Urls : ReadRow(c, p, urls)
          \/ \E u \in Urls, table \in Tables : CountTable(c, u, table)
          \/ WriteRow(c) \/ WriteRefused(c) \/ WriteFails(c)
          \/ DeleteObject(c) \/ DeleteFails(c) \/ StorageDies(c)

StorageSpec == StorageInit /\ [][StorageNext]_storageVars

-----------------------------------------------------------------------------
(* Properties.                                                             *)

\* The service deletes no image under a row: what a row shows is there, unless a form
\* sent it when it was gone already.  That is whatever two calls of its owner do to the
\* rows: the same image in two places, updates that read the same row, an image that
\* moves from one table to another, a creation that failed after its commit.  The other
\* exception is an image attached by one call while another counts it.
NothingDangles == \A p \in Places : holds[p] \subseteq stored \cup sentGone
=============================================================================
