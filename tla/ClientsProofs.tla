--------------------------- MODULE ClientsProofs ---------------------------
(***************************************************************************)
(* Proofs about the clients of one user: the images it uploads, the        *)
(* session in the browser and the session on the phone, for any number of  *)
(* calls, tabs, requests and tokens.                                       *)
(***************************************************************************)
EXTENDS MobileSession, WebSession, StorageObjects, TLAPS

-----------------------------------------------------------------------------
(* Images.                                                                 *)

ImagesTypeOK == work \in [StorageCalls -> Working] /\ holds \in [Places -> SUBSET Urls]

\* A race is known at the step that begins it, and ends the behaviour.
RacedInv == raced = Racing

\* There, or gone before a form sent it.
Known == stored \cup sentGone

\* What a call is about to attach was sent by a form.
AttachableInv == \A c \in StorageCalls : work[c].at = "write" => work[c].new \subseteq Known

\* The tables a call has counted still do not refer to its URL, for nobody is about to
\* attach it; it deletes after it has counted all of them.
CountedInv ==
    \A c \in StorageCalls :
        /\ work[c].url # NoUrl => \A table \in work[c].counted : ~Referenced(table, work[c].url)
        /\ work[c].url = NoUrl => work[c].counted = {}
        /\ work[c].at = "delete" => work[c].url # NoUrl /\ work[c].counted = Tables

ImagesInv == ImagesTypeOK /\ RacedInv /\ AttachableInv /\ CountedInv /\ NothingDangles

\* What the loop over the URLs goes on with.
LEMMA CheckType ==
    ASSUME NEW c \in StorageCalls, NEW todo \in SUBSET Urls
    PROVE  /\ Check(c, todo) \in Working
           /\ Check(c, todo).at \in {"idle", "check"}
           /\ Check(c, todo).url = NoUrl /\ Check(c, todo).counted = {}
<1> DEFINE checking == [Resting EXCEPT !.at = "check", !.todo = todo]
<1>1. Resting \in Working /\ Resting.at = "idle" /\ Resting.url = NoUrl /\ Resting.counted = {}
  BY DEF Resting, Working, Places
<1>2. checking \in Working /\ checking.at = "check" /\ checking.url = NoUrl
      /\ checking.counted = {}
  BY DEF Resting, Working, Places
<1> QED
  BY <1>1, <1>2 DEF Check

\* A step of a call that writes no row and deletes nothing.
LEMMA QuietStep ==
    ASSUME ImagesInv, ~raced, NEW c \in StorageCalls, NEW next \in Working, Step(c, next),
           UNCHANGED <<stored, holds>>, sentGone \subseteq sentGone',
           next.at = "write" => next.new \subseteq Known',
           next.url # NoUrl => \A table \in next.counted : ~Referenced(table, next.url),
           next.url = NoUrl => next.counted = {},
           next.at = "delete" => next.url # NoUrl /\ next.counted = Tables
    PROVE  ImagesInv'
<1>1. /\ work \in [StorageCalls -> Working] /\ holds \in [Places -> SUBSET Urls]
      /\ work' = [work EXCEPT ![c] = next]
      /\ raced' = Racing'
  BY DEF ImagesInv, ImagesTypeOK, Step
<1>2. \A d \in StorageCalls : work'[d] = IF d = c THEN next ELSE work[d]
  BY <1>1
<1>3. ImagesTypeOK' /\ RacedInv'
  BY <1>1 DEF ImagesTypeOK, RacedInv
<1>4. AttachableInv'
  BY <1>2 DEF ImagesInv, AttachableInv, Known
<1>5. \A table, u : Referenced(table, u)' = Referenced(table, u)
  BY DEF Referenced
<1>6. ASSUME NEW d \in StorageCalls
      PROVE  /\ work'[d].url # NoUrl =>
                   \A table \in work'[d].counted : ~Referenced(table, work'[d].url)
             /\ work'[d].url = NoUrl => work'[d].counted = {}
             /\ work'[d].at = "delete" => work'[d].url # NoUrl /\ work'[d].counted = Tables
  BY <1>2 DEF ImagesInv, CountedInv
<1>7. CountedInv'
  BY <1>6 DEF CountedInv, Referenced
<1>8. NothingDangles'
  BY DEF ImagesInv, NothingDangles
<1> QED
  BY <1>3, <1>4, <1>7, <1>8 DEF ImagesInv

\* A step of a call that writes its row: nobody counts what it attaches.
LEMMA RowStep ==
    ASSUME ImagesInv, ~raced, NEW c \in StorageCalls, NEW todo \in SUBSET Urls,
           work[c].at = "write", Step(c, Check(c, todo)), stored' = stored,
           sentGone' = sentGone, holds' = [holds EXCEPT ![work[c].place] = work[c].new]
    PROVE  ImagesInv'
<1>1. /\ work \in [StorageCalls -> Working] /\ holds \in [Places -> SUBSET Urls]
      /\ ~Racing
  BY DEF ImagesInv, ImagesTypeOK, RacedInv
<1>2. PICK p \in Places, new \in SUBSET Urls : p = work[c].place /\ new = work[c].new
  BY <1>1 DEF Working
<1>3. /\ new \subseteq Known
      /\ \A q \in Places : holds'[q] = IF q = p THEN new ELSE holds[q]
  BY <1>1, <1>2 DEF ImagesInv, AttachableInv
<1>4. PICK next \in Working : /\ next = Check(c, todo)
                              /\ next.at \in {"idle", "check"} /\ next.url = NoUrl /\ next.counted = {}
  BY CheckType
<1>5. /\ \A d \in StorageCalls : work'[d] = IF d = c THEN next ELSE work[d]
      /\ work' \in [StorageCalls -> Working]
      /\ raced' = Racing'
  BY <1>1, <1>4 DEF Step
<1>6. ImagesTypeOK' /\ RacedInv'
  BY <1>1, <1>2, <1>5 DEF ImagesTypeOK, RacedInv
<1>7. AttachableInv'
  BY <1>4, <1>5 DEF ImagesInv, AttachableInv, Known
<1>8. ASSUME NEW d \in StorageCalls, d # c, work[d].url # NoUrl
      PROVE  work[d].url \notin new
  <2>1. work[d].url \in Urls
    BY <1>1, <1>8 DEF Working
  <2> QED
    BY <1>1, <1>2, <2>1 DEF Racing, Attaches, Counts
<1>9. ASSUME NEW d \in StorageCalls, work'[d].url # NoUrl, NEW table \in work'[d].counted
      PROVE  ~Referenced(table, work[d].url)'
  <2>1. d # c /\ work'[d] = work[d]
    BY <1>4, <1>5, <1>9
  <2>2. PICK u \in Urls : u = work[d].url
    BY <1>1, <1>9, <2>1 DEF Working
  <2>3. ~Referenced(table, u) /\ u \notin new /\ table \in Tables
    BY <1>1, <1>8, <1>9, <2>1, <2>2 DEF ImagesInv, CountedInv, Working
  <2>4. ~Referenced(table, u)'
    BY <1>3, <2>3 DEF Referenced, Places, Tables
  <2> QED
    BY <2>1, <2>2, <2>4 DEF Referenced
<1>10. CountedInv'
  BY <1>4, <1>5, <1>9 DEF ImagesInv, CountedInv
<1>11. NothingDangles'
  BY <1>3 DEF ImagesInv, NothingDangles, Known
<1> QED
  BY <1>6, <1>7, <1>10, <1>11 DEF ImagesInv

\* The object that a call deletes is in no row, and nobody is about to attach it.
LEMMA DeletionSafe ==
    ASSUME ImagesInv, ~raced, NEW c \in StorageCalls, DeleteObject(c)
    PROVE  ImagesInv'
<1>1. /\ work \in [StorageCalls -> Working] /\ holds \in [Places -> SUBSET Urls]
      /\ ~Racing
  BY DEF ImagesInv, ImagesTypeOK, RacedInv
<1>2. PICK u \in Urls : u = work[c].url
  BY <1>1 DEF DeleteObject, ImagesInv, CountedInv, Working
<1>3. \A table \in Tables : ~Referenced(table, u)
  BY <1>2 DEF DeleteObject, ImagesInv, CountedInv
<1>4. \A p \in Places : u \notin holds[p]
  BY <1>3 DEF Referenced, Tables, Places
<1>5. stored' = stored \ {u} /\ holds' = holds /\ sentGone' = sentGone
  BY <1>2 DEF DeleteObject
<1>6. \A d \in StorageCalls : work[d].at = "write" => u \notin work[d].new
  BY <1>1, <1>2 DEF Racing, Attaches, Counts
<1>7. work[c].todo \ {u} \in SUBSET Urls
  BY <1>1 DEF Working
<1>8. PICK next \in Working : /\ next = Check(c, work[c].todo \ {u})
                              /\ next.at \in {"idle", "check"} /\ next.url = NoUrl /\ next.counted = {}
  BY <1>7, CheckType
<1>9. /\ \A d \in StorageCalls : work'[d] = IF d = c THEN next ELSE work[d]
      /\ work' \in [StorageCalls -> Working]
      /\ raced' = Racing'
  BY <1>1, <1>2, <1>8 DEF DeleteObject, Step
<1>10. ImagesTypeOK' /\ RacedInv'
  BY <1>1, <1>5, <1>9 DEF ImagesTypeOK, RacedInv
<1>11. AttachableInv'
  BY <1>5, <1>6, <1>8, <1>9 DEF ImagesInv, AttachableInv, Known
<1>12. CountedInv'
  <2>1. \A table, v : Referenced(table, v)' = Referenced(table, v)
    BY <1>5 DEF Referenced
  <2>2. ASSUME NEW d \in StorageCalls, work'[d].url # NoUrl, NEW table \in work'[d].counted
        PROVE  ~Referenced(table, work[d].url)'
    <3>1. d # c /\ work'[d] = work[d]
      BY <1>8, <1>9, <2>2
    <3>2. PICK v : v = work[d].url
      OBVIOUS
    <3>3. ~Referenced(table, v)'
      BY <2>1, <2>2, <3>1, <3>2 DEF ImagesInv, CountedInv
    <3> QED
      BY <3>1, <3>2, <3>3 DEF Referenced
  <2> QED
    BY <1>8, <1>9, <2>2 DEF ImagesInv, CountedInv
<1>13. NothingDangles'
  BY <1>4, <1>5 DEF ImagesInv, NothingDangles
<1> QED
  BY <1>10, <1>11, <1>12, <1>13 DEF ImagesInv

\* Every step of the calls keeps the invariant of the images.
LEMMA ImagesNext ==
    ASSUME ImagesInv, [StorageNext]_storageVars
    PROVE  ImagesInv'
<1>0. work \in [StorageCalls -> Working] /\ holds \in [Places -> SUBSET Urls]
  BY DEF ImagesInv, ImagesTypeOK
<1>1. CASE UNCHANGED storageVars
  BY <1>1 DEF storageVars, ImagesInv, ImagesTypeOK, RacedInv, Racing, Attaches, Counts,
              AttachableInv, Known, CountedInv, Referenced, NothingDangles
<1>2. CASE StorageNext
  <2>0. ~raced
    BY <1>2 DEF StorageNext
  <2>1. CASE Upload
    <3>1. UNCHANGED <<holds, work, sentGone, raced>> /\ stored \subseteq stored'
      BY <2>1 DEF Upload
    <3> QED
      BY <3>1 DEF ImagesInv, ImagesTypeOK, RacedInv, Racing, Attaches, Counts,
                  AttachableInv, Known, CountedInv, Referenced, NothingDangles
  <2>2. ASSUME NEW c \in StorageCalls, NEW p \in Places, NEW urls \in SUBSET Urls,
               ReadRow(c, p, urls)
        PROVE  ImagesInv'
    <3>1. PICK creates \in BOOLEAN :
             Step(c, [Resting EXCEPT !.at = "write", !.place = p, !.creates = creates,
                                     !.old = IF creates THEN {} ELSE holds[p], !.new = urls])
      BY <2>2 DEF ReadRow
    <3> DEFINE next == [Resting EXCEPT !.at = "write", !.place = p, !.creates = creates,
                                       !.old = IF creates THEN {} ELSE holds[p], !.new = urls]
    <3>2. /\ next \in Working
          /\ next.at = "write" /\ next.new = urls /\ next.url = NoUrl /\ next.counted = {}
      BY <1>0 DEF Resting, Working
    <3>3. /\ Step(c, next) /\ UNCHANGED <<stored, holds>>
          /\ sentGone' = sentGone \cup (urls \ stored)
      BY <2>2, <3>1 DEF ReadRow
    <3> HIDE DEF next
    <3> QED
      BY <2>0, <3>2, <3>3, QuietStep DEF Known
  <2>3. ASSUME NEW c \in StorageCalls, WriteRow(c)
        PROVE  ImagesInv'
    <3>1. PICK todo \in SUBSET Urls :
             (IF work[c].creates THEN Resting ELSE Check(c, Removed(c))) = Check(c, todo)
      <4>1. Resting = Check(c, {})
        BY DEF Check
      <4>2. Removed(c) \in SUBSET Urls
        BY <1>0 DEF Removed, Working
      <4> QED
        BY <4>1, <4>2
    <3> QED
      BY <2>0, <2>3, <3>1, RowStep DEF WriteRow
  <2>4. ASSUME NEW c \in StorageCalls
        PROVE  \E todo \in SUBSET Urls : Compensated(c) = Check(c, todo)
    <3>1. Resting = Check(c, {})
      BY DEF Check
    <3>2. work[c].new \in SUBSET Urls
      BY <1>0 DEF Working
    <3> QED
      BY <3>1, <3>2 DEF Compensated
  <2>5. ASSUME NEW c \in StorageCalls, NEW todo \in SUBSET Urls, Step(c, Check(c, todo)),
               UNCHANGED <<stored, holds, sentGone>>
        PROVE  ImagesInv'
    <3>1. PICK next \in Working : /\ next = Check(c, todo)
                                  /\ next.at \in {"idle", "check"} /\ next.url = NoUrl /\ next.counted = {}
      BY CheckType
    <3> QED
      BY <2>0, <2>5, <3>1, QuietStep
  <2>6. ASSUME NEW c \in StorageCalls, WriteRefused(c) \/ WriteFails(c)
        PROVE  ImagesInv'
    <3>1. PICK todo \in SUBSET Urls : Compensated(c) = Check(c, todo)
      BY <2>4
    <3>2. /\ Step(c, Check(c, todo)) /\ UNCHANGED <<stored, sentGone>> /\ work[c].at = "write"
          /\ \/ holds' = holds
             \/ holds' = [holds EXCEPT ![work[c].place] = work[c].new]
      BY <2>6, <3>1 DEF WriteRefused, WriteFails
    <3> QED
      BY <2>0, <2>5, <3>2, RowStep
  <2>7. ASSUME NEW c \in StorageCalls, DeleteFails(c) \/ StorageDies(c)
        PROVE  ImagesInv'
    <3>1. Resting = Check(c, {})
      BY DEF Check
    <3>2. work[c].todo \ {work[c].url} \in SUBSET Urls
      BY <1>0 DEF Working
    <3>3. \E todo \in SUBSET Urls : Step(c, Check(c, todo))
      BY <2>7, <3>1, <3>2 DEF DeleteFails, StorageDies
    <3> QED
      BY <2>5, <2>7, <3>3 DEF DeleteFails, StorageDies
  <2>8. ASSUME NEW c \in StorageCalls, NEW u \in Urls, NEW table \in Tables,
               CountTable(c, u, table)
        PROVE  ImagesInv'
    <3> DEFINE counted == work[c].counted \cup {table}
               next == [work[c] EXCEPT !.url = u, !.counted = counted,
                                       !.at = IF counted = Tables THEN "delete" ELSE "check"]
    <3>1. work[c] \in Working /\ work[c].at = "check" /\ work[c].url \in {u, NoUrl}
      BY <1>0, <2>8 DEF CountTable
    <3>2. UNCHANGED <<stored, holds, sentGone>>
      BY <2>8 DEF CountTable
    <3>3. CASE Referenced(table, u)
      <4>1. Step(c, Check(c, work[c].todo \ {u}))
        BY <2>8, <3>3 DEF CountTable
      <4>2. work[c].todo \ {u} \in SUBSET Urls
        BY <3>1 DEF Working
      <4> QED
        BY <2>5, <3>2, <4>1, <4>2
    <3>4. CASE ~Referenced(table, u)
      <4>1. Step(c, next)
        BY <2>8, <3>4 DEF CountTable
      <4>2. /\ next \in Working
            /\ next.url = u /\ next.counted = counted
            /\ next.at = IF counted = Tables THEN "delete" ELSE "check"
        BY <3>1 DEF Working
      <4>3. u # NoUrl
        BY DEF Urls, NoUrl
      <4>4. \A other \in work[c].counted : ~Referenced(other, u)
        <5>1. CASE work[c].url = u
          BY <4>3, <5>1 DEF ImagesInv, CountedInv
        <5>2. CASE work[c].url = NoUrl
          BY <5>2 DEF ImagesInv, CountedInv
        <5> QED
          BY <3>1, <5>1, <5>2
      <4> HIDE DEF next
      <4> QED
        BY <2>0, <3>2, <3>4, <4>1, <4>2, <4>3, <4>4, QuietStep
    <3> QED
      BY <3>3, <3>4
  <2> QED
    BY <1>2, <2>0, <2>1, <2>2, <2>3, <2>6, <2>7, <2>8, DeletionSafe DEF StorageNext
<1> QED
  BY <1>1, <1>2

\* The invariant of the images.
THEOREM ImagesInvariance == StorageSpec => []ImagesInv
<1>1. StorageInit => ImagesInv
  <2>1. Resting \in Working /\ Resting.at = "idle" /\ Resting.url = NoUrl /\ Resting.counted = {}
    BY DEF Resting, Working, Places
  <2>2. ASSUME StorageInit
        PROVE  /\ \A c \in StorageCalls : work[c] = Resting
               /\ \A p \in Places : holds[p] = {}
               /\ work \in [StorageCalls -> Working] /\ holds \in [Places -> SUBSET Urls]
               /\ raced = FALSE
    BY <2>1, <2>2 DEF StorageInit
  <2>3. StorageInit => RacedInv
    <3>1. StorageInit => ~Racing
      BY <2>1, <2>2 DEF Racing, Attaches
    <3>2. Racing \in BOOLEAN
      BY DEF Racing
    <3> QED
      BY <2>2, <3>1, <3>2 DEF RacedInv
  <2> HIDE DEF Resting
  <2>4. ASSUME StorageInit
        PROVE  AttachableInv /\ CountedInv /\ NothingDangles
    <3>1. \A c \in StorageCalls :
             work[c].at = "idle" /\ work[c].url = NoUrl /\ work[c].counted = {}
      BY <2>1, <2>2, <2>4
    <3> QED
      BY <2>2, <2>4, <3>1 DEF AttachableInv, CountedInv, NothingDangles
  <2> QED
    BY <2>2, <2>3, <2>4 DEF ImagesInv, ImagesTypeOK
<1>2. ImagesInv /\ [StorageNext]_storageVars => ImagesInv'
  BY ImagesNext
<1> QED
  BY <1>1, <1>2, PTL DEF StorageSpec

\* The service deletes no image under a row (storage-objects.service.ts): it counts the
\* rows of every table before it deletes, and nothing attaches the image meanwhile.  What
\* a form sends when it is gone already (assertOwnedImageUrls) is not its doing.
THEOREM ImagesStay == StorageSpec => []NothingDangles
<1>1. ImagesInv => NothingDangles
  BY DEF ImagesInv
<1> QED
  BY <1>1, ImagesInvariance, PTL
-----------------------------------------------------------------------------
(* The server that both sessions stand on.                                 *)

\* What a statement of the server does to a request it serves: a refresh with a token
\* that is not valid is refused, and with "invalid" only such a one.
Served(r) ==
    /\ request[r].at \in {"read", "revoke", "issue"}
    /\ request'[r].at \in {"revoke", "issue", "answered"}
    /\ request'[r].kind = request[r].kind
    /\ request'[r].token \in {request[r].token, issued'}
    /\ request'[r].at = "answered" /\ request'[r].answer = "invalid" =>
         request[r].at = "read" /\ request[r].token \notin valid
    /\ request[r].at = "read" /\ request[r].kind = "refresh" /\ request[r].token \notin valid =>
         request'[r].at = "answered" /\ request'[r].answer # "ok"

\* An answer to a request; the rest of the record stays.
LEMMA ReplyType ==
    ASSUME ServerTypeOK, NEW r \in Requests, NEW answer \in Answers
    PROVE  /\ Reply(r, answer) \in RequestRecord
           /\ Reply(r, answer).at = "answered" /\ Reply(r, answer).answer = answer
           /\ Reply(r, answer).kind = request[r].kind /\ Reply(r, answer).token = request[r].token
BY DEF ServerTypeOK, RequestRecord, Reply

\* The look-up of a token and the check of the account.
LEMMA ReadTokenServes ==
    ASSUME ServerTypeOK, NEW r \in Requests, ReadToken(r)
    PROVE  \E rec \in RequestRecord : request' = [request EXCEPT ![r] = rec] /\ Served(r)
<1> DEFINE kind == request[r].kind
           known == request[r].token \in valid
           onward(at) == [request[r] EXCEPT !.at = at]
           next == CASE kind = "refresh" /\ ~known -> Reply(r, "invalid")
                     [] kind # "logout" /\ (kind = "login" \/ known) /\ ~active -> Reply(r, "forbidden")
                     [] kind = "logout" /\ ~known -> Reply(r, "ok")
                     [] kind = "login" -> onward("issue")
                     [] OTHER -> onward("revoke")
<1>1. /\ request \in [Requests -> RequestRecord]
      /\ request[r].at = "read"
      /\ request' = [request EXCEPT ![r] = next]
      /\ request[r] \in RequestRecord /\ kind \in Kinds
  BY DEF ServerTypeOK, ReadToken, RequestRecord
<1>2. ASSUME NEW at \in {"issue", "revoke"}
      PROVE  /\ onward(at) \in RequestRecord
             /\ onward(at).at = at /\ onward(at).kind = kind /\ onward(at).token = request[r].token
  BY <1>1 DEF RequestRecord
<1>3. "invalid" \in Answers /\ "forbidden" \in Answers /\ "ok" \in Answers
  BY DEF Answers
<1> HIDE DEF onward
<1>4. \/ next = Reply(r, "invalid") /\ ~known
      \/ next = Reply(r, "forbidden") /\ (kind = "refresh" => known)
      \/ next = Reply(r, "ok") /\ kind = "logout"
      \/ next = onward("issue") /\ kind = "login"
      \/ next = onward("revoke") /\ (kind = "refresh" => known)
  BY <1>1 DEF Kinds
<1> HIDE DEF next
<1>5. /\ next \in RequestRecord
      /\ next.at \in {"revoke", "issue", "answered"}
      /\ next.kind = kind /\ next.token = request[r].token
      /\ next.at = "answered" /\ next.answer = "invalid" => ~known
      /\ kind = "refresh" /\ ~known => next.at = "answered" /\ next.answer # "ok"
  BY <1>2, <1>3, <1>4, ReplyType
<1>6. request'[r] = next
  BY <1>1
<1> QED
  BY <1>1, <1>5, <1>6 DEF Served

\* The statements that write.
LEMMA OtherStatementsServe ==
    ASSUME ServerTypeOK, NEW r \in Requests, RevokeToken(r) \/ IssueToken(r) \/ RequestFails(r)
    PROVE  \E rec \in RequestRecord : request' = [request EXCEPT ![r] = rec] /\ Served(r)
<1>1. /\ request \in [Requests -> RequestRecord] /\ request[r] \in RequestRecord
      /\ issued \in 0..MaxTokens /\ MaxTokens \in Nat
  BY TokensAssumption DEF ServerTypeOK
<1>2. "failed" \in Answers /\ "ok" \in Answers
  BY DEF Answers
<1> DEFINE onward == [request[r] EXCEPT !.at = "issue"]
<1>3. /\ onward \in RequestRecord
      /\ onward.at = "issue" /\ onward.kind = request[r].kind /\ onward.token = request[r].token
  BY <1>1 DEF RequestRecord
<1>4. CASE RevokeToken(r)
  <2> DEFINE next == IF request[r].kind = "logout" THEN Reply(r, "ok") ELSE onward
  <2>1. request' = [request EXCEPT ![r] = next] /\ request[r].at = "revoke"
    BY <1>1, <1>4 DEF RevokeToken
  <2>2. /\ next \in RequestRecord
        /\ next.at \in {"issue", "answered"}
        /\ next.at = "answered" => next.answer = "ok"
        /\ next.kind = request[r].kind /\ next.token = request[r].token
    <3> HIDE DEF onward
    <3> QED
      BY <1>2, <1>3, ReplyType
  <2> HIDE DEF next
  <2>3. request'[r] = next
    BY <1>1, <2>1
  <2> QED
    BY <2>1, <2>2, <2>3 DEF Served
<1>5. CASE IssueToken(r)
  <2> DEFINE next == [Reply(r, "ok") EXCEPT !.token = issued']
  <2>1. request' = [request EXCEPT ![r] = next] /\ request[r].at = "issue"
    BY <1>5 DEF IssueToken
  <2>2. issued' \in 0..MaxTokens
    BY <1>1, <1>5 DEF IssueToken
  <2>3. /\ next \in RequestRecord
        /\ next.at = "answered" /\ next.answer = "ok"
        /\ next.kind = request[r].kind /\ next.token = issued'
    BY <1>2, <2>2, ReplyType DEF RequestRecord
  <2> HIDE DEF next
  <2>4. request'[r] = next
    BY <1>1, <2>1
  <2> QED
    BY <2>1, <2>3, <2>4 DEF Served
<1>6. CASE RequestFails(r)
  <2>1. PICK next \in RequestRecord :
          /\ next = Reply(r, "failed")
          /\ next.at = "answered" /\ next.answer = "failed"
          /\ next.kind = request[r].kind /\ next.token = request[r].token
    BY <1>2, ReplyType
  <2>2. request' = [request EXCEPT ![r] = next] /\ request[r].at \in {"read", "revoke", "issue"}
    BY <1>6, <2>1 DEF RequestFails
  <2>3. request'[r] = next
    BY <1>1, <2>2
  <2>4. request[r].at = "read" => next.answer # "ok" /\ next.answer # "invalid"
    BY <2>1
  <2> QED
    BY <2>1, <2>2, <2>3 DEF Served
<1> QED
  BY <1>4, <1>5, <1>6

\* A token is valid only after it was issued: one that is not valid never is again.
LEMMA ServerEffect ==
    ASSUME ServerTypeOK, ServerNext
    PROVE  /\ ServerTypeOK'
           /\ issued <= issued'
           /\ \A t \in 0..issued : t \notin valid => t \notin valid'
           /\ \A r \in Requests : request'[r] = request[r] \/ Served(r)
<1>1. /\ request \in [Requests -> RequestRecord]
      /\ issued \in 0..MaxTokens /\ MaxTokens \in Nat /\ MaxFailures \in Nat
      /\ valid \subseteq 1..issued /\ active \in BOOLEAN /\ failures \in 0..MaxFailures
  BY TokensAssumption DEF ServerTypeOK
<1>2. ASSUME NEW r \in Requests, ServerStep(r) \/ RequestFails(r)
      PROVE  /\ request' \in [Requests -> RequestRecord]
             /\ \A q \in Requests : request'[q] = request[q] \/ Served(q)
  <2>1. PICK rec \in RequestRecord : request' = [request EXCEPT ![r] = rec] /\ Served(r)
    BY <1>2, ReadTokenServes, OtherStatementsServe DEF ServerStep
  <2> QED
    BY <1>1, <2>1
<1>3. ASSUME NEW r \in Requests, ServerStep(r) \/ RequestFails(r)
      PROVE  /\ issued' \in 0..MaxTokens /\ issued <= issued' /\ active' = active
             /\ valid' \subseteq 1..issued'
             /\ \A t \in 0..issued : t \notin valid => t \notin valid'
             /\ failures' \in 0..MaxFailures
  <2>1. CASE ReadToken(r) \/ RevokeToken(r)
    <3>1. issued' = issued /\ active' = active /\ failures' = failures /\ valid' \subseteq valid
      BY <2>1 DEF ReadToken, RevokeToken
    <3> QED
      BY <1>1, <3>1
  <2>2. CASE IssueToken(r)
    <3>1. issued' = issued + 1 /\ issued < MaxTokens /\ active' = active /\ failures' = failures
          /\ valid' = valid \cup {issued'}
      BY <2>2 DEF IssueToken
    <3> QED
      BY <1>1, <3>1
  <2>3. CASE RequestFails(r)
    BY <1>1, <2>3 DEF RequestFails
  <2> QED
    BY <1>3, <2>1, <2>2, <2>3 DEF ServerStep
<1>4. ASSUME ResetPassword \/ AccountChanges \/ (\E t \in valid : TokenExpires(t))
      PROVE  /\ UNCHANGED <<issued, request, failures>>
             /\ valid' \subseteq valid
             /\ active' \in BOOLEAN
  BY <1>1, <1>4 DEF ResetPassword, AccountChanges, TokenExpires
<1>5. CASE ResetPassword \/ AccountChanges \/ (\E t \in valid : TokenExpires(t))
  <2>1. UNCHANGED <<issued, request, failures>> /\ valid' \subseteq valid /\ active' \in BOOLEAN
    BY <1>4, <1>5
  <2>2. issued \in Nat
    BY <1>1
  <2>3. ServerTypeOK'
    BY <1>1, <2>1 DEF ServerTypeOK
  <2> QED
    BY <2>1, <2>2, <2>3
<1>6. CASE \E r \in Requests : ServerStep(r) \/ RequestFails(r)
  BY <1>1, <1>2, <1>3, <1>6 DEF ServerTypeOK
<1> QED
  BY <1>5, <1>6 DEF ServerNext

\* A request is sent.
LEMMA SentEffect ==
    ASSUME ServerTypeOK, NEW r \in Requests, NEW kind \in Kinds, NEW t \in 0..MaxTokens,
           request' = [request EXCEPT ![r] = Sent(kind, t)],
           UNCHANGED <<issued, valid, active, failures>>
    PROVE  /\ ServerTypeOK'
           /\ request'[r].at = "read" /\ request'[r].kind = kind /\ request'[r].token = t
           /\ \A q \in Requests : q # r => request'[q] = request[q]
<1>1. /\ Sent(kind, t) \in RequestRecord
      /\ Sent(kind, t).at = "read" /\ Sent(kind, t).kind = kind /\ Sent(kind, t).token = t
  BY DEF Sent, NoRequest, RequestRecord, Answers
<1>2. request \in [Requests -> RequestRecord]
  BY DEF ServerTypeOK
<1>3. PICK rec \in RequestRecord :
        /\ rec = Sent(kind, t)
        /\ rec.at = "read" /\ rec.kind = kind /\ rec.token = t
  BY <1>1
<1>4. /\ request' \in [Requests -> RequestRecord]
      /\ request'[r] = rec /\ \A q \in Requests : q # r => request'[q] = request[q]
  BY <1>2, <1>3
<1> QED
  BY <1>3, <1>4 DEF ServerTypeOK

\* A request is over, or never reached the server.
LEMMA ReceivedEffect ==
    ASSUME ServerTypeOK, NEW r, request' = [request EXCEPT ![r] = NoRequest],
           UNCHANGED <<issued, valid, active>>, failures' \in 0..MaxFailures
    PROVE  /\ ServerTypeOK'
           /\ \A q \in Requests : q # r => request'[q] = request[q]
           /\ r \in Requests => request'[r].at = "none" /\ request'[r].token = NoToken
<1>1. NoRequest \in RequestRecord /\ NoRequest.at = "none" /\ NoRequest.token = NoToken
  <2>1. MaxTokens \in Nat
    BY TokensAssumption
  <2> QED
    BY <2>1 DEF NoRequest, RequestRecord, Answers, Kinds, NoToken
<1>2. request \in [Requests -> RequestRecord]
  BY DEF ServerTypeOK
<1> HIDE DEF NoRequest
<1>3. /\ request' \in [Requests -> RequestRecord]
      /\ \A q \in Requests : q # r => request'[q] = request[q]
      /\ r \in Requests => request'[r] = NoRequest
  BY <1>1, <1>2
<1> QED
  BY <1>1, <1>3 DEF ServerTypeOK
-----------------------------------------------------------------------------
(* The session in the browser.                                             *)

\* The requests a tab waits for.
Slots(rec) == {rec.refresh, rec.login, rec.logout}

\* A tab waits for requests of its own, each of the kind it waits for, that are not over.
SlotsInv ==
    /\ \A t \in Tabs :
          /\ tab[t].refresh # NoAnswer =>
                request[tab[t].refresh].kind = "refresh" /\ ~Free(tab[t].refresh)
          /\ tab[t].login # NoAnswer =>
                request[tab[t].login].kind = "login" /\ ~Free(tab[t].login)
          /\ tab[t].logout # NoAnswer =>
                request[tab[t].logout].kind = "logout" /\ ~Free(tab[t].logout)
    /\ \A t, q \in Tabs : t # q =>
          /\ tab[t].refresh = tab[q].refresh => tab[t].refresh = NoAnswer
          /\ tab[t].login = tab[q].login => tab[t].login = NoAnswer
          /\ tab[t].logout = tab[q].logout => tab[t].logout = NoAnswer

\* Nothing but the logout is under way.
LoneLogoutInv == alone => \A t \in Tabs : tab[t].refresh = NoAnswer /\ tab[t].login = NoAnswer

\* A request that was sent without a token, or refused: nothing good comes of it.
Hopeless(r) ==
    \/ request[r].at = "read" /\ request[r].token = NoToken
    \/ request[r].at = "answered" /\ request[r].answer # "ok"

\* What brings a session back is a token, and after the logout there is none: not in the
\* cookie, and not with a request under way.
LeftInv ==
    left => /\ ~access /\ cookie = NoToken
            /\ \A t \in Tabs : /\ tab[t].login = NoAnswer
                               /\ tab[t].refresh # NoAnswer => Hopeless(tab[t].refresh)

WebInv == WebTypeOK /\ SlotsInv /\ LoneLogoutInv /\ LeftInv

\* The types, as the steps below use them.
LEMMA TabTypes ==
    ASSUME WebTypeOK, NEW t \in Tabs
    PROVE  /\ ServerTypeOK /\ tab \in [Tabs -> TabRecord] /\ tab[t] \in TabRecord
           /\ request \in [Requests -> RequestRecord] /\ MaxTokens \in Nat
           /\ cookie \in 0..MaxTokens /\ access \in BOOLEAN /\ alone \in BOOLEAN /\ left \in BOOLEAN
           /\ {tab[t].refresh, tab[t].login, tab[t].logout} \subseteq Requests \cup {NoAnswer}
BY TokensAssumption DEF WebTypeOK, ServerTypeOK, TabRecord

\* A step of one tab: it may send a request, and what it waited for may be over.
LEMMA TabStep ==
    ASSUME WebInv, NEW t \in Tabs, NEW next \in TabRecord, tab' = [tab EXCEPT ![t] = next],
           ServerTypeOK', cookie' \in 0..MaxTokens,
           access' \in BOOLEAN, alone' \in BOOLEAN, left' \in BOOLEAN,
           \A r \in Requests : \/ request'[r] = request[r]
                               \/ Free(r)
                               \/ r \in Slots(tab[t]) /\ r \notin Slots(next),
           next.refresh # NoAnswer /\ next.refresh # tab[t].refresh =>
               /\ Free(next.refresh) /\ request'[next.refresh].kind = "refresh"
               /\ request'[next.refresh].at # "none",
           next.login # NoAnswer /\ next.login # tab[t].login =>
               /\ Free(next.login) /\ request'[next.login].kind = "login"
               /\ request'[next.login].at # "none",
           next.logout # NoAnswer /\ next.logout # tab[t].logout =>
               /\ Free(next.logout) /\ request'[next.logout].kind = "logout"
               /\ request'[next.logout].at # "none",
           alone' => \A q \in Tabs : (IF q = t THEN next ELSE tab[q]).refresh = NoAnswer
                                  /\ (IF q = t THEN next ELSE tab[q]).login = NoAnswer,
           left' => /\ ~access' /\ cookie' = NoToken
                    /\ next.login = NoAnswer
                    /\ next.refresh # NoAnswer =>
                         \/ request'[next.refresh].at = "read" /\ request'[next.refresh].token = NoToken
                         \/ request'[next.refresh].at = "answered" /\ request'[next.refresh].answer # "ok"
                    /\ \A q \in Tabs \ {t} :
                         /\ tab[q].login = NoAnswer
                         /\ tab[q].refresh # NoAnswer => Hopeless(tab[q].refresh)
    PROVE  WebInv'
<1>1. tab \in [Tabs -> TabRecord]
  BY DEF WebInv, WebTypeOK
<1>2. \A q \in Tabs : tab'[q] = IF q = t THEN next ELSE tab[q]
  BY <1>1
<1>3. tab' \in [Tabs -> TabRecord]
  BY <1>1
<1>4. WebTypeOK'
  BY <1>3 DEF WebTypeOK
<1>5. /\ {next.refresh, next.login, next.logout} \subseteq Requests \cup {NoAnswer}
      /\ \A q \in Tabs : {tab[q].refresh, tab[q].login, tab[q].logout} \subseteq Requests \cup {NoAnswer}
  BY <1>1 DEF TabRecord
<1>6. ASSUME NEW q \in Tabs \ {t}
      PROVE  /\ tab[q].refresh # NoAnswer => request'[tab[q].refresh] = request[tab[q].refresh]
             /\ tab[q].login # NoAnswer => request'[tab[q].login] = request[tab[q].login]
             /\ tab[q].logout # NoAnswer => request'[tab[q].logout] = request[tab[q].logout]
  BY <1>5 DEF WebInv, SlotsInv, Slots, Free
<1>7. /\ next.refresh # NoAnswer =>
            request'[next.refresh].kind = "refresh" /\ request'[next.refresh].at # "none"
      /\ next.login # NoAnswer =>
            request'[next.login].kind = "login" /\ request'[next.login].at # "none"
      /\ next.logout # NoAnswer =>
            request'[next.logout].kind = "logout" /\ request'[next.logout].at # "none"
  BY <1>5 DEF WebInv, SlotsInv, Slots, Free
<1>8. ASSUME NEW q \in Tabs
      PROVE  /\ tab'[q].refresh # NoAnswer =>
                   request'[tab'[q].refresh].kind = "refresh" /\ request'[tab'[q].refresh].at # "none"
             /\ tab'[q].login # NoAnswer =>
                   request'[tab'[q].login].kind = "login" /\ request'[tab'[q].login].at # "none"
             /\ tab'[q].logout # NoAnswer =>
                   request'[tab'[q].logout].kind = "logout" /\ request'[tab'[q].logout].at # "none"
  <2>1. CASE q = t
    BY <1>2, <1>7, <2>1
  <2>2. CASE q # t
    BY <1>2, <1>6, <2>2 DEF WebInv, SlotsInv, Free
  <2> QED
    BY <2>1, <2>2
<1>9. ASSUME NEW p \in Tabs, NEW q \in Tabs, p # q
      PROVE  /\ tab'[p].refresh = tab'[q].refresh => tab'[p].refresh = NoAnswer
             /\ tab'[p].login = tab'[q].login => tab'[p].login = NoAnswer
             /\ tab'[p].logout = tab'[q].logout => tab'[p].logout = NoAnswer
  BY <1>2, <1>9 DEF WebInv, SlotsInv, Free
<1>10. SlotsInv'
  BY <1>8, <1>9 DEF SlotsInv, Free
<1>11. LoneLogoutInv'
  BY <1>2 DEF LoneLogoutInv
<1>12. ASSUME left', NEW q \in Tabs
       PROVE  /\ tab'[q].login = NoAnswer
              /\ tab'[q].refresh # NoAnswer =>
                   \/ request'[tab'[q].refresh].at = "read" /\ request'[tab'[q].refresh].token = NoToken
                   \/ request'[tab'[q].refresh].at = "answered" /\ request'[tab'[q].refresh].answer # "ok"
  <2>1. CASE q = t
    BY <1>2, <1>12, <2>1
  <2>2. CASE q # t
    BY <1>2, <1>6, <1>12, <2>2 DEF Hopeless
  <2> QED
    BY <2>1, <2>2
<1>13. LeftInv'
  BY <1>12 DEF LeftInv, Hopeless, NoToken
<1> QED
  BY <1>4, <1>10, <1>11, <1>13 DEF WebInv

\* A step of the server: what is hopeless stays so.
LEMMA ServerKeepsWebInv ==
    ASSUME WebInv, ServerNext, UNCHANGED browser
    PROVE  WebInv'
<1>1. /\ ServerTypeOK /\ tab \in [Tabs -> TabRecord] /\ tab' = tab
      /\ UNCHANGED <<access, cookie, alone, left>>
      /\ valid \subseteq 1..issued
  BY DEF WebInv, WebTypeOK, ServerTypeOK, browser
<1>2. ServerTypeOK' /\ \A r \in Requests : request'[r] = request[r] \/ Served(r)
  BY <1>1, ServerEffect
<1>3. \A t \in Tabs : {tab[t].refresh, tab[t].login, tab[t].logout} \subseteq Requests \cup {NoAnswer}
  BY <1>1 DEF TabRecord
<1>4. ASSUME NEW r \in Requests
      PROVE  /\ request'[r].kind = request[r].kind
             /\ request[r].at # "none" => request'[r].at # "none"
             /\ request[r].kind = "refresh" /\ Hopeless(r) =>
                  \/ request'[r].at = "read" /\ request'[r].token = NoToken
                  \/ request'[r].at = "answered" /\ request'[r].answer # "ok"
  <2>1. NoToken \notin valid
    BY <1>1 DEF NoToken
  <2>2. CASE Served(r)
    BY <2>1, <2>2 DEF Served, Hopeless
  <2> QED
    BY <1>2, <2>2 DEF Hopeless
<1>5. WebTypeOK'
  BY <1>1, <1>2 DEF WebInv, WebTypeOK
<1>6. SlotsInv'
  BY <1>1, <1>3, <1>4 DEF WebInv, SlotsInv, Free
<1>7. LoneLogoutInv'
  BY <1>1 DEF WebInv, LoneLogoutInv
<1>8. LeftInv'
  <2>1. ASSUME left, NEW t \in Tabs, tab[t].refresh # NoAnswer
        PROVE  \/ request'[tab[t].refresh].at = "read" /\ request'[tab[t].refresh].token = NoToken
               \/ request'[tab[t].refresh].at = "answered" /\ request'[tab[t].refresh].answer # "ok"
    BY <1>3, <1>4, <2>1 DEF WebInv, SlotsInv, LeftInv
  <2> QED
    BY <1>1, <2>1 DEF WebInv, LeftInv, Hopeless, NoToken
<1> QED
  BY <1>5, <1>6, <1>7, <1>8 DEF WebInv

\* The answer that nobody waits for.
LEMMA ForgottenKeepsWebInv ==
    ASSUME WebInv, NEW r \in Requests, Forgotten(r)
    PROVE  WebInv'
<1>1. /\ ServerTypeOK /\ tab \in [Tabs -> TabRecord] /\ tab' = tab
      /\ UNCHANGED <<access, cookie, alone, left>>
      /\ failures \in 0..MaxFailures
  BY DEF WebInv, WebTypeOK, ServerTypeOK, Forgotten, browser
<1>2. ServerTypeOK' /\ \A q \in Requests : q # r => request'[q] = request[q]
  BY <1>1, ReceivedEffect DEF Forgotten
<1>3. \A t \in Tabs : {tab[t].refresh, tab[t].login, tab[t].logout}
                        \subseteq (Requests \ {r}) \cup {NoAnswer}
  BY <1>1 DEF TabRecord, Forgotten
<1>4. WebTypeOK'
  BY <1>1, <1>2 DEF WebInv, WebTypeOK
<1>5. SlotsInv'
  BY <1>1, <1>2, <1>3 DEF WebInv, SlotsInv, Free
<1>6. LoneLogoutInv'
  BY <1>1 DEF WebInv, LoneLogoutInv
<1>7. LeftInv'
  BY <1>1, <1>2, <1>3 DEF WebInv, LeftInv, Hopeless, NoToken
<1> QED
  BY <1>4, <1>5, <1>6, <1>7 DEF WebInv
\* Nothing is sent and nothing received.
LEMMA ServerStays ==
    ASSUME ServerTypeOK, UNCHANGED server
    PROVE  ServerTypeOK' /\ request' = request
BY DEF ServerTypeOK, server

\* A call of a screen, and its answer; a 403 takes the access token away.
LEMMA CallsKeepWebInv ==
    ASSUME WebInv, NEW t \in Tabs, WebCall(t) \/ WebCallReturns(t) \/ WebCallForbidden(t)
    PROVE  WebInv'
<1>1. /\ WebTypeOK /\ ServerTypeOK /\ tab \in [Tabs -> TabRecord] /\ tab[t] \in TabRecord
      /\ cookie \in 0..MaxTokens /\ access \in BOOLEAN /\ alone \in BOOLEAN /\ left \in BOOLEAN
  BY TabTypes DEF WebInv
<1>2. PICK call \in {"idle", "sent"}, with \in BOOLEAN :
        tab' = [tab EXCEPT ![t].call = call, ![t].with = with]
  BY <1>1 DEF WebCall, WebCallReturns, WebCallForbidden
<1> DEFINE next == [tab[t] EXCEPT !.call = call, !.with = with]
<1>3. next \in TabRecord
  BY <1>1 DEF TabRecord
<1>4. next.refresh = tab[t].refresh /\ next.login = tab[t].login /\ next.logout = tab[t].logout
  BY <1>1 DEF TabRecord
<1>5. tab' = [tab EXCEPT ![t] = next]
  BY <1>1, <1>2
<1>6. /\ UNCHANGED server /\ UNCHANGED <<cookie, alone, left>>
      /\ access' = access \/ access' = FALSE
  <2>1. WebCall(t) \/ WebCallReturns(t) => UNCHANGED server /\ UNCHANGED <<access, cookie, alone, left>>
    BY DEF WebCall, WebCallReturns
  <2>2. WebCallForbidden(t) =>
          UNCHANGED server /\ UNCHANGED <<cookie, alone, left>> /\ access' = FALSE
    BY DEF WebCallForbidden
  <2> QED
    BY <2>1, <2>2
<1>7. ServerTypeOK' /\ request' = request
  BY <1>1, <1>6, ServerStays
<1> HIDE DEF next
<1>8. alone' => \A q \in Tabs : (IF q = t THEN next ELSE tab[q]).refresh = NoAnswer
                             /\ (IF q = t THEN next ELSE tab[q]).login = NoAnswer
  BY <1>4, <1>6 DEF WebInv, LoneLogoutInv
<1>9. left' => /\ ~access' /\ cookie' = NoToken
               /\ next.login = NoAnswer
               /\ next.refresh # NoAnswer =>
                    \/ request'[next.refresh].at = "read" /\ request'[next.refresh].token = NoToken
                    \/ request'[next.refresh].at = "answered" /\ request'[next.refresh].answer # "ok"
               /\ \A q \in Tabs \ {t} :
                    /\ tab[q].login = NoAnswer
                    /\ tab[q].refresh # NoAnswer => Hopeless(tab[q].refresh)
  BY <1>4, <1>6, <1>7 DEF WebInv, LeftInv, Hopeless
<1>10. access' \in BOOLEAN
  BY <1>1, <1>6
<1> QED
  BY <1>1, <1>3, <1>4, <1>5, <1>6, <1>7, <1>8, <1>9, <1>10, TabStep

\* A refresh after a 401: with no cookie it is hopeless.
LEMMA UnauthorizedKeepsWebInv ==
    ASSUME WebInv, NEW t \in Tabs, WebCallUnauthorized(t)
    PROVE  WebInv'
<1>1. /\ WebTypeOK /\ ServerTypeOK /\ tab \in [Tabs -> TabRecord] /\ tab[t] \in TabRecord
      /\ cookie \in 0..MaxTokens /\ access \in BOOLEAN /\ left \in BOOLEAN
  BY TabTypes DEF WebInv
<1>2. PICK r \in Requests :
        /\ Fetch(r, "refresh", cookie)
        /\ tab' = [tab EXCEPT ![t].call = "waits", ![t].with = FALSE, ![t].refresh = r]
  BY DEF WebCallUnauthorized
<1> DEFINE next == [tab[t] EXCEPT !.call = "waits", !.with = FALSE, !.refresh = r]
<1>3. next \in TabRecord
  BY <1>1 DEF TabRecord
<1>4. next.refresh = r /\ next.login = tab[t].login /\ next.logout = tab[t].logout
  BY <1>1 DEF TabRecord
<1>5. tab' = [tab EXCEPT ![t] = next]
  BY <1>1, <1>2
<1>6. UNCHANGED <<access, cookie, left>> /\ alone' = FALSE
  BY DEF WebCallUnauthorized
<1>7. /\ ServerTypeOK' /\ Free(r)
      /\ request'[r].at = "read" /\ request'[r].kind = "refresh" /\ request'[r].token = cookie
      /\ \A q \in Requests : q # r => request'[q] = request[q]
  BY <1>1, <1>2, SentEffect DEF Fetch, Kinds
<1> HIDE DEF next
<1>8. left' => /\ ~access' /\ cookie' = NoToken
               /\ next.login = NoAnswer
               /\ next.refresh # NoAnswer =>
                    \/ request'[next.refresh].at = "read" /\ request'[next.refresh].token = NoToken
                    \/ request'[next.refresh].at = "answered" /\ request'[next.refresh].answer # "ok"
               /\ \A q \in Tabs \ {t} :
                    /\ tab[q].login = NoAnswer
                    /\ tab[q].refresh # NoAnswer => Hopeless(tab[q].refresh)
  BY <1>4, <1>6, <1>7 DEF WebInv, LeftInv
<1>9. request'[next.refresh].at # "none" /\ request'[next.refresh].kind = "refresh" /\ Free(next.refresh)
  BY <1>4, <1>7
<1> QED
  BY <1>1, <1>3, <1>4, <1>5, <1>6, <1>7, <1>8, <1>9, TabStep

\* A login or a logout is sent: no logout is behind the user any more.
LEMMA AskingKeepsWebInv ==
    ASSUME WebInv, NEW t \in Tabs, WebLogin(t) \/ WebLogout(t)
    PROVE  WebInv'
<1>1. /\ WebTypeOK /\ ServerTypeOK /\ tab \in [Tabs -> TabRecord] /\ tab[t] \in TabRecord
      /\ cookie \in 0..MaxTokens /\ access \in BOOLEAN /\ NoToken \in 0..MaxTokens
  BY TabTypes DEF WebInv, NoToken
<1>2. UNCHANGED <<access, cookie>> /\ left' = FALSE
  BY DEF WebLogin, WebLogout
<1>3. CASE WebLogin(t)
  <2>1. PICK r \in Requests : /\ Fetch(r, "login", NoToken)
                              /\ tab' = [tab EXCEPT ![t].login = r]
    BY <1>3 DEF WebLogin
  <2> DEFINE next == [tab[t] EXCEPT !.login = r]
  <2>2. next \in TabRecord
    BY <1>1 DEF TabRecord
  <2>3. next.login = r /\ next.refresh = tab[t].refresh /\ next.logout = tab[t].logout
    BY <1>1 DEF TabRecord
  <2>4. tab' = [tab EXCEPT ![t] = next]
    BY <1>1, <2>1
  <2>5. /\ ServerTypeOK' /\ Free(r)
        /\ request'[r].at = "read" /\ request'[r].kind = "login"
        /\ \A q \in Requests : q # r => request'[q] = request[q]
    BY <1>1, <2>1, SentEffect DEF Fetch, Kinds
  <2>6. alone' = FALSE
    BY <1>3 DEF WebLogin
  <2> HIDE DEF next
  <2>7. request'[next.login].at # "none" /\ request'[next.login].kind = "login" /\ Free(next.login)
    BY <2>3, <2>5
  <2> QED
    BY <1>1, <1>2, <2>2, <2>3, <2>4, <2>5, <2>6, <2>7, TabStep
<1>4. CASE WebLogout(t)
  <2>1. PICK r \in Requests : /\ Fetch(r, "logout", cookie)
                              /\ tab' = [tab EXCEPT ![t].logout = r]
    BY <1>4 DEF WebLogout
  <2> DEFINE next == [tab[t] EXCEPT !.logout = r]
  <2>2. next \in TabRecord
    BY <1>1 DEF TabRecord
  <2>3. next.logout = r /\ next.refresh = tab[t].refresh /\ next.login = tab[t].login
    BY <1>1 DEF TabRecord
  <2>4. tab' = [tab EXCEPT ![t] = next]
    BY <1>1, <2>1
  <2>5. /\ ServerTypeOK' /\ Free(r)
        /\ request'[r].at = "read" /\ request'[r].kind = "logout"
        /\ \A q \in Requests : q # r => request'[q] = request[q]
    BY <1>1, <2>1, SentEffect DEF Fetch, Kinds
  <2>6. alone' = \A q \in Tabs : {tab[q].refresh, tab[q].login, tab[q].logout} = {NoAnswer}
    BY <1>4 DEF WebLogout
  <2>7. alone' \in BOOLEAN
    BY <2>6
  <2> HIDE DEF next
  <2>8. request'[next.logout].at # "none" /\ request'[next.logout].kind = "logout" /\ Free(next.logout)
    BY <2>3, <2>5
  <2>9. alone' => \A q \in Tabs : (IF q = t THEN next ELSE tab[q]).refresh = NoAnswer
                               /\ (IF q = t THEN next ELSE tab[q]).login = NoAnswer
    <3>1. alone' => \A q \in Tabs : tab[q].refresh = NoAnswer /\ tab[q].login = NoAnswer
      BY <2>6
    <3> QED
      BY <2>3, <3>1
  <2> QED
    BY <1>1, <1>2, <2>2, <2>3, <2>4, <2>5, <2>7, <2>8, <2>9, TabStep
<1> QED
  BY <1>3, <1>4
\* The answer of a refresh: after the logout it is a refusal.
LEMMA RefreshedKeepsWebInv ==
    ASSUME WebInv, NEW t \in Tabs, Refreshed(t)
    PROVE  WebInv'
<1>1. /\ WebTypeOK /\ ServerTypeOK /\ tab \in [Tabs -> TabRecord] /\ tab[t] \in TabRecord
      /\ cookie \in 0..MaxTokens /\ access \in BOOLEAN /\ alone \in BOOLEAN /\ left \in BOOLEAN
      /\ failures \in 0..MaxFailures /\ request \in [Requests -> RequestRecord]
      /\ {tab[t].refresh, tab[t].login, tab[t].logout} \subseteq Requests \cup {NoAnswer}
  BY TabTypes DEF WebInv, ServerTypeOK
<1>2. PICK r : r = tab[t].refresh
  OBVIOUS
<1>3. /\ Arrives(r) /\ r \in Requests /\ r # NoAnswer
      /\ UNCHANGED <<alone, left>>
      /\ access' = (request[r].answer = "ok")
      /\ tab' = [tab EXCEPT ![t].refresh = NoAnswer, ![t].with = access',
                            ![t].call = IF access' THEN "again" ELSE "idle"]
  BY <1>1, <1>2 DEF Refreshed, Arrives
<1>4. access' \in BOOLEAN
  BY <1>3
<1> DEFINE next == [tab[t] EXCEPT !.refresh = NoAnswer, !.with = access',
                                  !.call = IF access' THEN "again" ELSE "idle"]
<1>5. next \in TabRecord
  BY <1>1, <1>4 DEF TabRecord
<1>6. next.refresh = NoAnswer /\ next.login = tab[t].login /\ next.logout = tab[t].logout
  BY <1>1 DEF TabRecord
<1>7. tab' = [tab EXCEPT ![t] = next]
  BY <1>1, <1>3
<1>8. /\ ServerTypeOK' /\ \A q \in Requests : q # r => request'[q] = request[q]
  BY <1>1, <1>3, ReceivedEffect DEF Arrives
<1>9. /\ cookie' \in 0..MaxTokens
      /\ request[r].answer # "ok" => cookie' = cookie
  <2>1. request[r].token \in 0..MaxTokens /\ NoToken \in 0..MaxTokens
    BY <1>1, <1>3, TabTypes DEF RequestRecord, NoToken
  <2> QED
    BY <1>1, <1>3, <2>1 DEF Arrives, CookieAfter
<1> HIDE DEF next
<1>10. \A q \in Requests : \/ request'[q] = request[q]
                           \/ q \in Slots(tab[t]) /\ q \notin Slots(next)
  <2>1. r \notin Slots(next)
    BY <1>2, <1>3, <1>6 DEF Slots, WebInv, SlotsInv
  <2>2. r \in Slots(tab[t])
    BY <1>2 DEF Slots
  <2> QED
    BY <1>8, <2>1, <2>2
<1>11. alone' => \A q \in Tabs : (IF q = t THEN next ELSE tab[q]).refresh = NoAnswer
                              /\ (IF q = t THEN next ELSE tab[q]).login = NoAnswer
  BY <1>3, <1>6 DEF WebInv, LoneLogoutInv
<1>12. left' => /\ ~access' /\ cookie' = NoToken
                /\ next.login = NoAnswer
                /\ \A q \in Tabs \ {t} :
                     /\ tab[q].login = NoAnswer
                     /\ tab[q].refresh # NoAnswer => Hopeless(tab[q].refresh)
  <2>1. left => request[r].answer # "ok"
    BY <1>2, <1>3 DEF WebInv, LeftInv, Hopeless, Arrives, Answered
  <2> QED
    BY <1>3, <1>6, <1>9, <2>1 DEF WebInv, LeftInv
<1> QED
  BY <1>1, <1>3, <1>4, <1>5, <1>6, <1>7, <1>8, <1>9, <1>10, <1>11, <1>12, TabStep

\* The answer of a login, which nobody waits for after the logout.
LEMMA LoginReturnsKeepsWebInv ==
    ASSUME WebInv, NEW t \in Tabs, WebLoginReturns(t)
    PROVE  WebInv'
<1>1. /\ WebTypeOK /\ ServerTypeOK /\ tab \in [Tabs -> TabRecord] /\ tab[t] \in TabRecord
      /\ cookie \in 0..MaxTokens /\ access \in BOOLEAN /\ alone \in BOOLEAN /\ left \in BOOLEAN
      /\ failures \in 0..MaxFailures /\ request \in [Requests -> RequestRecord]
      /\ {tab[t].refresh, tab[t].login, tab[t].logout} \subseteq Requests \cup {NoAnswer}
  BY TabTypes DEF WebInv, ServerTypeOK
<1>2. PICK r : r = tab[t].login
  OBVIOUS
<1>3. /\ Arrives(r) /\ r \in Requests /\ r # NoAnswer
      /\ UNCHANGED <<alone, left>>
      /\ access' = (access \/ request[r].answer = "ok")
      /\ tab' = [tab EXCEPT ![t].login = NoAnswer]
  BY <1>1, <1>2 DEF WebLoginReturns, Arrives
<1>4. access' \in BOOLEAN
  BY <1>3
<1> DEFINE next == [tab[t] EXCEPT !.login = NoAnswer]
<1>5. next \in TabRecord
  BY <1>1 DEF TabRecord
<1>6. next.login = NoAnswer /\ next.refresh = tab[t].refresh /\ next.logout = tab[t].logout
  BY <1>1 DEF TabRecord
<1>7. tab' = [tab EXCEPT ![t] = next]
  BY <1>1, <1>3
<1>8. /\ ServerTypeOK' /\ \A q \in Requests : q # r => request'[q] = request[q]
  BY <1>1, <1>3, ReceivedEffect DEF Arrives
<1>9. cookie' \in 0..MaxTokens
  <2>1. request[r].token \in 0..MaxTokens /\ NoToken \in 0..MaxTokens
    BY <1>1, <1>3, TabTypes DEF RequestRecord, NoToken
  <2> QED
    BY <1>1, <1>3, <2>1 DEF Arrives, CookieAfter
<1> HIDE DEF next
<1>10. \A q \in Requests : \/ request'[q] = request[q]
                           \/ q \in Slots(tab[t]) /\ q \notin Slots(next)
  <2>1. r \notin Slots(next)
    BY <1>2, <1>3, <1>6 DEF Slots, WebInv, SlotsInv
  <2>2. r \in Slots(tab[t])
    BY <1>2 DEF Slots
  <2> QED
    BY <1>8, <2>1, <2>2
<1>11. ~alone' /\ ~left'
  BY <1>2, <1>3 DEF WebInv, LoneLogoutInv, LeftInv
<1> QED
  BY <1>1, <1>3, <1>4, <1>5, <1>6, <1>7, <1>8, <1>9, <1>10, <1>11, TabStep

\* A logout is confirmed or refused, or breaks, or its tab is closed or loaded again:
\* the tab waits for nothing.
LEMMA ResetKeepsWebInv ==
    ASSUME WebInv, NEW t \in Tabs, WebLogoutReturns(t) \/ WebLogoutBreaks(t) \/ Unload(t)
    PROVE  WebInv'
<1>1. /\ WebTypeOK /\ ServerTypeOK /\ tab \in [Tabs -> TabRecord] /\ tab[t] \in TabRecord
      /\ cookie \in 0..MaxTokens /\ access \in BOOLEAN /\ alone \in BOOLEAN /\ left \in BOOLEAN
      /\ failures \in 0..MaxFailures /\ request \in [Requests -> RequestRecord]
      /\ {tab[t].refresh, tab[t].login, tab[t].logout} \subseteq Requests \cup {NoAnswer}
      /\ MaxTokens \in Nat /\ MaxFailures \in Nat
  BY TabTypes, TokensAssumption DEF WebInv, ServerTypeOK
<1>2. PICK r : r = tab[t].logout
  OBVIOUS
<1>3. PICK next \in TabRecord :
        /\ next = TabIdle
        /\ next.refresh = NoAnswer /\ next.login = NoAnswer /\ next.logout = NoAnswer
  <2>1. /\ TabIdle \in TabRecord
        /\ TabIdle.refresh = NoAnswer /\ TabIdle.login = NoAnswer /\ TabIdle.logout = NoAnswer
    BY DEF TabIdle, TabRecord
  <2> QED
    BY <2>1
<1>4. tab' = [tab EXCEPT ![t] = next]
  BY <1>3 DEF WebLogoutReturns, WebLogoutBreaks, Unload
<1>5. /\ ServerTypeOK'
      /\ \A q \in Requests : q # r => request'[q] = request[q]
      /\ request' # request => r # NoAnswer
  <2>1. CASE WebLogoutReturns(t)
    BY <1>1, <1>2, <2>1, ReceivedEffect DEF WebLogoutReturns, Arrives
  <2>2. CASE WebLogoutBreaks(t)
    <3>1. failures' \in 0..MaxFailures /\ UNCHANGED <<issued, valid, active>> /\ r # NoAnswer
      BY <1>1, <1>2, <2>2 DEF WebLogoutBreaks, Breaks
    <3>2. CASE request' = request
      BY <1>1, <3>1, <3>2 DEF ServerTypeOK
    <3>3. CASE request' = [request EXCEPT ![r] = NoRequest]
      BY <1>1, <3>1, <3>3, ReceivedEffect
    <3> QED
      BY <1>2, <2>2, <3>2, <3>3 DEF WebLogoutBreaks, Breaks
  <2>3. CASE Unload(t)
    BY <1>1, <2>3, ServerStays DEF Unload
  <2> QED
    BY <2>1, <2>2, <2>3
<1>6. \A q \in Requests : \/ request'[q] = request[q]
                          \/ q \in Slots(tab[t]) /\ q \notin Slots(next)
  BY <1>2, <1>3, <1>5 DEF Slots
<1>7. /\ cookie' \in 0..MaxTokens
      /\ access' \in BOOLEAN /\ left' \in BOOLEAN /\ alone' \in BOOLEAN
      /\ alone' => alone
  <2>1. CASE WebLogoutReturns(t)
    <3>1. r \in Requests /\ Arrives(r)
      BY <1>1, <1>2, <2>1 DEF WebLogoutReturns, Arrives
    <3>2. request[r].token \in 0..MaxTokens /\ NoToken \in 0..MaxTokens
      BY <1>1, <3>1 DEF RequestRecord, NoToken
    <3>3. cookie' \in 0..MaxTokens
      BY <1>1, <3>1, <3>2 DEF Arrives, CookieAfter
    <3>4. left' \in BOOLEAN
      BY <2>1 DEF WebLogoutReturns
    <3> QED
      BY <2>1, <3>3, <3>4 DEF WebLogoutReturns
  <2>2. CASE WebLogoutBreaks(t)
    BY <1>1, <2>2 DEF WebLogoutBreaks
  <2>3. CASE Unload(t)
    <3>1. alone' \in BOOLEAN /\ (alone' => alone)
      BY <2>3 DEF Unload
    <3> QED
      BY <1>1, <2>3, <3>1 DEF Unload
  <2> QED
    BY <2>1, <2>2, <2>3
<1>8. alone' => \A q \in Tabs : (IF q = t THEN next ELSE tab[q]).refresh = NoAnswer
                             /\ (IF q = t THEN next ELSE tab[q]).login = NoAnswer
  BY <1>3, <1>7 DEF WebInv, LoneLogoutInv
<1>9. left' => /\ ~access' /\ cookie' = NoToken
               /\ \A q \in Tabs \ {t} :
                    /\ tab[q].login = NoAnswer
                    /\ tab[q].refresh # NoAnswer => Hopeless(tab[q].refresh)
  <2>1. CASE WebLogoutReturns(t)
    <3>1. ASSUME left'
          PROVE  alone /\ request[r].answer = "ok" /\ request[r].kind = "logout" /\ r # NoAnswer
      BY <1>2, <2>1, <3>1 DEF WebLogoutReturns, Arrives, WebInv, SlotsInv
    <3>2. ASSUME left'
          PROVE  cookie' = NoToken
      BY <1>2, <2>1, <3>1, <3>2 DEF WebLogoutReturns, Arrives, CookieAfter
    <3> QED
      BY <2>1, <3>1, <3>2 DEF WebLogoutReturns, WebInv, LoneLogoutInv
  <2>2. CASE WebLogoutBreaks(t)
    BY <2>2 DEF WebLogoutBreaks, WebInv, LeftInv
  <2>3. CASE Unload(t)
    BY <2>3 DEF Unload, WebInv, LeftInv
  <2> QED
    BY <2>1, <2>2, <2>3
<1> QED
  BY <1>1, <1>3, <1>4, <1>5, <1>6, <1>7, <1>8, <1>9, TabStep

\* A refresh breaks: its call fails.
LEMMA BreakKeepsWebInv ==
    ASSUME WebInv, NEW t \in Tabs, RefreshBreaks(t)
    PROVE  WebInv'
<1>1. /\ WebTypeOK /\ ServerTypeOK /\ tab \in [Tabs -> TabRecord] /\ tab[t] \in TabRecord
      /\ cookie \in 0..MaxTokens /\ access \in BOOLEAN /\ alone \in BOOLEAN /\ left \in BOOLEAN
      /\ failures \in 0..MaxFailures /\ MaxFailures \in Nat
      /\ {tab[t].refresh, tab[t].login, tab[t].logout} \subseteq Requests \cup {NoAnswer}
  BY TabTypes, TokensAssumption DEF WebInv, ServerTypeOK
<1>2. PICK r : r = tab[t].refresh
  OBVIOUS
<1>3. /\ Breaks(r) /\ r \in Requests
      /\ UNCHANGED <<access, cookie, alone, left>>
      /\ tab' = [tab EXCEPT ![t].refresh = NoAnswer, ![t].call = "idle", ![t].with = FALSE]
  BY <1>1, <1>2 DEF RefreshBreaks
<1> DEFINE next == [tab[t] EXCEPT !.refresh = NoAnswer, !.call = "idle", !.with = FALSE]
<1>4. next \in TabRecord
  BY <1>1 DEF TabRecord
<1>5. next.refresh = NoAnswer /\ next.login = tab[t].login /\ next.logout = tab[t].logout
  BY <1>1 DEF TabRecord
<1>6. tab' = [tab EXCEPT ![t] = next]
  BY <1>1, <1>3
<1>7. ServerTypeOK' /\ \A q \in Requests : q # r => request'[q] = request[q]
  <2>1. failures' \in 0..MaxFailures /\ UNCHANGED <<issued, valid, active>>
    BY <1>1, <1>3 DEF Breaks
  <2>2. CASE request' = request
    BY <1>1, <2>1, <2>2 DEF ServerTypeOK
  <2>3. CASE request' = [request EXCEPT ![r] = NoRequest]
    BY <1>1, <2>1, <2>3, ReceivedEffect
  <2> QED
    BY <1>3, <2>2, <2>3 DEF Breaks
<1> HIDE DEF next
<1>8. \A q \in Requests : \/ request'[q] = request[q]
                          \/ q \in Slots(tab[t]) /\ q \notin Slots(next)
  <2>1. r # NoAnswer
    BY <1>2 DEF RefreshBreaks
  <2>2. r \notin Slots(next)
    BY <1>2, <1>5, <2>1 DEF Slots, WebInv, SlotsInv
  <2>3. r \in Slots(tab[t])
    BY <1>2 DEF Slots
  <2> QED
    BY <1>7, <2>2, <2>3
<1>9. alone' => \A q \in Tabs : (IF q = t THEN next ELSE tab[q]).refresh = NoAnswer
                             /\ (IF q = t THEN next ELSE tab[q]).login = NoAnswer
  BY <1>3, <1>5 DEF WebInv, LoneLogoutInv
<1>10. left' => /\ ~access' /\ cookie' = NoToken
                /\ next.login = NoAnswer
                /\ \A q \in Tabs \ {t} :
                     /\ tab[q].login = NoAnswer
                     /\ tab[q].refresh # NoAnswer => Hopeless(tab[q].refresh)
  BY <1>3, <1>5 DEF WebInv, LeftInv
<1> QED
  BY <1>1, <1>3, <1>4, <1>5, <1>6, <1>7, <1>8, <1>9, <1>10, TabStep

\* The invariant of the browser, beside any refresh, login and logout of any tab.
THEOREM WebInvariance == WebSpec => []WebInv
<1>1. ServerInit /\ WebInit => WebInv
  <2>1. MaxTokens \in Nat /\ MaxFailures \in Nat
    BY TokensAssumption
  <2>2. NoRequest \in RequestRecord
    BY <2>1 DEF NoRequest, RequestRecord, Answers, Kinds, NoToken
  <2>3. ServerInit => ServerTypeOK
    <3> HIDE DEF NoRequest
    <3> QED
      BY <2>1, <2>2 DEF ServerInit, ServerTypeOK
  <2>4. /\ TabIdle \in TabRecord
        /\ TabIdle.refresh = NoAnswer /\ TabIdle.login = NoAnswer /\ TabIdle.logout = NoAnswer
    BY DEF TabIdle, TabRecord
  <2> HIDE DEF TabIdle
  <2>5. WebInit => /\ tab \in [Tabs -> TabRecord]
                   /\ \A t \in Tabs : tab[t].refresh = NoAnswer /\ tab[t].login = NoAnswer
                                      /\ tab[t].logout = NoAnswer
    BY <2>4 DEF WebInit
  <2>6. WebInit => cookie \in 0..MaxTokens
    BY <2>1 DEF WebInit, NoToken
  <2>7. WebInit => access \in BOOLEAN /\ alone \in BOOLEAN /\ left \in BOOLEAN
    BY DEF WebInit
  <2>8. WebInit => ~alone /\ ~left
    BY DEF WebInit
  <2> QED
    BY <2>3, <2>5, <2>6, <2>7, <2>8 DEF WebInv, WebTypeOK, SlotsInv, LoneLogoutInv, LeftInv
<1>2. ASSUME WebInv, [WebNext]_<<server, browser>>
      PROVE  WebInv'
  <2>1. CASE UNCHANGED <<server, browser>>
    <3>1. /\ UNCHANGED <<issued, valid, active, request, failures>>
          /\ UNCHANGED <<access, cookie, tab, alone, left>>
      BY <2>1 DEF server, browser
    <3> QED
      BY <1>2, <3>1 DEF WebInv, WebTypeOK, ServerTypeOK, SlotsInv, Free, LoneLogoutInv, LeftInv, Hopeless
  <2>2. CASE ServerNext /\ UNCHANGED browser
    BY <1>2, <2>2, ServerKeepsWebInv
  <2>3. ASSUME NEW t \in Tabs,
               \/ WebCall(t) \/ WebCallReturns(t) \/ WebCallForbidden(t) \/ WebCallUnauthorized(t)
               \/ Refreshed(t) \/ RefreshBreaks(t) \/ WebLogin(t) \/ WebLoginReturns(t)
               \/ WebLogout(t) \/ WebLogoutReturns(t) \/ WebLogoutBreaks(t) \/ Unload(t)
        PROVE  WebInv'
    BY <1>2, <2>3, CallsKeepWebInv, UnauthorizedKeepsWebInv, RefreshedKeepsWebInv, BreakKeepsWebInv,
       AskingKeepsWebInv, LoginReturnsKeepsWebInv, ResetKeepsWebInv
  <2>4. ASSUME NEW r \in Requests, Forgotten(r)
        PROVE  WebInv'
    BY <1>2, <2>4, ForgottenKeepsWebInv
  <2> QED
    BY <1>2, <2>1, <2>2, <2>3, <2>4 DEF WebNext, WebStep
<1> QED
  BY <1>1, <1>2, PTL DEF WebSpec

\* After a logout that was confirmed while nothing else of the tabs was under way, no
\* tab brings the session back (logoutSession and api of apps/web).
THEOREM WebLogoutHolds == WebSpec => []WebLogoutSticks
<1>1. WebInv => WebLogoutSticks
  BY DEF WebInv, LeftInv, WebLogoutSticks
<1> QED
  BY <1>1, WebInvariance, PTL
-----------------------------------------------------------------------------
(* The session on the phone.                                               *)

\* The generation only grows: what a refresh or its end remembers is not ahead of it.
GenInv == refresh.gen <= generation /\ ending.gen <= generation

\* A refresh that will not bring a session back: there is none, or a login or a logout
\* went past it, or it has no token to send.
Doomed == refresh.at = "idle" \/ Superseded \/ (refresh.at = "load" /\ refresh.token = NoToken)

\* From the start of a logout that nothing follows, every refresh is doomed; from its
\* clearing on, there is no token but the one such a refresh is about to take back.
OutInv ==
    /\ out => ~LoginStoring
    /\ out /\ ~late => Doomed
    /\ out /\ ~late /\ logout.at # "clear" =>
         /\ ~app.access
         /\ logout.at = "idle" => app.status = "unauthenticated"
         /\ store # NoToken => refresh.at \in {"stored", "undo"} /\ store = refresh.token

\* Every token that the phone or a request has was issued.
TokensInv ==
    /\ store \in 0..issued /\ refresh.token \in 0..issued
    /\ login.token \in 0..issued /\ logout.token \in 0..issued
    /\ \A r \in Requests : request[r].token \in 0..issued

\* The requests the phone waits for are its own, and a refresh is answered for the token
\* it sent.
ViaInv ==
    /\ refresh.at = "sent" =>
         /\ refresh.via \in Requests /\ request[refresh.via].kind = "refresh"
         /\ request[refresh.via].at # "none"
         /\ request[refresh.via].at = "read" => request[refresh.via].token = refresh.token
         /\ request[refresh.via].at = "answered" /\ request[refresh.via].answer = "invalid" =>
              refresh.token \notin valid
    /\ login.at = "sent" =>
         /\ login.via \in Requests /\ request[login.via].kind = "login"
         /\ request[login.via].at # "none"

\* While nothing went past a refresh that began alone, nothing else writes the store: it
\* holds the token that was sent.
SettledInv ==
    /\ refresh.at # "idle" /\ refresh.alone /\ ~Superseded => ~LoginStoring /\ logout.at = "idle"
    /\ ending.at # "no" /\ ending.alone /\ ending.gen = generation =>
         ~LoginStoring /\ logout.at = "idle"
    /\ refresh.at \in {"load", "sent"} /\ refresh.alone /\ ~Superseded =>
         store \in {NoToken, refresh.token}

\* Between the refusal of a token and the clearing of the store, no refresh can put
\* another token there: the one it may send is the token that was refused.
DeadInv ==
    ending.at = "clear" /\ ending.alone /\ ending.gen = generation =>
        /\ store \notin valid
        /\ refresh.at \in {"idle", "load", "sent"}
        /\ refresh.at \in {"load", "sent"} => refresh.token \notin valid
        /\ refresh.at = "sent" =>
             \/ request[refresh.via].at = "read"
             \/ request[refresh.via].at = "answered" /\ request[refresh.via].answer # "ok"

PhoneInv == TypeOK /\ GenInv /\ OutInv /\ TokensInv /\ ViaInv /\ SettledInv /\ DeadInv

\* The values the variables are reset to.
LEMMA PhoneRecords ==
    /\ MaxTokens \in Nat /\ MaxFailures \in Nat /\ MaxGenerations \in Nat
    /\ RefreshIdle \in RefreshRecord /\ RefreshIdle.at = "idle" /\ RefreshIdle.gen = 0
    /\ RefreshIdle.token = NoToken /\ NoToken = 0
    /\ NotEnding \in [at : {"no", "clear", "cleared"}, gen : 0..MaxGenerations, alone : BOOLEAN]
    /\ NotEnding.at = "no" /\ NotEnding.gen = 0
    /\ FlowIdle \in FlowRecord /\ FlowIdle.at = "idle" /\ FlowIdle.token = NoToken
    /\ SignedIn \in AppRecord /\ SignedOut \in AppRecord /\ TryAgain \in AppRecord /\ Booting \in AppRecord
    /\ SignedOut.access = FALSE /\ SignedOut.status = "unauthenticated"
    /\ TryAgain.access = FALSE /\ TryAgain.status = "unauthenticated"
<1>1. MaxTokens \in Nat /\ MaxFailures \in Nat /\ MaxGenerations \in Nat
  BY TokensAssumption, PhoneAssumption
<1>2. /\ RefreshIdle \in RefreshRecord /\ RefreshIdle.at = "idle" /\ RefreshIdle.gen = 0
      /\ RefreshIdle.token = NoToken /\ NoToken = 0
  BY <1>1 DEF RefreshIdle, RefreshRecord, Via, NoToken
<1>3. /\ NotEnding \in [at : {"no", "clear", "cleared"}, gen : 0..MaxGenerations, alone : BOOLEAN]
      /\ NotEnding.at = "no" /\ NotEnding.gen = 0
  BY <1>1 DEF NotEnding
<1>4. FlowIdle \in FlowRecord /\ FlowIdle.at = "idle" /\ FlowIdle.token = NoToken
  BY <1>1 DEF FlowIdle, FlowRecord, Via, NoToken
<1>5. SignedIn \in AppRecord /\ SignedOut \in AppRecord /\ TryAgain \in AppRecord /\ Booting \in AppRecord
  BY DEF SignedIn, SignedOut, TryAgain, Booting, AppRecord
<1>6. /\ SignedOut.access = FALSE /\ SignedOut.status = "unauthenticated"
      /\ TryAgain.access = FALSE /\ TryAgain.status = "unauthenticated"
  BY DEF SignedOut, TryAgain
<1> QED
  BY <1>1, <1>2, <1>3, <1>4, <1>5, <1>6

\* The types, as the steps below use them.
LEMMA PhoneTypes ==
    ASSUME TypeOK
    PROVE  /\ ServerTypeOK
           /\ issued \in Nat /\ issued <= MaxTokens /\ valid \subseteq 1..issued
           /\ request \in [Requests -> RequestRecord] /\ failures \in 0..MaxFailures
           /\ generation \in 0..MaxGenerations /\ store \in 0..MaxTokens /\ app \in AppRecord
           /\ refresh \in RefreshRecord /\ login \in FlowRecord /\ logout \in FlowRecord
           /\ ending \in [at : {"no", "clear", "cleared"}, gen : 0..MaxGenerations, alone : BOOLEAN]
           /\ waiting \subseteq {"restore", "call"}
           /\ calling \in BOOLEAN /\ out \in BOOLEAN /\ late \in BOOLEAN
BY TokensAssumption DEF TypeOK, ServerTypeOK

\* A step of the server.
LEMMA ServerKeepsPhoneInv ==
    ASSUME PhoneInv, ServerNext, UNCHANGED phone
    PROVE  PhoneInv'
<1>1. /\ ServerTypeOK /\ issued \in Nat /\ valid \subseteq 1..issued
      /\ refresh \in RefreshRecord /\ login \in FlowRecord
  BY PhoneTypes DEF PhoneInv
<1>2. /\ ServerTypeOK' /\ issued <= issued'
      /\ \A t \in 0..issued : t \notin valid => t \notin valid'
      /\ \A r \in Requests : request'[r] = request[r] \/ Served(r)
  BY <1>1, ServerEffect
<1>3. /\ UNCHANGED <<generation, store, app, calling, refresh, waiting, ending, login, logout, out, late>>
      /\ issued' \in Nat
  BY <1>2 DEF phone, refreshing, history, ServerTypeOK
<1>4. TypeOK' /\ GenInv' /\ OutInv' /\ SettledInv'
  BY <1>2, <1>3 DEF PhoneInv, TypeOK, GenInv, OutInv, SettledInv, Doomed, Superseded, LoginStoring
<1>5. TokensInv'
  BY <1>1, <1>2, <1>3 DEF PhoneInv, TokensInv, Served
<1>6. ViaInv'
  <2>1. ASSUME refresh.at = "sent"
        PROVE  /\ refresh.via \in Requests /\ request'[refresh.via].kind = "refresh"
               /\ request'[refresh.via].at # "none"
               /\ request'[refresh.via].at = "read" => request'[refresh.via].token = refresh.token
               /\ request'[refresh.via].at = "answered" /\ request'[refresh.via].answer = "invalid" =>
                    refresh.token \notin valid'
    BY <1>2, <2>1 DEF PhoneInv, ViaInv, TokensInv, Served
  <2>2. ASSUME login.at = "sent"
        PROVE  /\ login.via \in Requests /\ request'[login.via].kind = "login"
               /\ request'[login.via].at # "none"
    BY <1>2, <2>2 DEF PhoneInv, ViaInv, Served
  <2> QED
    BY <1>3, <2>1, <2>2 DEF ViaInv
<1>7. DeadInv'
  <2>1. ASSUME ending.at = "clear", ending.alone, ending.gen = generation
        PROVE  /\ store \notin valid'
               /\ refresh.at \in {"idle", "load", "sent"}
               /\ refresh.at \in {"load", "sent"} => refresh.token \notin valid'
               /\ refresh.at = "sent" =>
                    \/ request'[refresh.via].at = "read"
                    \/ request'[refresh.via].at = "answered" /\ request'[refresh.via].answer # "ok"
    BY <1>2, <2>1 DEF PhoneInv, DeadInv, ViaInv, TokensInv, Served
  <2> QED
    BY <1>3, <2>1 DEF DeadInv
<1> QED
  BY <1>4, <1>5, <1>6, <1>7 DEF PhoneInv

\* The screens follow what happened, in memory.
LEMMA ScreensKeepPhoneInv ==
    ASSUME PhoneInv, \/ Call \/ CallSucceeds \/ EndingCleared \/ LoginStored
    PROVE  PhoneInv'
<1>1. /\ TypeOK /\ app \in AppRecord /\ PhoneInv
      /\ calling \in BOOLEAN
  BY PhoneTypes DEF PhoneInv
<1>2. UNCHANGED <<issued, valid, active, request, failures, generation, store, refresh, waiting, logout,
                  out, late>>
  BY DEF Call, CallSucceeds, EndingCleared, LoginStored, server, refreshing, history
<1>3. /\ app' \in AppRecord /\ calling' \in BOOLEAN
      /\ login' = login \/ (login.at = "stored" /\ login' = FlowIdle)
      /\ ending' = ending \/ ending' = NotEnding
      /\ login' = login => \/ app' = app
                           \/ app'.access = app.access /\ app'.status = "unauthenticated"
  BY <1>1, PhoneRecords DEF Call, CallSucceeds, EndingCleared, LoginStored, refreshing, AppRecord, SignedOut
<1>4. TypeOK'
  BY <1>1, <1>2, <1>3, PhoneRecords DEF TypeOK, ServerTypeOK
<1>5. GenInv' /\ OutInv'
  BY <1>1, <1>2, <1>3, PhoneTypes, PhoneRecords DEF PhoneInv, GenInv, OutInv, Doomed, Superseded, LoginStoring
<1>6. TokensInv' /\ ViaInv'
  BY <1>1, <1>2, <1>3, PhoneTypes, PhoneRecords DEF PhoneInv, TokensInv, ViaInv
<1>7. SettledInv' /\ DeadInv'
  BY <1>1, <1>2, <1>3, PhoneTypes, PhoneRecords DEF PhoneInv, SettledInv, DeadInv, Superseded, LoginStoring
<1> QED
  BY <1>4, <1>5, <1>6, <1>7 DEF PhoneInv
\* Who needs the session joins the refresh in flight, or begins one.
LEMMA JoinKeepsPhoneInv ==
    ASSUME PhoneInv, NEW who \in {"restore", "call"}, Join(who),
           app' \in AppRecord, app'.access = app.access, app'.status = app.status, calling' = calling
    PROVE  PhoneInv'
<1>1. UNCHANGED <<issued, valid, active, request, failures, generation, store, ending, login, logout, out>>
  BY DEF Join, server
<1>2. waiting' \subseteq {"restore", "call"}
  BY PhoneTypes DEF Join, PhoneInv
<1>3. \/ refresh' = refresh /\ late' = late
      \/ /\ refresh.at = "idle"
         /\ refresh' \in RefreshRecord
         /\ refresh'.at = "load" /\ refresh'.gen = generation /\ refresh'.token = store
         /\ refresh'.alone => ~LoginStoring /\ logout.at = "idle"
         /\ late' = (late \/ logout.at # "idle")
  <2> DEFINE next == [RefreshIdle EXCEPT !.at = "load", !.gen = generation, !.token = store,
                                         !.alone = ~LoginStoring /\ logout.at = "idle"]
  <2>1. (~LoginStoring /\ logout.at = "idle") \in BOOLEAN
    BY DEF LoginStoring
  <2>2. /\ next \in RefreshRecord
        /\ next.at = "load" /\ next.gen = generation /\ next.token = store
        /\ next.alone = (~LoginStoring /\ logout.at = "idle")
    BY <2>1, PhoneTypes, PhoneRecords DEF PhoneInv, RefreshRecord
  <2> HIDE DEF next
  <2>3. \/ refresh' = refresh /\ late' = late
        \/ refresh.at = "idle" /\ refresh' = next /\ late' = (late \/ logout.at # "idle")
    BY DEF Join, next
  <2> QED
    BY <2>2, <2>3
<1>4. TypeOK'
  <2>1. late' \in BOOLEAN /\ refresh' \in RefreshRecord
    BY <1>3, PhoneTypes DEF PhoneInv
  <2> QED
    BY <1>1, <1>2, <2>1 DEF PhoneInv, TypeOK, ServerTypeOK
<1>5. GenInv' /\ OutInv'
  BY <1>1, <1>3, PhoneTypes, PhoneRecords DEF PhoneInv, GenInv, OutInv, Doomed, Superseded, LoginStoring
<1>6. TokensInv' /\ ViaInv'
  BY <1>1, <1>3, PhoneTypes, PhoneRecords DEF PhoneInv, TokensInv, ViaInv
<1>7. SettledInv' /\ DeadInv'
  BY <1>1, <1>3, PhoneTypes, PhoneRecords DEF PhoneInv, SettledInv, DeadInv, Superseded, LoginStoring
<1> QED
  BY <1>4, <1>5, <1>6, <1>7 DEF PhoneInv

\* The application starts, or the user tries again; a call gets a 401.
LEMMA AskingKeepsPhoneInv ==
    ASSUME PhoneInv, Restore \/ CallUnauthorized
    PROVE  PhoneInv'
<1>1. CASE CallUnauthorized
  BY <1>1, JoinKeepsPhoneInv, PhoneTypes DEF CallUnauthorized, PhoneInv
<1>2. CASE Restore
  <2>1. CASE Join("restore") /\ app' = [app EXCEPT !.retry = FALSE] /\ calling' = calling
    <3>1. app' \in AppRecord /\ app'.access = app.access /\ app'.status = app.status
      BY <2>1, PhoneTypes DEF PhoneInv, AppRecord
    <3> QED
      BY <2>1, <3>1, JoinKeepsPhoneInv
  <2>2. CASE /\ app' = SignedOut /\ calling' = calling
             /\ UNCHANGED <<server, generation, store, refreshing, login, logout, history>>
    <3>1. UNCHANGED <<issued, valid, active, request, failures, generation, store, refresh, waiting,
                      ending, login, logout, out, late, calling>>
      BY <2>2 DEF server, refreshing, history
    <3>2. TypeOK'
      BY <2>2, <3>1, PhoneTypes, PhoneRecords DEF PhoneInv, TypeOK, ServerTypeOK
    <3>3. GenInv' /\ OutInv'
      BY <2>2, <3>1, PhoneRecords DEF PhoneInv, GenInv, OutInv, Doomed, Superseded, LoginStoring
    <3>4. TokensInv' /\ ViaInv' /\ SettledInv' /\ DeadInv'
      BY <3>1 DEF PhoneInv, TokensInv, ViaInv, SettledInv, DeadInv, Superseded, LoginStoring
    <3> QED
      BY <3>2, <3>3, <3>4 DEF PhoneInv
  <2> QED
    BY <1>2, <2>1, <2>2 DEF Restore
<1> QED
  BY <1>1, <1>2

\* The store is written or cleared, on behalf of another than the refresh.
LEMMA StoresKeepPhoneInv ==
    ASSUME PhoneInv, EndingClears \/ LogoutClears \/ LoginStores \/ LoginStoreFails
    PROVE  PhoneInv'
<1>1. /\ UNCHANGED <<issued, valid, active, request, generation, refresh, waiting, calling, out, late>>
      /\ failures' \in 0..MaxFailures
  BY PhoneTypes, PhoneRecords
     DEF PhoneInv, EndingClears, LogoutClears, LoginStores, LoginStoreFails, server, refreshing, history
<1>2. /\ app' \in AppRecord /\ (app' = app \/ (app'.access = FALSE /\ app'.status = app.status))
      /\ store' = NoToken \/ (login.at = "store" /\ store' = login.token)
  BY PhoneTypes, PhoneRecords
     DEF PhoneInv, EndingClears, LogoutClears, LoginStores, LoginStoreFails, refreshing, AppRecord
<1>3. /\ ending' \in [at : {"no", "clear", "cleared"}, gen : 0..MaxGenerations, alone : BOOLEAN]
      /\ ending'.at # "no" => ending.at # "no"
      /\ ending'.at = "clear" => ending.at = "clear"
      /\ ending'.gen = ending.gen /\ ending'.alone = ending.alone
  BY PhoneTypes DEF PhoneInv, EndingClears, LogoutClears, LoginStores, LoginStoreFails, refreshing
<1>4. /\ login' \in FlowRecord
      /\ login' = login \/ (/\ login.at = "store" /\ login'.at \in {"idle", "stored"}
                            /\ login'.token \in {login.token, NoToken})
  BY PhoneTypes, PhoneRecords
     DEF PhoneInv, EndingClears, LogoutClears, LoginStores, LoginStoreFails, FlowRecord
<1>5. /\ logout' \in FlowRecord /\ logout'.token = logout.token
      /\ logout' = logout \/ (/\ logout.at = "clear" /\ logout'.at = "cleared"
                              /\ app'.access = FALSE /\ app'.status = app.status
                              /\ store' = NoToken)
  BY PhoneTypes, PhoneRecords
     DEF PhoneInv, EndingClears, LogoutClears, LoginStores, LoginStoreFails, FlowRecord, AppRecord
<1>6. TypeOK'
  BY <1>1, <1>2, <1>3, <1>4, <1>5, PhoneTypes, PhoneRecords DEF PhoneInv, TypeOK, ServerTypeOK, FlowRecord
<1>7. GenInv' /\ OutInv'
  BY <1>1, <1>2, <1>3, <1>4, <1>5, PhoneTypes, PhoneRecords
     DEF PhoneInv, GenInv, OutInv, Doomed, Superseded, LoginStoring
<1>8. TokensInv' /\ ViaInv'
  BY <1>1, <1>2, <1>4, <1>5, PhoneTypes, PhoneRecords DEF PhoneInv, TokensInv, ViaInv
<1>9. SettledInv' /\ DeadInv'
  BY <1>1, <1>2, <1>3, <1>4, <1>5, PhoneTypes, PhoneRecords
     DEF PhoneInv, SettledInv, DeadInv, Superseded, LoginStoring
<1> QED
  BY <1>6, <1>7, <1>8, <1>9 DEF PhoneInv

\* A refresh settles. It leaves the store without a token it may have put there after it
\* was superseded, and ends a session only for a dead token.
LEMMA SettleKeepsPhoneInv ==
    ASSUME PhoneInv, ServerTypeOK',
           UNCHANGED <<issued, valid, active, generation, login, logout, out, late>>,
           \A r \in Requests : \/ request'[r] = request[r]
                               \/ request'[r].token = NoToken /\ ~(login.at = "sent" /\ login.via = r),
           refresh.at # "idle", refresh' = RefreshIdle, waiting' = {}, calling' \in BOOLEAN,
           \/ store' = NoToken
           \/ store' = store /\ (refresh.at \in {"stored", "undo"} /\ Superseded => store # refresh.token),
           app' \in AppRecord,
           \/ app'.access = app.access /\ app'.status = app.status
           \/ app'.access = FALSE /\ app'.status \in {app.status, "unauthenticated"}
           \/ refresh.at = "stored" /\ ~Superseded,
           \/ ending' = ending
           \/ /\ ending' = [at |-> "clear", gen |-> refresh.gen, alone |-> refresh.alone]
              /\ store' = store
              /\ refresh.alone /\ ~Superseded => store \notin valid
    PROVE  PhoneInv'
<1>1. /\ TypeOK /\ refresh \in RefreshRecord /\ valid \subseteq 1..issued
      /\ store \in 0..MaxTokens
      /\ ending \in [at : {"no", "clear", "cleared"}, gen : 0..MaxGenerations, alone : BOOLEAN]
  BY PhoneTypes DEF PhoneInv
<1>2. /\ ending' \in [at : {"no", "clear", "cleared"}, gen : 0..MaxGenerations, alone : BOOLEAN]
      /\ \/ ending' = ending
         \/ /\ ending'.gen = refresh.gen /\ ending'.alone = refresh.alone
            /\ store' = store
            /\ refresh.alone /\ ~Superseded => store \notin valid
  BY <1>1 DEF RefreshRecord
<1>3. store' \in 0..MaxTokens
  BY <1>1, PhoneRecords
<1>4. TypeOK'
  BY <1>1, <1>2, <1>3, PhoneRecords DEF TypeOK
<1>5. GenInv' /\ OutInv'
  BY <1>1, <1>2, PhoneTypes, PhoneRecords DEF PhoneInv, GenInv, OutInv, Doomed, Superseded, LoginStoring
<1>6. TokensInv' /\ ViaInv'
  BY <1>1, <1>3, PhoneTypes, PhoneRecords DEF PhoneInv, TokensInv, ViaInv
<1>7. SettledInv' /\ DeadInv'
  BY <1>1, <1>2, PhoneTypes, PhoneRecords
     DEF PhoneInv, SettledInv, DeadInv, Superseded, LoginStoring
<1> QED
  BY <1>4, <1>5, <1>6, <1>7 DEF PhoneInv

\* A refresh goes on: it has not ended, and its generation and `alone` stay.
LEMMA OnwardKeepsPhoneInv ==
    ASSUME PhoneInv, ServerTypeOK',
           UNCHANGED <<issued, valid, active, generation, app, calling, waiting, ending, login, logout,
                       out, late>>,
           \A r \in Requests : \/ request'[r] = request[r]
                               \/ request'[r].token \in 0..issued /\ ~(login.at = "sent" /\ login.via = r),
           refresh' \in RefreshRecord, refresh'.gen = refresh.gen, refresh'.alone = refresh.alone,
           \/ /\ refresh.at = "load" /\ refresh.token # NoToken /\ ~Superseded /\ refresh'.at = "sent"
              /\ store' = store /\ refresh'.token = refresh.token
              /\ refresh'.via \in Requests /\ request'[refresh'.via].at = "read"
              /\ request'[refresh'.via].kind = "refresh" /\ request'[refresh'.via].token = refresh.token
           \/ /\ refresh.at = "sent" /\ ~Superseded /\ refresh'.at = "store"
              /\ request[refresh.via].at = "answered" /\ request[refresh.via].answer = "ok"
              /\ store' = store /\ refresh'.token \in 0..issued
           \/ /\ refresh.at = "store" /\ refresh'.at = "stored"
              /\ store' = refresh.token /\ refresh'.token = refresh.token
           \/ /\ refresh.at = "stored" /\ refresh'.at = "undo" /\ Superseded
              /\ store' = store /\ refresh'.token = refresh.token
    PROVE  PhoneInv'
<1>1. TypeOK /\ refresh \in RefreshRecord /\ valid \subseteq 1..issued
  BY PhoneTypes DEF PhoneInv
<1>2. TypeOK'
  BY <1>1, PhoneTypes, PhoneRecords DEF TypeOK, RefreshRecord
<1>3. GenInv' /\ OutInv'
  BY <1>1, PhoneTypes, PhoneRecords DEF PhoneInv, GenInv, OutInv, Doomed, Superseded, LoginStoring
<1>4. TokensInv' /\ ViaInv'
  <2>1. TokensInv'
    BY <1>1, PhoneTypes, PhoneRecords DEF PhoneInv, TokensInv
  <2>2. ViaInv'
    BY <1>1, PhoneTypes, PhoneRecords DEF PhoneInv, ViaInv
  <2> QED
    BY <2>1, <2>2
<1>5. SettledInv' /\ DeadInv'
  <2>1. SettledInv'
    BY <1>1, PhoneTypes, PhoneRecords DEF PhoneInv, SettledInv, Superseded, LoginStoring
  <2>2. DeadInv'
    BY <1>1, PhoneTypes, PhoneRecords DEF PhoneInv, DeadInv
  <2> QED
    BY <2>1, <2>2
<1> QED
  BY <1>2, <1>3, <1>4, <1>5 DEF PhoneInv
\* What the promise of a refresh leaves behind.
LEMMA SettleEffect ==
    ASSUME TypeOK, NEW next \in AppRecord, Settle(next)
    PROVE  refresh' = RefreshIdle /\ waiting' = {} /\ app' = next /\ calling' \in BOOLEAN
<1>1. (calling /\ "call" \notin waiting) \in BOOLEAN
  BY PhoneTypes
<1> QED
  BY <1>1 DEF Settle

\* The screens of a session that ends, and of one that could not be refreshed.
LEMMA ScreensAfter ==
    ASSUME TypeOK
    PROVE  /\ SettleInvalid =>
                /\ refresh' = RefreshIdle /\ waiting' = {} /\ calling' \in BOOLEAN
                /\ app' \in AppRecord /\ app'.access = FALSE /\ app'.status = app.status
                /\ ending' = [at |-> "clear", gen |-> refresh.gen, alone |-> refresh.alone]
           /\ SettleNetwork =>
                /\ refresh' = RefreshIdle /\ waiting' = {} /\ calling' \in BOOLEAN
                /\ app' \in AppRecord
                /\ app' = app \/ (app'.access = FALSE /\ app'.status = "unauthenticated")
                /\ ending' = ending
           /\ SettleAborted =>
                /\ refresh' = RefreshIdle /\ waiting' = {} /\ calling' \in BOOLEAN
                /\ app' \in AppRecord /\ app' = app /\ ending' = ending
<1>1. app \in AppRecord
  BY PhoneTypes
<1> DEFINE without == [app EXCEPT !.access = FALSE]
           later == IF "restore" \in waiting THEN TryAgain ELSE app
<1>2. without \in AppRecord /\ without.access = FALSE /\ without.status = app.status
  BY <1>1 DEF AppRecord
<1>3. later \in AppRecord /\ (later = app \/ (later.access = FALSE /\ later.status = "unauthenticated"))
  BY <1>1, PhoneRecords
<1>4. SettleInvalid =>
        /\ Settle(without)
        /\ ending' = [at |-> "clear", gen |-> refresh.gen, alone |-> refresh.alone]
  BY DEF SettleInvalid
<1>5. SettleNetwork => Settle(later) /\ ending' = ending
  BY DEF SettleNetwork
<1>6. SettleAborted => Settle(app) /\ ending' = ending
  BY DEF SettleAborted
<1> HIDE DEF without, later
<1> QED
  BY <1>1, <1>2, <1>3, <1>4, <1>5, <1>6, SettleEffect

\* The token is loaded: without one the session is over, and with one it is sent.
LEMMA LoadedKeepsPhoneInv ==
    ASSUME PhoneInv, RefreshLoaded
    PROVE  PhoneInv'
<1>1. /\ TypeOK /\ ServerTypeOK /\ refresh \in RefreshRecord /\ app \in AppRecord
      /\ valid \subseteq 1..issued /\ request \in [Requests -> RequestRecord]
      /\ refresh.at = "load"
  BY PhoneTypes DEF PhoneInv, RefreshLoaded
<1>2. UNCHANGED <<generation, store, login, logout, out, late>>
  BY DEF RefreshLoaded, history
<1>3. CASE refresh.token = NoToken /\ SettleInvalid /\ UNCHANGED server
  <2>1. ServerTypeOK' /\ request' = request /\ UNCHANGED <<issued, valid, active>>
    BY <1>1, <1>3, ServerStays DEF server
  <2>2. refresh.alone /\ ~Superseded => store \notin valid
    BY <1>1, <1>3, PhoneRecords DEF PhoneInv, SettledInv
  <2> QED
    BY <1>1, <1>2, <1>3, <2>1, <2>2, ScreensAfter, SettleKeepsPhoneInv
<1>4. CASE SettleAborted /\ UNCHANGED server
  <2>1. ServerTypeOK' /\ request' = request /\ UNCHANGED <<issued, valid, active>>
    BY <1>1, <1>4, ServerStays DEF server
  <2> QED
    BY <1>1, <1>2, <1>4, <2>1, ScreensAfter, SettleKeepsPhoneInv
<1>5. ASSUME refresh.token # NoToken, ~Superseded, NEW r \in Requests,
             Send(r, "refresh", refresh.token), refresh' = [refresh EXCEPT !.at = "sent", !.via = r],
             UNCHANGED <<app, calling, waiting, ending>>
      PROVE  PhoneInv'
  <2>1. refresh.token \in 0..MaxTokens /\ refresh.token \in 0..issued
    BY <1>1 DEF RefreshRecord, PhoneInv, TokensInv
  <2>2. /\ ServerTypeOK' /\ Free(r) /\ UNCHANGED <<issued, valid, active>>
        /\ request'[r].at = "read" /\ request'[r].kind = "refresh" /\ request'[r].token = refresh.token
        /\ \A q \in Requests : q # r => request'[q] = request[q]
    <3>1. PICK t \in 0..MaxTokens : t = refresh.token
      BY <2>1
    <3>2. /\ Free(r) /\ request' = [request EXCEPT ![r] = Sent("refresh", t)]
          /\ UNCHANGED <<issued, valid, active, failures>>
      BY <1>5, <3>1 DEF Send
    <3>3. "refresh" \in Kinds
      BY DEF Kinds
    <3>4. /\ ServerTypeOK'
          /\ request'[r].at = "read" /\ request'[r].kind = "refresh" /\ request'[r].token = t
          /\ \A q \in Requests : q # r => request'[q] = request[q]
      BY <1>1, <3>2, <3>3, SentEffect
    <3> QED
      BY <3>1, <3>2, <3>4
  <2>3. ~(login.at = "sent" /\ login.via = r)
    BY <2>2 DEF PhoneInv, ViaInv, Free
  <2>4. /\ refresh' \in RefreshRecord
        /\ refresh'.at = "sent" /\ refresh'.via = r
        /\ refresh'.gen = refresh.gen /\ refresh'.alone = refresh.alone /\ refresh'.token = refresh.token
    BY <1>1, <1>5 DEF RefreshRecord, Via
  <2> QED
    BY <1>1, <1>2, <1>5, <2>1, <2>2, <2>3, <2>4, OnwardKeepsPhoneInv
<1> QED
  BY <1>3, <1>4, <1>5 DEF RefreshLoaded

\* The answer of a refresh: only a 401 ends the session, and only of a dead token.
LEMMA AnsweredKeepsPhoneInv ==
    ASSUME PhoneInv, NEW r \in Requests, RefreshAnswered(r)
    PROVE  PhoneInv'
<1>1. /\ TypeOK /\ ServerTypeOK /\ refresh \in RefreshRecord /\ app \in AppRecord
      /\ valid \subseteq 1..issued /\ request \in [Requests -> RequestRecord]
      /\ failures \in 0..MaxFailures
      /\ refresh.at = "sent" /\ refresh.via = r /\ request[r].at = "answered"
  BY PhoneTypes DEF PhoneInv, RefreshAnswered, Receive, Answered
<1>2. UNCHANGED <<generation, store, login, logout, out, late>>
  BY DEF RefreshAnswered, history
<1>3. /\ ServerTypeOK' /\ UNCHANGED <<issued, valid, active>>
      /\ \A q \in Requests : q # r => request'[q] = request[q]
      /\ request'[r].token = NoToken
  BY <1>1, ReceivedEffect DEF RefreshAnswered, Receive
<1>4. ~(login.at = "sent" /\ login.via = r)
  BY <1>1 DEF PhoneInv, ViaInv
<1>5. \/ SettleAborted
      \/ EndsSession(request[r].answer) /\ SettleInvalid
      \/ SettleNetwork
      \/ /\ request[r].answer = "ok" /\ ~Superseded
         /\ refresh' = [refresh EXCEPT !.at = "store", !.token = request[r].token, !.via = Nothing]
         /\ UNCHANGED <<app, calling, waiting, ending>>
  BY DEF RefreshAnswered
<1>6. CASE SettleAborted
  BY <1>1, <1>2, <1>3, <1>4, <1>6, ScreensAfter, SettleKeepsPhoneInv
<1>7. CASE EndsSession(request[r].answer) /\ SettleInvalid
  <2>1. refresh.alone /\ ~Superseded => store \notin valid
    BY <1>1, <1>7, PhoneRecords DEF PhoneInv, ViaInv, SettledInv, EndsSession
  <2> QED
    BY <1>1, <1>2, <1>3, <1>4, <1>7, <2>1, ScreensAfter, SettleKeepsPhoneInv
<1>8. CASE SettleNetwork
  BY <1>1, <1>2, <1>3, <1>4, <1>8, ScreensAfter, SettleKeepsPhoneInv
<1>9. CASE /\ request[r].answer = "ok" /\ ~Superseded
           /\ refresh' = [refresh EXCEPT !.at = "store", !.token = request[r].token, !.via = Nothing]
           /\ UNCHANGED <<app, calling, waiting, ending>>
  <2>1. /\ request[r].token \in 0..issued /\ request[r].token \in 0..MaxTokens
        /\ NoToken \in 0..issued
    BY <1>1, PhoneTypes, PhoneRecords DEF PhoneInv, TokensInv, RequestRecord
  <2>2. /\ refresh' \in RefreshRecord
        /\ refresh'.at = "store" /\ refresh'.token = request[r].token
        /\ refresh'.gen = refresh.gen /\ refresh'.alone = refresh.alone
    BY <1>1, <1>9, <2>1 DEF RefreshRecord, Via
  <2> QED
    BY <1>1, <1>2, <1>3, <1>4, <1>9, <2>1, <2>2, OnwardKeepsPhoneInv
<1> QED
  BY <1>5, <1>6, <1>7, <1>8, <1>9

\* The refresh gives up, or the store refuses its token.
LEMMA FailuresKeepPhoneInv ==
    ASSUME PhoneInv, RefreshTimesOut \/ RefreshStoreFails
    PROVE  PhoneInv'
<1>1. /\ TypeOK /\ ServerTypeOK /\ app \in AppRecord /\ failures \in 0..MaxFailures
  BY PhoneTypes DEF PhoneInv
<1>2. /\ UNCHANGED <<issued, valid, active, request, generation, login, logout, out, late>>
      /\ failures' \in 0..MaxFailures
  BY <1>1, PhoneRecords DEF RefreshTimesOut, RefreshStoreFails, history
<1>3. ServerTypeOK'
  BY <1>1, <1>2 DEF ServerTypeOK
<1>4. CASE RefreshTimesOut
  <2>1. SettleNetwork /\ store' = store /\ refresh.at = "sent"
    BY <1>4 DEF RefreshTimesOut
  <2> QED
    BY <1>1, <1>2, <1>3, <2>1, ScreensAfter, SettleKeepsPhoneInv
<1>5. CASE RefreshStoreFails
  <2>1. Settle(TryAgain) /\ store' = NoToken /\ refresh.at = "store" /\ ending' = ending
    BY <1>5 DEF RefreshStoreFails
  <2>2. /\ refresh' = RefreshIdle /\ waiting' = {} /\ calling' \in BOOLEAN
        /\ app' \in AppRecord /\ app'.access = FALSE /\ app'.status = "unauthenticated"
    BY <1>1, <2>1, PhoneRecords, SettleEffect
  <2> QED
    BY <1>1, <1>2, <1>3, <2>1, <2>2, SettleKeepsPhoneInv
<1> QED
  BY <1>4, <1>5

\* The token is in the store; a superseded refresh takes its own back.
LEMMA StoredKeepsPhoneInv ==
    ASSUME PhoneInv, RefreshStores \/ RefreshStored \/ RefreshUndone
    PROVE  PhoneInv'
<1>1. /\ TypeOK /\ ServerTypeOK /\ app \in AppRecord /\ refresh \in RefreshRecord
  BY PhoneTypes DEF PhoneInv
<1>2. /\ UNCHANGED server /\ UNCHANGED <<generation, login, logout, out, late>>
  <2>1. RefreshStores => UNCHANGED server /\ UNCHANGED <<generation, login, logout, out, late>>
    BY DEF RefreshStores, history
  <2>2. RefreshStored => UNCHANGED server /\ UNCHANGED <<generation, login, logout, out, late>>
    BY DEF RefreshStored, history
  <2>3. RefreshUndone => UNCHANGED server /\ UNCHANGED <<generation, login, logout, out, late>>
    BY DEF RefreshUndone, history
  <2> QED
    BY <2>1, <2>2, <2>3
<1>3. ServerTypeOK' /\ request' = request /\ UNCHANGED <<issued, valid, active>>
  BY <1>1, <1>2, ServerStays DEF server
<1>4. ASSUME NEW at \in {"stored", "undo"}, Goto(at)
      PROVE  /\ refresh' \in RefreshRecord
             /\ refresh'.at = at /\ refresh'.token = refresh.token
             /\ refresh'.gen = refresh.gen /\ refresh'.alone = refresh.alone
             /\ UNCHANGED <<app, calling, waiting, ending>>
  BY <1>1, <1>4 DEF Goto, RefreshRecord, Via
<1>5. CASE RefreshStores
  BY <1>1, <1>2, <1>3, <1>4, <1>5, OnwardKeepsPhoneInv DEF RefreshStores
<1>6. CASE RefreshStored
  <2>1. refresh.at = "stored" /\ store' = store
    BY <1>6 DEF RefreshStored
  <2>2. CASE ~Superseded /\ SettleOk
    <3>1. /\ refresh' = RefreshIdle /\ waiting' = {} /\ calling' \in BOOLEAN
          /\ app' \in AppRecord /\ ending' = ending
      BY <1>1, <2>2, PhoneRecords, SettleEffect DEF SettleOk
    <3> QED
      BY <1>2, <1>3, <2>1, <2>2, <3>1, SettleKeepsPhoneInv
  <2>3. CASE Superseded /\ store # refresh.token /\ SettleAborted
    BY <1>1, <1>2, <1>3, <2>1, <2>3, ScreensAfter, SettleKeepsPhoneInv
  <2>4. CASE Superseded /\ Goto("undo")
    BY <1>2, <1>3, <1>4, <2>1, <2>4, OnwardKeepsPhoneInv
  <2> QED
    BY <1>6, <2>2, <2>3, <2>4 DEF RefreshStored
<1>7. CASE RefreshUndone
  <2>1. SettleAborted /\ store' = NoToken /\ refresh.at = "undo"
    BY <1>7 DEF RefreshUndone
  <2> QED
    BY <1>1, <1>2, <1>3, <2>1, ScreensAfter, SettleKeepsPhoneInv
<1> QED
  BY <1>5, <1>6, <1>7
\* A login is sent; so is the logout of the server, when the phone has told itself.
LEMMA SendingKeepsPhoneInv ==
    ASSUME PhoneInv, LogoutCleared \/ \E r \in Requests : Login(r)
    PROVE  PhoneInv'
<1>1. /\ TypeOK /\ ServerTypeOK /\ app \in AppRecord /\ login \in FlowRecord /\ logout \in FlowRecord
      /\ request \in [Requests -> RequestRecord] /\ NoToken \in 0..MaxTokens /\ NoToken \in 0..issued
  BY PhoneTypes, PhoneRecords DEF PhoneInv
<1>2. UNCHANGED <<generation, store, calling, refresh, waiting, ending, out, late>>
  BY DEF LogoutCleared, Login, refreshing, history
<1>3. /\ ServerTypeOK' /\ UNCHANGED <<issued, valid, active>>
      /\ \A q \in Requests : request'[q] = request[q]
                             \/ (request[q].at = "none" /\ request'[q].token \in 0..issued)
  <2>1. ASSUME NEW r \in Requests, NEW kind \in Kinds, NEW t \in 0..MaxTokens, t \in 0..issued,
               Send(r, kind, t)
        PROVE  /\ ServerTypeOK' /\ UNCHANGED <<issued, valid, active>>
               /\ \A q \in Requests : request'[q] = request[q]
                                      \/ (request[q].at = "none" /\ request'[q].token \in 0..issued)
    <3>1. /\ request[r].at = "none" /\ request' = [request EXCEPT ![r] = Sent(kind, t)]
          /\ UNCHANGED <<issued, valid, active, failures>>
      BY <2>1 DEF Send, Free
    <3>2. /\ ServerTypeOK'
          /\ request'[r].token = t
          /\ \A q \in Requests : q # r => request'[q] = request[q]
      BY <1>1, <3>1, SentEffect
    <3> QED
      BY <2>1, <3>1, <3>2
  <2>2. ASSUME UNCHANGED server
        PROVE  ServerTypeOK' /\ UNCHANGED <<issued, valid, active>> /\ request' = request
    BY <1>1, <2>2, ServerStays DEF server
  <2>3. CASE LogoutCleared
    <3>1. logout.token \in 0..MaxTokens /\ logout.token \in 0..issued
      BY <1>1 DEF FlowRecord, PhoneInv, TokensInv
    <3> QED
      BY <2>1, <2>2, <2>3, <3>1 DEF LogoutCleared, Kinds
  <2>4. CASE \E r \in Requests : Login(r)
    BY <1>1, <2>1, <2>4 DEF Login, Kinds
  <2> QED
    BY <2>3, <2>4
<1>4. \/ /\ login.at = "idle" /\ login' \in FlowRecord /\ login'.at = "sent" /\ login'.token = NoToken
         /\ login'.via \in Requests /\ request'[login'.via].kind = "login"
         /\ request'[login'.via].at = "read"
         /\ logout' = logout /\ app' = app
      \/ /\ logout.at = "cleared" /\ logout' = FlowIdle /\ login' = login
         /\ app' \in AppRecord /\ app'.access = app.access /\ app'.status = "unauthenticated"
  <2>1. CASE LogoutCleared
    <3>1. app' = [SignedOut EXCEPT !.access = app.access]
      BY <2>1 DEF LogoutCleared
    <3>2. app' \in AppRecord /\ app'.access = app.access /\ app'.status = "unauthenticated"
      BY <1>1, <3>1 DEF SignedOut, AppRecord
    <3> QED
      BY <2>1, <3>2 DEF LogoutCleared
  <2>2. ASSUME NEW r \in Requests, Login(r)
        PROVE  /\ login.at = "idle" /\ login' \in FlowRecord /\ login'.at = "sent" /\ login'.token = NoToken
               /\ login'.via \in Requests /\ request'[login'.via].kind = "login"
               /\ request'[login'.via].at = "read"
               /\ logout' = logout /\ app' = app
    <3>1. request'[r].kind = "login" /\ request'[r].at = "read"
      BY <1>1, <2>2, SentEffect DEF Login, Send, Kinds
    <3>2. login' \in FlowRecord /\ login'.at = "sent" /\ login'.token = NoToken /\ login'.via = r
      BY <2>2, PhoneRecords DEF Login, FlowRecord, Via
    <3> QED
      BY <2>2, <3>1, <3>2 DEF Login
  <2> QED
    BY <2>1, <2>2
<1>5. TypeOK'
  BY <1>1, <1>2, <1>3, <1>4, PhoneRecords DEF TypeOK
<1>6. GenInv' /\ OutInv'
  BY <1>2, <1>4, PhoneTypes, PhoneRecords DEF PhoneInv, GenInv, OutInv, Doomed, Superseded, LoginStoring
<1>7. TokensInv' /\ ViaInv'
  <2>1. TokensInv'
    BY <1>1, <1>2, <1>3, <1>4, PhoneRecords DEF PhoneInv, TokensInv
  <2>2. ViaInv'
    BY <1>2, <1>3, <1>4, PhoneRecords DEF PhoneInv, ViaInv
  <2> QED
    BY <2>1, <2>2
<1>8. SettledInv' /\ DeadInv'
  <2>1. SettledInv'
    BY <1>2, <1>4, PhoneRecords DEF PhoneInv, SettledInv, Superseded, LoginStoring
  <2>2. DeadInv'
    BY <1>2, <1>3 DEF PhoneInv, DeadInv, ViaInv
  <2> QED
    BY <2>1, <2>2
<1> QED
  BY <1>5, <1>6, <1>7, <1>8 DEF PhoneInv

\* The answer of a login, and an answer nobody waits for.
LEMMA ReceivingKeepsPhoneInv ==
    ASSUME PhoneInv, NEW r \in Requests, LoginAnswered(r) \/ Discard(r)
    PROVE  PhoneInv'
<1>1. /\ TypeOK /\ ServerTypeOK /\ app \in AppRecord /\ login \in FlowRecord /\ logout \in FlowRecord
      /\ request \in [Requests -> RequestRecord] /\ NoToken \in 0..issued
      /\ failures \in 0..MaxFailures /\ refresh \in RefreshRecord /\ generation \in 0..MaxGenerations
  BY PhoneTypes, PhoneRecords DEF PhoneInv
<1>2. UNCHANGED <<store, app, calling, refresh, waiting, ending, logout>>
  BY DEF LoginAnswered, Discard, phone, refreshing, history
<1>3. /\ ServerTypeOK' /\ UNCHANGED <<issued, valid, active>>
      /\ \A q \in Requests : q # r => request'[q] = request[q]
      /\ request'[r].token = NoToken
  <2>1. Receive(r)
    BY DEF LoginAnswered, Discard
  <2> QED
    BY <1>1, <2>1, ReceivedEffect DEF Receive
<1>4. ~(refresh.at = "sent" /\ refresh.via = r)
  <2>1. CASE LoginAnswered(r)
    BY <2>1 DEF LoginAnswered, PhoneInv, ViaInv
  <2>2. CASE Discard(r)
    BY <2>2 DEF Discard
  <2> QED
    BY <2>1, <2>2
<1>5. /\ login' \in FlowRecord /\ login'.token \in 0..issued
      /\ login'.at # "sent" \/ (login' = login /\ login.via # r)
      /\ generation' \in 0..MaxGenerations /\ out' \in BOOLEAN /\ late' \in BOOLEAN
      /\ \/ generation' = generation + 1 /\ ~out' /\ ~late'
         \/ /\ generation' = generation /\ out' = out /\ late' = late
            /\ login' = login \/ login' = FlowIdle
  <2>1. CASE Discard(r)
    BY <1>1, <2>1, PhoneTypes DEF Discard, phone, history, PhoneInv, TokensInv
  <2>2. CASE LoginAnswered(r) /\ request[r].answer = "ok"
    <3>1. request[r].token \in 0..issued /\ request[r].token \in 0..MaxTokens
      BY <1>1 DEF PhoneInv, TokensInv, RequestRecord
    <3>2. /\ login' = [FlowIdle EXCEPT !.at = "store", !.token = request[r].token]
          /\ generation < MaxGenerations /\ generation' = generation + 1
          /\ out' = FALSE /\ late' = FALSE
      BY <2>2 DEF LoginAnswered, Bump
    <3>3. login' \in FlowRecord /\ login'.at = "store" /\ login'.token = request[r].token
      BY <3>1, <3>2, PhoneRecords DEF FlowRecord
    <3>4. generation + 1 \in 0..MaxGenerations
      BY <1>1, <3>2, PhoneRecords
    <3> QED
      BY <3>1, <3>2, <3>3, <3>4
  <2>3. CASE LoginAnswered(r) /\ request[r].answer # "ok"
    <3>1. login' = FlowIdle /\ UNCHANGED <<generation, out, late>>
      BY <2>3 DEF LoginAnswered, history
    <3> QED
      BY <1>1, <3>1, PhoneTypes, PhoneRecords
  <2> QED
    BY <2>1, <2>2, <2>3
<1>6. TypeOK'
  BY <1>1, <1>2, <1>3, <1>5 DEF TypeOK
<1>7. GenInv' /\ OutInv'
  <2>1. /\ refresh.gen \in Nat /\ refresh.gen <= generation
        /\ ending.gen \in Nat /\ ending.gen <= generation
    BY PhoneTypes, PhoneRecords DEF PhoneInv, GenInv, RefreshRecord
  <2>2. GenInv'
    BY <1>1, <1>2, <1>5, <2>1 DEF GenInv
  <2>3. OutInv'
    BY <1>1, <1>2, <1>5, <2>1, PhoneRecords DEF PhoneInv, OutInv, Doomed, Superseded, LoginStoring
  <2> QED
    BY <2>2, <2>3
<1>8. TokensInv' /\ ViaInv'
  <2>1. TokensInv'
    BY <1>1, <1>2, <1>3, <1>5 DEF PhoneInv, TokensInv
  <2>2. ViaInv'
    BY <1>2, <1>3, <1>4, <1>5, PhoneRecords DEF PhoneInv, ViaInv
  <2> QED
    BY <2>1, <2>2
<1>9. SettledInv' /\ DeadInv'
  <2>1. SettledInv'
    BY <1>1, <1>2, <1>5, PhoneTypes, PhoneRecords
       DEF PhoneInv, GenInv, SettledInv, Superseded, LoginStoring, RefreshRecord
  <2>2. DeadInv'
    BY <1>1, <1>2, <1>3, <1>4, <1>5, PhoneTypes DEF PhoneInv, GenInv, DeadInv, ViaInv
  <2> QED
    BY <2>1, <2>2
<1> QED
  BY <1>6, <1>7, <1>8, <1>9 DEF PhoneInv

\* A logout goes past every refresh.
LEMMA LogoutKeepsPhoneInv ==
    ASSUME PhoneInv, Logout
    PROVE  PhoneInv'
<1>1. /\ TypeOK /\ ServerTypeOK /\ logout \in FlowRecord /\ store \in 0..MaxTokens
      /\ refresh \in RefreshRecord /\ generation \in 0..MaxGenerations
  BY PhoneTypes DEF PhoneInv
<1>2. /\ UNCHANGED server /\ UNCHANGED <<store, app, calling, refresh, waiting, ending, login>>
      /\ generation < MaxGenerations /\ generation' = generation + 1
      /\ late' = FALSE
  BY DEF Logout, Bump, refreshing
<1>3. ServerTypeOK' /\ request' = request /\ UNCHANGED <<issued, valid, active>>
  BY <1>1, <1>2, ServerStays DEF server
<1>4. out' \in BOOLEAN /\ (out' => ~LoginStoring) /\ logout.at = "idle"
  BY DEF Logout, LoginStoring
<1>5. logout' \in FlowRecord /\ logout'.at = "clear" /\ logout'.token = store
  BY <1>1, PhoneRecords DEF Logout, FlowRecord
<1>6. generation' \in 0..MaxGenerations
  BY <1>1, <1>2, PhoneRecords
<1>7. TypeOK'
  BY <1>1, <1>2, <1>3, <1>4, <1>5, <1>6 DEF TypeOK
<1>8. GenInv' /\ OutInv'
  <2>1. /\ refresh.gen \in Nat /\ refresh.gen <= generation
        /\ ending.gen \in Nat /\ ending.gen <= generation
    BY PhoneTypes, PhoneRecords DEF PhoneInv, GenInv, RefreshRecord
  <2>2. GenInv'
    BY <1>1, <1>2, <2>1 DEF GenInv
  <2>3. OutInv'
    BY <1>1, <1>2, <1>4, <1>5, <2>1 DEF PhoneInv, OutInv, Doomed, Superseded, LoginStoring
  <2> QED
    BY <2>2, <2>3
<1>9. TokensInv' /\ ViaInv'
  BY <1>2, <1>3, <1>5 DEF PhoneInv, TokensInv, ViaInv
<1>10. SettledInv' /\ DeadInv'
  BY <1>1, <1>2, PhoneTypes DEF PhoneInv, GenInv, SettledInv, DeadInv, Superseded, LoginStoring
<1> QED
  BY <1>7, <1>8, <1>9, <1>10 DEF PhoneInv

\* Of a killed application, only the secure store is left.
LEMMA RestartKeepsPhoneInv ==
    ASSUME PhoneInv, Restart
    PROVE  PhoneInv'
<1>1. /\ TypeOK /\ ServerTypeOK /\ store \in 0..MaxTokens /\ failures \in 0..MaxFailures
      /\ issued \in Nat
  BY PhoneTypes DEF PhoneInv
<1>2. /\ UNCHANGED <<issued, valid, active, request, store>>
      /\ generation' = 0 /\ app' = Booting /\ calling' = FALSE /\ refresh' = RefreshIdle
      /\ waiting' = {} /\ ending' = NotEnding /\ login' = FlowIdle /\ logout' = FlowIdle
      /\ out' = FALSE /\ late' = FALSE
      /\ failures' \in 0..MaxFailures
  BY <1>1, PhoneRecords DEF Restart
<1>3. TypeOK'
  BY <1>1, <1>2, PhoneRecords DEF TypeOK, ServerTypeOK
<1>4. GenInv' /\ OutInv' /\ TokensInv' /\ ViaInv' /\ SettledInv' /\ DeadInv'
  BY <1>1, <1>2, PhoneRecords
     DEF PhoneInv, GenInv, OutInv, TokensInv, ViaInv, SettledInv, DeadInv, LoginStoring
<1> QED
  BY <1>3, <1>4 DEF PhoneInv

\* Every step keeps the invariant of the phone.
LEMMA PhoneNext ==
    ASSUME PhoneInv, [Next]_vars
    PROVE  PhoneInv'
<1>1. CASE UNCHANGED vars
  BY <1>1 DEF vars, server, phone, refreshing, history, PhoneInv, TypeOK, ServerTypeOK, GenInv, OutInv,
              TokensInv, ViaInv, SettledInv, DeadInv, Doomed, Superseded, LoginStoring
<1>2. CASE ServerNext /\ UNCHANGED phone
  BY <1>2, ServerKeepsPhoneInv
<1>3. CASE PhoneStep
  <2>1. CASE Restore \/ CallUnauthorized
    BY <2>1, AskingKeepsPhoneInv
  <2>2. CASE Call \/ CallSucceeds \/ EndingCleared \/ LoginStored
    BY <2>2, ScreensKeepPhoneInv
  <2>3. CASE EndingClears \/ LogoutClears \/ LoginStores \/ LoginStoreFails
    BY <2>3, StoresKeepPhoneInv
  <2>4. CASE RefreshLoaded \/ \E r \in Requests : RefreshAnswered(r)
    BY <2>4, LoadedKeepsPhoneInv, AnsweredKeepsPhoneInv
  <2>5. CASE RefreshTimesOut \/ RefreshStoreFails
    BY <2>5, FailuresKeepPhoneInv
  <2>6. CASE RefreshStores \/ RefreshStored \/ RefreshUndone
    BY <2>6, StoredKeepsPhoneInv
  <2>7. CASE LogoutCleared \/ \E r \in Requests : Login(r)
    BY <2>7, SendingKeepsPhoneInv
  <2>8. CASE \E r \in Requests : LoginAnswered(r) \/ Discard(r)
    BY <2>8, ReceivingKeepsPhoneInv
  <2>9. CASE Logout \/ Restart
    BY <2>9, LogoutKeepsPhoneInv, RestartKeepsPhoneInv
  <2> QED
    BY <1>3, <2>1, <2>2, <2>3, <2>4, <2>5, <2>6, <2>7, <2>8, <2>9 DEF PhoneStep
<1> QED
  BY <1>1, <1>2, <1>3 DEF Next

\* The invariant of the phone, over every order of a refresh, a login and a logout.
THEOREM PhoneInvariance == Spec => []PhoneInv
<1>1. Init => PhoneInv
  <2>1. NoRequest \in RequestRecord /\ NoRequest.token = NoToken
    BY PhoneRecords DEF NoRequest, RequestRecord, Answers, Kinds
  <2>2. ServerInit => /\ ServerTypeOK /\ issued = 0
                      /\ \A r \in Requests : request[r].token = NoToken
    <3> HIDE DEF NoRequest
    <3> QED
      BY <2>1, PhoneRecords DEF ServerInit, ServerTypeOK
  <2>3. Init => TypeOK
    <3>1. Init => calling \in BOOLEAN /\ out \in BOOLEAN /\ late \in BOOLEAN
      BY DEF Init
    <3>2. Init => /\ ServerTypeOK
                  /\ generation \in 0..MaxGenerations /\ store \in 0..MaxTokens
                  /\ app \in AppRecord /\ refresh \in RefreshRecord /\ waiting = {}
      BY <2>2, PhoneRecords DEF Init
    <3>3. Init => /\ ending \in [at : {"no", "clear", "cleared"}, gen : 0..MaxGenerations, alone : BOOLEAN]
                  /\ login \in FlowRecord /\ logout \in FlowRecord
      BY PhoneRecords DEF Init
    <3> QED
      BY <3>1, <3>2, <3>3 DEF TypeOK
  <2>4. Init => GenInv /\ OutInv /\ TokensInv /\ ViaInv /\ SettledInv /\ DeadInv
    BY <2>2, PhoneRecords
       DEF Init, GenInv, OutInv, TokensInv, ViaInv, SettledInv, DeadInv, LoginStoring
  <2> QED
    BY <2>3, <2>4 DEF PhoneInv
<1>2. PhoneInv /\ [Next]_vars => PhoneInv'
  BY PhoneNext
<1> QED
  BY <1>1, <1>2, PTL DEF Spec

\* After a logout no refresh that was on its way brings the session back
\* (session-refresh.ts and logout of AuthProvider): the generation tells it.
THEOREM LogoutHolds == Spec => []LogoutSticks
<1>1. PhoneInv => LogoutSticks
  BY DEF PhoneInv, OutInv, LogoutSticks
<1> QED
  BY <1>1, PhoneInvariance, PTL

\* A refresh that nothing went past clears the store only of a token that the server
\* would not accept (coordinatedRefresh and applyRefreshOutcome).
THEOREM DeadTokensOnly == Spec => OnlyDeadTokensThrown
<1>1. PhoneInv /\ [Next]_vars =>
        [EndingClears /\ ending.alone /\ ending.gen = generation => store \notin valid]_vars
  BY DEF PhoneInv, DeadInv, EndingClears
<1> QED
  BY <1>1, PhoneInvariance, PTL DEF Spec, OnlyDeadTokensThrown
=============================================================================
