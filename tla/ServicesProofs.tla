--------------------------- MODULE ServicesProofs ---------------------------
(***************************************************************************)
(* Theorems about three services that share no state: one participant of a *)
(* chat sending, the alerts about matching requests, and the ratings.      *)
(***************************************************************************)
EXTENDS ChatSending, MatchingAlerts, Ratings, TLAPS, WellFoundedInduction, FiniteSetTheorems


----------------------------------------------------------------------------
(* Sets of numbers.                                                        *)

\* A set of natural numbers that is not empty has a least element.
LEMMA Least ==
    ASSUME NEW T, T \subseteq Nat, T # {}
    PROVE  \E x \in T : \A y \in T : x <= y
<1> DEFINE R == {p \in Nat \X Nat : p[1] < p[2]}
<1>1. R = OpToRel(<, Nat)
  BY DEF OpToRel
<1>2. IsWellFoundedOn(R, Nat)
  BY <1>1, NatLessThanWellFounded
<1>3. PICK x \in T : \A y \in T : ~(<<y, x>> \in R)
  <2> HIDE DEF R
  <2> QED BY <1>2, WFMin
<1>4. \A y \in T : x <= y
  <2> TAKE y \in T
  <2>1. x \in Nat /\ y \in Nat
    OBVIOUS
  <2>2. ~(y < x)
    <3> SUFFICES ASSUME y < x PROVE <<y, x>> \in R
      BY <1>3
    <3>1. <<y, x>> \in Nat \X Nat /\ <<y, x>>[1] = y /\ <<y, x>>[2] = x
      BY <2>1
    <3> QED BY <3>1
  <2> QED BY <2>1, <2>2
<1> QED BY <1>4

\* A set of natural numbers up to a bound that is not empty has a greatest element.
LEMMA Greatest ==
    ASSUME NEW n \in Nat, NEW T, T \subseteq 1 .. n, T # {}
    PROVE  \E x \in T : \A y \in T : y <= x
<1> DEFINE D == {d \in Nat : n - d \in T}
<1>1. D \subseteq Nat
  OBVIOUS
<1>2. D # {}
  <2>1. PICK x \in T : x \in 1 .. n
    OBVIOUS
  <2>2. n - x \in Nat /\ n - (n - x) = x
    BY <2>1
  <2> QED BY <2>1, <2>2
<1>3. PICK d \in D : \A e \in D : d <= e
  <2> HIDE DEF D
  <2> QED BY <1>1, <1>2, Least
<1>4. ASSUME NEW y \in T PROVE y <= n - d
  <2>1. y \in 1 .. n
    OBVIOUS
  <2>2. n - y \in Nat /\ n - (n - y) = y
    BY <2>1
  <2>3. d <= n - y
    BY <1>3, <2>2
  <2> QED BY <2>1, <2>3
<1> QED BY <1>3, <1>4

----------------------------------------------------------------------------
(* ChatSending.                                                            *)

CallSteps == {"unused", "sent", "checked", "stamped", "stored", "answered", "refused", "over"}

CallRecord ==
    [at : CallSteps, key : 0 .. MaxCalls, text : Texts \cup {NoText},
     via : {"socket", "gone", "rest"}, stamp : Nat]

\* What the type invariant says of the calls.
CallsTyped == call \in [CallIds -> CallRecord]

\* The type invariant says it.
LEMMA CallsAreTyped == ChatTypeOK => CallsTyped
BY DEF ChatTypeOK, CallsTyped, CallRecord, CallSteps

\* A step keeps what the calls that are in use carry, and puts none to use.
CallsKept ==
    \A c \in CallIds :
        /\ KeyOf(c)' = KeyOf(c)
        /\ call[c].text' = call[c].text
        /\ call[c].at' = "unused" <=> call[c].at = "unused"
        /\ call[c].at = "unused" => call'[c] = call[c]

\* A step puts one call to use.
CallAdded(c, t, k, v) ==
    /\ call[c].at = "unused"
    /\ call'[c] = [at |-> "sent", key |-> k, text |-> t, via |-> v, stamp |-> 0]
    /\ \A d \in CallIds \ {c} : call'[d] = call[d]

\* A call moves on and nothing else happens to the calls.
LEMMA AtEffect ==
    ASSUME CallsTyped, NEW c \in CallIds, NEW a \in CallSteps, CallAt(c, a),
           call[c].at # "unused", a # "unused"
    PROVE  /\ CallsTyped' /\ CallsKept
           /\ call'[c].at = a
           /\ \A d \in CallIds \ {c} : call'[d] = call[d]
<1>1. call[c] \in CallRecord
  BY DEF CallsTyped
<1> DEFINE r == [call[c] EXCEPT !.at = a]
<1>2. /\ r \in CallRecord /\ r.at = a /\ r.key = call[c].key /\ r.text = call[c].text
  BY <1>1 DEF CallRecord
<1>3. call' = [call EXCEPT ![c] = r]
  BY DEF CallAt
<1> HIDE DEF r
<1>4. /\ call'[c] = r /\ \A d \in CallIds \ {c} : call'[d] = call[d]
      /\ CallsTyped'
  BY <1>2, <1>3 DEF CallsTyped
<1> QED BY <1>2, <1>4 DEF CallsKept, KeyOf

\* The transaction of a call starts.
LEMMA StampEffect ==
    ASSUME CallsTyped, NEW c \in CallIds, clock \in Nat, StampMessage(c)
    PROVE  /\ CallsTyped' /\ CallsKept
           /\ call'[c].at = "stamped"
           /\ \A d \in CallIds \ {c} : call'[d] = call[d]
<1>1. call[c] \in CallRecord /\ call[c].at = "checked"
  BY DEF CallsTyped, StampMessage
<1> DEFINE r == [call[c] EXCEPT !.at = "stamped", !.stamp = clock + 1]
<1>a. clock + 1 \in Nat
  OBVIOUS
<1>2. /\ r \in CallRecord /\ r.at = "stamped" /\ r.key = call[c].key
      /\ r.text = call[c].text
  BY <1>1, <1>a DEF CallRecord, CallSteps
<1>3. call' = [call EXCEPT ![c] = r]
  BY DEF StampMessage
<1> HIDE DEF r
<1>4. /\ call'[c] = r /\ \A d \in CallIds \ {c} : call'[d] = call[d]
      /\ CallsTyped'
  BY <1>2, <1>3 DEF CallsTyped
<1> QED BY <1>1, <1>2, <1>4 DEF CallsKept, KeyOf

\* The connection is lost, and the way back of every call over the socket.
LEMMA DisconnectEffect ==
    ASSUME CallsTyped, Disconnect
    PROVE  /\ CallsTyped' /\ CallsKept
           /\ \A d \in CallIds : call'[d].at = call[d].at
<1> DEFINE g(d) == [call[d] EXCEPT !.via = "gone"]
<1>1. \A d \in CallIds :
         /\ g(d) \in CallRecord /\ g(d).at = call[d].at
         /\ g(d).key = call[d].key /\ g(d).text = call[d].text
  BY DEF CallsTyped, CallRecord
<1>2. call' = [d \in CallIds |-> IF call[d].via = "socket" /\ call[d].at # "unused"
                                 THEN g(d) ELSE call[d]]
  BY DEF Disconnect
<1> HIDE DEF g
<1>3. \A d \in CallIds : call'[d] = IF call[d].via = "socket" /\ call[d].at # "unused"
                                    THEN g(d) ELSE call[d]
  BY <1>2
<1>4. CallsTyped'
  BY <1>1, <1>2 DEF CallsTyped
<1>5. \A d \in CallIds : call'[d].at = call[d].at
  BY <1>1, <1>3
<1>6. CallsKept
  BY <1>1, <1>3 DEF CallsKept, KeyOf
<1> QED BY <1>4, <1>5, <1>6

\* A call is sent: one that was not in use.
LEMMA SendEffect ==
    ASSUME CallsTyped, NEW c \in CallIds, call[c].at = "unused",
           NEW t \in Texts, NEW k \in CallIds, NEW v \in {"socket", "rest"},
           SendRequest(c, t, k, v), MaxCalls \in Nat
    PROVE  CallsTyped' /\ CallAdded(c, t, k, v)
<1> DEFINE r == [at |-> "sent", key |-> k, text |-> t, via |-> v, stamp |-> 0]
<1>1. r \in CallRecord
  BY DEF CallRecord, CallIds, CallSteps
<1>2. call' = [call EXCEPT ![c] = r]
  BY DEF SendRequest
<1>3. /\ call'[c] = r /\ \A d \in CallIds \ {c} : call'[d] = call[d]
      /\ CallsTyped'
  <2> HIDE DEF r
  <2> QED BY <1>1, <1>2 DEF CallsTyped
<1> QED BY <1>3 DEF CallAdded

\* There is a first of the calls that are not in use.
LEMMA FirstIsUnused ==
    ASSUME Unused # {}, MaxCalls \in Nat
    PROVE  FirstUnused \in CallIds /\ call[FirstUnused].at = "unused"
<1>1. Unused \subseteq Nat
  BY DEF Unused, CallIds
<1>2. \E c \in Unused : \A d \in Unused : c <= d
  BY <1>1, Least
<1>3. FirstUnused \in Unused
  <2> HIDE DEF Unused
  <2> QED BY <1>2 DEF FirstUnused
<1> QED BY <1>3 DEF Unused

\* Submit finds a call to use.
LEMMA SubmitFindsOne ==
    ASSUME Submit, SendingAssumption
    PROVE  FirstUnused \in CallIds /\ call[FirstUnused].at = "unused"
<1>1. MaxCalls \in Nat
  BY DEF SendingAssumption
<1>2. Cardinality(Unused) > 0 \/ Cardinality(Unused) > 1
  BY DEF Submit
<1>3. Unused # {}
  BY <1>2, FS_EmptySet
<1> QED BY <1>1, <1>3, FirstIsUnused

----------------------------------------------------------------------------
\* What is said of a call that is in use stays said.
UsedKept ==
    \A d \in UsedCalls : /\ d \in UsedCalls'
                         /\ KeyOf(d)' = KeyOf(d)
                         /\ call[d].text' = call[d].text

\* What is kept of the calls keeps what is in use, and the texts there are.
LEMMA KeptIsKept == CallsKept => UsedKept /\ UsedCalls' = UsedCalls /\ Composed' = Composed
BY DEF CallsKept, UsedKept, UsedCalls, KeyOf, Composed

\* A call put to use adds itself, and its text, to what there was.
LEMMA AddedIsKept ==
    ASSUME NEW c \in CallIds, NEW t, NEW k, NEW v, CallAdded(c, t, k, v)
    PROVE  /\ UsedKept /\ UsedCalls' = UsedCalls \cup {c}
           /\ Composed' \subseteq Composed \cup {t}
           /\ c \notin UsedCalls
           /\ call[c].text' = t /\ KeyOf(c)' = k
BY DEF CallAdded, UsedKept, UsedCalls, KeyOf, Composed

\* The call of a text that was composed is in use.
LEMMA ComposedIsUsed ==
    ASSUME CallsInv, NoText \notin Texts, NEW c \in CallIds, call[c].text \in Texts
    PROVE  c \in UsedCalls
BY DEF CallsInv, NoCall

\* The id a new call may carry: its own, or the one its text has.
IdFor(c, k, t) ==
    \/ k = c
    \/ k \in UsedCalls /\ KeyOf(k) = k /\ call[k].text = t

\* The ids stay what they are when no call is put to use.
LEMMA CallsInvKept == ASSUME CallsInv, CallsKept PROVE CallsInv'
<1>1. UsedCalls' = UsedCalls
  BY KeptIsKept
<1>2. ASSUME NEW c \in CallIds, c \notin UsedCalls PROVE call'[c] = NoCall
  BY <1>2 DEF CallsInv, CallsKept, UsedCalls
<1>3. ASSUME NEW c \in UsedCalls
      PROVE  /\ call[c].text' \in Texts
             /\ KeyOf(c)' \in UsedCalls
             /\ call'[call'[c].key].key = call'[c].key
             /\ call'[call'[c].key].text = call'[c].text
  <2>1. c \in CallIds /\ KeyOf(c) \in CallIds /\ KeyOf(c) \in UsedCalls
    BY DEF CallsInv, UsedCalls
  <2>2. KeyOf(KeyOf(c)) = KeyOf(c) /\ call[KeyOf(c)].text = call[c].text /\ call[c].text \in Texts
    BY <2>1 DEF CallsInv
  <2> QED BY <2>1, <2>2 DEF CallsKept, KeyOf
<1> QED BY <1>1, <1>2, <1>3 DEF CallsInv, KeyOf

\* The ids stay sound when a call is put to use under its own id or its text's.
LEMMA CallsInvAdded ==
    ASSUME CallsInv, NEW c \in CallIds, NEW t \in Texts, NEW k, NEW v,
           CallAdded(c, t, k, v), IdFor(c, k, t)
    PROVE  CallsInv'
<1>1. /\ UsedCalls' = UsedCalls \cup {c} /\ UsedKept /\ c \notin UsedCalls
      /\ call'[c].text = t /\ call'[c].key = k
  BY AddedIsKept DEF KeyOf
<1>2. ASSUME NEW d \in CallIds, d \notin UsedCalls' PROVE call'[d] = NoCall
  BY <1>1, <1>2 DEF CallsInv, CallAdded
<1>3. ASSUME NEW d \in UsedCalls
      PROVE  /\ call[d].text' \in Texts
             /\ KeyOf(d)' \in UsedCalls
             /\ call'[call'[d].key].key = call'[d].key
             /\ call'[call'[d].key].text = call'[d].text
  <2>1. d \in CallIds /\ KeyOf(d) \in UsedCalls
    BY DEF CallsInv, UsedCalls
  <2>2. KeyOf(KeyOf(d)) = KeyOf(d) /\ call[KeyOf(d)].text = call[d].text /\ call[d].text \in Texts
    BY <2>1 DEF CallsInv
  <2> QED BY <1>1, <2>1, <2>2 DEF UsedKept, KeyOf
<1>4. /\ call'[c].text \in Texts /\ call'[c].key \in UsedCalls'
      /\ call'[call'[c].key].key = call'[c].key
      /\ call'[call'[c].key].text = call'[c].text
  <2>1. CASE k = c
    BY <2>1, <1>1
  <2>2. CASE k \in UsedCalls /\ KeyOf(k) = k /\ call[k].text = t
    BY <2>2, <1>1 DEF UsedKept, KeyOf
  <2> QED BY <2>1, <2>2 DEF IdFor
<1> QED BY <1>1, <1>2, <1>3, <1>4 DEF CallsInv, KeyOf

\* A step that adds no message, and answers only with messages there are.
LEMMA MessagesInvKept ==
    ASSUME MessagesInv, UsedKept, messages' = messages,
           \A c \in CallIds : call'[c].at \in {"stored", "answered"} =>
               \E msg \in messages : msg.key = call'[c].key
    PROVE  MessagesInv'
<1>1. \A c \in CallIds : call[c].at' \in {"stored", "answered"} => IsStored(KeyOf(c))'
  BY DEF IsStored, KeyOf
<1>2. \A msg \in messages :
         /\ msg.key \in UsedCalls' /\ KeyOf(msg.key)' = msg.key
         /\ call'[msg.key].text = msg.text
  BY DEF MessagesInv, UsedKept
<1>3. \A p, q \in messages : p.key = q.key => p = q
  BY DEF MessagesInv
<1> QED BY <1>1, <1>2, <1>3 DEF MessagesInv

\* The thread forgets nothing.
ThreadGrows == messages \subseteq messages' /\ shown \subseteq shown'

\* A text that is displayed stays displayed.
LEMMA ShownStays == ThreadGrows => \A t : ShownText(t) => ShownText(t)'
BY DEF ThreadGrows, ShownText

\* The pending text of a composer that looks on.
LEMMA PendingKept ==
    ASSUME ChatInv, CallsKept, UNCHANGED <<box, waiting>>
    PROVE  PendingText' = PendingText
<1>1. waiting # 0 => call'[waiting].text = call[waiting].text
  BY KeptIsKept DEF ChatInv, AttemptInv, UsedKept
<1> QED BY <1>1 DEF PendingText

\* No text got a second id, and the pending one is as before.
LEMMA OneKeyKept ==
    ASSUME ChatInv, CallsKept, UNCHANGED <<box, lastAttempt, wiped>>,
           PendingText' = PendingText, waiting' \in {0, waiting}
    PROVE  OneKeyInv'
<1>1. UsedCalls' = UsedCalls /\ Composed' = Composed /\ UsedKept
  BY KeptIsKept
<1>2. waiting' # 0 => box' \notin Composed'
  BY <1>1 DEF ChatInv, OneKeyInv
<1>3. ASSUME ~wiped PROVE \A c, d \in UsedCalls' :
         call'[c].text = call'[d].text => KeyOf(c)' = KeyOf(d)'
  BY <1>1, <1>3 DEF ChatInv, OneKeyInv, UsedKept
<1>4. ASSUME ~wiped PROVE PendingText' \in Composed' => lastAttempt'.text = PendingText'
  BY <1>1, <1>4 DEF ChatInv, OneKeyInv
<1> QED BY <1>2, <1>3, <1>4 DEF OneKeyInv

\* The composer looks on, or only sees more of the thread.
LEMMA LooksOn ==
    ASSUME ChatInv, UNCHANGED <<box, lastAttempt, waiting, submitted, wiped>>,
           ThreadGrows, CallsKept
    PROVE  AttemptInv' /\ NothingVanishes' /\ OneKeyInv'
<1>1. UsedCalls' = UsedCalls /\ Composed' = Composed /\ UsedKept
  BY KeptIsKept
<1>2. \A t : ShownText(t) => ShownText(t)'
  BY ShownStays
<1>3. AttemptInv'
  BY <1>1 DEF ChatInv, AttemptInv, UsedKept, KeyOf, NoAttempt
<1>4. NothingVanishes'
  BY <1>2 DEF ChatInv, NothingVanishes
<1>5. OneKeyInv'
  BY <1>1, PendingKept, OneKeyKept
<1> QED BY <1>3, <1>4, <1>5

\* The text is back in the input.
LEMMA FailSendStep ==
    ASSUME ChatInv, NEW c \in CallIds, waiting = c, FailSend(c), CallsKept,
           UNCHANGED <<messages, lastAttempt, shown, submitted, wiped>>,
           0 \notin CallIds
    PROVE  AttemptInv' /\ NothingVanishes' /\ OneKeyInv'
<1>1. UsedCalls' = UsedCalls /\ Composed' = Composed /\ UsedKept
  BY KeptIsKept
<1>2. \A t : ShownText(t)' = ShownText(t)
  BY DEF ShownText
<1>3. /\ waiting' = 0 /\ box' = call[c].text /\ waiting # 0
      /\ submitted = call[c].text
  BY DEF FailSend, ChatInv, AttemptInv
<1>4. AttemptInv'
  BY <1>1, <1>3 DEF ChatInv, AttemptInv, UsedKept, KeyOf, NoAttempt
<1>5. NothingVanishes'
  BY <1>3 DEF NothingVanishes
<1>6. OneKeyInv'
  <2>1. PendingText' = PendingText
    BY <1>3 DEF PendingText
  <2>2. \A b, d \in UsedCalls' : ~wiped /\ call'[b].text = call'[d].text => KeyOf(b)' = KeyOf(d)'
    BY <1>1 DEF ChatInv, OneKeyInv, UsedKept
  <2> QED BY <1>1, <1>3, <2>1, <2>2 DEF ChatInv, OneKeyInv
<1> QED BY <1>4, <1>5, <1>6

\* A new text in the input.
LEMMA TypeKeeps ==
    ASSUME ChatInv, NEW t \in Texts, Type(t)
    PROVE  AttemptInv' /\ NothingVanishes' /\ OneKeyInv'
<1>1. /\ UNCHANGED <<messages, call, lastAttempt, waiting, shown, wiped>>
      /\ t \notin Composed /\ box' = t
      /\ submitted' = IF waiting = 0 THEN NoText ELSE submitted
  BY DEF Type, chatServer
<1>2. AttemptInv'
  BY <1>1 DEF ChatInv, AttemptInv, UsedCalls, KeyOf
<1>3. NothingVanishes'
  BY <1>1 DEF NothingVanishes
<1>4. OneKeyInv'
  <2>1. Composed' = Composed /\ UsedCalls' = UsedCalls
    BY <1>1 DEF Composed, UsedCalls
  <2>2. \A c, d \in UsedCalls' : ~wiped /\ call'[c].text = call'[d].text => KeyOf(c)' = KeyOf(d)'
    BY <1>1, <2>1 DEF ChatInv, OneKeyInv, KeyOf
  <2>3. ~wiped /\ PendingText' \in Composed' => lastAttempt'.text = PendingText'
    BY <1>1, <2>1 DEF ChatInv, OneKeyInv, PendingText
  <2> QED BY <1>1, <2>1, <2>2, <2>3 DEF OneKeyInv
<1> QED BY <1>2, <1>3, <1>4

\* What Submit sends.
SubmitKey == ClientMessageIdFor(box, FirstUnused)

\* handleSend puts a call to use, under the id of the last attempt if the text is its.
LEMMA SubmitEffect ==
    ASSUME ChatInv, SendingAssumption, Submit
    PROVE  LET c == FirstUnused IN
           \E v \in {"socket", "rest"} :
              /\ c \in CallIds /\ SubmitKey \in CallIds
              /\ box \in Texts /\ IdFor(c, SubmitKey, box)
              /\ CallsTyped' /\ CallAdded(c, box, SubmitKey, v)
<1> DEFINE c == FirstUnused
           k == SubmitKey
           v == IF connected THEN "socket" ELSE "rest"
<1>1. c \in CallIds /\ call[c].at = "unused"
  BY SubmitFindsOne
<1>2. box \in Texts /\ box # NoText
  BY DEF Submit, ChatInv, ChatTypeOK
<1>3. k \in CallIds /\ IdFor(c, k, box)
  <2>1. CASE lastAttempt.text = box
    <3>1. lastAttempt # NoAttempt /\ k = lastAttempt.id
      BY <1>2, <2>1 DEF NoAttempt, SubmitKey, ClientMessageIdFor
    <3> QED BY <3>1, <2>1 DEF ChatInv, AttemptInv, IdFor, UsedCalls
  <2>2. CASE lastAttempt.text # box
    BY <2>2, <1>1 DEF SubmitKey, ClientMessageIdFor, IdFor
  <2> QED BY <2>1, <2>2
<1>4. v \in {"socket", "rest"} /\ SendRequest(c, box, k, v)
  BY DEF Submit, SubmitKey
<1>5. CallsTyped /\ MaxCalls \in Nat
  BY CallsAreTyped DEF ChatInv, SendingAssumption
<1> HIDE DEF c, k, v
<1>6. CallsTyped' /\ CallAdded(c, box, k, v)
  BY <1>1, <1>2, <1>3, <1>4, <1>5, SendEffect
<1> QED BY <1>1, <1>2, <1>3, <1>4, <1>6 DEF c, k

\* handleSend
LEMMA SubmitKeeps ==
    ASSUME ChatInv, SendingAssumption, Submit
    PROVE  AttemptInv' /\ NothingVanishes' /\ OneKeyInv'
<1>1. PICK c \in CallIds, k \in CallIds, t \in Texts, v \in {"socket", "rest"} :
              /\ c = FirstUnused /\ k = SubmitKey /\ t = box
              /\ IdFor(c, k, t)
              /\ CallAdded(c, t, k, v)
  BY SubmitEffect
<1>2. /\ lastAttempt' = [text |-> t, id |-> k]
      /\ waiting' = c /\ submitted' = t /\ box' = NoText
      /\ UNCHANGED <<messages, shown, wiped>>
      /\ waiting = 0
  BY <1>1 DEF Submit, SubmitKey, chatServer
<1>3. 0 \notin CallIds /\ NoText \notin Texts
  BY DEF CallIds, SendingAssumption
<1>4. /\ UsedKept /\ UsedCalls' = UsedCalls \cup {c} /\ c \notin UsedCalls
      /\ call[c].text' = t /\ KeyOf(c)' = k
      /\ Composed' \subseteq Composed \cup {t}
  BY <1>1, AddedIsKept
<1>5. k \in UsedCalls' /\ KeyOf(k)' = k /\ call'[k].text = t
  <2>1. CASE k = c
    BY <2>1, <1>4
  <2>2. CASE k \in UsedCalls /\ KeyOf(k) = k /\ call[k].text = t
    BY <2>2, <1>4 DEF UsedKept
  <2> QED BY <2>1, <2>2, <1>1 DEF IdFor
<1>6. AttemptInv'
  <2>1. lastAttempt'.id = k /\ lastAttempt'.text = t
    BY <1>2
  <2>2. waiting' \in UsedCalls' /\ submitted' = call'[waiting'].text
    BY <1>2, <1>4
  <2>3. KeyOf(lastAttempt.id)' = lastAttempt'.id
    BY <2>1, <1>5 DEF KeyOf
  <2> QED BY <2>1, <2>2, <2>3, <1>5 DEF AttemptInv
<1>7. NothingVanishes'
  BY <1>1, <1>2, <1>3 DEF NothingVanishes
<1>9. box' \notin Composed'
  BY <1>1, <1>2, <1>3, <1>4, ComposedIsUsed DEF Composed
<1>8. ASSUME ~wiped PROVE OneKeyInv'
  <2>1. \A a, d \in UsedCalls : call[a].text = call[d].text => KeyOf(a) = KeyOf(d)
    BY <1>8 DEF ChatInv, OneKeyInv
  <2>2. ASSUME NEW d \in UsedCalls, call[d].text = t PROVE KeyOf(d) = k
    <3>1. d \in CallIds /\ t \in Composed
      BY <2>2, <1>1 DEF UsedCalls, Composed
    <3>2. lastAttempt.text = t
      BY <3>1, <1>1, <1>2, <1>8 DEF ChatInv, OneKeyInv, PendingText
    <3>3. lastAttempt # NoAttempt
      BY <3>2, <1>1, <1>3 DEF NoAttempt
    <3>4. k = lastAttempt.id
      BY <3>2, <1>1 DEF SubmitKey, ClientMessageIdFor
    <3>5. k \in UsedCalls /\ KeyOf(k) = k /\ call[k].text = t
      BY <3>2, <3>3, <3>4 DEF ChatInv, AttemptInv
    <3> QED BY <2>1, <2>2, <3>5
  <2>3. \A a, d \in UsedCalls' : call'[a].text = call'[d].text => KeyOf(a)' = KeyOf(d)'
    <3> SUFFICES ASSUME NEW a \in UsedCalls', NEW d \in UsedCalls',
                        call'[a].text = call'[d].text
                 PROVE  KeyOf(a)' = KeyOf(d)'
      OBVIOUS
    <3>1. CASE a = c /\ d = c
      BY <3>1
    <3>2. CASE a = c /\ d \in UsedCalls
      BY <3>2, <1>4, <2>2 DEF UsedKept
    <3>3. CASE a \in UsedCalls /\ d = c
      BY <3>3, <1>4, <2>2 DEF UsedKept
    <3>4. CASE a \in UsedCalls /\ d \in UsedCalls
      BY <3>4, <1>4, <2>1 DEF UsedKept
    <3> QED BY <3>1, <3>2, <3>3, <3>4, <1>4
  <2>4. PendingText' = t /\ lastAttempt'.text = t
    BY <1>2, <1>3, <1>4 DEF PendingText
  <2> QED BY <1>9, <2>3, <2>4 DEF OneKeyInv
<1> QED BY <1>2, <1>6, <1>7, <1>8, <1>9 DEF OneKeyInv

\* What the way over REST sends: the text of the call, under its id.
LEMMA RetryEffect ==
    ASSUME ChatInv, SendingAssumption, NEW c \in UsedCalls, Unused # {},
           SendRequest(FirstUnused, call[c].text, call[c].key, "rest")
    PROVE  /\ FirstUnused \in CallIds /\ CallsTyped'
           /\ call[c].text \in Texts
           /\ IdFor(FirstUnused, call[c].key, call[c].text)
           /\ CallAdded(FirstUnused, call[c].text, call[c].key, "rest")
<1>1. CallsTyped /\ MaxCalls \in Nat
  BY CallsAreTyped DEF ChatInv, SendingAssumption
<1>2. FirstUnused \in CallIds /\ call[FirstUnused].at = "unused"
  BY <1>1, FirstIsUnused
<1>3. /\ c \in CallIds /\ call[c].text \in Texts
      /\ call[c].key \in UsedCalls /\ KeyOf(call[c].key) = call[c].key
      /\ call[call[c].key].text = call[c].text
  BY DEF ChatInv, CallsInv, UsedCalls, KeyOf
<1>4. call[c].key \in CallIds
  BY <1>3 DEF UsedCalls
<1>5. CallsTyped' /\ CallAdded(FirstUnused, call[c].text, call[c].key, "rest")
  BY <1>1, <1>2, <1>3, <1>4, SendEffect
<1> QED BY <1>2, <1>3, <1>5 DEF IdFor

\* The composer asks again over REST.
LEMMA RetryKeeps ==
    ASSUME ChatInv, SendingAssumption, NEW c \in UsedCalls, Unused # {}, waiting = c,
           SendRequest(FirstUnused, call[c].text, call[c].key, "rest"),
           waiting' = FirstUnused,
           UNCHANGED <<messages, box, lastAttempt, shown, submitted, wiped>>
    PROVE  AttemptInv' /\ NothingVanishes' /\ OneKeyInv'
<1>1. PICK e \in CallIds, t \in Texts, k \in {call[c].key} :
         /\ e = FirstUnused /\ t = call[c].text /\ k = call[c].key
         /\ IdFor(e, k, t)
         /\ CallAdded(e, t, k, "rest")
  BY RetryEffect
<1>2. c \in CallIds /\ waiting # 0 /\ submitted = t /\ e # 0
  BY <1>1 DEF ChatInv, AttemptInv, UsedCalls, CallIds, SendingAssumption
<1>a. k = KeyOf(c)
  BY <1>1 DEF KeyOf
<1>3. /\ UsedKept /\ UsedCalls' = UsedCalls \cup {e} /\ e \notin UsedCalls
      /\ call[e].text' = t /\ KeyOf(e)' = k
      /\ Composed' \subseteq Composed \cup {t}
  BY <1>1, AddedIsKept
<1>b. waiting' = e
  BY <1>1
<1>4. AttemptInv'
  <2>1. waiting' \in UsedCalls' /\ submitted' = call'[waiting'].text
    BY <1>2, <1>3, <1>b
  <2>2. \/ lastAttempt' = NoAttempt
        \/ /\ lastAttempt'.id \in UsedCalls'
           /\ KeyOf(lastAttempt.id)' = lastAttempt'.id
           /\ call'[lastAttempt'.id].text = lastAttempt'.text
    BY <1>3 DEF ChatInv, AttemptInv, UsedKept, KeyOf
  <2> QED BY <2>1, <2>2 DEF AttemptInv, NoAttempt
<1>5. NothingVanishes'
  BY <1>2, <1>b DEF NothingVanishes
<1>7. t \in Composed /\ box' \notin Composed'
  <2>1. t \in Composed
    BY <1>1 DEF Composed, UsedCalls
  <2>2. box \notin Composed
    BY <1>2 DEF ChatInv, OneKeyInv
  <2> QED BY <1>3, <2>1, <2>2
<1>6. ASSUME ~wiped PROVE OneKeyInv'
  <2>1. \A a, d \in UsedCalls : call[a].text = call[d].text => KeyOf(a) = KeyOf(d)
    BY <1>6 DEF ChatInv, OneKeyInv
  <2>2. \A d \in UsedCalls : call[d].text = t => KeyOf(d) = k
    BY <2>1, <1>a, <1>1
  <2>3. \A a, d \in UsedCalls' : call'[a].text = call'[d].text => KeyOf(a)' = KeyOf(d)'
    <3> SUFFICES ASSUME NEW a \in UsedCalls', NEW d \in UsedCalls',
                        call'[a].text = call'[d].text
                 PROVE  KeyOf(a)' = KeyOf(d)'
      OBVIOUS
    <3>1. CASE a = e /\ d = e
      BY <3>1
    <3>2. CASE a = e /\ d \in UsedCalls
      BY <3>2, <1>3, <2>2 DEF UsedKept
    <3>3. CASE a \in UsedCalls /\ d = e
      BY <3>3, <1>3, <2>2 DEF UsedKept
    <3>4. CASE a \in UsedCalls /\ d \in UsedCalls
      BY <3>4, <1>3, <2>1 DEF UsedKept
    <3> QED BY <3>1, <3>2, <3>3, <3>4, <1>3
  <2>4. PendingText = t /\ PendingText' = t
    BY <1>1, <1>2, <1>3, <1>b DEF PendingText
  <2>5. lastAttempt'.text = t
    BY <2>4, <1>6, <1>7 DEF ChatInv, OneKeyInv
  <2> QED BY <1>7, <2>3, <2>4, <2>5 DEF OneKeyInv
<1> QED BY <1>4, <1>5, <1>6, <1>7 DEF OneKeyInv

\* The stored message is displayed.
LEMMA AcceptKeeps ==
    ASSUME ChatInv, SendingAssumption, NEW c \in CallIds, call[c].at = "answered",
           Accept(c), CallsKept, messages' = messages
    PROVE  AttemptInv' /\ NothingVanishes' /\ OneKeyInv'
<1>1. /\ shown' = shown \cup {KeyOf(c)} /\ lastAttempt' = NoAttempt
      /\ wiped' = (wiped \/ (waiting # c /\ lastAttempt # NoAttempt))
      /\ waiting' = IF waiting = c THEN 0 ELSE waiting
      /\ box' = box /\ submitted' = submitted
  BY DEF Accept, KeyOf
<1>2. UsedCalls' = UsedCalls /\ Composed' = Composed /\ UsedKept
  BY KeptIsKept
<1>3. c \in UsedCalls
  BY DEF UsedCalls
<1>4. PICK msg \in messages : msg.key = KeyOf(c)
  BY DEF ChatInv, MessagesInv, IsStored
<1>5. msg.text = call[c].text /\ call'[c].text = call[c].text
  BY <1>2, <1>3, <1>4 DEF UsedKept, ChatInv, MessagesInv, CallsInv, KeyOf
<1>6. \A t : ShownText(t) => ShownText(t)'
  BY <1>1 DEF ShownText
<1>7. \A t : t = call[c].text => ShownText(t)'
  BY <1>1, <1>4, <1>5 DEF ShownText
<1>a. 0 \notin CallIds
  BY DEF CallIds
<1>8. AttemptInv'
  <2>1. waiting' # 0 => waiting' \in UsedCalls' /\ submitted' = call'[waiting'].text
    BY <1>1, <1>2 DEF ChatInv, AttemptInv, UsedKept
  <2> QED BY <2>1, <1>1 DEF AttemptInv, NoAttempt
<1>9. NothingVanishes'
  <2>1. CASE waiting = c
    <3>1. submitted = call[c].text
      BY <2>1, <1>a DEF ChatInv, AttemptInv
    <3> QED BY <3>1, <1>1, <1>7 DEF NothingVanishes, ShownText
  <2>2. CASE waiting # c
    BY <2>2, <1>1, <1>6 DEF ChatInv, NothingVanishes
  <2> QED BY <2>1, <2>2
<1>10. waiting' # 0 => box' \notin Composed'
  BY <1>1, <1>2, <1>a DEF ChatInv, OneKeyInv
<1>11. ASSUME ~wiped' PROVE OneKeyInv'
  <2>1. ~wiped /\ (waiting = c \/ lastAttempt = NoAttempt)
    BY <1>1, <1>11 DEF ChatInv, ChatTypeOK
  <2>2. \A a, d \in UsedCalls' : call'[a].text = call'[d].text => KeyOf(a)' = KeyOf(d)'
    BY <1>2, <2>1 DEF ChatInv, OneKeyInv, UsedKept
  <2>3. PendingText' \notin Composed'
    <3>1. CASE waiting = c
      BY <3>1, <1>1, <1>2, <1>a DEF PendingText, ChatInv, OneKeyInv
    <3>2. CASE waiting # c /\ lastAttempt = NoAttempt
      <4>1. PendingText' = PendingText
        BY <3>2, <1>1, PendingKept
      <4>2. NoText \notin Composed
        BY DEF Composed, SendingAssumption
      <4> QED BY <3>2, <4>1, <4>2, <1>2, <2>1 DEF ChatInv, OneKeyInv, NoAttempt
    <3> QED BY <2>1, <3>1, <3>2
  <2> QED BY <1>10, <2>2, <2>3 DEF OneKeyInv
<1> QED BY <1>8, <1>9, <1>10, <1>11 DEF OneKeyInv

\* What a step has to keep, the types of the other variables apart.
ChatUpheld ==
    /\ CallsTyped' /\ CallsInv' /\ MessagesInv'
    /\ AttemptInv' /\ NothingVanishes' /\ OneKeyInv'

\* A call moves on and no message is added: it has its message if it answers.
LEMMA AnswersKept ==
    ASSUME ChatInv, CallsKept, messages' = messages, NEW c \in CallIds,
           \A d \in CallIds \ {c} : call'[d] = call[d],
           call'[c].at \in {"stored", "answered"} =>
               \/ call[c].at \in {"stored", "answered"}
               \/ IsStored(KeyOf(c))
    PROVE  CallsInv' /\ MessagesInv'
<1>1. CallsInv'
  BY CallsInvKept DEF ChatInv
<1>2. \A d \in CallIds : call[d].at \in {"stored", "answered"} =>
          \E msg \in messages : msg.key = call[d].key
  BY DEF ChatInv, MessagesInv, IsStored, KeyOf
<1>3. \A d \in CallIds : call'[d].at \in {"stored", "answered"} =>
          \E msg \in messages : msg.key = call'[d].key
  BY <1>2 DEF IsStored, KeyOf, CallsKept
<1>4. UsedKept
  BY KeptIsKept
<1>5. MessagesInv'
  BY <1>3, <1>4, MessagesInvKept DEF ChatInv
<1> QED BY <1>1, <1>5

\* The calls stay as they are.
LEMMA CallsUnchanged ==
    ASSUME ChatInv, call' = call, messages' = messages
    PROVE  CallsTyped' /\ CallsKept /\ CallsInv' /\ MessagesInv'
<1>1. CallsTyped' /\ CallsKept
  BY CallsAreTyped DEF ChatInv, CallsTyped, CallsKept, KeyOf
<1>2. CallsInv'
  BY <1>1, CallsInvKept DEF ChatInv
<1>3. MessagesInv'
  BY DEF ChatInv, MessagesInv, IsStored, UsedCalls, KeyOf
<1> QED BY <1>1, <1>2, <1>3

\* What the user does upholds the invariant: typing and sending.
LEMMA ComposerSteps ==
    ASSUME ChatInv, SendingAssumption,
           \/ \E t \in Texts : Type(t)
           \/ Submit
    PROVE  ChatUpheld
<1>1. ASSUME NEW t \in Texts, Type(t) PROVE ChatUpheld
  <2>1. call' = call /\ messages' = messages
    BY <1>1 DEF Type, chatServer
  <2> QED BY <1>1, <2>1, CallsUnchanged, TypeKeeps DEF ChatUpheld
<1>2. CASE Submit
  <2>1. PICK c \in CallIds, k \in CallIds, t \in Texts, v \in {"socket", "rest"} :
           CallsTyped' /\ IdFor(c, k, t) /\ CallAdded(c, t, k, v)
    BY <1>2, SubmitEffect
  <2>2. messages' = messages
    BY <1>2 DEF Submit, chatServer
  <2>3. CallsInv' /\ UsedKept
    BY <2>1, CallsInvAdded, AddedIsKept DEF ChatInv
  <2>4. \A d \in CallIds : call'[d].at \in {"stored", "answered"} =>
            \E msg \in messages : msg.key = call'[d].key
    BY <2>1 DEF CallAdded, ChatInv, MessagesInv, IsStored, KeyOf
  <2>5. MessagesInv'
    BY <2>2, <2>3, <2>4, MessagesInvKept DEF ChatInv
  <2> QED BY <1>2, <2>1, <2>3, <2>5, SubmitKeeps DEF ChatUpheld
<1> QED BY <1>1, <1>2

\* So does what the client does about a send in flight, or the network to it.
LEMMA ClientSteps ==
    ASSUME ChatInv, SendingAssumption, NEW c \in CallIds,
           ClientStep(c) \/ RestBreaks(c)
    PROVE  ChatUpheld
<1>1. 0 \notin CallIds /\ CallsTyped
  BY CallsAreTyped DEF CallIds, ChatInv
<1>2. ASSUME waiting = c, FailSend(c), call' = call,
             UNCHANGED <<messages, lastAttempt, shown, submitted, wiped>>
      PROVE  ChatUpheld
  BY <1>1, <1>2, CallsUnchanged, FailSendStep DEF ChatUpheld
<1>3. CASE AckTimesOut(c)
  <2>1. /\ waiting = c
        /\ UNCHANGED <<messages, lastAttempt, shown, submitted, wiped>>
    BY <1>3 DEF AckTimesOut, chatServer
  <2>2. CASE FailSend(c) /\ call' = call
    BY <2>1, <2>2, <1>2
  <2>3. CASE /\ Unused # {}
             /\ SendRequest(FirstUnused, call[c].text, call[c].key, "rest")
             /\ waiting' = FirstUnused
             /\ UNCHANGED box
    <3>1. c \in UsedCalls
      BY <2>1, <1>1 DEF ChatInv, AttemptInv
    <3>2. PICK e \in CallIds, t \in Texts, k \in {call[c].key} :
             CallsTyped' /\ IdFor(e, k, t) /\ CallAdded(e, t, k, "rest")
      BY <2>3, <3>1, RetryEffect
    <3>3. CallsInv' /\ UsedKept
      BY <3>2, CallsInvAdded, AddedIsKept DEF ChatInv
    <3>4. \A d \in CallIds : call'[d].at \in {"stored", "answered"} =>
              \E msg \in messages : msg.key = call'[d].key
      BY <3>2 DEF CallAdded, ChatInv, MessagesInv, IsStored, KeyOf
    <3>5. MessagesInv'
      BY <2>1, <3>3, <3>4, MessagesInvKept DEF ChatInv
    <3>6. AttemptInv' /\ NothingVanishes' /\ OneKeyInv'
      BY <2>1, <2>3, <3>1, RetryKeeps
    <3> QED BY <3>2, <3>3, <3>5, <3>6 DEF ChatUpheld
  <2> QED BY <1>3, <2>2, <2>3 DEF AckTimesOut
<1>4. CASE RestBreaks(c)
  BY <1>4, <1>2 DEF RestBreaks, chatServer
<1>5. CASE RefusalArrives(c)
  <2>1. /\ call[c].at = "refused" /\ waiting = c /\ CallAt(c, "over")
        /\ UNCHANGED <<messages, lastAttempt, shown, submitted, wiped>>
        /\ FailSend(c)
    BY <1>5 DEF RefusalArrives, CallAt, chatServer
  <2>2. /\ CallsTyped' /\ CallsKept /\ call'[c].at = "over"
        /\ \A d \in CallIds \ {c} : call'[d] = call[d]
    BY <1>1, <2>1, AtEffect DEF CallSteps
  <2> QED BY <1>1, <2>1, <2>2, AnswersKept, FailSendStep DEF ChatUpheld
<1>6. CASE AnswerArrives(c)
  <2>1. /\ call[c].at = "answered" /\ CallAt(c, "over") /\ Accept(c)
        /\ messages' = messages
    BY <1>6 DEF AnswerArrives, CallAt, chatServer
  <2>2. /\ CallsTyped' /\ CallsKept /\ call'[c].at = "over"
        /\ \A d \in CallIds \ {c} : call'[d] = call[d]
    BY <1>1, <2>1, AtEffect DEF CallSteps
  <2> QED BY <2>1, <2>2, AnswersKept, AcceptKeeps DEF ChatUpheld
<1> QED BY <1>3, <1>4, <1>5, <1>6 DEF ClientStep

\* The composer's variables a step of the server leaves alone.
LEMMA OtherSteps ==
    ASSUME ChatInv,
           \/ \E c \in CallIds : RequestLost(c)
           \/ Disconnect
           \/ Connect
           \/ NegotiationEnds
           \/ UNCHANGED chatVars
    PROVE  ChatUpheld
<1>1. CallsTyped
  BY CallsAreTyped DEF ChatInv
<1>2. ASSUME NEW c \in CallIds, RequestLost(c) PROVE ChatUpheld
  <2>1. /\ call[c].at = "sent" /\ CallAt(c, "over")
        /\ UNCHANGED <<messages, composer>>
    BY <1>2 DEF RequestLost, CallAt, chatServer
  <2>2. /\ CallsTyped' /\ CallsKept /\ call'[c].at = "over"
        /\ \A d \in CallIds \ {c} : call'[d] = call[d]
    BY <1>1, <2>1, AtEffect DEF CallSteps
  <2>3. ThreadGrows
    BY <2>1 DEF ThreadGrows, composer
  <2>4. UNCHANGED <<box, lastAttempt, waiting, submitted, wiped>>
    BY <2>1 DEF composer
  <2> QED BY <2>1, <2>2, <2>3, <2>4, AnswersKept, LooksOn DEF ChatUpheld
<1>3. CASE Disconnect
  <2>1. /\ CallsTyped' /\ CallsKept /\ \A d \in CallIds : call'[d].at = call[d].at
    BY <1>1, <1>3, DisconnectEffect
  <2>2. UNCHANGED <<messages, box, lastAttempt, waiting, submitted, wiped>> /\ ThreadGrows
    BY <1>3 DEF Disconnect, chatServer, composer, ThreadGrows
  <2>3. \A d \in CallIds : call'[d].at \in {"stored", "answered"} =>
            \E msg \in messages : msg.key = call'[d].key
    BY <2>1 DEF CallsKept, ChatInv, MessagesInv, IsStored, KeyOf
  <2>4. MessagesInv'
    BY <2>1, <2>2, <2>3, KeptIsKept, MessagesInvKept DEF ChatInv
  <2> QED BY <2>1, <2>2, <2>4, CallsInvKept, LooksOn DEF ChatUpheld, ChatInv
<1>4. CASE Connect \/ NegotiationEnds \/ UNCHANGED chatVars
  <2>1. /\ UNCHANGED <<messages, call, box, lastAttempt, waiting, submitted, wiped>>
        /\ ThreadGrows
    BY <1>4 DEF Connect, NegotiationEnds, chatVars, chatServer, composer, ThreadGrows
  <2> QED BY <2>1, CallsUnchanged, LooksOn DEF ChatUpheld
<1> QED BY <1>2, <1>3, <1>4

\* A step of a call that adds no message.
LEMMA ServerKeeps ==
    ASSUME ChatInv, NEW c \in CallIds,
           CheckExisting(c) \/ StampMessage(c) \/ EmitMessage(c) \/ StepFails(c)
    PROVE  ChatUpheld
<1>1. CallsTyped /\ clock \in Nat
  BY CallsAreTyped DEF ChatInv, ChatTypeOK
<1>2. UNCHANGED <<messages, box, lastAttempt, waiting, submitted, wiped>> /\ ThreadGrows
  BY DEF CheckExisting, StampMessage, EmitMessage, StepFails, chatServer, composer, ThreadGrows
<1>3. ASSUME NEW a \in CallSteps, CallAt(c, a), call[c].at # "unused", a # "unused",
             a \in {"stored", "answered"} =>
                 call[c].at \in {"stored", "answered"} \/ IsStored(KeyOf(c))
      PROVE  ChatUpheld
  <2>1. /\ CallsTyped' /\ CallsKept /\ call'[c].at = a
        /\ \A d \in CallIds \ {c} : call'[d] = call[d]
    BY <1>1, <1>3, AtEffect
  <2> QED BY <1>2, <1>3, <2>1, AnswersKept, LooksOn DEF ChatUpheld
<1>4. CASE CheckExisting(c)
  <2>1. PICK a \in {"refused", "answered", "checked"} :
           CallAt(c, a) /\ (a = "answered" => IsStored(KeyOf(c)))
    BY <1>4 DEF CheckExisting, KeyOf
  <2> QED BY <1>3, <1>4, <2>1 DEF CheckExisting, CallSteps
<1>5. CASE StampMessage(c)
  <2>1. /\ CallsTyped' /\ CallsKept /\ call'[c].at = "stamped"
        /\ \A d \in CallIds \ {c} : call'[d] = call[d]
    BY <1>1, <1>5, StampEffect
  <2> QED BY <1>2, <2>1, AnswersKept, LooksOn DEF ChatUpheld
<1>6. CASE EmitMessage(c)
  BY <1>3, <1>6 DEF EmitMessage, CallSteps
<1>7. CASE StepFails(c)
  BY <1>3, <1>7 DEF StepFails, CallSteps
<1> QED BY <1>4, <1>5, <1>6, <1>7

\* The transaction commits a message, or the index finds that there is one.
LEMMA CommitKeeps ==
    ASSUME ChatInv, NEW c \in CallIds, CommitMessage(c)
    PROVE  ChatUpheld
<1>1. /\ CallsTyped /\ call[c].at = "stamped" /\ c \in UsedCalls
  BY CallsAreTyped DEF ChatInv, CommitMessage, UsedCalls
<1>2. UNCHANGED <<box, lastAttempt, waiting, submitted, wiped>> /\ ThreadGrows
  BY DEF CommitMessage, composer, ThreadGrows
<1>3. CASE IsStored(call[c].key)
  <2>1. CallAt(c, "answered") /\ messages' = messages
    BY <1>3 DEF CommitMessage
  <2>2. /\ CallsTyped' /\ CallsKept /\ call'[c].at = "answered"
        /\ \A d \in CallIds \ {c} : call'[d] = call[d]
    BY <1>1, <2>1, AtEffect DEF CallSteps
  <2>3. IsStored(KeyOf(c))
    BY <1>3 DEF KeyOf
  <2> QED BY <1>2, <2>1, <2>2, <2>3, AnswersKept, LooksOn DEF ChatUpheld
<1>4. CASE ~IsStored(call[c].key)
  <2> DEFINE new == [key |-> call[c].key, text |-> call[c].text, at |-> call[c].stamp]
  <2>1. CallAt(c, "stored") /\ messages' = messages \cup {new}
    BY <1>4 DEF CommitMessage
  <2>2. /\ CallsTyped' /\ CallsKept /\ call'[c].at = "stored"
        /\ \A d \in CallIds \ {c} : call'[d] = call[d]
    BY <1>1, <2>1, AtEffect DEF CallSteps
  <2>3. CallsInv'
    BY <2>2, CallsInvKept DEF ChatInv
  <2>4. UsedKept
    BY <2>2, KeptIsKept
  <2>5. new.key = KeyOf(c) /\ new.text = call[c].text
    BY DEF KeyOf
  <2>6. /\ KeyOf(c) \in UsedCalls /\ KeyOf(KeyOf(c)) = KeyOf(c)
        /\ call[KeyOf(c)].text = call[c].text
    BY <1>1 DEF ChatInv, CallsInv, UsedCalls
  <2> HIDE DEF new
  <2>7. \A msg \in messages' :
           /\ msg.key \in UsedCalls' /\ KeyOf(msg.key)' = msg.key
           /\ call'[msg.key].text = msg.text
    <3> SUFFICES ASSUME NEW msg \in messages'
                 PROVE  /\ msg.key \in UsedCalls'
                        /\ call'[msg.key].key = msg.key
                        /\ call'[msg.key].text = msg.text
      BY DEF KeyOf
    <3>1. CASE msg \in messages
      <4>1. /\ msg.key \in UsedCalls /\ call[msg.key].key = msg.key
            /\ call[msg.key].text = msg.text
        BY <3>1 DEF ChatInv, MessagesInv, KeyOf
      <4> QED BY <4>1, <2>4 DEF UsedKept, KeyOf
    <3>2. CASE msg.key = KeyOf(c) /\ msg.text = call[c].text
      BY <3>2, <2>4, <2>6 DEF UsedKept, KeyOf
    <3> QED BY <2>1, <2>5, <3>1, <3>2
  <2>8. \A p, q \in messages' : p.key = q.key => p = q
    BY <1>4, <2>1, <2>5 DEF ChatInv, MessagesInv, IsStored, KeyOf
  <2>9. \A d \in CallIds : call[d].at' \in {"stored", "answered"} => IsStored(KeyOf(d))'
    <3>1. ASSUME NEW d \in CallIds, call'[d].at \in {"stored", "answered"}
          PROVE  \E msg \in messages' : msg.key = call'[d].key
      <4>1. call'[d].key = KeyOf(d)
        BY <2>2 DEF CallsKept, KeyOf
      <4>2. CASE d = c
        BY <4>1, <4>2, <2>1, <2>5
      <4>3. CASE d # c
        BY <3>1, <4>1, <4>3, <2>1, <2>2 DEF ChatInv, MessagesInv, IsStored
      <4> QED BY <4>2, <4>3
    <3> QED BY <3>1 DEF IsStored, KeyOf
  <2>10. MessagesInv'
    BY <2>7, <2>8, <2>9 DEF MessagesInv
  <2> QED BY <1>2, <2>2, <2>3, <2>10, LooksOn DEF ChatUpheld
<1> QED BY <1>3, <1>4

\* The fields of the calls, for the variables that take them.
LEMMA CallFields ==
    ASSUME CallsTyped, MaxCalls \in Nat, NEW c \in CallIds
    PROVE  /\ call[c].key \in 0 .. MaxCalls /\ call[c].text \in Texts \cup {NoText}
           /\ call[c].stamp \in Nat
BY DEF CallsTyped, CallRecord

\* No step gives a variable a value of another type.
LEMMA ChatTypeStep ==
    ASSUME ChatInv, SendingAssumption, [ChatNext]_chatVars, CallsTyped'
    PROVE  ChatTypeOK'
<1>1. call' \in [CallIds -> [at : CallSteps, key : 0 .. MaxCalls, text : Texts \cup {NoText},
                             via : {"socket", "gone", "rest"}, stamp : Nat]]
  BY DEF CallsTyped, CallRecord
<1> DEFINE
      Server == messages' \subseteq MessageRows /\ lastMessageAt' \in Nat /\ clock' \in Nat
                /\ ended' \in BOOLEAN
      Composer == /\ box' \in Texts \cup {NoText}
                  /\ lastAttempt' \in [text : Texts \cup {NoText}, id : 0 .. MaxCalls]
                  /\ waiting' \in 0 .. MaxCalls /\ shown' \subseteq CallIds
                  /\ submitted' \in Texts \cup {NoText} /\ wiped' \in BOOLEAN
      Network == /\ connected' \in BOOLEAN
                 /\ failures' \in 0 .. MaxFailures /\ drops' \in 0 .. MaxDrops
<1>2. Server /\ Composer /\ Network => ChatTypeOK'
  BY <1>1 DEF ChatTypeOK, CallSteps
<1>3. MaxCalls \in Nat /\ MaxFailures \in Nat /\ MaxDrops \in Nat
  BY DEF SendingAssumption
<1>4. CallsTyped /\ ChatTypeOK /\ CallsInv
  BY CallsAreTyped DEF ChatInv
<1>5. \A c \in CallIds : /\ call[c].text \in Texts \cup {NoText} /\ call[c].stamp \in Nat
                         /\ c \in 0 .. MaxCalls
                         /\ call[c].at # "unused" =>
                               call[c].key \in CallIds /\ call[c].text \in Texts
  <2> TAKE c \in CallIds
  <2>1. call[c].text \in Texts \cup {NoText} /\ call[c].stamp \in Nat
    BY <1>3, <1>4, CallFields
  <2>2. c \in 0 .. MaxCalls
    BY <1>3 DEF CallIds
  <2>3. call[c].at # "unused" => call[c].key \in CallIds /\ call[c].text \in Texts
    BY <1>4 DEF CallsInv, UsedCalls, KeyOf
  <2> QED BY <2>1, <2>2, <2>3
<1>6. (UNCHANGED chatServer => Server) /\ (UNCHANGED composer => Composer)
  BY <1>4 DEF chatServer, composer, ChatTypeOK
<1>7. ASSUME NEW t \in Texts, Type(t) PROVE Server /\ Composer /\ Network
  BY <1>4, <1>7 DEF Type, chatServer, ChatTypeOK
<1>8. CASE Submit
  <2>1. PICK c \in CallIds, k \in CallIds, t \in Texts :
           c = FirstUnused /\ k = SubmitKey /\ t = box
    BY <1>8, SubmitEffect
  <2>2. /\ lastAttempt' = [text |-> t, id |-> k] /\ waiting' = c /\ submitted' = t
        /\ box' = NoText
        /\ UNCHANGED <<chatServer, connected, shown, wiped, failures, drops>>
    BY <2>1, <1>8 DEF Submit, SubmitKey
  <2>3. c \in 0 .. MaxCalls /\ k \in 0 .. MaxCalls
    BY <1>5
  <2> QED BY <1>2, <1>4, <2>2, <2>3 DEF chatServer, ChatTypeOK
<1>9. ASSUME NEW c \in CallIds, FailSend(c), UNCHANGED <<chatServer, connected>>,
             UNCHANGED <<lastAttempt, shown, submitted, wiped>>
      PROVE  Server /\ Composer /\ connected' \in BOOLEAN
  BY <1>3, <1>4, <1>5, <1>6, <1>9 DEF FailSend, ChatTypeOK
<1>10. ASSUME NEW c \in CallIds, AckTimesOut(c) PROVE Server /\ Composer /\ Network
  <2>1. UNCHANGED <<chatServer, lastAttempt, connected, shown, submitted, wiped, failures,
                    drops>>
    BY <1>10 DEF AckTimesOut
  <2>2. Network
    BY <1>4, <2>1 DEF ChatTypeOK
  <2>3. CASE FailSend(c)
    BY <1>9, <2>1, <2>2, <2>3
  <2>4. CASE Unused # {} /\ waiting' = FirstUnused /\ UNCHANGED box
    <3>1. FirstUnused \in CallIds
      BY <1>3, <2>4, FirstIsUnused
    <3> QED BY <1>4, <1>5, <1>6, <2>1, <2>2, <2>4, <3>1 DEF ChatTypeOK
  <2> QED BY <1>10, <2>3, <2>4 DEF AckTimesOut
<1>11. ASSUME NEW c \in CallIds, RefusalArrives(c) \/ RestBreaks(c)
       PROVE  Server /\ Composer /\ Network
  <2>1. FailSend(c) /\ UNCHANGED <<chatServer, connected>>
        /\ UNCHANGED <<lastAttempt, shown, submitted, wiped>>
    BY <1>11 DEF RefusalArrives, RestBreaks
  <2>2. Network
    BY <1>3, <1>4, <1>11 DEF RefusalArrives, RestBreaks, ChatTypeOK
  <2> QED BY <1>9, <2>1, <2>2
<1>12. ASSUME NEW c \in CallIds, AnswerArrives(c) PROVE Server /\ Composer /\ Network
  <2>1. /\ Accept(c) /\ UNCHANGED <<chatServer, connected, failures, drops>>
        /\ call[c].key \in CallIds
    BY <1>5, <1>12 DEF AnswerArrives
  <2>2. lastAttempt' \in [text : Texts \cup {NoText}, id : 0 .. MaxCalls]
    BY <1>3, <2>1 DEF Accept, NoAttempt
  <2>3. waiting' \in 0 .. MaxCalls
    BY <1>3, <1>4, <2>1 DEF Accept, ChatTypeOK
  <2> QED BY <1>4, <1>6, <2>1, <2>2, <2>3 DEF Accept, ChatTypeOK
<1>13. ASSUME NEW c \in CallIds, ServerStep(c) \/ RequestLost(c)
       PROVE  Server /\ Composer /\ Network
  <2>1. CASE CheckExisting(c) \/ RequestLost(c)
    BY <1>4, <1>6, <2>1 DEF CheckExisting, RequestLost, ChatTypeOK
  <2>2. CASE StampMessage(c)
    BY <1>4, <1>6, <2>2 DEF StampMessage, ChatTypeOK
  <2>3. CASE CommitMessage(c)
    <3>1. call[c].key \in CallIds /\ call[c].text \in Texts /\ call[c].stamp \in Nat
      BY <1>5, <2>3 DEF CommitMessage
    <3>2. [key |-> call[c].key, text |-> call[c].text, at |-> call[c].stamp] \in MessageRows
      BY <3>1 DEF MessageRows
    <3> QED BY <1>4, <1>6, <2>3, <3>1, <3>2 DEF CommitMessage, ChatTypeOK
  <2>4. CASE EmitMessage(c)
    <3>1. call[c].key \in CallIds
      BY <1>5, <2>4 DEF EmitMessage
    <3> QED BY <1>4, <1>6, <2>4, <3>1 DEF EmitMessage, ChatTypeOK
  <2>5. CASE StepFails(c)
    BY <1>3, <1>4, <1>6, <2>5 DEF StepFails, ChatTypeOK
  <2> QED BY <1>13, <2>1, <2>2, <2>3, <2>4, <2>5 DEF ServerStep
<1>14. CASE Disconnect \/ Connect \/ NegotiationEnds
  <2>1. CASE Disconnect
    <3>1. Server /\ Composer
      BY <1>6, <2>1 DEF Disconnect
    <3>2. Network
      <4>1. drops < MaxDrops /\ drops' = drops + 1 /\ failures' = failures
        BY <2>1 DEF Disconnect
      <4>2. drops \in 0 .. MaxDrops /\ failures \in 0 .. MaxFailures
        BY <1>4 DEF ChatTypeOK
      <4>3. connected' \in BOOLEAN
        BY <2>1 DEF Disconnect
      <4> QED BY <1>3, <4>1, <4>2, <4>3
    <3> QED BY <1>2, <3>1, <3>2
  <2>2. CASE Connect
    BY <1>2, <1>4, <1>6, <2>2 DEF Connect, ChatTypeOK
  <2>3. CASE NegotiationEnds
    BY <1>2, <1>4, <1>6, <2>3 DEF NegotiationEnds, ChatTypeOK
  <2> QED BY <1>14, <2>1, <2>2, <2>3
<1>15. CASE UNCHANGED chatVars
  BY <1>4, <1>6, <1>15 DEF chatVars, ChatTypeOK
<1> HIDE DEF Server, Composer, Network
<1> QED
  BY <1>2, <1>7, <1>8, <1>10, <1>11, <1>12, <1>13, <1>14, <1>15 DEF ChatNext, ClientStep

\* The invariant holds when the chat is opened.
LEMMA ChatStart == ASSUME SendingAssumption, ChatInit PROVE ChatInv
<1>1. MaxCalls \in Nat /\ MaxFailures \in Nat /\ MaxDrops \in Nat
  BY DEF SendingAssumption
<1>2. \A c \in CallIds : call[c] = NoCall /\ call[c].at = "unused"
  BY DEF ChatInit, NoCall
<1>3. NoCall \in CallRecord
  BY <1>1 DEF NoCall, CallRecord, CallSteps
<1>4. call \in [CallIds -> CallRecord]
  BY <1>3 DEF ChatInit
<1>a. NoAttempt \in [text : Texts \cup {NoText}, id : 0 .. MaxCalls]
  BY <1>1 DEF NoAttempt
<1>b. call \in [CallIds -> [at : CallSteps, key : 0 .. MaxCalls, text : Texts \cup {NoText},
                            via : {"socket", "gone", "rest"}, stamp : Nat]]
  BY <1>4 DEF CallRecord
<1>c. 0 \in 0 .. MaxCalls /\ 0 \in 0 .. MaxFailures /\ 0 \in 0 .. MaxDrops
  BY <1>1
<1>5. ChatTypeOK
  BY <1>a, <1>b, <1>c DEF ChatInit, ChatTypeOK, CallSteps
<1>6. UsedCalls = {} /\ messages = {} /\ waiting = 0 /\ box = NoText
  BY <1>2 DEF UsedCalls, ChatInit
<1>7. CallsInv /\ MessagesInv
  BY <1>2, <1>6 DEF CallsInv, MessagesInv
<1>8. AttemptInv /\ NothingVanishes /\ OneKeyInv
  BY <1>2, <1>6 DEF ChatInit, AttemptInv, NothingVanishes, OneKeyInv, PendingText, Composed, NoCall, SendingAssumption
<1> QED BY <1>5, <1>7, <1>8 DEF ChatInv

\* The inductive invariant of one participant's sending: an id stands for one text,
\* and the text that may be sent again is the last attempt's.
THEOREM ChatInvariance == ChatSpec => []ChatInv
<1>1. ChatInit => ChatInv
  BY SendingAssumption, ChatStart
<1>2. ChatInv /\ [ChatNext]_chatVars => ChatInv'
  <2> SUFFICES ASSUME ChatInv, [ChatNext]_chatVars PROVE ChatInv'
    OBVIOUS
  <2>1. ChatUpheld
    <3>1. CASE (\E t \in Texts : Type(t)) \/ Submit
      BY <3>1, SendingAssumption, ComposerSteps
    <3>2. ASSUME NEW c \in CallIds, ServerStep(c) PROVE ChatUpheld
      BY <3>2, ServerKeeps, CommitKeeps DEF ServerStep
    <3>3. ASSUME NEW c \in CallIds, ClientStep(c) \/ RestBreaks(c) PROVE ChatUpheld
      BY <3>3, SendingAssumption, ClientSteps
    <3>4. CASE \/ \E c \in CallIds : RequestLost(c)
               \/ Disconnect \/ Connect \/ NegotiationEnds \/ UNCHANGED chatVars
      BY <3>4, OtherSteps
    <3> QED BY <3>1, <3>2, <3>3, <3>4 DEF ChatNext
  <2>2. ChatTypeOK'
    BY <2>1, SendingAssumption, ChatTypeStep DEF ChatUpheld
  <2> QED BY <2>1, <2>2 DEF ChatInv, ChatUpheld
<1> QED BY <1>1, <1>2, PTL DEF ChatSpec

\* The text a user pressed send on is on its way, displayed, or back in the input,
\* whatever the network and the server do (handleSend and failSend of ChatThread.tsx).
THEOREM NothingIsLost == ChatSpec => []NothingVanishes
<1>1. ChatInv => NothingVanishes
  BY DEF ChatInv
<1> QED BY <1>1, ChatInvariance, PTL

\* A text is stored once however often it was tried again, unless an answer came after
\* its timeout and reset the attempt that was remembered (lastAttemptRef and the index
\* on the client's id).
THEOREM StoredOnce == ChatSpec => []TextStoredOnce
<1>1. ChatInv => TextStoredOnce
  <2> SUFFICES ASSUME ChatInv, ~wiped, NEW p \in messages, NEW q \in messages,
                      p.text = q.text
               PROVE  p = q
    BY DEF TextStoredOnce
  <2>1. /\ p.key \in UsedCalls /\ KeyOf(p.key) = p.key /\ call[p.key].text = p.text
        /\ q.key \in UsedCalls /\ KeyOf(q.key) = q.key /\ call[q.key].text = q.text
    BY DEF ChatInv, MessagesInv
  <2>2. p.key = q.key
    BY <2>1 DEF ChatInv, OneKeyInv
  <2> QED BY <2>2 DEF ChatInv, MessagesInv
<1> QED BY <1>1, ChatInvariance, PTL

----------------------------------------------------------------------------
(* MatchingAlerts.                                                         *)

PostRecord == [at : {"unpublished", "stored", "alert", "published"}, open : BOOLEAN]

SearchSteps == {"unused", "refused", "clear", "insert", "stored", "scan", "saved"}

SearchRecord ==
    [at : SearchSteps, row : BOOLEAN, filter : Filters, default : BOOLEAN, todo : Filters]

EditRecord ==
    [at : {"idle", "clear", "write"}, of : Searches \cup {0}, filter : Filters,
     default : BOOLEAN]

\* The type invariant, in parts.
PostTyped == post \in [Posts -> PostRecord]
SearchTyped == search \in [Searches -> SearchRecord]
EditTyped == edit \in EditRecord
InboxTyped ==
    rows \subseteq Posts /\ alerts \in [Posts -> Nat] /\ wanted \in BOOLEAN /\ clears \in Nat
RestTyped ==
    excused \subseteq Searches \X Posts /\ serial \in BOOLEAN /\ edits \in Nat /\ mishaps \in Nat

\* The type invariant is the conjunction of its parts.
LEMMA TypeParts ==
    AlertsTypeOK <=> PostTyped /\ SearchTyped /\ EditTyped /\ InboxTyped /\ RestTyped
BY DEF AlertsTypeOK, PostTyped, SearchTyped, EditTyped, InboxTyped, RestTyped, PostRecord,
       SearchRecord, SearchSteps, EditRecord

\* The same, of the next state.
LEMMA TypePartsNext ==
    PostTyped' /\ SearchTyped' /\ EditTyped' /\ InboxTyped' /\ RestTyped' => AlertsTypeOK'
BY DEF AlertsTypeOK, PostTyped, SearchTyped, EditTyped, InboxTyped, RestTyped, PostRecord,
       SearchRecord, SearchSteps, EditRecord

\* A step leaves a search what it is, its `default` apart.
Same(q) ==
    /\ search'[q].at = search[q].at
    /\ search'[q].row = search[q].row
    /\ search'[q].filter = search[q].filter
    /\ search'[q].todo = search[q].todo

\* A step makes this of a search and leaves the others what they are.
Turned(s, a, w, f, t) ==
    /\ search'[s].at = a
    /\ search'[s].row = w
    /\ search'[s].filter = f
    /\ search'[s].todo = t
    /\ \A q \in Searches \ {s} : Same(q)

\* One search is given a new record.
LEMMA SetOne ==
    ASSUME SearchTyped, NEW s \in Searches, NEW r \in SearchRecord,
           search' = [search EXCEPT ![s] = r]
    PROVE  SearchTyped' /\ Turned(s, r.at, r.row, r.filter, r.todo)
<1>1. search'[s] = r /\ \A q \in Searches \ {s} : search'[q] = search[q]
  BY DEF SearchTyped
<1>2. SearchTyped'
  BY DEF SearchTyped
<1> QED BY <1>1, <1>2 DEF Turned, Same

\* The types of the fields of a search.
LEMMA SearchFields ==
    ASSUME SearchTyped, NEW s \in Searches
    PROVE  /\ search[s] \in SearchRecord
           /\ search[s].at \in SearchSteps /\ search[s].row \in BOOLEAN
           /\ search[s].filter \in Filters /\ search[s].todo \in Filters
           /\ search[s].default \in BOOLEAN
BY DEF SearchTyped, SearchRecord

\* create reads: the search is refused, or its call goes on within the limit.
LEMMA CheckEffect ==
    ASSUME SearchTyped, NEW s \in Searches, NEW f \in Filters, NEW d \in BOOLEAN,
           CheckSearch(s, f, d), search[s].row = FALSE
    PROVE  /\ SearchTyped' /\ search[s].at = "unused"
           /\ \E a \in {"refused", "clear", "insert"}, g \in Filters, t \in Filters :
                 Turned(s, a, FALSE, g, t) /\ (a # "refused" => WithinLimit)
<1>1. search[s] \in SearchRecord
  BY SearchFields
<1> DEFINE refused == [search[s] EXCEPT !.at = "refused"]
           checked == [at |-> IF d THEN "clear" ELSE "insert",
                       row |-> FALSE, filter |-> f, default |-> d, todo |-> {}]
<1>2. /\ refused \in SearchRecord /\ refused.at = "refused" /\ refused.row = FALSE
      /\ refused.filter \in Filters /\ refused.todo \in Filters
  BY <1>1 DEF SearchRecord, SearchSteps
<1>3. /\ checked \in SearchRecord /\ checked.at \in {"clear", "insert"}
      /\ checked.row = FALSE /\ checked.filter \in Filters /\ checked.todo \in Filters
  BY DEF SearchRecord, SearchSteps, Filters
<1>4. \/ search' = [search EXCEPT ![s] = refused]
      \/ search' = [search EXCEPT ![s] = checked] /\ WithinLimit
  BY DEF CheckSearch
<1> HIDE DEF refused, checked
<1>5. CASE search' = [search EXCEPT ![s] = refused]
  BY <1>2, <1>5, SetOne DEF CheckSearch
<1>6. CASE search' = [search EXCEPT ![s] = checked] /\ WithinLimit
  BY <1>3, <1>6, SetOne DEF CheckSearch
<1> QED BY <1>4, <1>5, <1>6

\* Clearing the other defaults changes nothing else.
LEMMA WithoutDefaultEffect ==
    ASSUME SearchTyped, NEW s
    PROVE  /\ WithoutDefault(s) \in [Searches -> SearchRecord]
           /\ \A q \in Searches :
                 /\ WithoutDefault(s)[q].at = search[q].at
                 /\ WithoutDefault(s)[q].row = search[q].row
                 /\ WithoutDefault(s)[q].filter = search[q].filter
                 /\ WithoutDefault(s)[q].todo = search[q].todo
<1> DEFINE g(q) == [search[q] EXCEPT !.default = FALSE]
<1>1. \A q \in Searches :
         /\ g(q) \in SearchRecord /\ g(q).at = search[q].at /\ g(q).row = search[q].row
         /\ g(q).filter = search[q].filter /\ g(q).todo = search[q].todo
  BY SearchFields DEF SearchRecord
<1>2. WithoutDefault(s) =
         [q \in Searches |-> IF search[q].row /\ q # s THEN g(q) ELSE search[q]]
  BY DEF WithoutDefault
<1> HIDE DEF g
<1> QED BY <1>1, <1>2, SearchFields

\* create clears the other defaults and goes on to insert.
LEMMA ClearEffect ==
    ASSUME SearchTyped, NEW s \in Searches, ClearDefaults(s)
    PROVE  /\ SearchTyped' /\ search[s].at = "clear"
           /\ Turned(s, "insert", search[s].row, search[s].filter, search[s].todo)
<1> DEFINE w == WithoutDefault(s)
<1>1. /\ w \in [Searches -> SearchRecord]
      /\ \A q \in Searches :
            /\ w[q].at = search[q].at /\ w[q].row = search[q].row
            /\ w[q].filter = search[q].filter /\ w[q].todo = search[q].todo
  BY WithoutDefaultEffect
<1>2. search' = [w EXCEPT ![s].at = "insert"] /\ search[s].at = "clear"
  BY DEF ClearDefaults
<1> HIDE DEF w
<1>3. w[s] \in SearchRecord
  BY <1>1
<1> DEFINE r == [w[s] EXCEPT !.at = "insert"]
<1>4. /\ r \in SearchRecord /\ r.at = "insert" /\ r.row = w[s].row
      /\ r.filter = w[s].filter /\ r.todo = w[s].todo
  BY <1>3 DEF SearchRecord, SearchSteps
<1>5. search' = [w EXCEPT ![s] = r]
  BY <1>2
<1> HIDE DEF r
<1>6. search'[s] = r /\ (\A q \in Searches \ {s} : search'[q] = w[q]) /\ SearchTyped'
  BY <1>1, <1>4, <1>5 DEF SearchTyped
<1> QED BY <1>1, <1>2, <1>4, <1>6 DEF Turned, Same

\* create inserts the row, or its name is taken.
LEMMA InsertEffect ==
    ASSUME SearchTyped, NEW s \in Searches, InsertSearch(s)
    PROVE  /\ SearchTyped' /\ search[s].at = "insert"
           /\ \/ Turned(s, "stored", TRUE, search[s].filter, search[s].todo)
              \/ Turned(s, "refused", FALSE, {}, {})
<1>1. search[s] \in SearchRecord
  BY SearchFields
<1> DEFINE stored == [search[s] EXCEPT !.at = "stored", !.row = TRUE]
           refused == [NoSearch EXCEPT !.at = "refused"]
<1>2. /\ stored \in SearchRecord /\ stored.at = "stored" /\ stored.row = TRUE
      /\ stored.filter = search[s].filter /\ stored.todo = search[s].todo
  BY <1>1 DEF SearchRecord, SearchSteps
<1>3. /\ refused \in SearchRecord /\ refused.at = "refused" /\ refused.row = FALSE
      /\ refused.filter = {} /\ refused.todo = {}
  BY DEF NoSearch, SearchRecord, SearchSteps, Filters
<1>4. \/ search' = [search EXCEPT ![s] = stored]
      \/ search' = [search EXCEPT ![s] = refused]
  BY DEF InsertSearch
<1> HIDE DEF stored, refused
<1>5. CASE search' = [search EXCEPT ![s] = stored]
  BY <1>2, <1>5, SetOne DEF InsertSearch
<1>6. CASE search' = [search EXCEPT ![s] = refused]
  BY <1>3, <1>6, SetOne DEF InsertSearch
<1> QED BY <1>4, <1>5, <1>6

\* The scan for a stored search starts from the requests offered that match.
LEMMA ScanEffect ==
    ASSUME SearchTyped, NEW s \in Searches, ScanPosts(s)
    PROVE  /\ SearchTyped' /\ search[s].at = "stored"
           /\ \E t \in Filters :
                 /\ Turned(s, "scan", search[s].row, search[s].filter, t)
                 /\ search[s].row => t = OfferedPosts \cap search[s].filter
<1> DEFINE t == IF search[s].row THEN OfferedPosts \cap search[s].filter ELSE {}
           r == [search[s] EXCEPT !.at = "scan", !.todo = t]
<1>1. search[s] \in SearchRecord /\ t \in Filters
  BY SearchFields DEF Filters, OfferedPosts
<1>2. search' = [search EXCEPT ![s] = r] /\ search[s].at = "stored"
  BY DEF ScanPosts
<1>3. search[s].row => t = OfferedPosts \cap search[s].filter
  OBVIOUS
<1> HIDE DEF t
<1>4. /\ r \in SearchRecord /\ r.at = "scan" /\ r.row = search[s].row
      /\ r.filter = search[s].filter /\ r.todo = t
  BY <1>1 DEF SearchRecord, SearchSteps
<1> HIDE DEF r
<1> QED BY <1>1, <1>2, <1>3, <1>4, SetOne

\* The request a scan comes to next is one it has found.
LEMMA AlertOfScanEffect ==
    ASSUME SearchTyped, NEW s \in Searches, AlertOfScan(s), MaxPosts \in Nat
    PROVE  \E r \in search[s].todo :
              /\ r \in Posts /\ TryAlert(r) /\ SearchTyped' /\ search[s].at = "scan"
              /\ Turned(s, "scan", search[s].row, search[s].filter, search[s].todo \ {r})
<1>1. search[s] \in SearchRecord /\ search[s].todo \in SUBSET Posts
  BY SearchFields DEF Filters
<1>2. search[s].todo # {} /\ search[s].at = "scan"
  BY DEF AlertOfScan
<1> DEFINE m == CHOOSE q \in search[s].todo : \A p \in search[s].todo : p <= q
<1>3. m \in search[s].todo
  <2>1. search[s].todo \subseteq 1 .. MaxPosts
    BY <1>1 DEF Posts
  <2>2. \E q \in search[s].todo : \A p \in search[s].todo : p <= q
    BY <1>2, <2>1, Greatest
  <2> QED BY <2>2
<1>4. PICK r : r = m
  OBVIOUS
<1>5. TryAlert(r) /\ search' = [search EXCEPT ![s].todo = @ \ {r}]
  BY <1>4 DEF AlertOfScan
<1> DEFINE x == [search[s] EXCEPT !.todo = @ \ {r}]
<1>6. /\ x \in SearchRecord /\ x.at = search[s].at /\ x.row = search[s].row
      /\ x.filter = search[s].filter /\ x.todo = search[s].todo \ {r}
  BY <1>1 DEF SearchRecord, Filters
<1>7. search' = [search EXCEPT ![s] = x]
  BY <1>5
<1>8. r \in search[s].todo /\ r \in Posts
  BY <1>1, <1>3, <1>4
<1> HIDE DEF x, m
<1> QED BY <1>2, <1>5, <1>6, <1>7, <1>8, SetOne

\* The scan ends when there is nothing left to alert of.
LEMMA ScanEndsEffect ==
    ASSUME SearchTyped, NEW s \in Searches, ScanEnds(s)
    PROVE  /\ SearchTyped' /\ search[s].at = "scan" /\ search[s].todo = {}
           /\ Turned(s, "saved", search[s].row, search[s].filter, {})
<1> DEFINE r == [search[s] EXCEPT !.at = "saved"]
<1>1. search[s] \in SearchRecord /\ search[s].todo = {} /\ search[s].at = "scan"
  BY SearchFields DEF ScanEnds
<1>2. /\ r \in SearchRecord /\ r.at = "saved" /\ r.row = search[s].row
      /\ r.filter = search[s].filter /\ r.todo = {}
  BY <1>1 DEF SearchRecord, SearchSteps
<1>3. search' = [search EXCEPT ![s] = r]
  BY DEF ScanEnds, SearchAt
<1> HIDE DEF r
<1> QED BY <1>1, <1>2, <1>3, SetOne

\* A call that dies leaves no row, or its row with nothing left to do.
LEMMA SavingDiesEffect ==
    ASSUME SearchTyped, NEW s \in Searches, SavingDies(s)
    PROVE  /\ SearchTyped' /\ search[s].at \in {"clear", "insert", "stored", "scan"}
           /\ IF Writing(s) THEN Turned(s, "refused", FALSE, {}, {})
              ELSE Turned(s, "saved", search[s].row, search[s].filter, {})
<1>1. search[s] \in SearchRecord
  BY SearchFields
<1> DEFINE refused == [NoSearch EXCEPT !.at = "refused"]
           saved == [search[s] EXCEPT !.at = "saved", !.todo = {}]
<1>2. /\ refused \in SearchRecord /\ refused.at = "refused" /\ refused.row = FALSE
      /\ refused.filter = {} /\ refused.todo = {}
  BY DEF NoSearch, SearchRecord, SearchSteps, Filters
<1>3. /\ saved \in SearchRecord /\ saved.at = "saved" /\ saved.row = search[s].row
      /\ saved.filter = search[s].filter /\ saved.todo = {}
  BY <1>1 DEF SearchRecord, SearchSteps, Filters
<1>4. search' = [search EXCEPT ![s] = IF Writing(s) THEN refused ELSE saved]
  BY DEF SavingDies
<1> HIDE DEF refused, saved
<1>5. CASE Writing(s)
  BY <1>2, <1>4, <1>5, SetOne DEF SavingDies
<1>6. CASE ~Writing(s)
  BY <1>3, <1>4, <1>6, SetOne DEF SavingDies
<1> QED BY <1>5, <1>6

\* The steps that only change who is the default.
LEMMA DefaultEffect ==
    ASSUME SearchTyped, (\E s \in Searches : SetDefault(s)) \/ UpdateClears
    PROVE  SearchTyped' /\ \A q \in Searches : Same(q)
<1>1. ASSUME NEW s \in Searches, SetDefault(s)
      PROVE  SearchTyped' /\ \A q \in Searches : Same(q)
  <2> DEFINE w == WithoutDefault(s)
  <2>1. /\ w \in [Searches -> SearchRecord]
        /\ \A q \in Searches :
              /\ w[q].at = search[q].at /\ w[q].row = search[q].row
              /\ w[q].filter = search[q].filter /\ w[q].todo = search[q].todo
    BY WithoutDefaultEffect
  <2>2. search' = [w EXCEPT ![s].default = TRUE]
    BY <1>1 DEF SetDefault
  <2> HIDE DEF w
  <2> DEFINE r == [w[s] EXCEPT !.default = TRUE]
  <2>3. w[s] \in SearchRecord
    BY <2>1
  <2>4. /\ r \in SearchRecord /\ r.at = w[s].at /\ r.row = w[s].row
        /\ r.filter = w[s].filter /\ r.todo = w[s].todo
    BY <2>3 DEF SearchRecord
  <2>5. search' = [w EXCEPT ![s] = r]
    BY <2>2
  <2> HIDE DEF r
  <2>6. search'[s] = r /\ (\A q \in Searches \ {s} : search'[q] = w[q]) /\ SearchTyped'
    BY <2>1, <2>4, <2>5 DEF SearchTyped
  <2> QED BY <2>1, <2>4, <2>6 DEF Same
<1>2. CASE UpdateClears
  BY <1>2, WithoutDefaultEffect DEF UpdateClears, SearchTyped, Same
<1> QED BY <1>1, <1>2

\* update rewrites the filter and the default of one row, or changes nothing.
LEMMA UpdateEffect ==
    ASSUME SearchTyped, EditTyped, edit.of \in Searches, UpdateWrites
    PROVE  /\ SearchTyped' /\ edit.at = "write"
           /\ \/ /\ Turned(edit.of, search[edit.of].at, search[edit.of].row, edit.filter,
                           search[edit.of].todo)
                 /\ excused' = excused \cup ({edit.of} \X
                       {r \in Posts : post[r].at \in {"alert", "published"}})
              \/ (\A q \in Searches : Same(q)) /\ excused' = excused
<1> DEFINE e == edit.of
<1>1. /\ search[e] \in SearchRecord /\ edit.filter \in Filters /\ edit.default \in BOOLEAN
      /\ search[e].default \in BOOLEAN
  BY SearchFields DEF EditTyped, EditRecord
<1>2. edit.at = "write"
  BY DEF UpdateWrites
<1>3. CASE UNCHANGED <<search, excused>>
  BY <1>2, <1>3 DEF SearchTyped, Same
<1>4. ASSUME NEW kept \in BOOLEAN,
             search' = [search EXCEPT ![edit.of] =
                [@ EXCEPT !.filter = edit.filter, !.default = edit.default \/ (kept /\ @)]]
      PROVE  /\ SearchTyped'
             /\ Turned(e, search[e].at, search[e].row, edit.filter, search[e].todo)
  <2>1. PICK d \in BOOLEAN :
           search' = [search EXCEPT ![e] =
                        [search[e] EXCEPT !.filter = edit.filter, !.default = d]]
    BY <1>4
  <2> DEFINE r == [search[e] EXCEPT !.filter = edit.filter, !.default = d]
  <2>2. search' = [search EXCEPT ![e] = r]
    BY <2>1
  <2>3. /\ r \in SearchRecord /\ r.at = search[e].at /\ r.row = search[e].row
        /\ r.filter = edit.filter /\ r.todo = search[e].todo
    BY <1>1, <2>1 DEF SearchRecord
  <2> HIDE DEF r
  <2>4. e \in Searches
    OBVIOUS
  <2> HIDE DEF e
  <2> QED BY <2>2, <2>3, <2>4, SetOne
<1>5. CASE /\ \E kept \in BOOLEAN :
                search' = [search EXCEPT ![edit.of] =
                   [@ EXCEPT !.filter = edit.filter, !.default = edit.default \/ (kept /\ @)]]
           /\ excused' = excused \cup ({edit.of} \X
                {r \in Posts : post[r].at \in {"alert", "published"}})
  BY <1>2, <1>4, <1>5
<1> QED BY <1>3, <1>5 DEF UpdateWrites

\* remove takes the row and leaves the call that scans for it alone.
LEMMA RemoveEffect ==
    ASSUME SearchTyped, NEW s \in Searches, RemoveSearch(s)
    PROVE  /\ SearchTyped'
           /\ Turned(s, search[s].at, FALSE, search[s].filter, search[s].todo)
<1> DEFINE r == [search[s] EXCEPT !.row = FALSE]
<1>1. search[s] \in SearchRecord
  BY SearchFields
<1>2. /\ r \in SearchRecord /\ r.at = search[s].at /\ r.row = FALSE
      /\ r.filter = search[s].filter /\ r.todo = search[s].todo
  BY <1>1 DEF SearchRecord
<1>3. search' = [search EXCEPT ![s] = r]
  BY DEF RemoveSearch
<1> HIDE DEF r
<1> QED BY <1>2, <1>3, SetOne

----------------------------------------------------------------------------
\* A step makes this of a request and leaves the others alone.
PostTurned(r, a, o) ==
    /\ post'[r].at = a /\ post'[r].open = o
    /\ \A p \in Posts \ {r} : post'[p] = post[p]

\* What the steps of a request make of it.
LEMMA PostEffect ==
    ASSUME PostTyped, NEW r \in Posts
    PROVE  /\ StorePost(r) => PostTyped' /\ PostTurned(r, "stored", TRUE)
           /\ ReadSearches(r) => /\ PostTyped' /\ post[r].at = "stored"
                                 /\ \E a \in {"alert", "published"} :
                                       /\ PostTurned(r, a, post[r].open)
                                       /\ a = "published" =>
                                            ~(post[r].open /\ \E s \in SavedRows : Matches(s, r))
           /\ \A a \in {"published"} : PostAt(r, a) =>
                   PostTyped' /\ PostTurned(r, a, post[r].open)
           /\ WithdrawPost(r) => PostTyped' /\ PostTurned(r, post[r].at, FALSE)
<1>1. post[r] \in PostRecord
  BY DEF PostTyped
<1>2. ASSUME NEW x \in PostRecord, post' = [post EXCEPT ![r] = x]
      PROVE  PostTyped' /\ PostTurned(r, x.at, x.open)
  BY <1>2 DEF PostTyped, PostTurned
<1>3. ASSUME NEW a \in {"alert", "published"}, PostAt(r, a)
      PROVE  PostTyped' /\ PostTurned(r, a, post[r].open)
  <2> DEFINE x == [post[r] EXCEPT !.at = a]
  <2>1. x \in PostRecord /\ x.at = a /\ x.open = post[r].open
    BY <1>1 DEF PostRecord
  <2>2. post' = [post EXCEPT ![r] = x]
    BY <1>3 DEF PostAt
  <2> HIDE DEF x
  <2> QED BY <1>2, <2>1, <2>2
<1>4. ASSUME StorePost(r) PROVE PostTyped' /\ PostTurned(r, "stored", TRUE)
  <2> DEFINE x == [at |-> "stored", open |-> TRUE]
  <2>1. x \in PostRecord /\ x.at = "stored" /\ x.open = TRUE
    BY DEF PostRecord
  <2>2. post' = [post EXCEPT ![r] = x]
    BY <1>4 DEF StorePost
  <2> HIDE DEF x
  <2> QED BY <1>2, <2>1, <2>2
<1>5. ASSUME WithdrawPost(r) PROVE PostTyped' /\ PostTurned(r, post[r].at, FALSE)
  <2> DEFINE x == [post[r] EXCEPT !.open = FALSE]
  <2>1. x \in PostRecord /\ x.at = post[r].at /\ x.open = FALSE
    BY <1>1 DEF PostRecord
  <2>2. post' = [post EXCEPT ![r] = x]
    BY <1>5 DEF WithdrawPost
  <2> HIDE DEF x
  <2> QED BY <1>2, <2>1, <2>2
<1>6. ASSUME ReadSearches(r)
      PROVE  /\ PostTyped' /\ post[r].at = "stored"
             /\ \E a \in {"alert", "published"} :
                   /\ PostTurned(r, a, post[r].open)
                   /\ a = "published" =>
                        ~(post[r].open /\ \E s \in SavedRows : Matches(s, r))
  <2>1. CASE post[r].open /\ \E s \in SavedRows : Matches(s, r)
    <3>1. PostAt(r, "alert") /\ post[r].at = "stored"
      BY <1>6, <2>1 DEF ReadSearches
    <3> QED BY <1>3, <3>1
  <2>2. CASE ~(post[r].open /\ \E s \in SavedRows : Matches(s, r))
    <3>1. PostAt(r, "published") /\ post[r].at = "stored"
      BY <1>6, <2>2 DEF ReadSearches
    <3> QED BY <1>3, <2>2, <3>1
  <2> QED BY <2>1, <2>2
<1> QED BY <1>3, <1>4, <1>5, <1>6

\* A notification: the seller was alerted, or need not be of this request.
LEMMA AlertEffect ==
    ASSUME InboxTyped, RestTyped, InboxInv, NEW r \in Posts, TryAlert(r)
    PROVE  /\ InboxTyped' /\ InboxInv'
           /\ excused' \subseteq Searches \X Posts /\ mishaps' \in Nat
           /\ excused \subseteq excused'
           /\ \A p \in Posts : alerts[p] > 0 => alerts'[p] > 0
           /\ alerts'[r] > 0 \/ \A s \in Searches : <<s, r>> \in excused'
<1>1. UNCHANGED <<wanted, clears>>
  BY DEF TryAlert
<1>2. CASE UNCHANGED <<rows, alerts>> /\ excused' = excused \cup (Searches \X {r})
           /\ mishaps' \in Nat
  BY <1>1, <1>2 DEF InboxTyped, RestTyped, InboxInv
<1>3. CASE UNCHANGED <<rows, alerts, mishaps>> /\ excused' = excused /\ r \in rows
  BY <1>1, <1>3 DEF InboxTyped, RestTyped, InboxInv
<1>4. CASE /\ r \notin rows /\ rows' = rows \cup {r}
           /\ alerts' = [alerts EXCEPT ![r] = @ + 1]
           /\ UNCHANGED <<excused, mishaps>>
  <2>1. /\ alerts[r] \in Nat /\ alerts'[r] = alerts[r] + 1
        /\ \A p \in Posts \ {r} : alerts'[p] = alerts[p] /\ (p \in rows' <=> p \in rows)
        /\ r \in rows' /\ alerts' \in [Posts -> Nat] /\ clears \in Nat
    BY <1>4 DEF InboxTyped
  <2>2. InboxTyped'
    BY <1>1, <1>4, <2>1 DEF InboxTyped
  <2>3. ASSUME NEW p \in Posts
        PROVE  /\ p \in rows' => alerts'[p] > 0
               /\ alerts'[p] <= clears' + IF p \in rows' THEN 1 ELSE 0
               /\ alerts[p] > 0 => alerts'[p] > 0
    <3>1. CASE p = r
      BY <1>1, <1>4, <2>1, <3>1 DEF InboxInv
    <3>2. CASE p # r
      BY <1>1, <2>1, <3>2 DEF InboxInv
    <3> QED BY <3>1, <3>2
  <2>4. InboxInv'
    BY <2>3 DEF InboxInv
  <2> QED BY <1>4, <2>1, <2>2, <2>3, <2>4 DEF RestTyped
<1>5. CASE Alert(r)
  <2>1. CASE ~wanted
    BY <1>2, <1>5, <2>1 DEF Alert, RestTyped
  <2>2. CASE wanted /\ r \in rows
    BY <1>3, <1>5, <2>2 DEF Alert, IsNewAlert
  <2>3. CASE wanted /\ r \notin rows
    BY <1>4, <1>5, <2>3 DEF Alert, IsNewAlert
  <2> QED BY <2>1, <2>2, <2>3
<1>6. CASE AlertFails(r)
  BY <1>2, <1>6 DEF AlertFails, RestTyped
<1> QED BY <1>5, <1>6 DEF TryAlert

----------------------------------------------------------------------------
\* What a step keeps of a pair: the search, the request, the alert.
PairKept(s, r) ==
    /\ Same(s)
    /\ post'[r] = post[r]
    /\ alerts[r] > 0 => alerts'[r] > 0
    /\ <<s, r>> \in excused => <<s, r>> \in excused'

\* A pair that matches is told, excused, or on its way.
PairHolds(s, r) ==
    search[s].row /\ post[r].open /\ Matches(s, r) /\ <<s, r>> \notin excused =>
        alerts[r] > 0 \/ Pending(s, r)

\* The invariant of the pairs, pair by pair.
LEMMA PairsAre == PairsInv <=> \A s \in Searches, r \in Posts : PairHolds(s, r)
BY DEF PairsInv, PairHolds, SavedRows, OfferedPosts

\* The same, of the next state.
LEMMA PairsAreNext == PairsInv' <=> \A s \in Searches, r \in Posts : PairHolds(s, r)'
BY DEF PairsInv, PairHolds, SavedRows, OfferedPosts

\* A pair that a step keeps still holds.
LEMMA PairKeptHolds ==
    ASSUME NEW s \in Searches, NEW r \in Posts, PairHolds(s, r), PairKept(s, r)
    PROVE  PairHolds(s, r)'
BY DEF PairHolds, PairKept, Same, Matches, Pending

\* A step that touches no request, and no alert, turns one search.
LEMMA PairsOfSearch ==
    ASSUME PairsInv, NEW s \in Searches, NEW a, NEW w, NEW f, NEW t, Turned(s, a, w, f, t),
           UNCHANGED <<post, alerts>>, excused \subseteq excused',
           \A r \in Posts : PairHolds(s, r)'
    PROVE  PairsInv'
<1>1. ASSUME NEW q \in Searches, NEW r \in Posts PROVE PairHolds(q, r)'
  <2>1. CASE q = s
    BY <2>1
  <2>2. CASE q # s
    <3>1. PairKept(q, r)
      BY <2>2 DEF Turned, PairKept
    <3> QED BY <3>1, PairsAre, PairKeptHolds
  <2> QED BY <2>1, <2>2
<1> QED BY <1>1, PairsAreNext

----------------------------------------------------------------------------
\* Everything a step has to keep.
AlertsUpheld ==
    /\ PostTyped' /\ SearchTyped' /\ EditTyped' /\ InboxTyped' /\ RestTyped'
    /\ CallsAreSound' /\ InboxInv' /\ PairsInv' /\ LimitInv'

\* The parts of the invariant.
LEMMA Known ==
    AlertsInv => /\ PostTyped /\ SearchTyped /\ EditTyped /\ InboxTyped /\ RestTyped
                 /\ CallsAreSound /\ InboxInv /\ PairsInv /\ LimitInv
BY TypeParts DEF AlertsInv

\* The stored searches are finitely many.
LEMMA RowsAreFinite ==
    ASSUME AlertsAssumption
    PROVE  /\ \A T \in SUBSET Searches : IsFiniteSet(T) /\ Cardinality(T) \in Nat
           /\ SavedRows \subseteq Searches
<1>1. IsFiniteSet(Searches)
  BY FS_Interval DEF Searches, AlertsAssumption
<1>2. \A T \in SUBSET Searches : IsFiniteSet(T) /\ Cardinality(T) \in Nat
  BY <1>1, FS_Subset, FS_CardinalityType
<1> QED BY <1>2 DEF SavedRows

\* A step that stores no row and begins no call keeps to the limit.
LEMMA LimitKept ==
    ASSUME AlertsInv, AlertsAssumption, serial' = serial,
           \A q \in Searches : search'[q].row => search[q].row,
           \A q \in Searches : Writing(q)' => Writing(q),
           edit'.at \in {edit.at, "idle"}
    PROVE  LimitInv'
<1>1. SavedRows' \subseteq SavedRows
  BY DEF SavedRows
<1>2. /\ SavedRows' \subseteq Searches /\ SavedRows \subseteq Searches
      /\ Cardinality(SavedRows) \in Nat /\ Cardinality(SavedRows') \in Nat
      /\ IsFiniteSet(SavedRows)
  BY <1>1, RowsAreFinite
<1>3. Cardinality(SavedRows') <= Cardinality(SavedRows)
  BY <1>1, <1>2, FS_Subset
<1>4. MaxSmartAlerts \in Nat
  BY DEF AlertsAssumption
<1> QED BY <1>2, <1>3, <1>4 DEF AlertsInv, LimitInv

\* A search call that changes no request, no alert and no edit.
LEMMA SearchTurns ==
    ASSUME AlertsInv, AlertsAssumption, NEW s \in Searches, NEW a, NEW w, NEW f, NEW t,
           Turned(s, a, w, f, t), SearchTyped',
           UNCHANGED <<post, edit, rows, alerts, wanted, clears>>, serial' \in BOOLEAN,
           excused \subseteq excused', excused' \subseteq Searches \X Posts,
           edits' \in Nat, mishaps' \in Nat,
           w => a \in {"stored", "scan", "saved"},
           \A r \in Posts : PairHolds(s, r)',
           LimitInv'
    PROVE  AlertsUpheld
<1>1. PostTyped' /\ EditTyped' /\ InboxTyped' /\ RestTyped' /\ InboxInv'
  BY Known DEF PostTyped, EditTyped, InboxTyped, RestTyped, InboxInv
<1>2. CallsAreSound'
  BY Known DEF CallsAreSound, SavedRows, Turned, Same
<1>3. PairsInv'
  BY Known, PairsOfSearch
<1> QED BY <1>1, <1>2, <1>3 DEF AlertsUpheld

\* Only a call that found none other running counts the rows as serial.
LEMMA CheckUpholds ==
    ASSUME AlertsInv, AlertsAssumption, NEW s \in Searches, NEW f \in Filters,
           NEW d \in BOOLEAN, CheckSearch(s, f, d)
    PROVE  AlertsUpheld
<1>1. /\ SearchTyped /\ search[s].at = "unused"
      /\ UNCHANGED <<post, edit, rows, alerts, wanted, clears, excused, edits, mishaps>>
      /\ serial' = (serial /\ ~Busy)
  BY Known DEF CheckSearch, inbox
<1>2. search[s].row = FALSE
  BY <1>1, Known, SearchFields DEF CallsAreSound, SavedRows
<1>3. SearchTyped'
  BY <1>1, <1>2, CheckEffect
<1>4. PICK a \in {"refused", "clear", "insert"}, g \in Filters, t \in Filters :
         Turned(s, a, FALSE, g, t) /\ (a # "refused" => WithinLimit)
  BY <1>1, <1>2, CheckEffect
<1>5. \A r \in Posts : PairHolds(s, r)'
  BY <1>4 DEF Turned, PairHolds
<1>6. SavedRows' = SavedRows
  BY <1>2, <1>4 DEF SavedRows, Turned, Same
<1>7. LimitInv'
  <2> SUFFICES ASSUME serial, ~Busy PROVE LimitInv'
    BY <1>1 DEF LimitInv
  <2>1. Cardinality(SavedRows') <= MaxSmartAlerts
    BY <1>6, Known DEF LimitInv
  <2>2. edit'.at = "idle" /\ \A q \in Searches : ~Writing(q)
    BY <1>1 DEF Busy
  <2>3. \A q \in Searches : Writing(q)' => q = s /\ a # "refused"
    BY <1>4, <2>2 DEF Turned, Same, Writing
  <2>4. a # "refused" => Cardinality(SavedRows') < MaxSmartAlerts
    BY <1>4, <1>6 DEF WithinLimit
  <2> QED BY <2>1, <2>2, <2>3, <2>4 DEF LimitInv
<1>8. serial' \in BOOLEAN /\ excused' \subseteq Searches \X Posts /\ edits' \in Nat
      /\ mishaps' \in Nat
  BY <1>1, Known DEF RestTyped
<1> QED BY <1>1, <1>3, <1>4, <1>5, <1>7, <1>8, SearchTurns

\* The one call that may insert takes the place it found free.
LEMMA InsertUpholds ==
    ASSUME AlertsInv, AlertsAssumption, NEW s \in Searches, InsertSearch(s)
    PROVE  AlertsUpheld
<1>1. /\ SearchTyped /\ search[s].at = "insert"
      /\ UNCHANGED <<post, edit, serial, rows, alerts, wanted, clears, excused, edits, mishaps>>
  BY Known DEF InsertSearch, inbox
<1>2. serial' \in BOOLEAN /\ excused' \subseteq Searches \X Posts /\ edits' \in Nat
      /\ mishaps' \in Nat
  BY <1>1, Known DEF RestTyped
<1>3. SearchTyped'
  BY <1>1, InsertEffect
<1>4. CASE Turned(s, "refused", FALSE, {}, {})
  <2>1. \A r \in Posts : PairHolds(s, r)'
    BY <1>4 DEF Turned, PairHolds
  <2>2. /\ \A q \in Searches : search'[q].row => search[q].row
        /\ \A q \in Searches : Writing(q)' => Writing(q)
    BY <1>4 DEF Turned, Same, Writing
  <2>3. LimitInv'
    BY <1>1, <2>2, LimitKept
  <2> QED BY <1>1, <1>2, <1>3, <1>4, <2>1, <2>3, SearchTurns
<1>5. CASE Turned(s, "stored", TRUE, search[s].filter, search[s].todo)
  <2>1. \A r \in Posts : PairHolds(s, r)'
    BY <1>5 DEF Turned, PairHolds, Pending
  <2>2. SavedRows' = SavedRows \cup {s} /\ s \notin SavedRows
    BY <1>1, <1>5, Known DEF SavedRows, Turned, Same, CallsAreSound
  <2>3. Cardinality(SavedRows') = Cardinality(SavedRows) + 1
    BY <2>2, RowsAreFinite, FS_AddElement
  <2>4. Writing(s) /\ \A q \in Searches : Writing(q)' => Writing(q) /\ q # s
    BY <1>1, <1>5 DEF Writing, Turned, Same
  <2>5. Cardinality(SavedRows) \in Nat /\ MaxSmartAlerts \in Nat
    BY RowsAreFinite DEF AlertsAssumption
  <2>6. LimitInv'
    <3> SUFFICES ASSUME serial PROVE LimitInv'
      BY <1>1 DEF LimitInv
    <3>1. /\ Cardinality(SavedRows) < MaxSmartAlerts
          /\ \A q \in Searches : Writing(q) => q = s
      BY <2>4, Known DEF LimitInv
    <3>2. \A q \in Searches : ~Writing(q)'
      BY <2>4, <3>1
    <3> QED BY <2>3, <2>5, <3>1, <3>2 DEF LimitInv
  <2> QED BY <1>1, <1>2, <1>3, <1>5, <2>1, <2>6, SearchTurns
<1> QED BY <1>1, <1>4, <1>5, InsertEffect

\* The scan takes over what was pending, and ends with nothing pending.
LEMMA ScanUpholds ==
    ASSUME AlertsInv, AlertsAssumption, NEW s \in Searches, ScanPosts(s) \/ ScanEnds(s)
    PROVE  AlertsUpheld
<1>1. /\ SearchTyped
      /\ UNCHANGED <<post, edit, serial, rows, alerts, wanted, clears, excused, edits, mishaps>>
  BY Known DEF ScanPosts, ScanEnds, inbox
<1>2. serial' \in BOOLEAN /\ excused' \subseteq Searches \X Posts /\ edits' \in Nat
      /\ mishaps' \in Nat
  BY <1>1, Known DEF RestTyped
<1>3. ASSUME NEW a \in {"scan", "saved"}, NEW t,
             Turned(s, a, search[s].row, search[s].filter, t), SearchTyped',
             \A r \in Posts : PairHolds(s, r)'
      PROVE  AlertsUpheld
  <2>1. /\ \A q \in Searches : search'[q].row => search[q].row
        /\ \A q \in Searches : Writing(q)' => Writing(q)
    BY <1>3 DEF Turned, Same, Writing
  <2>2. LimitInv'
    BY <1>1, <2>1, LimitKept
  <2> QED BY <1>1, <1>2, <1>3, <2>2, SearchTurns
<1>4. CASE ScanPosts(s)
  <2>1. PICK t \in Filters :
           /\ Turned(s, "scan", search[s].row, search[s].filter, t)
           /\ search[s].row => t = OfferedPosts \cap search[s].filter
    BY <1>1, <1>4, ScanEffect
  <2>2. \A r \in Posts : PairHolds(s, r)'
    BY <1>1, <2>1 DEF Turned, PairHolds, Pending, Matches, OfferedPosts
  <2>3. SearchTyped'
    BY <1>1, <1>4, ScanEffect
  <2> QED BY <1>3, <2>1, <2>2, <2>3
<1>5. CASE ScanEnds(s)
  <2>1. /\ SearchTyped' /\ search[s].at = "scan" /\ search[s].todo = {}
        /\ Turned(s, "saved", search[s].row, search[s].filter, {})
    BY <1>1, <1>5, ScanEndsEffect
  <2>2. \A r \in Posts : PairHolds(s, r)
    BY Known, PairsAre
  <2>3. \A r \in Posts : PairHolds(s, r)'
    BY <1>1, <2>1, <2>2 DEF Turned, PairHolds, Pending, Matches
  <2> QED BY <1>3, <2>1, <2>3
<1> QED BY <1>4, <1>5

\* A call that dies excuses the pairs of its search.
LEMMA DiesUpholds ==
    ASSUME AlertsInv, AlertsAssumption, NEW s \in Searches, SavingDies(s)
    PROVE  AlertsUpheld
<1>1. /\ SearchTyped
      /\ UNCHANGED <<post, edit, serial, rows, alerts, wanted, clears, edits>>
      /\ excused' = excused \cup ({s} \X Posts) /\ mishaps' = mishaps + 1
  BY Known DEF SavingDies, inbox
<1>2. serial' \in BOOLEAN /\ excused' \subseteq Searches \X Posts /\ edits' \in Nat
      /\ mishaps' \in Nat /\ excused \subseteq excused'
  BY <1>1, Known DEF RestTyped
<1>3. \A r \in Posts : PairHolds(s, r)'
  BY <1>1 DEF PairHolds
<1>4. ASSUME NEW a \in {"refused", "saved"}, NEW w, NEW f, NEW t, Turned(s, a, w, f, t),
             SearchTyped', w => search[s].row, a = "refused" => ~w
      PROVE  AlertsUpheld
  <2>1. /\ \A q \in Searches : search'[q].row => search[q].row
        /\ \A q \in Searches : Writing(q)' => Writing(q)
    BY <1>4 DEF Turned, Same, Writing
  <2>2. LimitInv'
    BY <1>1, <2>1, LimitKept
  <2> QED BY <1>1, <1>2, <1>3, <1>4, <2>2, SearchTurns
<1>5. SearchTyped'
  BY <1>1, SavingDiesEffect
<1>6. CASE Writing(s)
  <2>1. Turned(s, "refused", FALSE, {}, {})
    BY <1>1, <1>6, SavingDiesEffect
  <2> QED BY <1>4, <1>5, <2>1
<1>7. CASE ~Writing(s)
  <2>1. Turned(s, "saved", search[s].row, search[s].filter, {})
    BY <1>1, <1>7, SavingDiesEffect
  <2> QED BY <1>4, <1>5, <2>1
<1> QED BY <1>6, <1>7

\* A search that loses its default or its row owes no alert.
LEMMA ClearUpholds ==
    ASSUME AlertsInv, AlertsAssumption, NEW s \in Searches, ClearDefaults(s) \/ RemoveSearch(s)
    PROVE  AlertsUpheld
<1>1. /\ SearchTyped /\ edits \in Nat
      /\ UNCHANGED <<post, edit, serial, rows, alerts, wanted, clears, excused, mishaps>>
      /\ edits' \in {edits, edits + 1}
  BY Known DEF ClearDefaults, RemoveSearch, inbox, RestTyped
<1>2. serial' \in BOOLEAN /\ excused' \subseteq Searches \X Posts /\ edits' \in Nat
      /\ mishaps' \in Nat
  BY <1>1, Known DEF RestTyped
<1>3. CASE ClearDefaults(s)
  <2>1. /\ SearchTyped' /\ search[s].at = "clear"
        /\ Turned(s, "insert", search[s].row, search[s].filter, search[s].todo)
    BY <1>1, <1>3, ClearEffect
  <2>2. ~search[s].row
    BY <2>1, Known DEF CallsAreSound, SavedRows
  <2>3. \A r \in Posts : PairHolds(s, r)'
    BY <2>1, <2>2 DEF Turned, PairHolds
  <2>4. /\ \A q \in Searches : search'[q].row => search[q].row
        /\ \A q \in Searches : Writing(q)' => Writing(q)
    BY <2>1 DEF Turned, Same, Writing
  <2>5. LimitInv'
    BY <1>1, <2>4, LimitKept
  <2> QED BY <1>1, <1>2, <2>1, <2>2, <2>3, <2>5, SearchTurns
<1>4. CASE RemoveSearch(s)
  <2>1. /\ SearchTyped'
        /\ Turned(s, search[s].at, FALSE, search[s].filter, search[s].todo)
    BY <1>1, <1>4, RemoveEffect
  <2>2. \A r \in Posts : PairHolds(s, r)'
    BY <2>1 DEF Turned, PairHolds
  <2>3. /\ \A q \in Searches : search'[q].row => search[q].row
        /\ \A q \in Searches : Writing(q)' => Writing(q)
    BY <2>1 DEF Turned, Same, Writing
  <2>4. LimitInv'
    BY <1>1, <2>3, LimitKept
  <2> QED BY <1>1, <1>2, <2>1, <2>2, <2>4, SearchTurns
<1> QED BY <1>3, <1>4

\* The scan alerts of one request, and every other pair is kept.
LEMMA AlertOfScanUpholds ==
    ASSUME AlertsInv, AlertsAssumption, NEW s \in Searches, AlertOfScan(s)
    PROVE  AlertsUpheld
<1>1. /\ PostTyped /\ SearchTyped /\ EditTyped /\ InboxTyped /\ RestTyped
      /\ CallsAreSound /\ InboxInv /\ PairsInv /\ MaxPosts \in Nat
  BY Known DEF AlertsAssumption
<1>2. UNCHANGED <<post, edit, serial, edits>>
  BY DEF AlertOfScan
<1>3. PICK r \in search[s].todo :
         /\ r \in Posts /\ TryAlert(r) /\ SearchTyped' /\ search[s].at = "scan"
         /\ Turned(s, "scan", search[s].row, search[s].filter, search[s].todo \ {r})
  BY <1>1, AlertOfScanEffect
<1>4. /\ InboxTyped' /\ InboxInv'
      /\ excused' \subseteq Searches \X Posts /\ mishaps' \in Nat
      /\ excused \subseteq excused'
      /\ \A p \in Posts : alerts[p] > 0 => alerts'[p] > 0
      /\ alerts'[r] > 0 \/ \A q \in Searches : <<q, r>> \in excused'
  BY <1>1, <1>3, AlertEffect
<1>5. PostTyped' /\ EditTyped' /\ RestTyped'
  BY <1>1, <1>2, <1>4 DEF PostTyped, EditTyped, RestTyped
<1>6. CallsAreSound'
  BY <1>1, <1>2, <1>3 DEF CallsAreSound, SavedRows, Turned, Same
<1>7. PairsInv'
  <2> SUFFICES ASSUME NEW q \in Searches, NEW p \in Posts PROVE PairHolds(q, p)'
    BY PairsAreNext
  <2>1. PairHolds(q, p)
    BY <1>1, PairsAre
  <2>2. CASE p = r
    BY <1>4, <2>2 DEF PairHolds
  <2>3. CASE p # r /\ q = s
    BY <1>2, <1>3, <1>4, <2>1, <2>3 DEF PairHolds, Turned, Pending, Matches
  <2>4. CASE p # r /\ q # s
    <3>1. PairKept(q, p)
      BY <1>2, <1>3, <1>4, <2>4 DEF PairKept, Turned
    <3> QED BY <2>1, <3>1, PairKeptHolds
  <2> QED BY <2>2, <2>3, <2>4
<1>8. /\ \A q \in Searches : search'[q].row => search[q].row
      /\ \A q \in Searches : Writing(q)' => Writing(q)
  BY <1>3 DEF Turned, Same, Writing
<1>9. LimitInv'
  BY <1>2, <1>8, LimitKept
<1> QED BY <1>3, <1>4, <1>5, <1>6, <1>7, <1>9 DEF AlertsUpheld

\* The steps that leave the searches what they are, and the inbox and the requests.
LEMMA QuietUpholds ==
    ASSUME AlertsInv, AlertsAssumption,
           \/ \E s \in Searches : SetDefault(s)
           \/ \E s \in Searches, f \in Filters, d \in BOOLEAN : BeginUpdate(s, f, d)
           \/ UpdateClears
           \/ SetPreference
           \/ UNCHANGED alertVars
    PROVE  AlertsUpheld
<1>1. /\ PostTyped /\ SearchTyped /\ EditTyped /\ InboxTyped /\ RestTyped
      /\ CallsAreSound /\ InboxInv /\ PairsInv /\ LimitInv
  BY Known
<1>2. ASSUME UNCHANGED <<post, rows, alerts, clears, excused>>, wanted' \in BOOLEAN,
             SearchTyped', \A q \in Searches : Same(q), EditTyped',
             edits' \in Nat, mishaps' \in Nat, serial' \in BOOLEAN,
             edit'.at # "idle" => edit'.of \in Searches,
             LimitInv'
      PROVE  AlertsUpheld
  <2>1. PostTyped' /\ InboxTyped' /\ RestTyped' /\ InboxInv'
    BY <1>1, <1>2 DEF PostTyped, InboxTyped, RestTyped, InboxInv
  <2>2. CallsAreSound'
    BY <1>1, <1>2 DEF CallsAreSound, SavedRows, Same
  <2>3. PairsInv'
    <3> SUFFICES ASSUME NEW q \in Searches, NEW r \in Posts PROVE PairHolds(q, r)'
      BY PairsAreNext
    <3>1. PairHolds(q, r) /\ PairKept(q, r)
      BY <1>1, <1>2, PairsAre DEF PairKept
    <3> QED BY <3>1, PairKeptHolds
  <2> QED BY <1>2, <2>1, <2>2, <2>3 DEF AlertsUpheld
<1>3. ASSUME serial' = serial, edit'.at \in {edit.at, "idle"}, \A q \in Searches : Same(q)
      PROVE  LimitInv'
  <2>1. /\ \A q \in Searches : search'[q].row => search[q].row
        /\ \A q \in Searches : Writing(q)' => Writing(q)
    BY <1>3 DEF Same, Writing
  <2> QED BY <1>3, <2>1, LimitKept
<1>a. ASSUME search' = search PROVE SearchTyped' /\ \A q \in Searches : Same(q)
  BY <1>a, <1>1 DEF SearchTyped, Same
<1>4. ASSUME serial' = (serial /\ ~Busy), \A q \in Searches : Same(q) PROVE LimitInv'
  <2> SUFFICES ASSUME serial, ~Busy PROVE LimitInv'
    BY <1>4 DEF LimitInv
  <2>1. \A q \in Searches : ~Writing(q)'
    BY <1>4 DEF Busy, Writing, Same
  <2>2. SavedRows' = SavedRows
    BY <1>4 DEF SavedRows, Same
  <2> QED BY <1>1, <2>1, <2>2 DEF LimitInv
<1>5. ASSUME NEW s \in Searches, SetDefault(s) PROVE AlertsUpheld
  <2>1. /\ UNCHANGED <<post, edit, rows, alerts, wanted, clears, excused, mishaps>>
        /\ edits' = edits + 1 /\ serial' = (serial /\ ~Busy)
    BY <1>5 DEF SetDefault, inbox
  <2>2. SearchTyped' /\ \A q \in Searches : Same(q)
    BY <1>1, <1>5, DefaultEffect
  <2>3. EditTyped' /\ wanted' \in BOOLEAN /\ edits' \in Nat /\ mishaps' \in Nat
        /\ serial' \in BOOLEAN
    BY <1>1, <2>1 DEF EditTyped, InboxTyped, RestTyped
  <2> QED BY <1>1, <1>2, <1>4, <2>1, <2>2, <2>3 DEF CallsAreSound
<1>6. ASSUME NEW s \in Searches, NEW f \in Filters, NEW d \in BOOLEAN, BeginUpdate(s, f, d)
      PROVE AlertsUpheld
  <2>1. /\ UNCHANGED <<post, search, rows, alerts, wanted, clears, excused, mishaps>>
        /\ edits' = edits + 1 /\ serial' = (serial /\ ~Busy)
        /\ edit' = [at |-> IF d THEN "clear" ELSE "write", of |-> s, filter |-> f, default |-> d]
    BY <1>6 DEF BeginUpdate, inbox
  <2>2. EditTyped' /\ edit'.of \in Searches
    BY <2>1 DEF EditTyped, EditRecord
  <2>3. wanted' \in BOOLEAN /\ edits' \in Nat /\ mishaps' \in Nat /\ serial' \in BOOLEAN
    BY <1>1, <2>1 DEF InboxTyped, RestTyped
  <2> QED BY <1>2, <1>4, <1>a, <2>1, <2>2, <2>3
<1>7. CASE UpdateClears
  <2>1. /\ UNCHANGED <<post, rows, alerts, wanted, clears, excused, serial, edits, mishaps>>
        /\ edit.at = "clear" /\ edit' = [edit EXCEPT !.at = "write"]
    BY <1>7 DEF UpdateClears, inbox
  <2>2. SearchTyped' /\ \A q \in Searches : Same(q)
    BY <1>1, <1>7, DefaultEffect
  <2>3. EditTyped' /\ edit'.of = edit.of /\ edit'.at = "write"
    BY <1>1, <2>1 DEF EditTyped, EditRecord
  <2>4. LimitInv'
    <3>1. SavedRows' = SavedRows /\ \A q \in Searches : Writing(q)' <=> Writing(q)
      BY <2>2 DEF SavedRows, Same, Writing
    <3>2. serial => \A q \in Searches : ~Writing(q)
      BY <1>1, <2>1 DEF LimitInv
    <3> QED BY <1>1, <2>1, <3>1, <3>2 DEF LimitInv
  <2>5. wanted' \in BOOLEAN /\ edits' \in Nat /\ mishaps' \in Nat /\ serial' \in BOOLEAN
    BY <1>1, <2>1 DEF InboxTyped, RestTyped
  <2> QED BY <1>1, <1>2, <2>1, <2>2, <2>3, <2>4, <2>5 DEF CallsAreSound
<1>8. CASE SetPreference \/ UNCHANGED alertVars
  <2>1. /\ UNCHANGED <<post, search, edit, serial, rows, alerts, clears, excused, mishaps>>
        /\ edits' \in {edits, edits + 1} /\ wanted' \in {wanted, ~wanted}
    BY <1>8 DEF SetPreference, alertVars, searches, inbox
  <2>2. EditTyped' /\ edits' \in Nat /\ mishaps' \in Nat /\ serial' \in BOOLEAN
    BY <1>1, <2>1 DEF EditTyped, RestTyped
  <2>3. wanted \in BOOLEAN
    BY <1>1 DEF InboxTyped
  <2>4. wanted' \in BOOLEAN
    BY <2>1, <2>3
  <2> QED BY <1>1, <1>2, <1>3, <1>a, <2>1, <2>2, <2>4 DEF CallsAreSound
<1> QED BY <1>5, <1>6, <1>7, <1>8

\* The inbox is cleared.
LEMMA ClearInboxUpholds ==
    ASSUME AlertsInv, AlertsAssumption, ClearInbox
    PROVE  AlertsUpheld
<1>1. /\ PostTyped /\ SearchTyped /\ EditTyped /\ InboxTyped /\ RestTyped
      /\ CallsAreSound /\ InboxInv /\ PairsInv /\ LimitInv
  BY Known
<1>2. /\ UNCHANGED <<post, search, edit, serial, alerts, wanted, excused, mishaps>>
      /\ edits' = edits + 1 /\ rows' = {} /\ clears' = clears + 1
  BY DEF ClearInbox, searches
<1>3. PostTyped' /\ SearchTyped' /\ EditTyped' /\ InboxTyped' /\ RestTyped'
  BY <1>1, <1>2 DEF PostTyped, SearchTyped, EditTyped, InboxTyped, RestTyped
<1>4. CallsAreSound' /\ LimitInv'
  BY <1>1, <1>2 DEF CallsAreSound, SavedRows, LimitInv, Writing
<1>5. InboxInv'
  <2> SUFFICES ASSUME NEW r \in Posts PROVE alerts[r] <= clears + 1
    BY <1>2 DEF InboxInv
  <2>1. alerts[r] \in Nat /\ clears \in Nat
    BY <1>1 DEF InboxTyped
  <2> QED BY <1>1, <2>1 DEF InboxInv
<1>6. PairsInv'
  BY <1>1, <1>2 DEF PairsInv, SavedRows, OfferedPosts, Matches, Pending
<1> QED BY <1>3, <1>4, <1>5, <1>6 DEF AlertsUpheld

\* An update writes its row: the requests that looked before are excused.
LEMMA UpdateUpholds ==
    ASSUME AlertsInv, AlertsAssumption, UpdateWrites
    PROVE  AlertsUpheld
<1>1. /\ PostTyped /\ SearchTyped /\ EditTyped /\ InboxTyped /\ RestTyped
      /\ CallsAreSound /\ InboxInv /\ PairsInv /\ LimitInv
  BY Known
<1>2. /\ UNCHANGED <<post, serial, rows, alerts, wanted, clears, edits, mishaps>>
      /\ edit.at = "write" /\ edit' = NoEdit
  BY DEF UpdateWrites, inbox
<1>3. PICK e \in Searches : e = edit.of
  BY <1>1, <1>2 DEF CallsAreSound
<1>4. PICK f \in Filters : f = edit.filter
  BY <1>1 DEF EditTyped, EditRecord
<1>5. /\ SearchTyped'
      /\ \/ /\ Turned(e, search[e].at, search[e].row, f, search[e].todo)
            /\ excused' = excused \cup ({e} \X
                  {r \in Posts : post[r].at \in {"alert", "published"}})
         \/ (\A q \in Searches : Same(q)) /\ excused' = excused
  BY <1>1, <1>3, <1>4, UpdateEffect
<1>6. /\ excused' \subseteq Searches \X Posts /\ excused \subseteq excused'
  BY <1>1, <1>5 DEF RestTyped
<1>7. edit'.at = "idle" /\ EditTyped'
  BY <1>2 DEF NoEdit, EditTyped, EditRecord, Filters
<1>8. PostTyped' /\ InboxTyped' /\ RestTyped' /\ InboxInv'
  BY <1>1, <1>2, <1>6 DEF PostTyped, InboxTyped, RestTyped, InboxInv
<1>9. /\ \A q \in Searches : search'[q].row = search[q].row /\ search'[q].at = search[q].at
      /\ \A q \in Searches : search'[q].todo = search[q].todo
  BY <1>5 DEF Turned, Same
<1>10. CallsAreSound'
  BY <1>1, <1>2, <1>7, <1>9 DEF CallsAreSound, SavedRows
<1>11. LimitInv'
  BY <1>2, <1>7, <1>9, LimitKept DEF Writing
<1>12. PairsInv'
  <2> SUFFICES ASSUME NEW q \in Searches, NEW r \in Posts PROVE PairHolds(q, r)'
    BY PairsAreNext
  <2>1. PairHolds(q, r)
    BY <1>1, PairsAre
  <2>2. CASE Same(q)
    BY <1>2, <1>6, <2>1, <2>2, PairKeptHolds DEF PairKept
  <2>3. CASE q = e /\ excused' = excused \cup ({e} \X
                  {p \in Posts : post[p].at \in {"alert", "published"}})
    <3>1. CASE post[r].at \in {"alert", "published"}
      BY <2>3, <3>1 DEF PairHolds
    <3>2. CASE post[r].at \in {"unpublished", "stored"}
      BY <1>1, <1>2, <3>2 DEF PairHolds, CallsAreSound, Pending
    <3>3. post[r].at \in {"unpublished", "stored", "alert", "published"}
      BY <1>1 DEF PostTyped, PostRecord
    <3> QED BY <3>1, <3>2, <3>3
  <2> QED BY <1>5, <2>2, <2>3 DEF Turned
<1> QED BY <1>5, <1>7, <1>8, <1>10, <1>11, <1>12 DEF AlertsUpheld

\* The steps of a request.
LEMMA PostUpholds ==
    ASSUME AlertsInv, AlertsAssumption, NEW r \in Posts, PostStep(r)
    PROVE  AlertsUpheld
<1>1. /\ PostTyped /\ SearchTyped /\ EditTyped /\ InboxTyped /\ RestTyped
      /\ CallsAreSound /\ InboxInv /\ PairsInv /\ LimitInv
  BY Known
<1>2. UNCHANGED searches
  BY DEF PostStep, StorePost, ReadSearches, AlertOfPost, PublishingDies, WithdrawPost
<1>3. ASSUME NEW a, NEW o, PostTurned(r, a, o), PostTyped', o => a # "unpublished",
             InboxTyped', InboxInv', excused \subseteq excused', mishaps' \in Nat,
             excused' \subseteq Searches \X Posts, edits' \in Nat,
             \A p \in Posts : alerts[p] > 0 => alerts'[p] > 0,
             \A s \in Searches : PairHolds(s, r)'
      PROVE  AlertsUpheld
  <2>1. UNCHANGED <<search, edit, serial>>
    BY <1>2 DEF searches
  <2>2. SearchTyped' /\ EditTyped' /\ RestTyped'
    BY <1>1, <1>3, <2>1 DEF SearchTyped, EditTyped, RestTyped
  <2>3. LimitInv'
    BY <1>1, <2>1 DEF LimitInv, SavedRows, Writing
  <2>4. CallsAreSound'
    BY <1>1, <1>3, <2>1 DEF CallsAreSound, SavedRows, PostTurned
  <2>5. PairsInv'
    <3> SUFFICES ASSUME NEW s \in Searches, NEW p \in Posts PROVE PairHolds(s, p)'
      BY PairsAreNext
    <3>1. CASE p = r
      BY <1>3, <3>1
    <3>2. CASE p # r
      BY <1>1, <1>3, <2>1, <3>2, PairsAre, PairKeptHolds DEF PairKept, PostTurned, Same
    <3> QED BY <3>1, <3>2
  <2> QED BY <1>3, <2>2, <2>3, <2>4, <2>5 DEF AlertsUpheld
<1>4. ASSUME UNCHANGED inbox
      PROVE  InboxTyped' /\ InboxInv' /\ \A p \in Posts : alerts[p] > 0 => alerts'[p] > 0
  BY <1>1, <1>4 DEF inbox, InboxTyped, InboxInv
<1>5. /\ excused \subseteq Searches \X Posts /\ edits \in Nat /\ mishaps \in Nat
  BY <1>1 DEF RestTyped
<1>6. \A s \in Searches : PairHolds(s, r)
  BY <1>1, PairsAre
<1>7. CASE StorePost(r)
  <2>1. PostTyped' /\ PostTurned(r, "stored", TRUE)
    BY <1>1, <1>7, PostEffect
  <2>2. UNCHANGED <<inbox, excused, edits, mishaps>>
    BY <1>7 DEF StorePost
  <2>3. \A s \in Searches : PairHolds(s, r)'
    BY <2>1 DEF PostTurned, PairHolds, Pending
  <2> QED BY <1>3, <1>4, <1>5, <2>1, <2>2, <2>3
<1>8. CASE ReadSearches(r)
  <2>1. /\ PostTyped' /\ post[r].at = "stored"
    BY <1>1, <1>8, PostEffect
  <2>2. PICK a \in {"alert", "published"} :
           /\ PostTurned(r, a, post[r].open)
           /\ a = "published" => ~(post[r].open /\ \E s \in SavedRows : Matches(s, r))
    BY <1>1, <1>8, PostEffect
  <2>3. UNCHANGED <<search, inbox, excused, edits, mishaps>>
    BY <1>8 DEF ReadSearches, searches
  <2>4. \A s \in Searches : PairHolds(s, r)'
    <3> TAKE s \in Searches
    <3>1. CASE a = "alert"
      BY <2>2, <3>1 DEF PostTurned, PairHolds, Pending
    <3>2. CASE a = "published"
      BY <2>2, <2>3, <3>2 DEF PostTurned, PairHolds, Matches, SavedRows
    <3> QED BY <3>1, <3>2
  <2> QED BY <1>3, <1>4, <1>5, <2>1, <2>2, <2>3, <2>4
<1>9. CASE AlertOfPost(r)
  <2>1. TryAlert(r) /\ PostAt(r, "published") /\ edits' = edits
    BY <1>9 DEF AlertOfPost
  <2>2. PostTyped' /\ PostTurned(r, "published", post[r].open)
    BY <1>1, <2>1, PostEffect
  <2>3. /\ InboxTyped' /\ InboxInv'
        /\ excused' \subseteq Searches \X Posts /\ mishaps' \in Nat
        /\ excused \subseteq excused'
        /\ \A p \in Posts : alerts[p] > 0 => alerts'[p] > 0
        /\ alerts'[r] > 0 \/ \A s \in Searches : <<s, r>> \in excused'
    BY <1>1, <2>1, AlertEffect
  <2>4. \A s \in Searches : PairHolds(s, r)'
    BY <2>3 DEF PairHolds
  <2> QED BY <1>3, <1>5, <2>1, <2>2, <2>3, <2>4
<1>10. CASE PublishingDies(r)
  <2>1. /\ PostAt(r, "published") /\ UNCHANGED <<inbox, edits>> /\ mishaps' = mishaps + 1
        /\ excused' = excused \cup (Searches \X {r})
    BY <1>10 DEF PublishingDies
  <2>2. PostTyped' /\ PostTurned(r, "published", post[r].open)
    BY <1>1, <2>1, PostEffect
  <2>3. \A s \in Searches : PairHolds(s, r)'
    BY <2>1 DEF PairHolds
  <2>4. /\ excused \subseteq excused' /\ excused' \subseteq Searches \X Posts
        /\ mishaps' \in Nat /\ edits' \in Nat
    BY <1>5, <2>1
  <2> QED BY <1>3, <1>4, <2>1, <2>2, <2>3, <2>4
<1>11. CASE WithdrawPost(r)
  <2>1. PostTyped' /\ PostTurned(r, post[r].at, FALSE)
    BY <1>1, <1>11, PostEffect
  <2>2. UNCHANGED <<inbox, excused, mishaps>> /\ edits' = edits + 1
    BY <1>11 DEF WithdrawPost
  <2>3. \A s \in Searches : PairHolds(s, r)'
    BY <2>1 DEF PostTurned, PairHolds
  <2>4. /\ excused \subseteq excused' /\ excused' \subseteq Searches \X Posts
        /\ mishaps' \in Nat /\ edits' \in Nat
    BY <1>5, <2>2
  <2>5. InboxTyped' /\ InboxInv' /\ \A p \in Posts : alerts[p] > 0 => alerts'[p] > 0
    BY <1>4, <2>2
  <2> QED BY <1>3, <2>1, <2>3, <2>4, <2>5
<1> QED BY <1>7, <1>8, <1>9, <1>10, <1>11 DEF PostStep

\* The invariant holds before anything is published or saved.
LEMMA AlertsStart == ASSUME AlertsAssumption, AlertsInit PROVE AlertsInv
<1>1. NoPost \in PostRecord /\ NoPost.open = FALSE
  BY DEF NoPost, PostRecord
<1>2. /\ NoSearch \in SearchRecord /\ NoSearch.row = FALSE /\ NoSearch.at = "unused"
  BY DEF NoSearch, SearchRecord, SearchSteps, Filters
<1>3. NoEdit \in EditRecord /\ NoEdit.at = "idle"
  BY DEF NoEdit, EditRecord, Filters
<1>4. PostTyped /\ SearchTyped /\ EditTyped /\ InboxTyped /\ RestTyped
  BY <1>1, <1>2, <1>3
     DEF AlertsInit, PostTyped, SearchTyped, EditTyped, InboxTyped, RestTyped
<1>5. SavedRows = {} /\ OfferedPosts = {} /\ \A s \in Searches : ~Writing(s)
  BY <1>1, <1>2 DEF AlertsInit, SavedRows, OfferedPosts, Writing
<1>6. CallsAreSound
  BY <1>1, <1>3, <1>5 DEF AlertsInit, CallsAreSound
<1>7. InboxInv /\ PairsInv
  BY <1>5 DEF AlertsInit, InboxInv, PairsInv
<1>8. LimitInv
  BY <1>5, FS_EmptySet DEF LimitInv, AlertsAssumption
<1> QED BY <1>4, <1>6, <1>7, <1>8, TypeParts DEF AlertsInv

\* The inductive invariant of the alerts and of the limit on saved searches.
THEOREM AlertsInvariance == AlertsSpec => []AlertsInv
<1>1. AlertsInit => AlertsInv
  BY AlertsAssumption, AlertsStart
<1>2. AlertsInv /\ [AlertsNext]_alertVars => AlertsInv'
  <2> SUFFICES ASSUME AlertsInv, [AlertsNext]_alertVars PROVE AlertsInv'
    OBVIOUS
  <2>1. AlertsAssumption
    BY AlertsAssumption
  <2>2. AlertsUpheld
    <3>1. ASSUME NEW r \in Posts, PostStep(r) PROVE AlertsUpheld
      BY <2>1, <3>1, PostUpholds
    <3>2. ASSUME NEW s \in Searches, SearchStep(s) PROVE AlertsUpheld
      <4>1. ASSUME NEW f \in Filters, NEW d \in BOOLEAN, CheckSearch(s, f, d) PROVE AlertsUpheld
        BY <2>1, <4>1, CheckUpholds
      <4>2. ASSUME NEW f \in Filters, NEW d \in BOOLEAN, BeginUpdate(s, f, d) PROVE AlertsUpheld
        BY <2>1, <4>2, QuietUpholds
      <4>3. CASE ClearDefaults(s) \/ RemoveSearch(s)
        BY <2>1, <4>3, ClearUpholds
      <4>4. CASE InsertSearch(s)
        BY <2>1, <4>4, InsertUpholds
      <4>5. CASE ScanPosts(s) \/ ScanEnds(s)
        BY <2>1, <4>5, ScanUpholds
      <4>6. CASE AlertOfScan(s)
        BY <2>1, <4>6, AlertOfScanUpholds
      <4>7. CASE SavingDies(s)
        BY <2>1, <4>7, DiesUpholds
      <4>8. CASE SetDefault(s)
        BY <2>1, <4>8, QuietUpholds
      <4> QED BY <3>2, <4>1, <4>2, <4>3, <4>4, <4>5, <4>6, <4>7, <4>8 DEF SearchStep
    <3>3. CASE UpdateClears \/ SetPreference \/ UNCHANGED alertVars
      BY <2>1, <3>3, QuietUpholds
    <3>4. CASE UpdateWrites
      BY <2>1, <3>4, UpdateUpholds
    <3>5. CASE ClearInbox
      BY <2>1, <3>5, ClearInboxUpholds
    <3> QED BY <3>1, <3>2, <3>3, <3>4, <3>5 DEF AlertsNext
  <2> QED BY <2>2, TypePartsNext DEF AlertsUpheld, AlertsInv
<1> QED BY <1>1, <1>2, PTL DEF AlertsSpec

\* A request that is published and a search that is saved do not pass each other:
\* each call stores its row before it reads the other's
\* (processMatchingRequestAlerts, processMatchingAlertsForSavedSearch).
THEOREM NoneIsMissed == AlertsSpec => []NoMatchMissed
<1>1. AlertsInv => NoMatchMissed
  BY DEF AlertsInv, PairsInv, NoMatchMissed, Settled, Pending, SavedRows, OfferedPosts
<1> QED BY <1>1, AlertsInvariance, PTL

\* However the two kinds of call overlap, the seller hears of a request once for each
\* time the inbox is cleared (the unique index behind notifyMatchingRequest).
THEOREM HeardOnce == AlertsSpec => []AlertedOnce
<1>1. AlertsInv => AlertedOnce
  <2> SUFFICES ASSUME AlertsInv, NEW r \in Posts PROVE alerts[r] <= 1 + clears
    BY DEF AlertedOnce
  <2>1. alerts[r] \in Nat /\ clears \in Nat
    BY Known DEF InboxTyped
  <2>2. alerts[r] <= clears + IF r \in rows THEN 1 ELSE 0
    BY Known DEF InboxInv
  <2> QED BY <2>1, <2>2
<1> QED BY <1>1, AlertsInvariance, PTL

\* Calls on the searches that do not overlap keep to the limit of the free plan
\* (assertSavedSearchLimit, which counts before it inserts).
THEOREM LimitIsKept == AlertsSpec => []LimitHoldsSerially
<1>1. AlertsInv => LimitHoldsSerially
  BY DEF AlertsInv, LimitInv, LimitHoldsSerially
<1> QED BY <1>1, AlertsInvariance, PTL

----------------------------------------------------------------------------
(* Ratings.                                                                *)

\* What a call that may still insert, or has, can rely on.
AllowedInv ==
    \A c \in RatingCalls : rating[c].at \in {"insert", "stored"} =>
        /\ rating[c].type = "REVIEW" => deal.completed
        /\ rating[c].type = "NO_RESPONSE" => rating[c].from = "seller"

\* The unique index.
UniqueInv ==
    \A b, c \in RatingCalls :
        /\ rating[b].at = "stored" /\ rating[c].at = "stored"
        /\ rating[b].from = rating[c].from
        => b = c

RatingsInv == RatingsTypeOK /\ AllowedInv /\ UniqueInv

USE DEF RatingTypes, Parties

\* No step gives a variable a value of another type.
LEMMA RatingsTypeStep == RatingsTypeOK /\ [RatingsNext]_ratingVars => RatingsTypeOK'
<1> SUFFICES ASSUME RatingsTypeOK, [RatingsNext]_ratingVars PROVE RatingsTypeOK'
  OBVIOUS
<1> USE DEF RatingsTypeOK
<1>1. ASSUME NEW c \in RatingCalls, NEW from \in Parties, NEW type \in RatingTypes,
             CheckRating(c, from, type)
      PROVE  RatingsTypeOK'
  BY <1>1 DEF CheckRating
<1>2. ASSUME NEW c \in RatingCalls, ReadOffer(c) PROVE RatingsTypeOK'
  BY <1>2 DEF ReadOffer, RatingAt
<1>3. ASSUME NEW c \in RatingCalls, InsertRating(c) PROVE RatingsTypeOK'
  BY <1>3 DEF InsertRating, RatingAt
<1>4. CASE BuyerReplies \/ DealIsCompleted \/ NegotiationIsEnded
  BY <1>4 DEF BuyerReplies, DealIsCompleted, NegotiationIsEnded, DealSets
<1>5. CASE UNCHANGED ratingVars
  BY <1>5 DEF ratingVars
<1>6. QED
  BY <1>1, <1>2, <1>3, <1>4, <1>5 DEF RatingsNext

\* A step of a call changes its own record, in `at` and, when it begins, in what
\* it rates; the deal only gains.
LEMMA RatingsAllowedStep == RatingsInv /\ [RatingsNext]_ratingVars => AllowedInv'
<1> SUFFICES ASSUME RatingsInv, [RatingsNext]_ratingVars PROVE AllowedInv'
  OBVIOUS
<1> USE DEF RatingsInv, RatingsTypeOK, AllowedInv
<1>1. ASSUME NEW c \in RatingCalls, NEW from \in Parties, NEW type \in RatingTypes,
             CheckRating(c, from, type)
      PROVE  AllowedInv'
  BY <1>1 DEF CheckRating
<1>2. ASSUME NEW c \in RatingCalls, ReadOffer(c) PROVE AllowedInv'
  BY <1>2 DEF ReadOffer, RatingAt, MayRate
<1>3. ASSUME NEW c \in RatingCalls, InsertRating(c) PROVE AllowedInv'
  BY <1>3 DEF InsertRating, RatingAt
<1>4. CASE BuyerReplies \/ DealIsCompleted \/ NegotiationIsEnded
  BY <1>4 DEF BuyerReplies, DealIsCompleted, NegotiationIsEnded, DealSets
<1>5. CASE UNCHANGED ratingVars
  BY <1>5 DEF ratingVars
<1>6. QED
  BY <1>1, <1>2, <1>3, <1>4, <1>5 DEF RatingsNext

\* Only the insert adds a row, and the index lets it in when there is none.
LEMMA RatingsUniqueStep == RatingsInv /\ [RatingsNext]_ratingVars => UniqueInv'
<1> SUFFICES ASSUME RatingsInv, [RatingsNext]_ratingVars PROVE UniqueInv'
  OBVIOUS
<1> USE DEF RatingsInv, RatingsTypeOK, UniqueInv
<1>1. ASSUME NEW c \in RatingCalls, NEW from \in Parties, NEW type \in RatingTypes,
             CheckRating(c, from, type)
      PROVE  UniqueInv'
  BY <1>1 DEF CheckRating
<1>2. ASSUME NEW c \in RatingCalls, ReadOffer(c) PROVE UniqueInv'
  BY <1>2 DEF ReadOffer, RatingAt
<1>3. ASSUME NEW c \in RatingCalls, InsertRating(c) PROVE UniqueInv'
  BY <1>3 DEF InsertRating, RatingAt, Rated, RatingRows
<1>4. CASE BuyerReplies \/ DealIsCompleted \/ NegotiationIsEnded
  BY <1>4 DEF BuyerReplies, DealIsCompleted, NegotiationIsEnded, DealSets
<1>5. CASE UNCHANGED ratingVars
  BY <1>5 DEF ratingVars
<1>6. QED
  BY <1>1, <1>2, <1>3, <1>4, <1>5 DEF RatingsNext

\* The inductive invariant of RatingsService.create.
THEOREM RatingsInvariance == RatingsSpec => []RatingsInv
<1>1. RatingsInit => RatingsInv
  BY DEF RatingsInit, RatingsInv, RatingsTypeOK, AllowedInv, UniqueInv, NoRating
<1>2. RatingsInv /\ [RatingsNext]_ratingVars => RatingsInv'
  BY RatingsTypeStep, RatingsAllowedStep, RatingsUniqueStep DEF RatingsInv
<1>3. QED
  BY <1>1, <1>2, PTL DEF RatingsSpec

\* However many calls overlap with the chat and the end of the negotiation, a party
\* rates an offer once, and on the strength of what happened (RatingsService.create).
THEOREM RatingsHold == RatingsSpec => []RatingsStand
<1>1. RatingsInv => RatingsStand
  BY DEF RatingsInv, AllowedInv, UniqueInv, RatingsStand, RatingRows
<1>2. QED
  BY <1>1, RatingsInvariance, PTL

=============================================================================
