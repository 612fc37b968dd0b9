---------------------------- MODULE ChatSending ----------------------------
(***************************************************************************)
(* One participant of a chat sends: the composer of ChatThread.tsx, which  *)
(* emits over the socket, gives up after SEND_ACK_TIMEOUT_MS and falls     *)
(* back to REST, against ChatsService.send, which stores a message under   *)
(* the client's message id.  Calls outlive the client's patience, answers  *)
(* come late, the connection drops, and a step of a call may fail.         *)
(***************************************************************************)
EXTENDS Integers, FiniteSets

CONSTANTS Texts,        \* the texts the user composes, each of them once
          MaxCalls,     \* calls to send; also the client message ids
          MaxFailures,  \* steps of a call that fail
          MaxDrops      \* requests or answers the network loses

NoText == "none"

ASSUME SendingAssumption ==
    /\ NoText \notin Texts
    /\ MaxCalls \in Nat \ {0}
    /\ MaxFailures \in Nat
    /\ MaxDrops \in Nat

VARIABLES
    messages,       \* rows of Message: [key, text, at]
    lastMessageAt,  \* Chat.lastMessageAt
    clock,          \* the last createdAt that was stamped
    ended,          \* Offer.negotiationEndedAt is set
    call,           \* the calls to send, server side and answer
    box,            \* the composer's input
    lastAttempt,    \* lastAttemptRef
    waiting,        \* the call handleSend waits for, 0 when not sending
    connected,      \* the socket is connected
    shown,          \* keys of the messages the thread displays
    submitted,      \* the text the user last pressed send on and still counts on
    wiped,          \* a late answer reset a lastAttempt that was still held
    failures, drops

chatServer == <<messages, lastMessageAt, clock, ended>>
composer == <<box, lastAttempt, waiting, shown, submitted, wiped>>
chatVars == <<chatServer, call, composer, connected, failures, drops>>

CallIds == 1 .. MaxCalls
NoAttempt == [text |-> NoText, id |-> 0]
NoCall == [at |-> "unused", key |-> 0, text |-> NoText, via |-> "socket", stamp |-> 0]

IsStored(k) == \E msg \in messages : msg.key = k
ShownText(t) == \E msg \in messages : msg.key \in shown /\ msg.text = t
Unused == {c \in CallIds : call[c].at = "unused"}
FirstUnused == CHOOSE c \in Unused : \A d \in Unused : c <= d

ChatInit ==
    /\ messages = {}
    /\ lastMessageAt = 0
    /\ clock = 0
    /\ ended = FALSE
    /\ call = [c \in CallIds |-> NoCall]
    /\ box = NoText
    /\ lastAttempt = NoAttempt
    /\ waiting = 0
    /\ connected \in BOOLEAN
    /\ shown = {}
    /\ submitted = NoText
    /\ wiped = FALSE
    /\ failures = 0
    /\ drops = 0

----------------------------------------------------------------------------
(* The composer.                                                           *)

Composed == {t \in Texts : \E c \in CallIds : call[c].text = t}

\* The input stays enabled while a send is in flight.  A text that was sent
\* before only comes back to the box through failSend.
Type(t) ==
    /\ t \notin Composed
    /\ box # t
    /\ box' = t
    /\ submitted' = IF waiting = 0 THEN NoText ELSE submitted
    /\ UNCHANGED <<chatServer, call, lastAttempt, waiting, connected, shown, wiped,
                   failures, drops>>

\* A mutant: every attempt gets an id of its own.
ClientMessageIdFor_Fresh(t, c) == c

\* clientMessageIdFor: the id of the last attempt while the text is the same.
ClientMessageIdFor(t, c) == IF lastAttempt.text = t THEN lastAttempt.id ELSE c

SendRequest(c, t, k, v) ==
    call' = [call EXCEPT ![c] = [at |-> "sent", key |-> k, text |-> t, via |-> v,
                                 stamp |-> 0]]

\* handleSend: any text that is in the input, when nothing is in flight.
Submit ==
    /\ waiting = 0 /\ box # NoText
    /\ Cardinality(Unused) > IF connected /\ drops < MaxDrops THEN 1 ELSE 0    \* bound
    /\ LET c == FirstUnused
           k == ClientMessageIdFor(box, c)
       IN  /\ SendRequest(c, box, k, IF connected THEN "socket" ELSE "rest")
           /\ lastAttempt' = [text |-> box, id |-> k]
           /\ waiting' = c
    /\ submitted' = box
    /\ box' = NoText
    /\ UNCHANGED <<chatServer, connected, shown, wiped, failures, drops>>

\* A mutant: the input stays as it is.
FailSend_Loses(c) ==
    /\ waiting' = 0
    /\ UNCHANGED box

FailSend(c) ==
    /\ box' = call[c].text
    /\ waiting' = 0

\* A mutant: the timer of a client that lost its connection waits for it.
AckTimesOut_WhenConnected(c) ==
    /\ waiting = c /\ call[c].via # "rest" /\ connected
    /\ FailSend(c)
    /\ UNCHANGED <<chatServer, call, lastAttempt, connected, shown, submitted, wiped,
                   failures, drops>>

\* The acknowledgement timer: a connected client gives up, another one asks
\* again over REST under the same id.
AckTimesOut(c) ==
    /\ waiting = c /\ call[c].via # "rest"
    /\ \/ /\ connected
          /\ FailSend(c)
          /\ UNCHANGED call
       \/ /\ ~connected
          /\ Unused # {}
          /\ SendRequest(FirstUnused, call[c].text, call[c].key, "rest")
          /\ waiting' = FirstUnused
          /\ UNCHANGED box
    /\ UNCHANGED <<chatServer, lastAttempt, connected, shown, submitted, wiped, failures,
                   drops>>

\* The stored message is the answer: of the call the composer waits for, or a
\* late one of a call it gave up.  Both forget the last attempt, the late one
\* also when the input holds its text for a retry.
Accept(c) ==
    /\ shown' = shown \cup {call[c].key}
    /\ lastAttempt' = NoAttempt
    /\ wiped' = (wiped \/ (waiting # c /\ lastAttempt # NoAttempt))
    /\ waiting' = IF waiting = c THEN 0 ELSE waiting
    /\ UNCHANGED <<box, submitted>>

AnswerArrives(c) ==
    /\ call[c].at = "answered"
    /\ \/ call[c].via = "socket"
       \/ call[c].via = "rest" /\ waiting = c
    /\ Accept(c)
    /\ call' = [call EXCEPT ![c].at = "over"]
    /\ UNCHANGED <<chatServer, connected, failures, drops>>

\* A REST call is answered with an error and the text is back in the input.
\* Over the socket an exception of the handler answers nothing.
RefusalArrives(c) ==
    /\ call[c].at = "refused" /\ call[c].via = "rest" /\ waiting = c
    /\ FailSend(c)
    /\ call' = [call EXCEPT ![c].at = "over"]
    /\ UNCHANGED <<chatServer, lastAttempt, connected, shown, submitted, wiped, failures,
                   drops>>

----------------------------------------------------------------------------
(* The network.                                                            *)

\* The REST connection breaks: the client gets an error, the server goes on.
RestBreaks(c) ==
    /\ waiting = c /\ call[c].via = "rest" /\ drops < MaxDrops
    /\ FailSend(c)
    /\ drops' = drops + 1
    /\ UNCHANGED <<chatServer, call, lastAttempt, connected, shown, submitted, wiped,
                   failures>>

RequestLost(c) ==
    /\ call[c].at = "sent" /\ call[c].via = "gone"
    /\ call' = [call EXCEPT ![c].at = "over"]
    /\ UNCHANGED <<chatServer, composer, connected, failures, drops>>

\* The acknowledgements of the calls of a lost connection never arrive: the
\* server's answers go to the socket that is gone.
Disconnect ==
    /\ connected /\ drops < MaxDrops
    /\ connected' = FALSE
    /\ call' = [c \in CallIds |->
                  IF call[c].via = "socket" /\ call[c].at # "unused"
                  THEN [call[c] EXCEPT !.via = "gone"] ELSE call[c]]
    /\ drops' = drops + 1
    /\ UNCHANGED <<chatServer, composer, failures>>

Connect ==
    /\ ~connected
    /\ connected' = TRUE
    /\ UNCHANGED <<chatServer, call, composer, failures, drops>>

----------------------------------------------------------------------------
(* ChatsService.send.                                                      *)

CallAt(c, step) == call' = [call EXCEPT ![c].at = step]

\* Another participant ends the negotiation.
NegotiationEnds ==
    /\ ~ended
    /\ ended' = TRUE
    /\ UNCHANGED <<messages, lastMessageAt, clock, call, composer, connected, failures,
                   drops>>

\* The reads before the transaction.
CheckExisting(c) ==
    /\ call[c].at = "sent"
    /\ CallAt(c, IF ended THEN "refused"
             ELSE IF IsStored(call[c].key) THEN "answered" ELSE "checked")
    /\ UNCHANGED <<chatServer, composer, connected, failures, drops>>

\* The transaction starts: the row's createdAt is taken before it commits.
StampMessage(c) ==
    /\ call[c].at = "checked"
    /\ clock' = clock + 1
    /\ call' = [call EXCEPT ![c].at = "stamped", ![c].stamp = clock + 1]
    /\ UNCHANGED <<messages, lastMessageAt, ended, composer, connected, failures, drops>>

\* It commits the row and Chat.lastMessageAt, or hits the unique index: then
\* the row of the first call is the answer.
CommitMessage(c) ==
    /\ call[c].at = "stamped"
    /\ IF IsStored(call[c].key)
       THEN /\ CallAt(c, "answered")
            /\ UNCHANGED <<messages, lastMessageAt>>
       ELSE /\ messages' = messages \cup
                    {[key |-> call[c].key, text |-> call[c].text, at |-> call[c].stamp]}
            /\ lastMessageAt' = call[c].stamp
            /\ CallAt(c, "stored")
    /\ UNCHANGED <<clock, ended, composer, connected, failures, drops>>

\* markChatRead, the notification, the unread counters, the request's activity,
\* and last the room, where a connected sender hears of its own message.
EmitMessage(c) ==
    /\ call[c].at = "stored"
    /\ CallAt(c, "answered")
    /\ shown' = IF connected THEN shown \cup {call[c].key} ELSE shown
    /\ UNCHANGED <<chatServer, box, lastAttempt, waiting, connected, submitted, wiped,
                   failures, drops>>

\* A query fails: before the commit nothing is stored, after it the row stays
\* and nobody in the room is told.
StepFails(c) ==
    /\ call[c].at \in {"sent", "checked", "stamped", "stored"}
    /\ failures < MaxFailures
    /\ CallAt(c, "refused")
    /\ failures' = failures + 1
    /\ UNCHANGED <<chatServer, composer, connected, drops>>

----------------------------------------------------------------------------
ServerStep(c) ==
    \/ CheckExisting(c)
    \/ StampMessage(c)
    \/ CommitMessage(c)
    \/ EmitMessage(c)
    \/ StepFails(c)

ClientStep(c) ==
    \/ AckTimesOut(c)
    \/ AnswerArrives(c)
    \/ RefusalArrives(c)

ChatNext ==
    \/ \E t \in Texts : Type(t)
    \/ Submit
    \/ \E c \in CallIds : ServerStep(c) \/ ClientStep(c) \/ RestBreaks(c) \/ RequestLost(c)
    \/ Disconnect
    \/ Connect
    \/ NegotiationEnds

ChatSpec == ChatInit /\ [][ChatNext]_chatVars

\* The server keeps running and the client's timers fire: no fairness is asked
\* of the user or of the connection.
ChatFairSpec ==
    /\ ChatSpec
    /\ \A c \in CallIds : WF_chatVars(ServerStep(c)) /\ WF_chatVars(ClientStep(c))

----------------------------------------------------------------------------
MessageRows == [key : CallIds, text : Texts, at : Nat]

ChatTypeOK ==
    /\ messages \subseteq MessageRows
    /\ lastMessageAt \in Nat
    /\ clock \in Nat
    /\ ended \in BOOLEAN
    /\ call \in [CallIds ->
         [at : {"unused", "sent", "checked", "stamped", "stored", "answered", "refused", "over"},
          key : 0 .. MaxCalls, text : Texts \cup {NoText},
          via : {"socket", "gone", "rest"}, stamp : Nat]]
    /\ box \in Texts \cup {NoText}
    /\ lastAttempt \in [text : Texts \cup {NoText}, id : 0 .. MaxCalls]
    /\ waiting \in 0 .. MaxCalls
    /\ connected \in BOOLEAN
    /\ shown \subseteq CallIds
    /\ submitted \in Texts \cup {NoText}
    /\ wiped \in BOOLEAN
    /\ failures \in 0 .. MaxFailures
    /\ drops \in 0 .. MaxDrops

\* A text is stored once however often it was tried again: after a timeout, over
\* REST, after an error that came when the row was already there.  The hole is
\* the answer that comes after its timeout (ChatThread.tsx:254-258): it resets
\* lastAttemptRef whatever that holds, the id of a newer message or its own,
\* with its text back in the input, and the next press sends a new id.
TextStoredOnce ==
    ~wiped => \A p, q \in messages : p.text = q.text => p = q

\* The text the user pressed send on is never lost: it is on its way, displayed,
\* or back in the input.
NothingVanishes ==
    submitted # NoText => \/ waiting # 0
                          \/ box = submitted
                          \/ ShownText(submitted)

----------------------------------------------------------------------------
(* The inductive invariant behind the two: what a client message id stands  *)
(* for.                                                                     *)

UsedCalls == {c \in CallIds : call[c].at # "unused"}

\* Every call carries the id of a call with its text, which carries that id too.
KeyOf(c) == call[c].key

CallsInv ==
    \A c \in CallIds :
        IF c \in UsedCalls
        THEN /\ call[c].text \in Texts
             /\ KeyOf(c) \in UsedCalls
             /\ KeyOf(KeyOf(c)) = KeyOf(c)
             /\ call[KeyOf(c)].text = call[c].text
        ELSE call[c] = NoCall

\* A message has the text of its id, and is the only one with it.  A call that
\* is answered, or that only has to tell, has its message.
MessagesInv ==
    /\ \A msg \in messages :
          /\ msg.key \in UsedCalls /\ KeyOf(msg.key) = msg.key
          /\ call[msg.key].text = msg.text
    /\ \A p, q \in messages : p.key = q.key => p = q
    /\ \A c \in CallIds : call[c].at \in {"stored", "answered"} => IsStored(KeyOf(c))

\* lastAttemptRef and the send in flight.
AttemptInv ==
    /\ \/ lastAttempt = NoAttempt
       \/ /\ lastAttempt.id \in UsedCalls
          /\ KeyOf(lastAttempt.id) = lastAttempt.id
          /\ call[lastAttempt.id].text = lastAttempt.text
    /\ waiting # 0 => /\ waiting \in UsedCalls
                      /\ submitted = call[waiting].text

\* The text that may be sent again: of the send in flight, or in the input.
PendingText == IF waiting # 0 THEN call[waiting].text ELSE box

\* One id for one text, as long as the pending text is the last attempt's.
OneKeyInv ==
    /\ waiting # 0 => box \notin Composed
    /\ ~wiped =>
        /\ \A c, d \in UsedCalls : call[c].text = call[d].text => KeyOf(c) = KeyOf(d)
        /\ PendingText \in Composed => lastAttempt.text = PendingText

ChatInv ==
    /\ ChatTypeOK
    /\ CallsInv
    /\ MessagesInv
    /\ AttemptInv
    /\ NothingVanishes
    /\ OneKeyInv

----------------------------------------------------------------------------
\* Every send ends: with the message or with the text back, whatever the
\* connection and the server do.
SendSettles == waiting # 0 ~> waiting = 0

=============================================================================
