--------------------------- MODULE CheckoutProofs ---------------------------
(***************************************************************************)
(* The safety properties of the purchase, for any number of calls and any  *)
(* values of the constants.                                                *)
(*                                                                         *)
(* The inductive invariant is IInv of Checkout. The tables are sequences;  *)
(* the lemmas first say what each statement and each request to Stripe     *)
(* does to them row by row, then what any step does to a table as a whole  *)
(* (SessionFrame, AttemptFrame, ClockFrame), and the parts of the          *)
(* invariant follow from that.                                             *)
(***************************************************************************)
EXTENDS Checkout, SequenceTheorems, TLAPS

\* What the assumption on the constants says of each.
LEMMA Bounds ==
    /\ Ttl \in Nat /\ StripeTtl \in Nat /\ MaxTime \in Nat /\ MaxFailures \in Nat
    /\ MaxPayments \in Nat /\ 0 < Ttl /\ Ttl < StripeTtl
  BY TtlAssumption

\* A sequence with an element more: a row inserted, a session opened.
LEMMA Appended ==
    ASSUME NEW S, NEW q \in Seq(S), NEW e \in S
    PROVE  /\ Append(q, e) \in Seq(S)
           /\ Len(Append(q, e)) = Len(q) + 1
           /\ DOMAIN Append(q, e) = DOMAIN q \cup {Len(q) + 1}
           /\ \A i \in DOMAIN q : Append(q, e)[i] = q[i]
           /\ Append(q, e)[Len(q) + 1] = e
           /\ Len(q) \in Nat
           /\ Len(q) + 1 \notin DOMAIN q
  BY AppendProperties

\* A sequence with an element written.
LEMMA Excepted ==
    ASSUME NEW S, NEW q \in Seq(S), NEW i \in DOMAIN q, NEW e \in S
    PROVE  /\ [q EXCEPT ![i] = e] \in Seq(S)
           /\ DOMAIN [q EXCEPT ![i] = e] = DOMAIN q
  BY ExceptSeq

\* A sequence whose elements are all rewritten, as an UPDATE over many rows does.
LEMMA Mapped ==
    ASSUME NEW S, NEW q \in Seq(S), NEW f, f = [i \in DOMAIN q |-> f[i]],
           \A i \in DOMAIN q : f[i] \in S
    PROVE  f \in Seq(S) /\ DOMAIN f = DOMAIN q
  BY IsASeq, LenProperties

\* A call that returned is a call.
LEMMA IdleTyped == Idle \in CallRecord
  BY DEF Idle, CallRecord, Stages, None

\* With no session, no attempt and no call the invariant holds.
LEMMA InitInv == Init => IInv
<1> SUFFICES ASSUME Init
             PROVE  IInv
  OBVIOUS
<1>1. /\ DOMAIN customers = {} /\ DOMAIN sessions = {} /\ DOMAIN attempts = {}
      /\ DOMAIN webhook = {} /\ \A c \in Calls : call[c].at = "idle"
  BY DEF Init, Idle
<1>2. TypeOK
  <2>1. <<>> \in Seq(Customer) /\ <<>> \in Seq(Session) /\ <<>> \in Seq(Attempt)
        /\ <<>> \in Seq({"none", "sent", "marked", "resent", "done"})
    BY EmptySeq
  <2>2. call \in [Calls -> CallRecord]
    BY IdleTyped DEF Init
  <2>3. 0 \in 0..MaxTime /\ 0 \in 0..MaxFailures /\ 0 \in 0..MaxPayments /\ 0 \in Nat
    BY Bounds
  <2>4. now \in 0..MaxTime /\ failures \in 0..MaxFailures /\ payments \in 0..MaxPayments
        /\ customer \in Nat /\ plus \in BOOLEAN /\ handed \subseteq DOMAIN sessions
    BY <2>3 DEF Init, None
  <2>5. customers \in Seq(Customer) /\ sessions \in Seq(Session) /\ attempts \in Seq(Attempt)
        /\ webhook \in Seq({"none", "sent", "marked", "resent", "done"})
    BY <2>1, Zenon DEF Init
  <2> QED
    BY <2>2, <2>4, <2>5, Zenon DEF TypeOK
<1>3. CustomerInv
  BY <1>1 DEF Init, CustomerInv, PaymentHasOwner
<1>4. SessionInv /\ AttemptInv /\ OneOpen /\ CallInv
  BY <1>1 DEF SessionInv, AttemptInv, OneOpen, CallInv
<1>5. LiveIsOpen
  BY DEF Init, LiveIsOpen
<1> QED
  BY <1>2, <1>3, <1>4, <1>5 DEF IInv

-----------------------------------------------------------------------------

\* What a request for a session does, of an attempt the call holds.
NewSession(c) ==
    [key |-> call[c].row, customer |-> call[c].customer, expires |-> now + StripeTtl,
     state |-> "open"]

\* A request for a session answers with the live session of its key, or opens one
\* when the key has none (stripeCheckoutIdempotencyKey).
LEMMA SessionEffect ==
    ASSUME IInv, NEW c \in Calls, NEW id, SessionMade(c, id)
    PROVE  \/ /\ sessions' = sessions /\ webhook' = webhook
              /\ id \in DOMAIN sessions
              /\ sessions[id].key = call[c].row
           \/ /\ sessions' = Append(sessions, NewSession(c))
              /\ webhook' = Append(webhook, "none")
              /\ id = Len(sessions) + 1
              /\ \A s \in DOMAIN sessions :
                    sessions[s].key = call[c].row => ~(now < sessions[s].expires)
              /\ NewSession(c) \in Session
<1>1. NewSession(c) \in Session
  BY TtlAssumption DEF NewSession, Session, IInv, TypeOK, CallRecord
<1>2. sessions \in Seq(Session)
  BY DEF IInv, TypeOK
<1>3. Len(Append(sessions, NewSession(c))) = Len(sessions) + 1
  BY <1>1, <1>2, Appended
<1> QED
  BY <1>1, <1>3 DEF SessionMade, SessionsOf, CheckoutKey, NewSession

\* A request for a customer answers with one made with the same key that Stripe still
\* knows, or makes one (stripeCustomerIdempotencyKey).
LEMMA CustomerEffect ==
    ASSUME IInv, NEW c \in Calls, NEW id, CustomerMade(c, id)
    PROVE  /\ customers' \in Seq(Customer)
           /\ DOMAIN customers \subseteq DOMAIN customers'
           /\ id \in DOMAIN customers' /\ id \in Nat /\ id # None
           /\ sessions' = sessions
<1>1. customers \in Seq(Customer) /\ DOMAIN customers \subseteq Nat \ {0}
  BY LenProperties DEF IInv, TypeOK
<1>2. CASE CustomersOf(CustomerKey(c)) = {}
  <2> DEFINE new == [key |-> CustomerKey(c), expires |-> now + StripeTtl]
  <2>1. new \in Customer
    BY Bounds DEF Customer, CustomerKey, IInv, TypeOK
  <2>2. customers' = Append(customers, new) /\ id = Len(customers')
    BY <1>2 DEF CustomerMade
  <2> HIDE DEF new
  <2>3. /\ Append(customers, new) \in Seq(Customer)
        /\ Len(Append(customers, new)) = Len(customers) + 1
        /\ DOMAIN Append(customers, new) = DOMAIN customers \cup {Len(customers) + 1}
        /\ Len(customers) \in Nat
    BY <1>1, <2>1, Appended
  <2> QED
    BY <2>2, <2>3 DEF CustomerMade, None
<1>3. CASE CustomersOf(CustomerKey(c)) # {}
  BY <1>1, <1>3 DEF CustomerMade, CustomersOf, None
<1> QED
  BY <1>2, <1>3

\* Of a set of open attempts, the newest is the one there is.
LEMMA NewestIs ==
    ASSUME IInv, NEW c \in Calls
    PROVE  LET r == Newest(OpenAttempts(c)) IN
           r = None \/ r \in OpenAttempts(c)
<1>1. CASE OpenAttempts(c) = {}
  BY <1>1 DEF Newest
<1>2. CASE OpenAttempts(c) # {}
  <2>1. PICK o \in OpenAttempts(c) : TRUE
    BY <1>2
  <2>2. \A q \in OpenAttempts(c) : q = o
    BY DEF OpenAttempts, IInv, OneOpen
  <2>3. o \in Nat
    BY LenProperties DEF OpenAttempts, IInv, TypeOK
  <2>4. \A q \in OpenAttempts(c) : q <= o
    BY <2>2, <2>3
  <2> QED
    BY <2>1, <2>4 DEF Newest
<1> QED
  BY <1>1, <1>2

\* A call that returns keeps its type.
LEMMA Returned ==
    ASSUME call \in [Calls -> CallRecord], NEW c \in Calls, Return(c)
    PROVE  call' \in [Calls -> CallRecord]
  BY IdleTyped DEF Return

\* A call that moves on keeps its type.
LEMMA Gone ==
    ASSUME call \in [Calls -> CallRecord], NEW c \in Calls, NEW at \in Stages, Goto(c, at)
    PROVE  call' \in [Calls -> CallRecord]
  BY DEF Goto, CallRecord

\* A call that writes one of its variables and moves on keeps its type.
LEMMA CallTyped ==
    ASSUME call \in [Calls -> CallRecord], NEW c \in Calls, NEW at \in Stages, NEW n \in Nat
    PROVE  /\ [call EXCEPT ![c].customer = n, ![c].at = at] \in [Calls -> CallRecord]
           /\ [call EXCEPT ![c].asOf = n, ![c].at = at] \in [Calls -> CallRecord]
           /\ [call EXCEPT ![c].row = n, ![c].at = at] \in [Calls -> CallRecord]
           /\ [call EXCEPT ![c].session = n, ![c].at = at] \in [Calls -> CallRecord]
<1>3. [call EXCEPT ![c].customer = n, ![c].at = at] \in [Calls -> CallRecord]
  BY DEF CallRecord
<1>4. [call EXCEPT ![c].asOf = n, ![c].at = at] \in [Calls -> CallRecord]
  BY DEF CallRecord
<1>5. [call EXCEPT ![c].row = n, ![c].at = at] \in [Calls -> CallRecord]
  BY DEF CallRecord
<1>6. [call EXCEPT ![c].session = n, ![c].at = at] \in [Calls -> CallRecord]
  BY DEF CallRecord
<1> QED
  BY <1>3, <1>4, <1>5, <1>6

States == {"none", "sent", "marked", "resent", "done"}

\* The tables are sequences.
LEMMA Sequences ==
    ASSUME TypeOK
    PROVE  /\ customers \in Seq(Customer) /\ sessions \in Seq(Session) /\ attempts \in Seq(Attempt)
           /\ webhook \in Seq(States)
  BY DEF TypeOK, States

\* Rows have the type of their table, and their places are positive numbers.
LEMMA Elements ==
    ASSUME TypeOK
    PROVE  /\ DOMAIN customers \subseteq Nat \ {0} /\ DOMAIN sessions \subseteq Nat \ {0}
           /\ DOMAIN attempts \subseteq Nat \ {0}
           /\ Len(customers) \in Nat /\ Len(sessions) \in Nat /\ Len(attempts) \in Nat
           /\ \A s \in DOMAIN sessions : sessions[s] \in Session
           /\ \A r \in DOMAIN attempts : attempts[r] \in Attempt
           /\ now \in Nat /\ customer \in Nat /\ call \in [Calls -> CallRecord]
<1>1. /\ DOMAIN customers \subseteq Nat \ {0} /\ Len(customers) \in Nat
      /\ DOMAIN sessions \subseteq Nat \ {0} /\ Len(sessions) \in Nat
      /\ DOMAIN attempts \subseteq Nat \ {0} /\ Len(attempts) \in Nat
  BY Sequences, LenProperties
<1>2. \A s \in DOMAIN sessions : sessions[s] \in Session
  BY Sequences, ElementOfSeq, LenProperties
<1>3. \A r \in DOMAIN attempts : attempts[r] \in Attempt
  BY Sequences, ElementOfSeq, LenProperties
<1>4. now \in Nat /\ customer \in Nat /\ call \in [Calls -> CallRecord]
  BY Bounds DEF TypeOK
<1> QED
  BY <1>1, <1>2, <1>3, <1>4

\* The types of the fields of rows and calls.
LEMMA Fields ==
    ASSUME TypeOK
    PROVE  /\ \A c \in Calls : /\ call[c].at \in Stages /\ call[c].customer \in Nat
                               /\ call[c].asOf \in Nat /\ call[c].row \in Nat
                               /\ call[c].session \in Nat
           /\ \A s \in DOMAIN sessions : /\ sessions[s].key \in Nat
                                         /\ sessions[s].customer \in Nat
                                         /\ sessions[s].expires \in Nat
           /\ \A r \in DOMAIN attempts : /\ attempts[r].session \in Nat
                                         /\ attempts[r].expires \in Nat
<1>1. call \in [Calls -> CallRecord]
  BY Elements
<1>2. \A c \in Calls : /\ call[c].at \in Stages /\ call[c].customer \in Nat
                       /\ call[c].asOf \in Nat /\ call[c].row \in Nat
                       /\ call[c].session \in Nat
  BY <1>1 DEF CallRecord
<1>3. \A s \in DOMAIN sessions : /\ sessions[s].key \in Nat
                                 /\ sessions[s].customer \in Nat
                                 /\ sessions[s].expires \in Nat
  BY Elements DEF Session
<1>4. \A r \in DOMAIN attempts : /\ attempts[r].session \in Nat
                                 /\ attempts[r].expires \in Nat
  BY Elements DEF Attempt
<1> QED
  BY <1>2, <1>3, <1>4

\* A row of table BillingCheckoutSession whose status is written.
LEMMA Restated ==
    ASSUME NEW a \in Attempt, NEW x \in {"OPEN", "COMPLETE", "EXPIRED", "CANCELED"}
    PROVE  /\ [a EXCEPT !.status = x] \in Attempt
           /\ [a EXCEPT !.status = x].status = x
           /\ [a EXCEPT !.status = x].session = a.session
           /\ [a EXCEPT !.status = x].expires = a.expires
  BY DEF Attempt

\* A session whose state is written keeps the rest.
LEMMA Settled ==
    ASSUME NEW a \in Session, NEW x \in {"open", "complete", "expired"}
    PROVE  /\ [a EXCEPT !.state = x] \in Session
           /\ [a EXCEPT !.state = x].state = x
           /\ [a EXCEPT !.state = x].key = a.key
           /\ [a EXCEPT !.state = x].customer = a.customer
           /\ [a EXCEPT !.state = x].expires = a.expires
  BY DEF Session


-----------------------------------------------------------------------------
(* What the statements and the requests do to the tables, row by row.      *)

\* The insert of an attempt.
LEMMA AppendedAttempt ==
    ASSUME TypeOK, NEW a \in Attempt, attempts' = Append(attempts, a)
    PROVE  /\ attempts' \in Seq(Attempt)
           /\ DOMAIN attempts' = DOMAIN attempts \cup {Len(attempts) + 1}
           /\ \A r \in DOMAIN attempts : attempts'[r] = attempts[r]
           /\ attempts'[Len(attempts) + 1] = a
           /\ Len(attempts) + 1 \in Nat \ {0}
           /\ Len(attempts) + 1 \notin DOMAIN attempts
<1>1. attempts \in Seq(Attempt) /\ Len(attempts) \in Nat
  BY Sequences, Elements
<1> QED
  BY <1>1, Appended

\* The update of an attempt by its id.
LEMMA WrittenAttempt ==
    ASSUME TypeOK, NEW r \in DOMAIN attempts, NEW a \in Attempt,
           attempts' = [attempts EXCEPT ![r] = a]
    PROVE  /\ attempts' \in Seq(Attempt)
           /\ DOMAIN attempts' = DOMAIN attempts
           /\ attempts'[r] = a
           /\ \A q \in DOMAIN attempts : q # r => attempts'[q] = attempts[q]
<1>1. attempts \in Seq(Attempt)
  BY Sequences
<1>2. attempts' \in Seq(Attempt) /\ DOMAIN attempts' = DOMAIN attempts
  BY <1>1, Excepted
<1> QED
  BY <1>2

Rewritten(P, x) ==
    [r \in DOMAIN attempts |->
        IF r \in P THEN [attempts[r] EXCEPT !.status = x] ELSE attempts[r]]

\* The update of the status of many attempts.
LEMMA RestatedAttempts ==
    ASSUME TypeOK, NEW P, NEW x \in {"COMPLETE", "EXPIRED"}, attempts' = Rewritten(P, x)
    PROVE  /\ attempts' \in Seq(Attempt)
           /\ DOMAIN attempts' = DOMAIN attempts
           /\ \A r \in DOMAIN attempts :
                 /\ attempts'[r].session = attempts[r].session
                 /\ attempts'[r].expires = attempts[r].expires
                 /\ attempts'[r].status = IF r \in P THEN x ELSE attempts[r].status
<1>1. attempts \in Seq(Attempt) /\ \A r \in DOMAIN attempts : attempts[r] \in Attempt
  BY Sequences, Elements
<1>2. \A r \in DOMAIN attempts :
         attempts'[r] = IF r \in P THEN [attempts[r] EXCEPT !.status = x] ELSE attempts[r]
  BY DEF Rewritten
<1>3. ASSUME NEW r \in DOMAIN attempts
      PROVE  /\ attempts'[r] \in Attempt
             /\ attempts'[r].session = attempts[r].session
             /\ attempts'[r].expires = attempts[r].expires
             /\ attempts'[r].status = IF r \in P THEN x ELSE attempts[r].status
  <2>1. CASE r \in P
    <3>1. attempts'[r] = [attempts[r] EXCEPT !.status = x]
      BY <1>2, <2>1
    <3>2. attempts[r] \in Attempt /\ x \in {"OPEN", "COMPLETE", "EXPIRED", "CANCELED"}
      BY <1>1
    <3>3. /\ [attempts[r] EXCEPT !.status = x] \in Attempt
          /\ [attempts[r] EXCEPT !.status = x].status = x
          /\ [attempts[r] EXCEPT !.status = x].session = attempts[r].session
          /\ [attempts[r] EXCEPT !.status = x].expires = attempts[r].expires
      BY <3>2, Restated
    <3> QED
      BY <2>1, <3>1, <3>3
  <2>2. CASE r \notin P
    BY <1>1, <1>2, <2>2
  <2> QED
    BY <2>1, <2>2
<1>4. attempts' = [r \in DOMAIN attempts |-> attempts'[r]]
  BY DEF Rewritten
<1>5. attempts' \in Seq(Attempt) /\ DOMAIN attempts' = DOMAIN attempts
  BY <1>1, <1>3, <1>4, Mapped
<1> QED
  BY <1>3, <1>5

\* What a webhook writes.
LEMMA MarkEffect ==
    ASSUME TypeOK, NEW s, NEW x \in {"COMPLETE", "EXPIRED"}, MarkAttempt(s, x)
    PROVE  /\ attempts' \in Seq(Attempt)
           /\ DOMAIN attempts' = DOMAIN attempts
           /\ \A r \in DOMAIN attempts :
                 /\ attempts'[r].session = attempts[r].session
                 /\ attempts'[r].expires = attempts[r].expires
                 /\ attempts'[r].status = IF attempts[r].session = s THEN x
                                                                     ELSE attempts[r].status
<1> DEFINE P == {r \in DOMAIN attempts : attempts[r].session = s}
<1>1. attempts' = Rewritten(P, x)
  BY DEF MarkAttempt, Rewritten
<1>2. \A r \in DOMAIN attempts : r \in P <=> attempts[r].session = s
  OBVIOUS
<1> HIDE DEF P
<1> QED
  BY <1>1, <1>2, RestatedAttempts

\* What the update of expired rows writes.
LEMMA StaleEffect ==
    ASSUME TypeOK, NEW c, ExpireStale(c)
    PROVE  /\ attempts' \in Seq(Attempt)
           /\ DOMAIN attempts' = DOMAIN attempts
           /\ \A r \in DOMAIN attempts :
                 /\ attempts'[r].session = attempts[r].session
                 /\ attempts'[r].expires = attempts[r].expires
                 /\ attempts'[r].status =
                       IF attempts[r].status = "OPEN" /\ attempts[r].expires <= now
                       THEN "EXPIRED" ELSE attempts[r].status
<1> DEFINE P == {r \in DOMAIN attempts :
                    attempts[r].status = "OPEN" /\ attempts[r].expires <= now}
<1>1. attempts' = Rewritten(P, "EXPIRED")
  BY DEF ExpireStale, Rewritten
<1>2. \A r \in DOMAIN attempts :
         r \in P <=> attempts[r].status = "OPEN" /\ attempts[r].expires <= now
  OBVIOUS
<1> HIDE DEF P
<1> QED
  BY <1>1, <1>2, RestatedAttempts

\* The end of a session, paid or expired, and the event Stripe sends about it.
Ended(s, state) ==
    /\ sessions' \in Seq(Session)
    /\ DOMAIN sessions' = DOMAIN sessions
    /\ \A t \in DOMAIN sessions :
          /\ sessions'[t].key = sessions[t].key
          /\ sessions'[t].customer = sessions[t].customer
          /\ sessions'[t].expires = sessions[t].expires
          /\ sessions'[t].state = IF t = s THEN state ELSE sessions[t].state

\* A payment or an expiry ends one session and changes no other.
LEMMA EndEffect ==
    ASSUME TypeOK, NEW s \in DOMAIN sessions, NEW x \in {"complete", "expired"},
           sessions' = [sessions EXCEPT ![s].state = x]
    PROVE  Ended(s, x)
<1>1. sessions \in Seq(Session) /\ \A t \in DOMAIN sessions : sessions[t] \in Session
  BY Sequences, Elements
<1>2. sessions' = [sessions EXCEPT ![s] = [sessions[s] EXCEPT !.state = x]]
  OBVIOUS
<1>3. [sessions[s] EXCEPT !.state = x] \in Session
  BY <1>1, Settled
<1>4. sessions' \in Seq(Session) /\ DOMAIN sessions' = DOMAIN sessions
  BY <1>1, <1>2, <1>3, Excepted
<1>5. \A t \in DOMAIN sessions :
         sessions'[t] = IF t = s THEN [sessions[s] EXCEPT !.state = x] ELSE sessions[t]
  BY <1>2
<1> QED
  BY <1>1, <1>4, <1>5, Settled DEF Ended

\* An event moves on and the others stay.
LEMMA EventEffect ==
    ASSUME TypeOK, NEW s \in DOMAIN webhook, NEW x \in States,
           webhook' = [webhook EXCEPT ![s] = x]
    PROVE  /\ webhook' \in Seq(States)
           /\ DOMAIN webhook' = DOMAIN webhook
           /\ \A t \in DOMAIN webhook : webhook'[t] = IF t = s THEN x ELSE webhook[t]
<1>1. webhook \in Seq(States)
  BY Sequences
<1> QED
  BY <1>1, Excepted


-----------------------------------------------------------------------------
(* Types.                                                                  *)

\* TypeOK of the next state, part by part.
LEMMA TypeParts ==
    ASSUME now' \in 0..MaxTime, customers' \in Seq(Customer), sessions' \in Seq(Session),
           customer' \in Nat, attempts' \in Seq(Attempt), plus' \in BOOLEAN,
           handed' \subseteq DOMAIN sessions', webhook' \in Seq(States),
           call' \in [Calls -> CallRecord], failures' \in 0..MaxFailures,
           payments' \in 0..MaxPayments
    PROVE  TypeOK'
  BY Zenon DEF TypeOK, States

\* TypeOK, part by part.
LEMMA TypePartsNow ==
    ASSUME TypeOK
    PROVE  /\ now \in 0..MaxTime /\ customers \in Seq(Customer) /\ sessions \in Seq(Session)
           /\ customer \in Nat /\ attempts \in Seq(Attempt) /\ plus \in BOOLEAN
           /\ handed \subseteq DOMAIN sessions /\ webhook \in Seq(States)
           /\ call \in [Calls -> CallRecord] /\ failures \in 0..MaxFailures
           /\ payments \in 0..MaxPayments
  BY Zenon DEF TypeOK, States

\* An attempt found is answered with its session, or goes to Stripe.
LEMMA ReuseEffect ==
    ASSUME IInv, NEW c \in Calls, NEW r \in OpenAttempts(c), Reuse(c, r)
    PROVE  /\ call' \in [Calls -> CallRecord]
           /\ handed' \subseteq DOMAIN sessions
           /\ \A s \in handed' \ handed : s = attempts[r].session
           /\ handed \subseteq handed'
<1>1. TypeOK /\ AttemptInv
  BY DEF IInv
<1>2. call \in [Calls -> CallRecord] /\ r \in Nat /\ r \in DOMAIN attempts
      /\ handed \subseteq DOMAIN sessions
  BY <1>1, Elements, TypePartsNow DEF OpenAttempts
<1>3. CASE attempts[r].session # None
  <2>1. attempts[r].session \in DOMAIN sessions
    BY <1>1, <1>2, <1>3 DEF AttemptInv
  <2>2. handed' = handed \cup {attempts[r].session} /\ Return(c)
    BY <1>3 DEF Reuse, HandOut
  <2> QED
    BY <1>2, <2>1, <2>2, Returned
<1>4. CASE attempts[r].session = None
  <2>1. handed' = handed
        /\ call' = [call EXCEPT ![c].row = r, ![c].at = "createSession"]
    BY <1>4 DEF Reuse
  <2>2. call' \in [Calls -> CallRecord]
    BY <1>2, <2>1, CallTyped DEF Stages
  <2> QED
    BY <1>2, <2>1, <2>2
<1> QED
  BY <1>3, <1>4

\* A request for a session keeps the types of what Stripe holds.
LEMMA SessionTyped ==
    ASSUME IInv, NEW c \in Calls, NEW id, SessionMade(c, id)
    PROVE  /\ id \in Nat /\ sessions' \in Seq(Session) /\ webhook' \in Seq(States)
           /\ handed \subseteq DOMAIN sessions'
<1>1. /\ sessions \in Seq(Session) /\ webhook \in Seq(States)
      /\ DOMAIN sessions \subseteq Nat /\ Len(sessions) \in Nat
      /\ handed \subseteq DOMAIN sessions
  BY TypePartsNow, Elements DEF IInv
<1>2. CASE sessions' = sessions /\ webhook' = webhook /\ id \in DOMAIN sessions
  BY <1>1, <1>2
<1>3. CASE /\ sessions' = Append(sessions, NewSession(c)) /\ webhook' = Append(webhook, "none")
           /\ id = Len(sessions) + 1 /\ NewSession(c) \in Session
  <2>1. "none" \in States
    BY DEF States
  <2>2. webhook' \in Seq(States)
    BY <1>1, <1>3, <2>1, Appended
  <2>3. sessions' \in Seq(Session) /\ DOMAIN sessions \subseteq DOMAIN sessions'
    BY <1>1, <1>3, Appended
  <2> QED
    BY <1>1, <1>3, <2>2, <2>3
<1> QED
  BY <1>2, <1>3, SessionEffect

\* A definitive error closes an attempt that has no session, and nothing else.
LEMMA CancelEffect ==
    ASSUME IInv, NEW c \in Calls, CancelAttempt(c)
    PROVE  /\ attempts' \in Seq(Attempt)
           /\ DOMAIN attempts' = DOMAIN attempts
           /\ \A r \in DOMAIN attempts :
                 /\ attempts'[r].session = attempts[r].session
                 /\ attempts'[r].expires = attempts[r].expires
                 /\ attempts'[r].status \in {attempts[r].status, "CANCELED"}
                 /\ attempts[r].session # None => attempts'[r].status = attempts[r].status
<1> DEFINE r == call[c].row
<1>1. TypeOK /\ r \in DOMAIN attempts
  BY DEF CancelAttempt, IInv, CallInv
<1>2. attempts \in Seq(Attempt) /\ attempts[r] \in Attempt
  BY <1>1, Sequences, Elements
<1>3. CASE ~Cancelable(r)
  BY <1>2, <1>3 DEF CancelAttempt
<1>4. CASE Cancelable(r)
  <2> DEFINE a == [attempts[r] EXCEPT !.status = "CANCELED"]
  <2>1. attempts' = [attempts EXCEPT ![r] = a]
    BY <1>4 DEF CancelAttempt
  <2>2. /\ a \in Attempt /\ a.status = "CANCELED" /\ a.session = attempts[r].session
        /\ a.expires = attempts[r].expires
    BY <1>2, Restated
  <2>3. attempts[r].session = None
    BY <1>4 DEF Cancelable
  <2> HIDE DEF a, r
  <2> QED
    BY <1>1, <2>1, <2>2, <2>3, WrittenAttempt
<1> QED
  BY <1>3, <1>4

\* The write of the answer: the row is open with the session, which is handed out.
Attached(c) ==
    LET r == call[c].row s == call[c].session IN
    /\ IndexAllows(r)
    /\ DOMAIN attempts' = DOMAIN attempts
    /\ attempts'[r].status = "OPEN"
    /\ attempts'[r].session = s
    /\ attempts'[r].expires = sessions[s].expires
    /\ \A q \in DOMAIN attempts : q # r => attempts'[q] = attempts[q]
    /\ handed' = handed \cup {s}

\* The write of a session to its attempt takes place as a whole or is refused.
LEMMA AttachEffect ==
    ASSUME IInv, NEW c \in Calls, Attach(c)
    PROVE  /\ attempts' \in Seq(Attempt)
           /\ handed' \subseteq DOMAIN sessions
           /\ Return(c)
           /\ Attached(c) \/ (attempts' = attempts /\ handed' = handed)
<1> DEFINE r == call[c].row
           s == call[c].session
           a == [status |-> "OPEN", session |-> s, expires |-> sessions[s].expires]
<1>1. TypeOK /\ r \in DOMAIN attempts /\ s \in DOMAIN sessions
  BY DEF Attach, IInv, CallInv
<1>2. handed \subseteq DOMAIN sessions /\ attempts \in Seq(Attempt)
  BY <1>1, TypePartsNow
<1>3. CASE ~IndexAllows(r)
  BY <1>2, <1>3 DEF Attach
<1>4. CASE IndexAllows(r)
  <2>1. attempts' = [attempts EXCEPT ![r] = a] /\ handed' = handed \cup {s} /\ Return(c)
    BY <1>4 DEF Attach, HandOut
  <2>2. s \in Nat /\ sessions[s].expires \in Nat
    BY <1>1, Fields
  <2>3. a \in Attempt
    BY <2>2 DEF Attempt
  <2>4. /\ attempts' \in Seq(Attempt)
        /\ DOMAIN attempts' = DOMAIN attempts
        /\ attempts'[r] = a
        /\ \A q \in DOMAIN attempts : q # r => attempts'[q] = attempts[q]
    <3> HIDE DEF a, r
    <3> QED
      BY <1>1, <2>1, <2>3, WrittenAttempt
  <2>5. a.status = "OPEN" /\ a.session = s /\ a.expires = sessions[s].expires
    OBVIOUS
  <2>6. Attached(c)
    <3> HIDE DEF a
    <3> QED
      BY <1>4, <2>1, <2>4, <2>5 DEF Attached
  <2>7. handed' \subseteq DOMAIN sessions
    BY <1>1, <1>2, <2>1
  <2>8. Return(c)
    BY <2>1
  <2>9. attempts' \in Seq(Attempt)
    BY <2>4
  <2> HIDE DEF a, r, s
  <2> QED
    BY <2>6, <2>7, <2>8, <2>9
<1> QED
  BY <1>3, <1>4

\* Every step keeps the types.
LEMMA TypeStep == IInv /\ [Next]_vars => TypeOK'
<1> SUFFICES ASSUME IInv, [Next]_vars
             PROVE  TypeOK'
  OBVIOUS
<1> USE DEF bounds, stripe
<1>a. TypeOK
  BY DEF IInv
<1>b. /\ now \in 0..MaxTime /\ customers \in Seq(Customer) /\ sessions \in Seq(Session)
      /\ customer \in Nat /\ attempts \in Seq(Attempt) /\ plus \in BOOLEAN
      /\ handed \subseteq DOMAIN sessions /\ webhook \in Seq(States)
      /\ call \in [Calls -> CallRecord] /\ failures \in 0..MaxFailures
      /\ payments \in 0..MaxPayments
  BY <1>a, TypePartsNow
<1>c. /\ failures < MaxFailures => failures + 1 \in 0..MaxFailures
      /\ payments < MaxPayments => payments + 1 \in 0..MaxPayments
      /\ now < MaxTime => now + 1 \in 0..MaxTime
  BY <1>b, Bounds
<1>1. CASE Tick
  BY <1>b, <1>c, <1>1, TypeParts DEF Tick
<1>2. ASSUME NEW c \in Calls, Ask(c) \/ CreateSessionRefused(c)
      PROVE  TypeOK'
  <2>1. Goto(c, "customer") \/ Goto(c, "cancel")
    BY <1>2 DEF Ask, CreateSessionRefused
  <2>2. call' \in [Calls -> CallRecord]
    BY <1>b, <2>1, Gone DEF Stages
  <2>3. failures' \in 0..MaxFailures
    BY <1>b, <1>c, <1>2 DEF Ask, CreateSessionRefused
  <2> QED
    BY <1>b, <1>2, <2>2, <2>3, TypeParts DEF Ask, CreateSessionRefused
<1>3. ASSUME NEW c \in Calls, FindCustomer(c)
      PROVE  TypeOK'
  <2>1. PICK at \in Stages : call' = [call EXCEPT ![c].customer = customer, ![c].at = at]
    BY <1>3 DEF FindCustomer, Stages
  <2>2. call' \in [Calls -> CallRecord]
    BY <1>b, <2>1, CallTyped
  <2> QED
    BY <1>b, <1>3, <2>2, TypeParts DEF FindCustomer
<1>4. ASSUME NEW c \in Calls, InsertCustomer(c)
      PROVE  TypeOK'
  <2>1. customer' \in Nat
    BY <1>a, <1>b, <1>4, Fields DEF InsertCustomer
  <2>2. call' = [call EXCEPT ![c].customer = customer', ![c].at = "expire"]
    BY <1>4 DEF InsertCustomer
  <2>3. call' \in [Calls -> CallRecord]
    BY <1>b, <2>1, <2>2, CallTyped DEF Stages
  <2> QED
    BY <1>b, <1>4, <2>1, <2>3, TypeParts DEF InsertCustomer
<1>5. ASSUME NEW c \in Calls, CreateCustomer(c)
      PROVE  TypeOK'
  <2>1. PICK id : /\ CustomerMade(c, id)
                  /\ call' = [call EXCEPT ![c].customer = id, ![c].at = "insertCustomer"]
    BY <1>5 DEF CreateCustomer
  <2>2. id \in Nat /\ customers' \in Seq(Customer)
    BY <2>1, CustomerEffect
  <2>3. call' \in [Calls -> CallRecord]
    BY <1>b, <2>1, <2>2, CallTyped DEF Stages
  <2> QED
    BY <1>b, <1>5, <2>1, <2>2, <2>3, TypeParts DEF CreateCustomer, CustomerMade
<1>6. ASSUME NEW c \in Calls, ExpireStale(c)
      PROVE  TypeOK'
  <2>1. attempts' \in Seq(Attempt)
    BY <1>a, <1>6, StaleEffect
  <2>2. call' = [call EXCEPT ![c].asOf = now, ![c].at = "find"] /\ now \in Nat
    BY <1>a, <1>6, Elements DEF ExpireStale
  <2>3. call' \in [Calls -> CallRecord]
    BY <1>b, <2>2, CallTyped DEF Stages
  <2> QED
    BY <1>b, <1>6, <2>1, <2>3, TypeParts DEF ExpireStale
<1>7. ASSUME NEW c \in Calls, FindOpen(c) \/ Reread(c)
      PROVE  TypeOK'
  <2> DEFINE r == Newest(OpenAttempts(c))
  <2>1. r = None \/ r \in OpenAttempts(c)
    BY NewestIs
  <2>2. CASE r \in OpenAttempts(c) /\ Reuse(c, r)
    BY <1>b, <1>7, <2>2, ReuseEffect, TypeParts DEF FindOpen, Reread
  <2>3. CASE handed' = handed /\ (Return(c) \/ Goto(c, "claim"))
    <3>1. call' \in [Calls -> CallRecord]
      BY <1>b, <2>3, Returned, Gone DEF Stages
    <3> QED
      BY <1>b, <1>7, <2>3, <3>1, TypeParts DEF FindOpen, Reread
  <2> QED
    BY <1>7, <2>1, <2>2, <2>3 DEF FindOpen, Reread
<1>8. ASSUME NEW c \in Calls, Claim(c)
      PROVE  TypeOK'
  <2>1. CASE IndexAllows(Len(attempts) + 1)
    <3>1. call[c].asOf + Ttl \in Nat
      BY <1>a, Fields, Bounds
    <3>2. [status |-> "OPEN", session |-> None, expires |-> call[c].asOf + Ttl] \in Attempt
      BY <3>1 DEF Attempt, None
    <3>3. /\ attempts' = Append(attempts, [status |-> "OPEN", session |-> None,
                                           expires |-> call[c].asOf + Ttl])
          /\ call' = [call EXCEPT ![c].row = Len(attempts) + 1, ![c].at = "createSession"]
      BY <1>8, <2>1 DEF Claim
    <3>4. attempts' \in Seq(Attempt) /\ Len(attempts) + 1 \in Nat
      BY <1>a, <3>2, <3>3, AppendedAttempt
    <3>5. call' \in [Calls -> CallRecord]
      BY <1>b, <3>3, <3>4, CallTyped DEF Stages
    <3> QED
      BY <1>b, <1>8, <3>4, <3>5, TypeParts DEF Claim
  <2>2. CASE ~IndexAllows(Len(attempts) + 1)
    <3>1. attempts' = attempts /\ Goto(c, "reread")
      BY <1>8, <2>2 DEF Claim
    <3>2. call' \in [Calls -> CallRecord]
      BY <1>b, <3>1, Gone DEF Stages
    <3> QED
      BY <1>b, <1>8, <3>1, <3>2, TypeParts DEF Claim
  <2> QED
    BY <2>1, <2>2
<1>9. ASSUME NEW c \in Calls, CreateSession(c)
      PROVE  TypeOK'
  <2>1. PICK id : /\ SessionMade(c, id)
                  /\ call' = [call EXCEPT ![c].session = id, ![c].at = "attach"]
    BY <1>9 DEF CreateSession
  <2>2. /\ id \in Nat /\ sessions' \in Seq(Session) /\ webhook' \in Seq(States)
        /\ handed \subseteq DOMAIN sessions'
    BY <2>1, SessionTyped
  <2>3. call' \in [Calls -> CallRecord]
    BY <1>b, <2>1, <2>2, CallTyped DEF Stages
  <2> QED
    BY <1>b, <1>9, <2>1, <2>2, <2>3, TypeParts DEF CreateSession, SessionMade
<1>10. ASSUME NEW c \in Calls, CancelAttempt(c)
      PROVE  TypeOK'
  <2>1. attempts' \in Seq(Attempt)
    BY <1>10, CancelEffect
  <2>2. call' \in [Calls -> CallRecord]
    BY <1>b, <1>10, Returned DEF CancelAttempt
  <2> QED
    BY <1>b, <1>10, <2>1, <2>2, TypeParts DEF CancelAttempt
<1>11. ASSUME NEW c \in Calls, Attach(c)
      PROVE  TypeOK'
  <2>1. attempts' \in Seq(Attempt) /\ handed' \subseteq DOMAIN sessions
    BY <1>b, <1>11, AttachEffect
  <2>2. call' \in [Calls -> CallRecord]
    BY <1>b, <1>11, Returned DEF Attach, HandOut
  <2> QED
    BY <1>b, <1>11, <2>1, <2>2, TypeParts DEF Attach
<1>12. ASSUME NEW c \in Calls, LoseAnswer(c)
      PROVE  TypeOK'
  <2>1. Fails(c) /\ \/ \E id : CustomerMade(c, id)
                    \/ call[c].at = "createSession" /\ \E id : SessionMade(c, id)
    BY <1>12 DEF LoseAnswer
  <2>2. /\ sessions' \in Seq(Session) /\ webhook' \in Seq(States)
        /\ handed \subseteq DOMAIN sessions' /\ customers' \in Seq(Customer)
    <3>1. CASE \E id : CustomerMade(c, id)
      BY <1>b, <3>1, CustomerEffect DEF CustomerMade
    <3>2. CASE \E id : SessionMade(c, id)
      BY <1>b, <3>2, SessionTyped DEF SessionMade
    <3> QED
      BY <2>1, <3>1, <3>2
  <2>3. call' \in [Calls -> CallRecord] /\ failures' \in 0..MaxFailures
    BY <1>b, <1>c, <2>1, Returned DEF Fails
  <2> QED
    BY <1>b, <2>1, <2>2, <2>3, TypeParts DEF Fails
<1>13. ASSUME NEW c \in Calls, Die(c)
      PROVE  TypeOK'
  <2>1. call' \in [Calls -> CallRecord] /\ failures' \in 0..MaxFailures
    BY <1>b, <1>c, <1>13, Returned DEF Die, Fails
  <2> QED
    BY <1>b, <1>13, <2>1, TypeParts DEF Die, Fails
<1>14. ASSUME NEW s \in DOMAIN sessions, Pay(s) \/ StripeExpires(s)
      PROVE  TypeOK'
  <2>1. sessions' \in Seq(Session) /\ DOMAIN sessions' = DOMAIN sessions
    BY <1>a, <1>14, EndEffect DEF Pay, StripeExpires, Ended
  <2>2. webhook' \in Seq(States)
    BY <1>a, <1>14, EventEffect DEF Pay, StripeExpires, States, IInv, SessionInv
  <2>3. payments' \in 0..MaxPayments
    BY <1>b, <1>c, <1>14 DEF Pay, StripeExpires
  <2> QED
    BY <1>b, <1>14, <2>1, <2>2, <2>3, TypeParts DEF Pay, StripeExpires
<1>15. ASSUME NEW s \in DOMAIN sessions, WebhookExpired(s) \/ WebhookCompleted(s)
      PROVE  TypeOK'
  <2>1. attempts' \in Seq(Attempt)
    BY <1>a, <1>15, MarkEffect DEF WebhookExpired, WebhookCompleted
  <2>2. webhook' \in Seq(States)
    BY <1>a, <1>15, EventEffect
    DEF WebhookExpired, WebhookCompleted, States, IInv, SessionInv
  <2> QED
    BY <1>b, <1>15, <2>1, <2>2, TypeParts DEF WebhookExpired, WebhookCompleted
<1>16. ASSUME NEW s \in DOMAIN sessions, WebhookSyncs(s) \/ WebhookFails(s)
      PROVE  TypeOK'
  <2>1. webhook' \in Seq(States)
    BY <1>a, <1>16, EventEffect DEF WebhookSyncs, WebhookFails, States, IInv, SessionInv
  <2>2. plus' \in BOOLEAN
    BY <1>b, <1>16 DEF WebhookSyncs, WebhookFails
  <2>3. failures' \in 0..MaxFailures
    BY <1>b, <1>c, <1>16 DEF WebhookSyncs, WebhookFails
  <2> QED
    BY <1>b, <1>16, <2>1, <2>2, <2>3, TypeParts DEF WebhookSyncs, WebhookFails
<1>17. CASE UNCHANGED vars
  BY <1>b, <1>17, TypeParts DEF vars
<1> QED
  BY <1>1, <1>2, <1>3, <1>4, <1>5, <1>6, <1>7, <1>8, <1>9, <1>10, <1>11, <1>12, <1>13, <1>14,
     <1>15, <1>16, <1>17 DEF Next, CallStep, WebhookStep

-----------------------------------------------------------------------------
(* What any step does to the two tables.                                   *)

SameSessions ==
    /\ DOMAIN sessions' = DOMAIN sessions
    /\ \A s \in DOMAIN sessions : /\ sessions'[s].key = sessions[s].key
                                  /\ sessions'[s].customer = sessions[s].customer
                                  /\ sessions'[s].expires = sessions[s].expires

\* Stripe opens a session for the row of a call, when no live one has its key.
Opened(c) ==
    LET s == Len(sessions) + 1 IN
    /\ call[c].at = "createSession"
    /\ s \notin DOMAIN sessions
    /\ DOMAIN sessions' = DOMAIN sessions \cup {s}
    /\ \A t \in DOMAIN sessions : sessions'[t] = sessions[t]
    /\ sessions'[s] = NewSession(c)
    /\ DOMAIN webhook' = DOMAIN webhook \cup {s}
    /\ \A t \in DOMAIN webhook : webhook'[t] = webhook[t]
    /\ webhook'[s] = "none"
    /\ \A t \in DOMAIN sessions : sessions[t].key = call[c].row => ~(now < sessions[t].expires)
    /\ now' = now
    /\ attempts' = attempts
    /\ handed' = handed

SameAttempts ==
    /\ DOMAIN attempts' = DOMAIN attempts
    /\ \A r \in DOMAIN attempts : /\ attempts'[r].session = attempts[r].session
                                  /\ attempts'[r].expires = attempts[r].expires
                                  /\ attempts'[r].status = "OPEN" => attempts[r].status = "OPEN"

Claimed(c) ==
    LET r == Len(attempts) + 1 IN
    /\ call[c].at = "claim"
    /\ IndexAllows(r)
    /\ r \notin DOMAIN attempts
    /\ DOMAIN attempts' = DOMAIN attempts \cup {r}
    /\ \A q \in DOMAIN attempts : attempts'[q] = attempts[q]
    /\ attempts'[r].session = None
    /\ attempts'[r].expires = call[c].asOf + Ttl
    /\ now' = now
    /\ sessions' = sessions
    /\ handed' = handed
    /\ webhook' = webhook

\* A request for a session changes nothing, or opens one.
LEMMA OpenedEffect ==
    ASSUME IInv, NEW c \in Calls, NEW id, call[c].at = "createSession", SessionMade(c, id),
           now' = now, attempts' = attempts, handed' = handed
    PROVE  (sessions' = sessions /\ webhook' = webhook) \/ Opened(c)
<1>1. sessions \in Seq(Session) /\ webhook \in Seq(States)
  BY TypePartsNow DEF IInv
<1>2. Len(webhook) = Len(sessions)
  BY <1>1, LenProperties DEF IInv, SessionInv
<1>3. CASE /\ sessions' = Append(sessions, NewSession(c)) /\ webhook' = Append(webhook, "none")
           /\ \A s \in DOMAIN sessions :
                 sessions[s].key = call[c].row => ~(now < sessions[s].expires)
           /\ NewSession(c) \in Session
  <2>1. /\ DOMAIN sessions' = DOMAIN sessions \cup {Len(sessions) + 1}
        /\ \A t \in DOMAIN sessions : sessions'[t] = sessions[t]
        /\ sessions'[Len(sessions) + 1] = NewSession(c)
        /\ Len(sessions) + 1 \notin DOMAIN sessions
    BY <1>1, <1>3, Appended
  <2>2. "none" \in States
    BY DEF States
  <2>3. /\ DOMAIN webhook' = DOMAIN webhook \cup {Len(webhook) + 1}
        /\ \A t \in DOMAIN webhook : webhook'[t] = webhook[t]
        /\ webhook'[Len(webhook) + 1] = "none"
    BY <1>1, <1>3, <2>2, Appended
  <2> QED
    BY <1>2, <1>3, <2>1, <2>3 DEF Opened
<1> QED
  BY <1>3, SessionEffect

\* A step keeps the keys, customers and ends of the sessions and opens one at most.
LEMMA SessionFrame ==
    ASSUME IInv, [Next]_vars
    PROVE  SameSessions \/ \E c \in Calls : Opened(c)
<1> USE DEF bounds, stripe
<1>1. ASSUME NEW c \in Calls, CreateSession(c)
      PROVE  SameSessions \/ Opened(c)
  BY <1>1, OpenedEffect DEF CreateSession, SameSessions
<1>2. ASSUME NEW c \in Calls, LoseAnswer(c)
      PROVE  SameSessions \/ Opened(c)
  <2>1. CASE sessions' = sessions
    BY <2>1 DEF SameSessions
  <2>2. CASE call[c].at = "createSession" /\ \E id : SessionMade(c, id)
    BY <1>2, <2>2, OpenedEffect DEF LoseAnswer, Fails, SameSessions
  <2> QED
    BY <1>2, <2>1, <2>2 DEF LoseAnswer, CustomerMade
<1>3. ASSUME NEW s \in DOMAIN sessions, Pay(s) \/ StripeExpires(s)
      PROVE  SameSessions
  BY <1>3, EndEffect DEF Pay, StripeExpires, SameSessions, Ended, IInv
<1>4. CASE sessions' = sessions
  BY <1>4 DEF SameSessions
<1>5. ASSUME NEW c \in Calls,
             \/ Ask(c) \/ CreateSessionRefused(c) \/ Die(c) \/ FindCustomer(c)
             \/ CreateCustomer(c) \/ InsertCustomer(c) \/ ExpireStale(c) \/ FindOpen(c)
             \/ Claim(c) \/ Reread(c) \/ CancelAttempt(c) \/ Attach(c)
      PROVE  sessions' = sessions
  BY <1>5 DEF Ask, CreateSessionRefused, Die, FindCustomer, CreateCustomer, CustomerMade,
              InsertCustomer, ExpireStale, FindOpen, Claim, Reread, CancelAttempt, Attach
<1>6. ASSUME NEW s \in DOMAIN sessions, WebhookStep(s) \/ WebhookFails(s)
      PROVE  sessions' = sessions
  BY <1>6 DEF WebhookStep, WebhookExpired, WebhookCompleted, WebhookSyncs, WebhookFails
<1> QED
  BY <1>1, <1>2, <1>3, <1>4, <1>5, <1>6 DEF Next, CallStep, Tick, vars

\* A claim inserts an open attempt without a session, or is refused.
LEMMA ClaimEffect ==
    ASSUME IInv, NEW c \in Calls, Claim(c)
    PROVE  Claimed(c) \/ attempts' = attempts
<1>1. CASE ~IndexAllows(Len(attempts) + 1)
  BY <1>1 DEF Claim
<1>2. CASE IndexAllows(Len(attempts) + 1)
  <2> DEFINE a == [status |-> "OPEN", session |-> None, expires |-> call[c].asOf + Ttl]
  <2>1. attempts' = Append(attempts, a)
    BY <1>2 DEF Claim
  <2>2. a \in Attempt /\ a.session = None /\ a.expires = call[c].asOf + Ttl
    BY Fields, Bounds DEF Attempt, None, IInv
  <2> HIDE DEF a
  <2>3. /\ DOMAIN attempts' = DOMAIN attempts \cup {Len(attempts) + 1}
        /\ \A r \in DOMAIN attempts : attempts'[r] = attempts[r]
        /\ attempts'[Len(attempts) + 1] = a
        /\ Len(attempts) + 1 \notin DOMAIN attempts
    BY <2>1, <2>2, AppendedAttempt DEF IInv
  <2> QED
    BY <1>2, <2>2, <2>3 DEF Claim, Claimed, stripe, bounds
<1> QED
  BY <1>1, <1>2

\* A claim that is not refused inserts its row.
LEMMA ClaimGrows ==
    ASSUME IInv, NEW c \in Calls, Claim(c), ~Goto(c, "reread")
    PROVE  attempts' # attempts
<1>1. attempts' = Append(attempts, [status |-> "OPEN", session |-> None,
                                    expires |-> call[c].asOf + Ttl])
  BY DEF Claim
<1>2. [status |-> "OPEN", session |-> None, expires |-> call[c].asOf + Ttl] \in Attempt
  BY Fields, Bounds DEF Attempt, None, IInv
<1> QED
  BY <1>1, <1>2, AppendedAttempt DEF IInv

\* A step reopens no attempt and inserts or attaches one at most.
LEMMA AttemptFrame ==
    ASSUME IInv, [Next]_vars
    PROVE  \/ SameAttempts
           \/ \E c \in Calls : Claimed(c)
           \/ \E c \in Calls : Attach(c) /\ Attached(c)
<1> USE DEF bounds, stripe
<1>1. CASE attempts' = attempts
  BY <1>1 DEF SameAttempts
<1>2. ASSUME NEW c \in Calls, ExpireStale(c)
      PROVE  SameAttempts
  BY <1>2, StaleEffect DEF SameAttempts, IInv
<1>3. ASSUME NEW c \in Calls, CancelAttempt(c)
      PROVE  SameAttempts
  BY <1>3, CancelEffect DEF SameAttempts
<1>4. ASSUME NEW s \in DOMAIN sessions, WebhookExpired(s) \/ WebhookCompleted(s)
      PROVE  SameAttempts
  BY <1>4, MarkEffect DEF SameAttempts, IInv, WebhookExpired, WebhookCompleted
<1>5. ASSUME NEW c \in Calls,
             \/ Ask(c) \/ CreateSessionRefused(c) \/ LoseAnswer(c) \/ Die(c) \/ FindCustomer(c)
             \/ CreateCustomer(c) \/ InsertCustomer(c) \/ FindOpen(c) \/ Reread(c)
             \/ CreateSession(c)
      PROVE  attempts' = attempts
  BY <1>5 DEF Ask, CreateSessionRefused, LoseAnswer, Fails, Die, FindCustomer, CreateCustomer,
              InsertCustomer, FindOpen, Reread, CreateSession
<1>6. ASSUME NEW s \in DOMAIN sessions,
             Pay(s) \/ StripeExpires(s) \/ WebhookSyncs(s) \/ WebhookFails(s)
      PROVE  attempts' = attempts
  BY <1>6 DEF Pay, StripeExpires, WebhookSyncs, WebhookFails
<1> QED
  BY <1>1, <1>2, <1>3, <1>4, <1>5, <1>6, ClaimEffect, AttachEffect
  DEF Next, CallStep, WebhookStep, Tick, vars

\* Time passes in ticks.
LEMMA ClockFrame ==
    ASSUME IInv, [Next]_vars
    PROVE  /\ now \in Nat /\ now' \in Nat /\ now <= now' /\ now' <= now + 1
           /\ ~Tick => now' = now
<1> USE DEF bounds, stripe
<1>1. now \in Nat
  BY Elements DEF IInv
<1>2. CASE Tick
  BY <1>1, <1>2 DEF Tick
<1>3. ASSUME NEW c \in Calls,
             \/ Ask(c) \/ CallStep(c) \/ CreateSessionRefused(c) \/ LoseAnswer(c) \/ Die(c)
      PROVE  now' = now
  BY <1>3 DEF Ask, CallStep, CreateSessionRefused, LoseAnswer, Fails, Die, FindCustomer,
              CreateCustomer, InsertCustomer, ExpireStale, FindOpen, Claim, Reread,
              CreateSession, CancelAttempt, Attach
<1>4. ASSUME NEW s \in DOMAIN sessions,
             Pay(s) \/ StripeExpires(s) \/ WebhookStep(s) \/ WebhookFails(s)
      PROVE  now' = now
  BY <1>4 DEF Pay, StripeExpires, WebhookStep, WebhookExpired, WebhookCompleted, WebhookSyncs,
              WebhookFails
<1> QED
  BY <1>1, <1>2, <1>3, <1>4 DEF Next, vars

-----------------------------------------------------------------------------
(* The parts of the invariant.                                             *)

\* The stages of a call that has its customer.
Past == Stages \ {"idle", "customer", "createCustomer", "insertCustomer"}

Keeps(c) ==
    /\ \/ call'[c].at \in {"idle", "customer"}
       \/ /\ call[c].at \in Past /\ call'[c].at \in Past
          /\ call'[c].customer = call[c].customer
    /\ \A d \in Calls : d # c => call'[d] = call[d]

\* Whatever a call does but looking for its customer, it keeps it.
LEMMA MovesOn ==
    ASSUME call \in [Calls -> CallRecord], NEW c \in Calls,
           \/ Ask(c) \/ CreateSessionRefused(c) \/ Die(c) \/ LoseAnswer(c)
           \/ ExpireStale(c) \/ FindOpen(c) \/ Claim(c) \/ Reread(c)
           \/ CreateSession(c) \/ CancelAttempt(c) \/ Attach(c)
    PROVE  Keeps(c)
<1>1. ASSUME NEW at \in {"claim", "reread", "cancel"}, Goto(c, at), call[c].at \in Past
      PROVE  Keeps(c)
  BY <1>1 DEF Goto, CallRecord, Keeps, Past, Stages
<1>2. ASSUME Return(c)
      PROVE  Keeps(c)
  BY <1>2 DEF Return, Idle, Keeps
<1>3. ASSUME NEW r, Reuse(c, r), call[c].at \in Past
      PROVE  Keeps(c)
  <2>1. CASE Return(c)
    BY <1>2, <2>1
  <2>2. CASE call' = [call EXCEPT ![c].row = r, ![c].at = "createSession"]
    BY <1>3, <2>2 DEF CallRecord, Keeps, Past, Stages
  <2> QED
    BY <1>3, <2>1, <2>2 DEF Reuse, HandOut
<1>4. CASE Ask(c)
  BY <1>4 DEF Ask, Goto, CallRecord, Keeps
<1>5. CASE Die(c) \/ LoseAnswer(c) \/ CancelAttempt(c) \/ Attach(c)
  BY <1>2, <1>5 DEF Die, LoseAnswer, Fails, CancelAttempt, Attach, HandOut
<1>6. CASE CreateSessionRefused(c)
  BY <1>1, <1>6 DEF CreateSessionRefused, Past, Stages
<1>7. CASE ExpireStale(c)
  BY <1>7 DEF ExpireStale, CallRecord, Keeps, Past, Stages
<1>8. CASE FindOpen(c) \/ Reread(c)
  <2>1. call[c].at \in Past
    BY <1>8 DEF FindOpen, Reread, Past, Stages
  <2> QED
    BY <1>1, <1>2, <1>3, <1>8, <2>1 DEF FindOpen, Reread
<1>9. CASE Claim(c)
  <2>1. call[c].at \in Past
    BY <1>9 DEF Claim, Past, Stages
  <2>2. CASE Goto(c, "reread")
    BY <1>1, <2>1, <2>2
  <2>3. CASE call' = [call EXCEPT ![c].row = Len(attempts) + 1, ![c].at = "createSession"]
    BY <2>1, <2>3 DEF CallRecord, Keeps, Past, Stages
  <2> QED
    BY <1>9, <2>2, <2>3 DEF Claim
<1>10. CASE CreateSession(c)
  <2>1. PICK id : call' = [call EXCEPT ![c].session = id, ![c].at = "attach"]
    BY <1>10 DEF CreateSession
  <2>2. call[c].at = "createSession"
    BY <1>10 DEF CreateSession
  <2> QED
    BY <2>1, <2>2 DEF CallRecord, Keeps, Past, Stages
<1> QED
  BY <1>4, <1>5, <1>6, <1>7, <1>8, <1>9, <1>10

\* Every step keeps SessionInv: Stripe opens no second live session for a key.
LEMMA SessionStep == IInv /\ [Next]_vars => SessionInv'
<1> SUFFICES ASSUME IInv, [Next]_vars
             PROVE  SessionInv'
  OBVIOUS
<1> USE DEF bounds, stripe
<1>a. SessionInv /\ TypeOK
  BY DEF IInv
<1>b. now \in Nat /\ now' \in Nat /\ now <= now'
  BY ClockFrame
<1>c. DOMAIN attempts \subseteq DOMAIN attempts'
  BY AttemptFrame DEF SameAttempts, Claimed, Attached
<1>d. \A s \in DOMAIN sessions : sessions[s].expires \in Nat
  BY <1>a, Fields
<1>e. \A c \in Calls : Opened(c) => call[c].row \in DOMAIN attempts
  BY DEF Opened, IInv, CallInv
<1>1. DOMAIN webhook' = DOMAIN sessions'
  <2>1. ASSUME NEW c \in Calls, CreateSession(c) \/ LoseAnswer(c)
        PROVE  DOMAIN webhook' = DOMAIN sessions'
    <3>1. CASE sessions' = sessions /\ webhook' = webhook
      BY <1>a, <3>1 DEF SessionInv
    <3>2. CASE Opened(c)
      BY <1>a, <3>2 DEF Opened, SessionInv
    <3>3. CASE call[c].at = "createSession" /\ \E id : SessionMade(c, id)
      BY <2>1, <3>1, <3>2, <3>3, OpenedEffect DEF CreateSession, LoseAnswer, Fails
    <3> QED
      BY <2>1, <3>1, <3>3 DEF CreateSession, LoseAnswer, CustomerMade
  <2>2. ASSUME NEW s \in DOMAIN sessions,
               Pay(s) \/ StripeExpires(s) \/ WebhookStep(s) \/ WebhookFails(s)
        PROVE  DOMAIN webhook' = DOMAIN sessions'
    BY <1>a, <2>2 DEF SessionInv, Pay, StripeExpires, WebhookStep, WebhookExpired,
                      WebhookCompleted, WebhookSyncs, WebhookFails
  <2>3. ASSUME NEW c \in Calls,
               \/ Ask(c) \/ CreateSessionRefused(c) \/ Die(c) \/ FindCustomer(c)
               \/ CreateCustomer(c) \/ InsertCustomer(c) \/ ExpireStale(c) \/ FindOpen(c)
               \/ Claim(c) \/ Reread(c) \/ CancelAttempt(c) \/ Attach(c)
        PROVE  sessions' = sessions /\ webhook' = webhook
    BY <2>3 DEF Ask, CreateSessionRefused, Die, FindCustomer, CreateCustomer, CustomerMade,
                InsertCustomer, ExpireStale, FindOpen, Claim, Reread, CancelAttempt, Attach
  <2> QED
    BY <1>a, <2>1, <2>2, <2>3 DEF SessionInv, Next, CallStep, Tick, vars
<1>2. \A s \in DOMAIN sessions' : sessions'[s].key \in DOMAIN attempts'
  <2>1. CASE SameSessions
    BY <1>a, <1>c, <2>1 DEF SessionInv, SameSessions
  <2>2. ASSUME NEW c \in Calls, Opened(c)
        PROVE  \A s \in DOMAIN sessions' : sessions'[s].key \in DOMAIN attempts'
    BY <1>a, <1>c, <1>e, <2>2 DEF SessionInv, Opened, NewSession
  <2> QED
    BY <2>1, <2>2, SessionFrame
<1>3. \A s \in DOMAIN sessions' : sessions'[s].state = "open" => webhook'[s] = "none"
  <2>1. ASSUME NEW c \in Calls, CreateSession(c) \/ LoseAnswer(c)
        PROVE  \A s \in DOMAIN sessions' : sessions'[s].state = "open" => webhook'[s] = "none"
    <3>1. CASE sessions' = sessions /\ webhook' = webhook
      BY <1>a, <3>1 DEF SessionInv
    <3>2. CASE Opened(c)
      BY <1>a, <3>2 DEF Opened, SessionInv
    <3>3. CASE call[c].at = "createSession" /\ \E id : SessionMade(c, id)
      BY <2>1, <3>1, <3>2, <3>3, OpenedEffect DEF CreateSession, LoseAnswer, Fails
    <3> QED
      BY <2>1, <3>1, <3>3 DEF CreateSession, LoseAnswer, CustomerMade
  <2>2. ASSUME NEW s \in DOMAIN sessions, Pay(s) \/ StripeExpires(s)
        PROVE  \A t \in DOMAIN sessions' : sessions'[t].state = "open" => webhook'[t] = "none"
    <3>1. Ended(s, "complete") \/ Ended(s, "expired")
      BY <1>a, <2>2, EndEffect DEF Pay, StripeExpires
    <3>2. \A t \in DOMAIN sessions : t # s => webhook'[t] = webhook[t]
      BY <1>a, <2>2 DEF SessionInv, Pay, StripeExpires
    <3> QED
      BY <1>a, <3>1, <3>2 DEF SessionInv, Ended
  <2>3. ASSUME NEW s \in DOMAIN sessions, WebhookStep(s) \/ WebhookFails(s)
        PROVE  \A t \in DOMAIN sessions' : sessions'[t].state = "open" => webhook'[t] = "none"
    <3>1. /\ sessions' = sessions /\ webhook[s] # "none"
          /\ \A t \in DOMAIN sessions : t # s => webhook'[t] = webhook[t]
      BY <1>a, <2>3 DEF SessionInv, WebhookStep, WebhookExpired, WebhookCompleted,
                        WebhookSyncs, WebhookFails
    <3> QED
      BY <1>a, <3>1 DEF SessionInv
  <2>4. ASSUME NEW c \in Calls,
               \/ Ask(c) \/ CreateSessionRefused(c) \/ Die(c) \/ FindCustomer(c)
               \/ CreateCustomer(c) \/ InsertCustomer(c) \/ ExpireStale(c) \/ FindOpen(c)
               \/ Claim(c) \/ Reread(c) \/ CancelAttempt(c) \/ Attach(c)
        PROVE  sessions' = sessions /\ webhook' = webhook
    BY <2>4 DEF Ask, CreateSessionRefused, Die, FindCustomer, CreateCustomer, CustomerMade,
                InsertCustomer, ExpireStale, FindOpen, Claim, Reread, CancelAttempt, Attach
  <2> QED
    BY <1>a, <2>1, <2>2, <2>3, <2>4 DEF SessionInv, Next, CallStep, Tick, vars
<1>4. \A s, t \in DOMAIN sessions' :
         sessions'[s].key = sessions'[t].key /\ now' < sessions'[s].expires
             /\ now' < sessions'[t].expires => s = t
  <2>1. CASE SameSessions
    BY <1>a, <1>b, <1>d, <2>1 DEF SessionInv, SameSessions
  <2>2. ASSUME NEW c \in Calls, Opened(c)
        PROVE  \A s, t \in DOMAIN sessions' :
                  sessions'[s].key = sessions'[t].key /\ now' < sessions'[s].expires
                      /\ now' < sessions'[t].expires => s = t
    BY <1>a, <1>b, <1>d, <2>2 DEF SessionInv, Opened, NewSession
  <2> QED
    BY <2>1, <2>2, SessionFrame
<1> QED
  BY <1>1, <1>2, <1>3, <1>4 DEF SessionInv

\* Every step keeps AttemptInv.
LEMMA AttemptStep == IInv /\ [Next]_vars => AttemptInv'
<1> SUFFICES ASSUME IInv, [Next]_vars
             PROVE  AttemptInv'
  OBVIOUS
<1>a. AttemptInv /\ CallInv /\ SessionInv /\ TypeOK
  BY DEF IInv
<1>b. now \in Nat /\ now' \in Nat /\ now <= now'
  BY ClockFrame
<1>c. /\ \A s \in DOMAIN sessions : sessions[s].expires \in Nat
      /\ \A r \in DOMAIN attempts : attempts[r].expires \in Nat
      /\ \A c \in Calls : call[c].asOf \in Nat
  BY <1>a, Fields
<1>1. ASSUME SameSessions, SameAttempts
      PROVE  AttemptInv'
  BY <1>1, <1>a, <1>b, <1>c, Bounds DEF SameSessions, SameAttempts, AttemptInv
<1>2. ASSUME NEW c \in Calls, Opened(c)
      PROVE  AttemptInv'
  <2>1. /\ \A s \in DOMAIN sessions : s \in DOMAIN sessions' /\ sessions'[s] = sessions[s]
        /\ attempts' = attempts /\ now' = now
        /\ DOMAIN sessions' = DOMAIN sessions \cup {Len(sessions) + 1}
        /\ sessions'[Len(sessions) + 1].expires = now + StripeTtl
    BY <1>2 DEF Opened, NewSession
  <2> QED
    BY <1>a, <1>b, <1>c, <2>1, Bounds DEF AttemptInv
<1>3. ASSUME NEW c \in Calls, Claimed(c)
      PROVE  AttemptInv'
  <2>1. call[c].asOf <= now
    BY <1>a, <1>3 DEF Claimed, CallInv
  <2>2. \A s \in DOMAIN sessions : sessions[s].key # Len(attempts) + 1
    BY <1>a, <1>3 DEF Claimed, SessionInv
  <2> QED
    BY <1>a, <1>b, <1>c, <1>3, <2>1, <2>2, Bounds DEF Claimed, AttemptInv
<1>4. ASSUME NEW c \in Calls, Attach(c), Attached(c)
      PROVE  AttemptInv'
  <2>1. /\ call[c].session \in DOMAIN sessions
        /\ sessions[call[c].session].key = call[c].row
        /\ call[c].session # None
    BY <1>a, <1>4, Elements DEF Attach, CallInv, None
  <2>2. sessions' = sessions /\ now' = now
    BY <1>4 DEF Attach, stripe
  <2> QED
    BY <1>a, <1>4, <2>1, <2>2 DEF Attached, AttemptInv
<1>5. ASSUME NEW c \in Calls, Opened(c), ~SameAttempts
      PROVE  FALSE
  BY <1>5 DEF Opened, SameAttempts
<1> QED
  BY <1>1, <1>2, <1>3, <1>4, SessionFrame, AttemptFrame

\* Every step keeps OneOpen: the partial unique index sees every row that opens.
LEMMA OneOpenStep == IInv /\ [Next]_vars => OneOpen'
<1> SUFFICES ASSUME IInv, [Next]_vars
             PROVE  OneOpen'
  OBVIOUS
<1>a. OneOpen
  BY DEF IInv
<1>1. CASE SameAttempts
  BY <1>a, <1>1 DEF SameAttempts, OneOpen
<1>2. ASSUME NEW c \in Calls, Claimed(c)
      PROVE  OneOpen'
  BY <1>a, <1>2 DEF Claimed, IndexAllows, OneOpen
<1>3. ASSUME NEW c \in Calls, Attached(c)
      PROVE  OneOpen'
  BY <1>a, <1>3 DEF Attached, IndexAllows, OneOpen
<1> QED
  BY <1>1, <1>2, <1>3, AttemptFrame

\* A step of one call leaves the others where they are.
LEMMA Others ==
    ASSUME call \in [Calls -> CallRecord], NEW c \in Calls,
           \/ Ask(c) \/ CallStep(c) \/ CreateSessionRefused(c) \/ LoseAnswer(c) \/ Die(c)
    PROVE  \A d \in Calls : d # c => call'[d] = call[d]
  BY DEF Ask, CallStep, CreateSessionRefused, LoseAnswer, Fails, Die, FindCustomer,
         CreateCustomer, InsertCustomer, ExpireStale, FindOpen, Claim, Reread, Reuse, HandOut,
         CreateSession, CancelAttempt, Attach, Goto, Return

\* What CustomerInv says of one call.
Means(c) ==
    /\ call[c].at = "insertCustomer" => call[c].customer \in DOMAIN customers
    /\ call[c].at \in Past => customer # None /\ call[c].customer = customer

\* CustomerInv, call by call.
LEMMA CustomerInvMeans ==
    ASSUME call \in [Calls -> CallRecord]
    PROVE  CustomerInv <=> /\ customer \in DOMAIN customers \cup {None}
                           /\ \A c \in Calls : Means(c)
                           /\ PaymentHasOwner
  BY DEF CustomerInv, Means, Past, CallRecord

\* The row of table BillingCustomer is not changed once it is there.
LEMMA CustomerFrame ==
    ASSUME IInv, [Next]_vars
    PROVE  /\ DOMAIN customers \subseteq DOMAIN customers'
           /\ customer' \in DOMAIN customers \cup {None}
           /\ customer # None => customer' = customer
<1> USE DEF bounds, stripe
<1>a. CustomerInv
  BY DEF IInv
<1>1. ASSUME NEW c \in Calls, CreateCustomer(c) \/ LoseAnswer(c)
      PROVE  DOMAIN customers \subseteq DOMAIN customers' /\ customer' = customer
  <2>1. customer' = customer
    BY <1>1 DEF CreateCustomer, LoseAnswer, Fails
  <2>2. (\E id : CustomerMade(c, id)) \/ customers' = customers
    BY <1>1 DEF CreateCustomer, LoseAnswer, SessionMade
  <2> QED
    BY <2>1, <2>2, CustomerEffect
<1>2. ASSUME NEW c \in Calls, InsertCustomer(c)
      PROVE  /\ customers' = customers
             /\ customer' \in DOMAIN customers \cup {None}
             /\ customer # None => customer' = customer
  BY <1>a, <1>2 DEF InsertCustomer, CustomerInv
<1>3. ASSUME NEW c \in Calls,
             \/ Ask(c) \/ CreateSessionRefused(c) \/ Die(c) \/ FindCustomer(c)
             \/ ExpireStale(c) \/ FindOpen(c) \/ Claim(c) \/ Reread(c)
             \/ CreateSession(c) \/ CancelAttempt(c) \/ Attach(c)
      PROVE  customers' = customers /\ customer' = customer
  BY <1>3 DEF Ask, CreateSessionRefused, Die, Fails, FindCustomer, ExpireStale, FindOpen,
              Claim, Reread, CreateSession, SessionMade, CancelAttempt, Attach
<1>4. ASSUME NEW s \in DOMAIN sessions,
             Pay(s) \/ StripeExpires(s) \/ WebhookStep(s) \/ WebhookFails(s)
      PROVE  customers' = customers /\ customer' = customer
  BY <1>4 DEF Pay, StripeExpires, WebhookStep, WebhookExpired, WebhookCompleted, WebhookSyncs,
              WebhookFails
<1> QED
  BY <1>a, <1>1, <1>2, <1>3, <1>4 DEF Next, CallStep, Tick, vars, CustomerInv

\* A call that is not at work means what it meant.
LEMMA MeansKept ==
    ASSUME IInv, [Next]_vars, NEW c \in Calls, call'[c] = call[c]
    PROVE  Means(c)'
<1>1. call \in [Calls -> CallRecord] /\ CustomerInv
  BY Elements DEF IInv
<1> QED
  BY <1>1, CustomerInvMeans, CustomerFrame DEF Means

\* A call at work means the customer of the row once it has looked.
LEMMA MeansMoved ==
    ASSUME IInv, [Next]_vars, NEW c \in Calls,
           \/ Ask(c) \/ CallStep(c) \/ CreateSessionRefused(c) \/ LoseAnswer(c) \/ Die(c)
    PROVE  Means(c)'
<1>a. /\ call \in [Calls -> CallRecord] /\ CustomerInv /\ Means(c)
      /\ customer \in DOMAIN customers \cup {None}
  BY Elements, CustomerInvMeans DEF IInv
<1>b. customer # None => customer' = customer
  BY CustomerFrame
<1>1. CASE FindCustomer(c)
  <2>1. /\ call'[c].customer = customer /\ customer' = customer
        /\ call'[c].at = IF customer = None THEN "createCustomer" ELSE "expire"
    BY <1>a, <1>1 DEF FindCustomer, CallRecord
  <2> QED
    BY <2>1 DEF Means, Past
<1>2. CASE CreateCustomer(c)
  <2>1. PICK id : /\ CustomerMade(c, id)
                  /\ call' = [call EXCEPT ![c].customer = id, ![c].at = "insertCustomer"]
    BY <1>2 DEF CreateCustomer
  <2>2. call'[c].customer = id /\ call'[c].at = "insertCustomer"
    BY <1>a, <2>1 DEF CallRecord
  <2> QED
    BY <2>1, <2>2, CustomerEffect DEF Means, Past
<1>3. CASE InsertCustomer(c)
  <2>1. /\ call'[c].customer = customer' /\ call'[c].at = "expire"
        /\ customer' = IF customer = None THEN call[c].customer ELSE customer
        /\ call[c].customer \in DOMAIN customers
    BY <1>a, <1>3 DEF InsertCustomer, CallRecord, Means
  <2>2. DOMAIN customers \subseteq Nat \ {0}
    BY Elements DEF IInv
  <2> QED
    BY <2>1, <2>2 DEF Means, None
<1>4. CASE Keeps(c)
  BY <1>a, <1>b, <1>4 DEF Keeps, Means, Past
<1> QED
  BY <1>a, <1>1, <1>2, <1>3, <1>4, MovesOn DEF CallStep

\* Every step keeps CustomerInv: all sessions are of the customer in BillingCustomer.
LEMMA CustomerStep == IInv /\ [Next]_vars => CustomerInv'
<1> SUFFICES ASSUME IInv, [Next]_vars
             PROVE  CustomerInv'
  OBVIOUS
<1>a. CustomerInv /\ TypeOK /\ call \in [Calls -> CallRecord]
  BY Elements DEF IInv
<1>b. call' \in [Calls -> CallRecord]
  BY TypeStep DEF TypeOK
<1>c. \A c \in Calls : Means(c)
  BY <1>a, CustomerInvMeans
<1>1. ASSUME NEW d \in Calls
      PROVE  Means(d)'
  <2>1. CASE call' = call
    BY <2>1, MeansKept
  <2>2. ASSUME NEW c \in Calls,
               \/ Ask(c) \/ CallStep(c) \/ CreateSessionRefused(c) \/ LoseAnswer(c) \/ Die(c)
        PROVE  Means(d)'
    BY <1>a, <2>2, Others, MeansKept, MeansMoved
  <2>3. ASSUME NEW s \in DOMAIN sessions,
               Pay(s) \/ StripeExpires(s) \/ WebhookStep(s) \/ WebhookFails(s)
        PROVE  call' = call
    BY <2>3 DEF Pay, StripeExpires, WebhookStep, WebhookExpired, WebhookCompleted, WebhookSyncs,
                WebhookFails
  <2> QED
    BY <2>1, <2>2, <2>3 DEF Next, Tick, vars
<1>2. ASSUME NEW s \in DOMAIN sessions'
      PROVE  customer' # None /\ sessions'[s].customer = customer'
  <2>1. CASE s \in DOMAIN sessions /\ sessions'[s].customer = sessions[s].customer
    BY <1>a, <2>1, CustomerFrame DEF CustomerInv, PaymentHasOwner
  <2>2. ASSUME NEW c \in Calls, Opened(c), s \notin DOMAIN sessions
        PROVE  customer' # None /\ sessions'[s].customer = customer'
    <3>1. sessions'[s].customer = call[c].customer /\ call[c].at = "createSession"
      BY <2>2 DEF Opened, NewSession
    <3>2. customer # None /\ call[c].customer = customer
      BY <1>c, <3>1 DEF Means, Past, Stages
    <3> QED
      BY <3>1, <3>2, CustomerFrame
  <2> QED
    BY <2>1, <2>2, SessionFrame DEF SameSessions, Opened
<1>3. customer' \in DOMAIN customers' \cup {None}
  BY CustomerFrame
<1>4. CustomerInv' <=> /\ customer' \in DOMAIN customers' \cup {None}
                       /\ \A c \in Calls : Means(c)'
                       /\ PaymentHasOwner'
  BY <1>b DEF CustomerInv, Means, Past, CallRecord
<1> QED
  BY <1>1, <1>2, <1>3, <1>4 DEF PaymentHasOwner

\* What CallInv says of one call.
Held(c) ==
    LET k == call[c] IN
    /\ k.at \in {"find", "claim", "reread", "createSession", "attach", "cancel"} =>
          k.asOf <= now /\ now <= k.asOf + 1
    /\ k.at \in {"createSession", "attach", "cancel"} => k.row \in DOMAIN attempts
    /\ k.at \in {"createSession", "attach"} =>
          \A s \in DOMAIN sessions : sessions[s].key = k.row => k.asOf + 2 <= sessions[s].expires
    /\ k.at = "attach" => k.session \in DOMAIN sessions /\ sessions[k.session].key = k.row

\* CallInv, call by call.
LEMMA CallInvHeld == CallInv <=> \A c \in Calls : Held(c)
  BY DEF CallInv, Held

\* What CallInv says of a call stays true while the call waits.
LEMMA HeldKept ==
    ASSUME IInv, [Next]_vars, NEW c \in Calls, call'[c] = call[c]
    PROVE  Held(c)'
<1>a. /\ CallInv /\ TypeOK /\ Held(c)
  BY CallInvHeld DEF IInv
<1>b. now \in Nat /\ now' \in Nat /\ now <= now' /\ now' <= now + 1 /\ (~Tick => now' = now)
  BY ClockFrame
<1>c. /\ \A s \in DOMAIN sessions : sessions[s].expires \in Nat
      /\ call[c].asOf \in Nat
  BY <1>a, Fields
<1>1. call[c].at \in {"find", "claim", "reread", "createSession", "attach", "cancel"} =>
         call[c].asOf <= now' /\ now' <= call[c].asOf + 1
  BY <1>a, <1>b, <1>c DEF Held, Tick, Timely
<1>2. DOMAIN attempts \subseteq DOMAIN attempts'
  BY AttemptFrame DEF SameAttempts, Claimed, Attached
<1>3. CASE SameSessions
  BY <1>a, <1>1, <1>2, <1>3 DEF Held, SameSessions
<1>4. ASSUME NEW d \in Calls, Opened(d)
      PROVE  Held(c)'
  <2>1. /\ DOMAIN sessions' = DOMAIN sessions \cup {Len(sessions) + 1}
        /\ \A s \in DOMAIN sessions : sessions'[s] = sessions[s]
        /\ sessions'[Len(sessions) + 1].expires = now + StripeTtl
    BY <1>4 DEF Opened, NewSession
  <2>2. call[c].at \in {"createSession", "attach"} => call[c].asOf + 2 <= now + StripeTtl
    BY <1>a, <1>b, <1>c, Bounds DEF Held
  <2> QED
    BY <1>a, <1>1, <1>2, <2>1, <2>2 DEF Held
<1> QED
  BY <1>3, <1>4, SessionFrame

\* What CallInv says of a call is true after its own step.
LEMMA HeldMoved ==
    ASSUME IInv, [Next]_vars, NEW c \in Calls,
           \/ Ask(c) \/ CallStep(c) \/ CreateSessionRefused(c) \/ LoseAnswer(c) \/ Die(c)
    PROVE  Held(c)'
<1> USE DEF bounds, stripe
<1>a. /\ CallInv /\ AttemptInv /\ SessionInv /\ TypeOK /\ Held(c) /\ call \in [Calls -> CallRecord]
  BY CallInvHeld, Elements DEF IInv
<1>b. now \in Nat /\ now' \in Nat
  BY ClockFrame
<1>c. /\ \A s \in DOMAIN sessions : sessions[s].expires \in Nat
      /\ \A r \in DOMAIN attempts : attempts[r].expires \in Nat
      /\ call[c].asOf \in Nat
  BY <1>a, Fields
<1>1. ASSUME call'[c].at \in {"idle", "customer", "createCustomer", "insertCustomer", "expire"}
      PROVE  Held(c)'
  BY <1>1 DEF Held
<1>2. CASE Return(c)
  BY <1>a, <1>1, <1>2 DEF Return, Idle
<1>3. CASE Ask(c) \/ FindCustomer(c) \/ InsertCustomer(c)
  BY <1>a, <1>1, <1>3 DEF Ask, Goto, FindCustomer, InsertCustomer, CallRecord
<1>4. CASE CreateCustomer(c)
  <2>1. PICK id : call' = [call EXCEPT ![c].customer = id, ![c].at = "insertCustomer"]
    BY <1>4 DEF CreateCustomer
  <2> QED
    BY <1>a, <1>1, <2>1 DEF CallRecord
<1>5. CASE ExpireStale(c)
  <2>1. call'[c].at = "find" /\ call'[c].asOf = now /\ now' = now
    BY <1>a, <1>5 DEF ExpireStale, CallRecord
  <2> QED
    BY <1>b, <2>1 DEF Held
<1>6. ASSUME call[c].at \in {"find", "reread"}, UNCHANGED <<now, sessions, attempts>>,
             NEW r \in OpenAttempts(c), Reuse(c, r)
      PROVE  Held(c)'
  <2>1. CASE Return(c)
    BY <1>2, <2>1
  <2>2. CASE /\ call' = [call EXCEPT ![c].row = r, ![c].at = "createSession"]
             /\ attempts[r].session = None
    <3>1. call'[c].at = "createSession" /\ call'[c].row = r /\ call'[c].asOf = call[c].asOf
      BY <1>a, <2>2 DEF CallRecord
    <3>2. r \in DOMAIN attempts /\ attempts[r].expires > call[c].asOf
      BY DEF OpenAttempts
    <3>3. \A s \in DOMAIN sessions :
             sessions[s].key = r => attempts[r].expires < sessions[s].expires
      BY <1>a, <2>2, <3>2 DEF AttemptInv
    <3>4. \A s \in DOMAIN sessions :
             sessions[s].key = r => call[c].asOf + 2 <= sessions[s].expires
      BY <1>c, <3>2, <3>3
    <3> QED
      BY <1>a, <1>6, <3>1, <3>2, <3>4 DEF Held
  <2> QED
    BY <1>6, <2>1, <2>2 DEF Reuse, HandOut
<1>7. ASSUME call[c].at \in {"find", "createSession"}, UNCHANGED <<now, sessions, attempts>>,
             Goto(c, "claim") \/ (call[c].at = "createSession" /\ Goto(c, "cancel"))
      PROVE  Held(c)'
  <2>1. /\ call'[c].asOf = call[c].asOf /\ call'[c].row = call[c].row
        /\ \/ call'[c].at = "claim"
           \/ call'[c].at = "cancel" /\ call[c].at = "createSession"
    BY <1>a, <1>7 DEF Goto, CallRecord
  <2> QED
    BY <1>a, <1>7, <2>1 DEF Held
<1>8. CASE FindOpen(c) \/ Reread(c)
  <2>1. /\ call[c].at \in {"find", "reread"} /\ UNCHANGED <<now, sessions, attempts>>
        /\ FindOpen(c) => call[c].at = "find"
    BY <1>8 DEF FindOpen, Reread
  <2> QED
    BY <1>2, <1>6, <1>7, <1>8, <2>1, NewestIs DEF FindOpen, Reread
<1>9. CASE CreateSessionRefused(c)
  BY <1>7, <1>9 DEF CreateSessionRefused
<1>10. CASE Claim(c)
  <2>1. CASE Goto(c, "reread") /\ attempts' = attempts
    <3>1. call'[c].at = "reread" /\ call'[c].asOf = call[c].asOf
      BY <1>a, <2>1 DEF Goto, CallRecord
    <3> QED
      BY <1>a, <1>10, <3>1 DEF Claim, Held
  <2>2. CASE call' = [call EXCEPT ![c].row = Len(attempts) + 1, ![c].at = "createSession"]
    <3>1. /\ call'[c].at = "createSession" /\ call'[c].row = Len(attempts) + 1
          /\ call'[c].asOf = call[c].asOf
      BY <1>a, <2>2 DEF CallRecord
    <3>2. Claimed(c)
      <4>1. attempts' # attempts
        BY <1>a, <1>10, <3>1, ClaimGrows DEF Claim, Goto, CallRecord
      <4> QED
        BY <1>10, <4>1, ClaimEffect
    <3>3. \A s \in DOMAIN sessions : sessions[s].key # Len(attempts) + 1
      BY <1>a, <3>2 DEF Claimed, SessionInv
    <3> QED
      BY <1>a, <3>1, <3>2, <3>3 DEF Claimed, Held
  <2> QED
    BY <1>10, <2>1, <2>2 DEF Claim
<1>11. CASE CreateSession(c)
  <2>1. PICK id : /\ SessionMade(c, id)
                  /\ call' = [call EXCEPT ![c].session = id, ![c].at = "attach"]
    BY <1>11 DEF CreateSession
  <2>2. /\ call[c].at = "createSession" /\ now' = now /\ attempts' = attempts
        /\ handed' = handed
    BY <1>11 DEF CreateSession
  <2>3. /\ call'[c].at = "attach" /\ call'[c].row = call[c].row /\ call'[c].session = id
        /\ call'[c].asOf = call[c].asOf
    BY <1>a, <2>1 DEF CallRecord
  <2>4. CASE sessions' = sessions /\ id \in DOMAIN sessions /\ sessions[id].key = call[c].row
    BY <1>a, <2>2, <2>3, <2>4 DEF Held
  <2>5. CASE /\ sessions' = Append(sessions, NewSession(c)) /\ id = Len(sessions) + 1
             /\ NewSession(c) \in Session
    <3>1. sessions \in Seq(Session)
      BY <1>a, Sequences
    <3>2. /\ DOMAIN sessions' = DOMAIN sessions \cup {id}
          /\ \A s \in DOMAIN sessions : sessions'[s] = sessions[s]
          /\ sessions'[id] = NewSession(c)
      BY <2>5, <3>1, Appended
    <3>3. sessions'[id].key = call[c].row /\ sessions'[id].expires = now + StripeTtl
      BY <3>2 DEF NewSession
    <3>4. call[c].asOf + 2 <= now + StripeTtl
      BY <1>a, <1>b, <1>c, <2>2, Bounds DEF Held
    <3> QED
      BY <1>a, <2>2, <2>3, <3>2, <3>3, <3>4 DEF Held
  <2> QED
    BY <2>1, <2>4, <2>5, SessionEffect
<1>12. CASE LoseAnswer(c) \/ Die(c) \/ CancelAttempt(c) \/ Attach(c)
  BY <1>2, <1>12 DEF LoseAnswer, Die, Fails, CancelAttempt, Attach, HandOut
<1> QED
  BY <1>3, <1>4, <1>5, <1>8, <1>9, <1>10, <1>11, <1>12 DEF CallStep

\* Every step keeps CallInv.
LEMMA CallStepInv == IInv /\ [Next]_vars => CallInv'
<1> SUFFICES ASSUME IInv, [Next]_vars
             PROVE  CallInv'
  OBVIOUS
<1>1. SUFFICES ASSUME NEW d \in Calls
               PROVE  Held(d)'
  BY CallInvHeld DEF CallInv, Held
<1>2. call \in [Calls -> CallRecord]
  BY Elements DEF IInv
<1>3. CASE call' = call
  BY <1>3, HeldKept
<1>4. ASSUME NEW c \in Calls,
             \/ Ask(c) \/ CallStep(c) \/ CreateSessionRefused(c) \/ LoseAnswer(c) \/ Die(c)
      PROVE  Held(d)'
  BY <1>2, <1>4, Others, HeldKept, HeldMoved
<1>5. ASSUME NEW s \in DOMAIN sessions,
             Pay(s) \/ StripeExpires(s) \/ WebhookStep(s) \/ WebhookFails(s)
      PROVE  call' = call
  BY <1>5 DEF Pay, StripeExpires, WebhookStep, WebhookExpired, WebhookCompleted, WebhookSyncs,
              WebhookFails
<1> QED
  BY <1>3, <1>4, <1>5 DEF Next, Tick, vars

\* An event that was not heard of before is not forgotten.
LEMMA EventFrame ==
    ASSUME IInv, [Next]_vars, NEW s \in DOMAIN sessions, webhook'[s] \in {"none", "sent"}
    PROVE  webhook[s] \in {"none", "sent"}
<1> USE DEF bounds, stripe
<1>a. DOMAIN webhook = DOMAIN sessions /\ TypeOK
  BY DEF IInv, SessionInv
<1>b. sessions[s].state = "open" => webhook[s] = "none"
  BY DEF IInv, SessionInv
<1>1. ASSUME NEW c \in Calls, CreateSession(c) \/ LoseAnswer(c)
      PROVE  webhook'[s] = webhook[s]
  <2>1. CASE Opened(c)
    BY <1>a, <2>1 DEF Opened
  <2>2. CASE call[c].at = "createSession" /\ \E id : SessionMade(c, id)
    BY <1>1, <2>1, <2>2, OpenedEffect DEF CreateSession, LoseAnswer, Fails
  <2> QED
    BY <1>1, <2>2 DEF CreateSession, LoseAnswer, CustomerMade
<1>2. ASSUME NEW t \in DOMAIN sessions, Pay(t) \/ StripeExpires(t)
      PROVE  webhook[s] \in {"none", "sent"}
  BY <1>a, <1>b, <1>2 DEF Pay, Payable, StripeExpires
<1>3. ASSUME NEW t \in DOMAIN sessions, WebhookStep(t) \/ WebhookFails(t)
      PROVE  webhook[s] \in {"none", "sent"}
  <2>1. PICK x \in {"done", "marked", "resent"} : webhook' = [webhook EXCEPT ![t] = x]
    BY <1>3 DEF WebhookStep, WebhookExpired, WebhookCompleted, WebhookSyncs, WebhookFails
  <2> QED
    BY <1>a, <2>1
<1>4. ASSUME NEW c \in Calls,
             \/ Ask(c) \/ CreateSessionRefused(c) \/ Die(c) \/ FindCustomer(c)
             \/ CreateCustomer(c) \/ InsertCustomer(c) \/ ExpireStale(c) \/ FindOpen(c)
             \/ Claim(c) \/ Reread(c) \/ CancelAttempt(c) \/ Attach(c)
      PROVE  webhook' = webhook
  BY <1>4 DEF Ask, CreateSessionRefused, Die, FindCustomer, CreateCustomer, CustomerMade,
              InsertCustomer, ExpireStale, FindOpen, Claim, Reread, CancelAttempt, Attach
<1> QED
  BY <1>1, <1>2, <1>3, <1>4 DEF Next, CallStep, Tick, vars

Holds(r, s) == r \in DOMAIN attempts /\ attempts[r].status = "OPEN" /\ attempts[r].session = s

\* The session of an open row is handed out, or the row is opened with it.
LEMMA HandedFrame ==
    ASSUME IInv, [Next]_vars, NEW s \in handed' \ handed
    PROVE  \E r : Holds(r, s)'
<1> USE DEF bounds, stripe
<1>1. ASSUME NEW c \in Calls, FindOpen(c) \/ Reread(c)
      PROVE  \E r : Holds(r, s)'
  <2>1. PICK r \in OpenAttempts(c) : Reuse(c, r) /\ attempts' = attempts
    BY <1>1, NewestIs DEF FindOpen, Reread
  <2>2. s = attempts[r].session
    BY <2>1, ReuseEffect
  <2>3. Holds(r, s)'
    BY <2>1, <2>2 DEF Holds, OpenAttempts
  <2> QED
    BY <2>3
<1>2. ASSUME NEW c \in Calls, Attach(c)
      PROVE  \E r : Holds(r, s)'
  <2>1. Attached(c) /\ s = call[c].session
    BY <1>2, AttachEffect DEF Attached
  <2>2. call[c].row \in DOMAIN attempts
    BY <1>2 DEF Attach, IInv, CallInv
  <2>3. PICK r : r = call[c].row
    OBVIOUS
  <2>4. Holds(r, s)'
    BY <2>1, <2>2, <2>3 DEF Attached, Holds
  <2> QED
    BY <2>4
<1>3. ASSUME NEW c \in Calls,
             \/ Ask(c) \/ CreateSessionRefused(c) \/ LoseAnswer(c) \/ Die(c) \/ FindCustomer(c)
             \/ CreateCustomer(c) \/ InsertCustomer(c) \/ ExpireStale(c) \/ Claim(c)
             \/ CreateSession(c) \/ CancelAttempt(c)
      PROVE  handed' = handed
  BY <1>3 DEF Ask, CreateSessionRefused, LoseAnswer, Fails, Die, FindCustomer, CreateCustomer,
              InsertCustomer, ExpireStale, Claim, CreateSession, CancelAttempt
<1>4. ASSUME NEW t \in DOMAIN sessions,
             Pay(t) \/ StripeExpires(t) \/ WebhookStep(t) \/ WebhookFails(t)
      PROVE  handed' = handed
  BY <1>4 DEF Pay, StripeExpires, WebhookStep, WebhookExpired, WebhookCompleted, WebhookSyncs,
              WebhookFails
<1> QED
  BY <1>1, <1>2, <1>3, <1>4 DEF Next, CallStep, Tick, vars

\* A row that holds a live session keeps it, and stays open.
LEMMA HoldsOn ==
    ASSUME IInv, [Next]_vars, NEW s \in DOMAIN sessions, NEW r, Holds(r, s), Live(s), Live(s)'
    PROVE  Holds(r, s)'
<1> USE DEF bounds, stripe
<1>a. AttemptInv /\ SessionInv /\ CallInv /\ TypeOK /\ s # None
  BY Elements DEF IInv, None
<1>b. /\ now \in Nat /\ sessions[s].expires \in Nat
      /\ now < sessions[s].expires /\ attempts[r].expires = sessions[s].expires
      /\ sessions[s].key = r
  BY <1>a, Elements, Fields DEF Live, Holds, AttemptInv
<1>1. CASE attempts' = attempts
  BY <1>1 DEF Holds
<1>2. ASSUME NEW c \in Calls, ExpireStale(c)
      PROVE  Holds(r, s)'
  BY <1>a, <1>b, <1>2, StaleEffect DEF Holds
<1>3. ASSUME NEW c \in Calls, CancelAttempt(c)
      PROVE  Holds(r, s)'
  BY <1>a, <1>3, CancelEffect DEF Holds
<1>4. ASSUME NEW t \in DOMAIN sessions, WebhookExpired(t) \/ WebhookCompleted(t)
      PROVE  Holds(r, s)'
  <2>1. t # s
    <3>1. webhook'[t] \in {"done", "marked"}
      BY <1>a, <1>4 DEF WebhookExpired, WebhookCompleted, SessionInv
    <3> QED
      BY <3>1 DEF Live
  <2> QED
    BY <1>a, <1>4, <2>1, MarkEffect DEF WebhookExpired, WebhookCompleted, Holds
<1>5. ASSUME NEW c \in Calls, Claimed(c)
      PROVE  Holds(r, s)'
  BY <1>5 DEF Claimed, Holds
<1>6. ASSUME NEW c \in Calls, Attach(c), Attached(c)
      PROVE  Holds(r, s)'
  <2>1. CASE r # call[c].row
    BY <1>6, <2>1 DEF Attached, Holds
  <2>2. CASE r = call[c].row
    <3> DEFINE t == call[c].session
    <3>1. /\ t \in DOMAIN sessions /\ sessions[t].key = r
          /\ now <= call[c].asOf + 1 /\ call[c].asOf + 2 <= sessions[t].expires
      BY <1>a, <1>6, <2>2 DEF Attach, CallInv
    <3>2. now < sessions[t].expires
      BY <1>a, <1>b, <3>1, Fields
    <3>3. t = s
      BY <1>a, <1>b, <3>1, <3>2 DEF SessionInv
    <3> QED
      BY <1>6, <2>2, <3>3 DEF Attached, Holds
  <2> QED
    BY <2>1, <2>2
<1>7. ASSUME NEW c \in Calls,
             \/ Ask(c) \/ CreateSessionRefused(c) \/ LoseAnswer(c) \/ Die(c) \/ FindCustomer(c)
             \/ CreateCustomer(c) \/ InsertCustomer(c) \/ FindOpen(c) \/ Reread(c)
             \/ CreateSession(c)
      PROVE  attempts' = attempts
  BY <1>7 DEF Ask, CreateSessionRefused, LoseAnswer, Fails, Die, FindCustomer, CreateCustomer,
              InsertCustomer, FindOpen, Reread, CreateSession
<1>8. ASSUME NEW t \in DOMAIN sessions,
             Pay(t) \/ StripeExpires(t) \/ WebhookSyncs(t) \/ WebhookFails(t)
      PROVE  attempts' = attempts
  BY <1>8 DEF Pay, StripeExpires, WebhookSyncs, WebhookFails
<1> QED
  BY <1>1, <1>2, <1>3, <1>4, <1>5, <1>6, <1>7, <1>8, ClaimEffect, AttachEffect
  DEF Next, CallStep, WebhookStep, Tick, vars

\* Every step keeps LiveIsOpen.
LEMMA LiveStep == IInv /\ [Next]_vars => LiveIsOpen'
<1> SUFFICES ASSUME IInv, [Next]_vars, NEW s \in handed', Live(s)'
             PROVE  \E r : Holds(r, s)'
  BY DEF LiveIsOpen, Holds
<1>a. handed \subseteq DOMAIN sessions /\ LiveIsOpen /\ TypeOK
  BY TypePartsNow DEF IInv
<1>1. CASE s \notin handed
  BY <1>1, HandedFrame
<1>2. CASE s \in handed
  <2>1. s \in DOMAIN sessions /\ sessions[s].expires \in Nat
    BY <1>a, <1>2, Fields
  <2>2. sessions'[s].expires = sessions[s].expires
    BY <2>1, SessionFrame DEF SameSessions, Opened
  <2>3. webhook[s] \in {"none", "sent"}
    BY <2>1, EventFrame DEF Live
  <2>4. now < sessions[s].expires
    BY <2>1, <2>2, ClockFrame DEF Live
  <2>5. Live(s)
    BY <2>3, <2>4 DEF Live
  <2>6. PICK r : Holds(r, s)
    BY <1>a, <1>2, <2>5 DEF LiveIsOpen, Holds
  <2>7. Holds(r, s)'
    BY <2>1, <2>5, <2>6, HoldsOn
  <2> QED
    BY <2>7
<1> QED
  BY <1>1, <1>2

-----------------------------------------------------------------------------
(* The theorems.                                                           *)

\* Every state the purchase can reach satisfies the inductive invariant, for any number
\* of calls, any lives of attempts and sessions and any number of failures.
THEOREM Invariance == Spec => []IInv
<1>1. Init => IInv
  BY InitInv
<1>2. IInv /\ [Next]_vars => IInv'
  BY TypeStep, CustomerStep, SessionStep, AttemptStep, OneOpenStep, CallStepInv, LiveStep
  DEF IInv
<1> QED
  BY <1>1, <1>2, PTL DEF Spec

\* The tables, the calls and what Stripe holds always have the types they are
\* declared with.
THEOREM TypeCorrect == Spec => []TypeOK
<1>1. IInv => TypeOK
  BY DEF IInv
<1> QED
  BY <1>1, Invariance, PTL

\* A page the user was sent to stays the session of an open attempt for as long as it
\* can be paid or its end is unheard of: no late write, definitive error, expiry or
\* webhook of another session takes the attempt away.
THEOREM PageStaysHeld == Spec => []LiveIsOpen
<1>1. IInv => LiveIsOpen
  BY DEF IInv
<1> QED
  BY <1>1, Invariance, PTL

\* Two pages are never open for payment at the same time: by LiveIsOpen each is held by
\* an open attempt, and by the unique index there is one.
THEOREM OnePageToPay == Spec => []OneLiveCheckout
<1>1. IInv => OneLiveCheckout
  BY DEF IInv, LiveIsOpen, OneOpen, OneLiveCheckout
<1> QED
  BY <1>1, Invariance, PTL

\* Every payment has an owner when the webhook looks it up: all sessions are of the
\* customer in BillingCustomer, whatever customers dead or overtaken calls made besides.
THEOREM PaymentsOwned == Spec => []PaymentHasOwner
<1>1. IInv => PaymentHasOwner
  BY DEF IInv, CustomerInv
<1> QED
  BY <1>1, Invariance, PTL
=============================================================================
