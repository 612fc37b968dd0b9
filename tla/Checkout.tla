------------------------------ MODULE Checkout ------------------------------
(***************************************************************************)
(* The purchase of Plus by one user: the attempts the API keeps in table   *)
(* BillingCheckoutSession, the customers and the Checkout sessions Stripe  *)
(* keeps, and the webhooks by which the API learns what became of them.    *)
(*                                                                         *)
(* A call is one POST /billing/checkout, from any tab and on any replica.  *)
(* Each statement and each request to Stripe is a step of its own; a       *)
(* request to Stripe may take effect and still be answered with an error,  *)
(* and a call may die between any two steps.                               *)
(***************************************************************************)
EXTENDS Naturals, Sequences, FiniteSets

CONSTANTS
    Calls,        \* calls in flight at the same time
    Ttl,          \* BILLING_CHECKOUT_TTL_MS, in units of the clock
    StripeTtl,    \* what Stripe gives a session, and the life of its idempotency keys
    MaxTime,      \* bound on the clock
    MaxFailures,  \* bound on failed requests to Stripe and dead calls and webhooks
    MaxPayments   \* bound on the payments of the user

ASSUME TtlAssumption == /\ {Ttl, StripeTtl, MaxTime, MaxFailures, MaxPayments} \subseteq Nat
                        /\ 0 < Ttl /\ Ttl < StripeTtl

VARIABLES
    now,        \* the clock
    customers,  \* the customers at Stripe, with the idempotency key each was made with
    sessions,   \* the Checkout sessions at Stripe
    customer,   \* the row of table BillingCustomer, None before it is inserted
    attempts,   \* the rows of table BillingCheckoutSession, in order of createdAt
    plus,       \* hasPlusEntitlement of the user
    handed,     \* sessions whose URL the user was given
    webhook,    \* [session -> progress of the event about its end]
    call,       \* [Calls -> call in flight]
    failures,   \* failed requests and deaths
    payments    \* payments made

stripe == <<customers, sessions>>
bounds == <<failures, payments>>
vars == <<now, stripe, customer, attempts, plus, handed, webhook, call, bounds>>

None == 0

\* `expires` is when Stripe forgets the key.
Customer == [key : Nat, expires : Nat]

Session == [key : Nat, customer : Nat, expires : Nat, state : {"open", "complete", "expired"}]

\* `session` stands for providerSessionId and checkoutUrl, which are set together.
Attempt == [status : {"OPEN", "COMPLETE", "EXPIRED", "CANCELED"}, session : Nat, expires : Nat]

Stages == {"idle", "customer", "createCustomer", "insertCustomer", "expire", "find", "claim",
           "reread", "createSession", "attach", "cancel"}

\* `asOf` is the `now` that getOrCreateOpenCheckoutSession takes once.
CallRecord == [at : Stages, customer : Nat, asOf : Nat, row : Nat, session : Nat]

Idle == [at |-> "idle", customer |-> None, asOf |-> 0, row |-> None, session |-> None]

TypeOK ==
    /\ now \in 0..MaxTime
    /\ customers \in Seq(Customer)
    /\ sessions \in Seq(Session)
    /\ customer \in Nat
    /\ attempts \in Seq(Attempt)
    /\ plus \in BOOLEAN
    /\ handed \subseteq DOMAIN sessions
    /\ webhook \in Seq({"none", "sent", "marked", "resent", "done"})
    /\ call \in [Calls -> CallRecord]
    /\ failures \in 0..MaxFailures
    /\ payments \in 0..MaxPayments

Init ==
    /\ now = 0
    /\ customers = <<>>
    /\ sessions = <<>>
    /\ customer = None
    /\ attempts = <<>>
    /\ plus = FALSE
    /\ handed = {}
    /\ webhook = <<>>
    /\ call = [c \in Calls |-> Idle]
    /\ failures = 0
    /\ payments = 0

-----------------------------------------------------------------------------
(* Stripe: a request repeated with a key it knows returns the first answer; *)
(* it forgets a key after StripeTtl.                                        *)

\* stripeCustomerIdempotencyKey: one key per user, and stripeCheckoutIdempotencyKey:
\* one key per attempt.
CustomerKey(c) == 1
CheckoutKey(c) == call[c].row

CustomersOf(k) == {i \in DOMAIN customers : customers[i].key = k /\ now < customers[i].expires}

CustomerMade(c, id) ==
    /\ IF CustomersOf(CustomerKey(c)) = {}
       THEN /\ customers' = Append(customers, [key |-> CustomerKey(c), expires |-> now + StripeTtl])
            /\ id = Len(customers')
       ELSE customers' = customers /\ id \in CustomersOf(CustomerKey(c))
    /\ UNCHANGED <<sessions, webhook>>

\* Stripe forgets a key when the session made with it expires.
SessionsOf(k) == {i \in DOMAIN sessions : sessions[i].key = k /\ now < sessions[i].expires}

SessionMade(c, id) ==
    /\ IF SessionsOf(CheckoutKey(c)) = {}
       THEN /\ sessions' = Append(sessions, [key |-> CheckoutKey(c), customer |-> call[c].customer,
                                             expires |-> now + StripeTtl, state |-> "open"])
            /\ webhook' = Append(webhook, "none")
            /\ id = Len(sessions')
       ELSE /\ id \in SessionsOf(CheckoutKey(c))
            /\ UNCHANGED <<sessions, webhook>>
    /\ UNCHANGED customers

Payable(s) == sessions[s].state = "open" /\ now < sessions[s].expires

\* The user pays on a page whose URL a call returned.
Pay(s) ==
    /\ s \in handed
    /\ Payable(s)
    /\ payments < MaxPayments
    /\ payments' = payments + 1
    /\ sessions' = [sessions EXCEPT ![s].state = "complete"]
    /\ webhook' = [webhook EXCEPT ![s] = "sent"]
    /\ UNCHANGED <<now, customers, customer, attempts, plus, handed, call, failures>>

StripeExpires(s) ==
    /\ sessions[s].state = "open"
    /\ ~Payable(s)
    /\ sessions' = [sessions EXCEPT ![s].state = "expired"]
    /\ webhook' = [webhook EXCEPT ![s] = "sent"]
    /\ UNCHANGED <<now, customers, customer, attempts, plus, handed, call, bounds>>

\* A call may straddle an expiry, but it does not last longer than a unit of the
\* clock, an hour: the server and the SDK give up on a request long before.
Timely(c) == call[c].at \in {"idle", "customer", "createCustomer", "insertCustomer", "expire"}
             \/ call[c].asOf = now

Tick ==
    /\ now < MaxTime
    /\ \A c \in Calls : Timely(c)
    /\ now' = now + 1
    /\ UNCHANGED <<stripe, customer, attempts, plus, handed, webhook, call, bounds>>

-----------------------------------------------------------------------------
(* The webhooks (checkout.session.completed and .expired).                 *)

MarkAttempt(s, status) ==
    attempts' = [r \in DOMAIN attempts |->
        IF attempts[r].session = s THEN [attempts[r] EXCEPT !.status = status] ELSE attempts[r]]

WebhookExpired(s) ==
    /\ webhook[s] = "sent"
    /\ sessions[s].state = "expired"
    /\ MarkAttempt(s, "EXPIRED")
    /\ webhook' = [webhook EXCEPT ![s] = "done"]
    /\ UNCHANGED <<now, stripe, customer, plus, handed, call, bounds>>

WebhookCompleted(s) ==
    /\ webhook[s] \in {"sent", "resent"}
    /\ sessions[s].state = "complete"
    /\ MarkAttempt(s, "COMPLETE")
    /\ webhook' = [webhook EXCEPT ![s] = "marked"]
    /\ UNCHANGED <<now, stripe, customer, plus, handed, call, bounds>>

\* The owner of the subscription is found by its customer, and by nothing else.
WebhookSyncs(s) ==
    /\ webhook[s] = "marked"
    /\ plus' = (plus \/ sessions[s].customer = customer)
    /\ webhook' = [webhook EXCEPT ![s] = "done"]
    /\ UNCHANGED <<now, stripe, customer, attempts, handed, call, bounds>>

\* retrieveSubscription fails, or the process dies: Stripe sends the event again.
WebhookFails(s) ==
    /\ webhook[s] = "marked"
    /\ failures < MaxFailures
    /\ failures' = failures + 1
    /\ webhook' = [webhook EXCEPT ![s] = "resent"]
    /\ UNCHANGED <<now, stripe, customer, attempts, plus, handed, call, payments>>

-----------------------------------------------------------------------------
(* createPlusCheckoutSession and getOrCreateStripeCustomer.                *)

Goto(c, at) == call' = [call EXCEPT ![c].at = at]

Return(c) == call' = [call EXCEPT ![c] = Idle]

Ask(c) ==
    /\ call[c].at = "idle"
    /\ ~plus
    /\ Goto(c, "customer")
    /\ UNCHANGED <<now, stripe, customer, attempts, plus, handed, webhook, bounds>>

FindCustomer(c) ==
    /\ call[c].at = "customer"
    /\ call' = [call EXCEPT ![c].customer = customer,
                            ![c].at = IF customer = None THEN "createCustomer" ELSE "expire"]
    /\ UNCHANGED <<now, stripe, customer, attempts, plus, handed, webhook, bounds>>

CreateCustomer(c) ==
    /\ call[c].at = "createCustomer"
    /\ \E id \in 1..Len(customers) + 1 :
          /\ CustomerMade(c, id)
          /\ call' = [call EXCEPT ![c].customer = id, ![c].at = "insertCustomer"]
    /\ UNCHANGED <<now, customer, attempts, plus, handed, bounds>>

\* When the unique index refuses the insert, the row that won is read: rows of
\* this table are never changed.
InsertCustomer_OwnId(c) ==
    /\ call[c].at = "insertCustomer"
    /\ customer' = IF customer = None THEN call[c].customer ELSE customer
    /\ Goto(c, "expire")
    /\ UNCHANGED <<now, stripe, attempts, plus, handed, webhook, bounds>>
InsertCustomer(c) ==
    /\ call[c].at = "insertCustomer"
    /\ customer' = IF customer = None THEN call[c].customer ELSE customer
    /\ call' = [call EXCEPT ![c].customer = customer', ![c].at = "expire"]
    /\ UNCHANGED <<now, stripe, attempts, plus, handed, webhook, bounds>>

-----------------------------------------------------------------------------
(* getOrCreateOpenCheckoutSession.                                         *)

ExpireStale(c) ==
    /\ call[c].at = "expire"
    /\ attempts' = [r \in DOMAIN attempts |->
          IF attempts[r].status = "OPEN" /\ attempts[r].expires <= now
          THEN [attempts[r] EXCEPT !.status = "EXPIRED"] ELSE attempts[r]]
    /\ call' = [call EXCEPT ![c].asOf = now, ![c].at = "find"]
    /\ UNCHANGED <<now, stripe, customer, plus, handed, webhook, bounds>>

\* findOpenCheckout: the newest of the rows it selects, or None.
OpenAttempts_Finished(c) == {r \in DOMAIN attempts :
    /\ attempts[r].status = "OPEN" /\ attempts[r].expires > call[c].asOf
    /\ attempts[r].session # None}
OpenAttempts(c) == {r \in DOMAIN attempts :
                       attempts[r].status = "OPEN" /\ attempts[r].expires > call[c].asOf}

Newest(rows) == CHOOSE r \in rows \cup {None} : \A q \in rows : q <= r

HandOut(c, s) ==
    /\ handed' = handed \cup {s}
    /\ Return(c)

\* A row with its session is returned as it is; an incomplete one goes to Stripe.
Reuse(c, r) ==
    IF attempts[r].session # None
    THEN HandOut(c, attempts[r].session)
    ELSE /\ call' = [call EXCEPT ![c].row = r, ![c].at = "createSession"]
         /\ UNCHANGED handed

FindOpen(c) ==
    /\ call[c].at = "find"
    /\ LET r == Newest(OpenAttempts(c)) IN
       IF r # None THEN Reuse(c, r) ELSE Goto(c, "claim") /\ UNCHANGED handed
    /\ UNCHANGED <<now, stripe, customer, attempts, plus, webhook, bounds>>

\* The partial unique index over the OPEN rows of a user, when row r is to be OPEN.
IndexAllows_Dropped(r) == TRUE
IndexAllows(r) == \A q \in DOMAIN attempts \ {r} : attempts[q].status # "OPEN"

Claim(c) ==
    /\ call[c].at = "claim"
    /\ LET r == Len(attempts) + 1 IN
       IF IndexAllows(r)
       THEN /\ attempts' = Append(attempts, [status |-> "OPEN", session |-> None,
                                             expires |-> call[c].asOf + Ttl])
            /\ call' = [call EXCEPT ![c].row = r, ![c].at = "createSession"]
       ELSE /\ Goto(c, "reread")
            /\ UNCHANGED attempts
    /\ UNCHANGED <<now, stripe, customer, plus, handed, webhook, bounds>>

\* The OPEN row that refused the insert; the error is thrown when it is gone.
Reread(c) ==
    /\ call[c].at = "reread"
    /\ LET r == Newest(OpenAttempts(c)) IN
       IF r # None THEN Reuse(c, r) ELSE Return(c) /\ UNCHANGED handed
    /\ UNCHANGED <<now, stripe, customer, attempts, plus, webhook, bounds>>

-----------------------------------------------------------------------------
(* attachStripeCheckoutToAttempt.                                          *)

CreateSession(c) ==
    /\ call[c].at = "createSession"
    /\ \E id \in 1..Len(sessions) + 1 :
          /\ SessionMade(c, id)
          /\ call' = [call EXCEPT ![c].session = id, ![c].at = "attach"]
    /\ UNCHANGED <<now, customer, attempts, plus, handed, bounds>>

\* isDefinitiveStripeBillingError: nothing was created.
CreateSessionRefused(c) ==
    /\ call[c].at = "createSession"
    /\ failures < MaxFailures
    /\ failures' = failures + 1
    /\ Goto(c, "cancel")
    /\ UNCHANGED <<now, stripe, customer, attempts, plus, handed, webhook, payments>>

Cancelable_WithSession(r) == attempts[r].status = "OPEN"
Cancelable(r) == attempts[r].status = "OPEN" /\ attempts[r].session = None

CancelAttempt(c) ==
    /\ call[c].at = "cancel"
    /\ attempts' = IF Cancelable(call[c].row)
                   THEN [attempts EXCEPT ![call[c].row].status = "CANCELED"]
                   ELSE attempts
    /\ Return(c)
    /\ UNCHANGED <<now, stripe, customer, plus, handed, webhook, bounds>>

\* The row is written by its id, whatever became of it since it was read.
Attach(c) ==
    /\ call[c].at = "attach"
    /\ LET r == call[c].row s == call[c].session IN
       IF IndexAllows(r)
       THEN /\ attempts' = [attempts EXCEPT ![r] = [status |-> "OPEN", session |-> s,
                                                    expires |-> sessions[s].expires]]
            /\ HandOut(c, s)
       ELSE /\ Return(c)
            /\ UNCHANGED <<attempts, handed>>
    /\ UNCHANGED <<now, stripe, customer, plus, webhook, bounds>>

-----------------------------------------------------------------------------
(* Failures.                                                               *)

Fails(c) ==
    /\ failures < MaxFailures
    /\ failures' = failures + 1
    /\ Return(c)
    /\ UNCHANGED <<now, customer, attempts, plus, handed, payments>>

\* A timeout: Stripe did what it was asked and the answer is lost.
LoseAnswer(c) ==
    /\ \/ call[c].at = "createCustomer" /\ \E id \in 1..Len(customers) + 1 : CustomerMade(c, id)
       \/ call[c].at = "createSession" /\ \E id \in 1..Len(sessions) + 1 : SessionMade(c, id)
    /\ Fails(c)

\* Also a request that never reached Stripe.
Die(c) ==
    /\ call[c].at # "idle"
    /\ Fails(c)
    /\ UNCHANGED <<stripe, webhook>>

CallStep(c) ==
    \/ FindCustomer(c) \/ CreateCustomer(c) \/ InsertCustomer(c)
    \/ ExpireStale(c) \/ FindOpen(c) \/ Claim(c) \/ Reread(c)
    \/ CreateSession(c) \/ CancelAttempt(c) \/ Attach(c)

WebhookStep(s) == WebhookExpired(s) \/ WebhookCompleted(s) \/ WebhookSyncs(s)

Next ==
    \/ Tick
    \/ \E c \in Calls : \/ Ask(c) \/ CallStep(c)
                        \/ CreateSessionRefused(c) \/ LoseAnswer(c) \/ Die(c)
    \/ \E s \in DOMAIN sessions :
          Pay(s) \/ StripeExpires(s) \/ WebhookStep(s) \/ WebhookFails(s)

Spec == Init /\ [][Next]_vars

\* A call runs on, the user asks again, and Stripe repeats an event until it is
\* acknowledged. Nobody has to pay and no failure has to stop.
Fairness ==
    /\ \A c \in Calls : WF_vars(Ask(c) \/ CallStep(c))
    /\ WF_vars(\E s \in DOMAIN sessions : WebhookStep(s))

FairSpec == Spec /\ Fairness

-----------------------------------------------------------------------------
(* Properties.                                                             *)

\* A session the user was sent to, until it expires or the end of it is recorded.
Live(s) ==
    /\ now < sessions[s].expires
    /\ webhook[s] \in {"none", "sent"}

\* As long as a page the user was sent to can be paid, or was paid and the webhook
\* has not come, an OPEN attempt holds it, so that asking again leads to the same
\* page: no retry, definitive error, expiry or late write of another call takes the
\* attempt away (getOrCreateOpenCheckoutSession).
LiveIsOpen ==
    \A s \in handed : Live(s) =>
        \E r \in DOMAIN attempts : attempts[r].status = "OPEN" /\ attempts[r].session = s

\* Two pages are never open for payment at the same time, however many calls run
\* and whichever of their answers were lost: a second page comes only after the
\* first expired or its payment was recorded (claimOpenCheckoutRow).
OneLiveCheckout ==
    \A s, t \in handed : Live(s) /\ Live(t) => s = t

\* What a user pays has an owner when the webhook looks it up: every session was made
\* for the customer in BillingCustomer, although calls that find no row make customers
\* of their own (one died between Stripe and the insert, and Stripe has forgotten the
\* key when the next one asks) and only one of them is written down
\* (getOrCreateStripeCustomer, syncStripeSubscription).
PaymentHasOwner ==
    \A s \in DOMAIN sessions : customer # None /\ sessions[s].customer = customer

\* A user who keeps asking is not left with an attempt that can neither be finished
\* nor replaced: again and again there is Plus or a page to pay on, although calls
\* die, time out or are refused (attachStripeCheckoutToAttempt).
AskingLeadsSomewhere ==
    []<>(plus \/ \E s \in handed : Payable(s))

(* The inductive invariant behind the safety properties.                   *)

\* A call that is past BillingCustomer means the customer of that row.
CustomerInv ==
    /\ customer \in DOMAIN customers \cup {None}
    /\ \A c \in Calls :
          /\ call[c].at = "insertCustomer" => call[c].customer \in DOMAIN customers
          /\ call[c].at \notin {"idle", "customer", "createCustomer", "insertCustomer"} =>
                customer # None /\ call[c].customer = customer
    /\ PaymentHasOwner

\* At any time the key of an attempt leads to one session.
SessionInv ==
    /\ DOMAIN webhook = DOMAIN sessions
    /\ \A s \in DOMAIN sessions : /\ sessions[s].key \in DOMAIN attempts
                                  /\ sessions[s].state = "open" => webhook[s] = "none"
    /\ \A s, t \in DOMAIN sessions :
          sessions[s].key = sessions[t].key /\ now < sessions[s].expires
              /\ now < sessions[t].expires => s = t

\* An attempt lasts as long as its session; until it has one it lasts less long than
\* any session its key may lead to.
AttemptInv ==
    \A r \in DOMAIN attempts :
        LET a == attempts[r] IN
        /\ a.session # None => /\ a.session \in DOMAIN sessions
                               /\ sessions[a.session].key = r
                               /\ sessions[a.session].expires = a.expires
        /\ a.session = None => /\ a.expires <= now + Ttl
                               /\ \A s \in DOMAIN sessions :
                                     sessions[s].key = r => a.expires < sessions[s].expires

\* The partial unique index.
OneOpen ==
    \A q, r \in DOMAIN attempts :
        attempts[q].status = "OPEN" /\ attempts[r].status = "OPEN" => q = r

\* A call that looked for an open attempt is as old as the clock, or a unit older: no
\* session expires between the request to Stripe and the write of its answer.
CallInv ==
    \A c \in Calls :
        LET k == call[c] IN
        /\ k.at \in {"find", "claim", "reread", "createSession", "attach", "cancel"} =>
              k.asOf <= now /\ now <= k.asOf + 1
        /\ k.at \in {"createSession", "attach", "cancel"} => k.row \in DOMAIN attempts
        /\ k.at \in {"createSession", "attach"} =>
              \A s \in DOMAIN sessions :
                  sessions[s].key = k.row => k.asOf + 2 <= sessions[s].expires
        /\ k.at = "attach" => k.session \in DOMAIN sessions /\ sessions[k.session].key = k.row

IInv ==
    /\ TypeOK
    /\ CustomerInv
    /\ SessionInv
    /\ AttemptInv
    /\ OneOpen
    /\ CallInv
    /\ LiveIsOpen

=============================================================================
