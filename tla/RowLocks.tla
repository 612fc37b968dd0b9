------------------------------ MODULE RowLocks ------------------------------
(***************************************************************************)
(* The row locks that the transactions on one request take in Postgres,    *)
(* one by one, and keep until they commit or roll back.  Negotiation is    *)
(* about what the transactions write and takes their locks in one step;    *)
(* here they wait for each other while they hold some.  What the rows say  *)
(* is left out: whether a WHERE clause matches is a choice.                *)
(*                                                                         *)
(* The rows of Chat and Message come last in every transaction, are of one *)
(* offer each, and are left out.                                           *)
(***************************************************************************)
EXTENDS Naturals, FiniteSets

CONSTANTS
    Calls,     \* HTTP calls the API serves at the same time
    Offers,    \* rows of table Offer of the request
    None       \* no row

Request == "request"    \* the row of table Request
DealEntry == "deal"     \* the entry of the request in the partial unique index
Rows == Offers \cup {Request, DealEntry}

ASSUME RowsAssumption == None \notin Rows /\ Offers \cap {Request, DealEntry} = {}

VARIABLE tx    \* [Calls -> the transaction of the call]

\* "update" is a statement on one row outside of a transaction, as reject(),
\* dismiss(), renew() or the touch of send() make it.
Kinds == {"idle", "accept", "complete", "end", "close", "erase", "update"}

\* `todo`: the rows it may still write; `wants`: the row it waits for.
Transaction == [kind : Kinds, todo : SUBSET Rows, wants : Rows \cup {None},
                holds : SUBSET Rows]

Idle == [kind |-> "idle", todo |-> {}, wants |-> None, holds |-> {}]

InFlight(c) == tx[c].kind # "idle"

LocksInit == tx = [c \in Calls |-> Idle]

-----------------------------------------------------------------------------
(* The transactions and the rows they are about.                           *)

Begin(c, kind, rows) ==
    /\ ~InFlight(c)
    /\ tx' = [tx EXCEPT ![c] = [Idle EXCEPT !.kind = kind, !.todo = rows]]

BeginAccept(c) == \E o \in Offers : Begin(c, "accept", {o, Request})
BeginComplete(c) == \E o \in Offers : Begin(c, "complete", {o, DealEntry, Request})
BeginEnd(c) == \E o \in Offers : Begin(c, "end", {o, Request})

\* Any offer of the request, if it is under way when the statement comes to it.
BeginClose(c) == Begin(c, "close", Offers \cup {Request})

\* AdminService.deleteRequest: the foreign key deletes the offers.
BeginErase(c) == Begin(c, "erase", Offers \cup {Request})

BeginUpdate(c) == \E r \in Offers \cup {Request} : Begin(c, "update", {r})

\* Mutants: complete() closes the request first, and close() does.
NextRows_CompleteClosesFirst(kind, todo) ==
    IF kind \in {"erase", "complete"} /\ Request \in todo THEN {Request}
    ELSE IF todo \cap Offers # {} THEN todo \cap Offers
    ELSE IF DealEntry \in todo THEN {DealEntry} ELSE todo
NextRows_CloseClosesFirst(kind, todo) ==
    IF kind \in {"erase", "close"} /\ Request \in todo THEN {Request}
    ELSE IF todo \cap Offers # {} THEN todo \cap Offers
    ELSE IF DealEntry \in todo THEN {DealEntry} ELSE todo

\* The order of the statements: the offers, in whatever order Postgres finds
\* them, and the index with the offer; the request after them.  A deletion
\* begins with the request.
NextRows(kind, todo) ==
    IF kind = "erase" /\ Request \in todo THEN {Request}
    ELSE IF todo \cap Offers # {} THEN todo \cap Offers
    ELSE IF DealEntry \in todo THEN {DealEntry} ELSE todo

-----------------------------------------------------------------------------
(* One statement after the other.                                          *)

Free(r) == \A d \in Calls : r \notin tx[d].holds

Ask(c) ==
    /\ tx[c].wants = None
    /\ \E r \in NextRows(tx[c].kind, tx[c].todo) : tx' = [tx EXCEPT ![c].wants = r]

\* The transaction of c once it need not wait for r any more.
Past(c, r) == [tx[c] EXCEPT !.todo = @ \ {r}, !.wants = None]

Obtain(c) ==
    LET r == tx[c].wants IN
    /\ r # None /\ Free(r)
    /\ tx' = [tx EXCEPT ![c] = [Past(c, r) EXCEPT !.holds = @ \cup {r}]]

\* The row does not match: when the statement begins, or, for one it waited for,
\* as another transaction left it.
Unmatched(c, r) ==
    \/ tx[c].wants = None /\ r \in NextRows(tx[c].kind, tx[c].todo)
    \/ tx[c].wants = r /\ r \in Rows /\ Free(r)

\* An updateMany of close(), the deletion and the sync of an end go on without it.
PassOver(c) ==
    \E r \in Rows :
        /\ Unmatched(c, r)
        /\ \/ tx[c].kind \in {"close", "erase"} /\ r \in Offers
           \/ tx[c].kind = "end" /\ r = Request
        /\ tx' = [tx EXCEPT ![c] = Past(c, r)]

\* An accept, a complete or an end of an offer that was decided by another, and
\* a second deal in the unique index, end the transaction.
GiveUp(c) ==
    /\ tx[c].kind \in {"accept", "complete", "end", "update"}
    /\ \E r \in Offers \cup {DealEntry} : Unmatched(c, r)
    /\ tx' = [tx EXCEPT ![c] = Idle]

Commit(c) ==
    /\ InFlight(c) /\ tx[c].todo = {}
    /\ tx' = [tx EXCEPT ![c] = Idle]

\* A statement fails, the process dies, Prisma gives up a transaction that takes
\* too long, or Postgres picks it as the victim of a deadlock.
RollBack(c) ==
    /\ InFlight(c)
    /\ tx' = [tx EXCEPT ![c] = Idle]

-----------------------------------------------------------------------------
Start(c) ==
    \/ BeginAccept(c)
    \/ BeginComplete(c)
    \/ BeginEnd(c)
    \/ BeginClose(c)
    \/ BeginErase(c)
    \/ BeginUpdate(c)

Go(c) ==
    \/ Ask(c)
    \/ Obtain(c)
    \/ PassOver(c)
    \/ GiveUp(c)
    \/ Commit(c)

LocksNext == \E c \in Calls : Start(c) \/ Go(c) \/ RollBack(c)

LocksSpec == LocksInit /\ [][LocksNext]_tx

\* Postgres runs every statement and grants a lock in the order it was asked
\* for.  Nothing is assumed of the users, nor of deaths, timeouts and the
\* detection of deadlocks.
LocksFairSpec == LocksSpec /\ \A c \in Calls : SF_tx(Go(c))

-----------------------------------------------------------------------------
LocksTypeOK == tx \in [Calls -> Transaction]

\* c waits for a lock that d holds.
Waits(c, d) == tx[c].wants # None /\ tx[c].wants \in tx[d].holds

\* Transactions of which each waits for another one of them: none can go on.
Ring(R) == R # {} /\ \A c \in R : \E d \in R : Waits(c, d)

\* Transactions never block each other, whatever they hold and wait for, unless
\* two closes of the request take its offers in opposite orders, or an
\* administrator deletes the request: accept, complete, endNegotiation and close
\* all take the request after the offers (offers.service.ts:436, 605, 722,
\* requests.service.ts:1105).
RingsNeedTwoCloses ==
    \A R \in SUBSET Calls : Ring(R) =>
        \/ \E c \in R : tx[c].kind = "erase"
        \/ \E c, d \in R : c # d /\ tx[c].kind = "close" /\ tx[d].kind = "close"

\* Two closes, or a deletion, are under way.
Exposed ==
    \/ \E c \in Calls : tx[c].kind = "erase"
    \/ \E c, d \in Calls : c # d /\ tx[c].kind = "close" /\ tx[d].kind = "close"

\* The calls are interchangeable: one stands for all.
Caller == CHOOSE c \in Calls : TRUE

\* Without them no call waits for ever, and none depends on the deadlock
\* detection of Postgres, whose victim answers with an error.
OrderIsEnough ==
    [](~Exposed) => (InFlight(Caller) ~> ~InFlight(Caller))

(* The inductive invariant behind it.                                      *)

\* A row is locked by one transaction.
Exclusive == \A c, d \in Calls : c # d => tx[c].holds \cap tx[d].holds = {}

\* What a transaction waits for while it holds something.
OrderInv ==
    \A c \in Calls :
        LET t == tx[c] IN
        /\ t.wants # None => t.wants \in NextRows(t.kind, t.todo)
        /\ t.holds \cap t.todo = {}
        /\ t.kind # "erase" /\ Request \in t.holds => t.todo = {}
        /\ DealEntry \in t.todo \cup t.holds => t.kind = "complete"
        /\ DealEntry \in t.holds => t.todo \subseteq {Request}
        /\ t.kind \notin {"close", "erase"} =>
              /\ t.todo \cap Offers # {} => t.holds = {}
              /\ \A o, q \in t.todo \cap Offers : o = q

LocksInv == LocksTypeOK /\ Exclusive /\ OrderInv
=============================================================================
