----------------------------- MODULE Negotiation -----------------------------
(***************************************************************************)
(* One purchase request, the offers sellers make on it, and the chats of   *)
(* the accepted ones, as OffersService, RequestsService and ChatsService   *)
(* keep them in Postgres.  Handlers of different requests never share a    *)
(* row here, so one request stands for all of them.                        *)
(*                                                                         *)
(* A handler runs in two phases: it READS rows and returns early when they *)
(* do not allow the operation, then it WRITES in a transaction (READ       *)
(* COMMITTED) or in separate statements.  Other handlers run in between.   *)
(* A call in flight is a record of `call`; its field `at` names the write  *)
(* it is about to make.  A crash may drop it there.                        *)
(***************************************************************************)
EXTENDS Naturals, FiniteSets

CONSTANTS
    Calls,     \* HTTP calls the API serves at the same time
    Offers,    \* rows of table Offer
    Sellers,   \* users who may make an offer
    None       \* no offer, seller or party

Parties == {"BUYER", "SELLER"}

ASSUME NoneAssumption == None \notin Offers \cup Sellers \cup Parties

VARIABLES
    request,   \* the row of table Request
    offer,     \* [Offers -> row]; status "NONE" before the insert
    call       \* [Calls -> call in flight]

vars == <<request, offer, call>>

RequestStatus == {"ACTIVA", "NEGOCIANDO", "CERRADA"}
OfferStatus == {"NONE", "PENDIENTE", "ACEPTADA", "RECHAZADA", "DELETED"}

\* `fresh`: less than the confirmation time has passed since the last activity
\* of the buyer (module RequestLifecycle refines it); `hidden` by moderation.
RequestRow == [status : RequestStatus, active : BOOLEAN, paused : BOOLEAN,
               fresh : BOOLEAN, hidden : BOOLEAN]

\* `deal`: dealCompletedAt is set.  `ended`: negotiationEndedBy, None while
\* negotiationEndedAt is null.  `gone`: who removed the offer from their list
\* (buyerDeletedAt, sellerDeletedAt, dismissedBySeller).
OfferRow == [status : OfferStatus, seller : Sellers \cup {None}, deal : BOOLEAN,
             ended : Parties \cup {None}, chat : BOOLEAN, gone : SUBSET Parties]

\* Before a write that is a transaction of its own, and between the writes of a
\* handler that makes several.
Writes == {"create", "accept", "reject", "rejected", "complete", "end", "ending",
           "hide", "close", "closing", "renew", "pause", "remove", "editAll", "editLimited",
           "send", "sent", "touched"}

\* What syncRequestNegotiationStatus decided to do to the status of the request.
Syncs == {"keep", "promote", "demote"}

\* `held`: the offers whose row lock the open transaction of the call holds; it
\* has ended their negotiations, which nobody sees before it commits.
CallRecord == [at : Writes \cup {"idle"}, offer : Offers \cup {None},
               by : Parties \cup {None}, seller : Sellers \cup {None}, sync : Syncs,
               held : SUBSET Offers]

NoCall == [at |-> "idle", offer |-> None, by |-> None, seller |-> None, sync |-> "keep",
           held |-> {}]

NoOffer == [status |-> "NONE", seller |-> None, deal |-> FALSE, ended |-> None,
            chat |-> FALSE, gone |-> {}]

TypeOK ==
    /\ request \in RequestRow
    /\ offer \in [Offers -> OfferRow]
    /\ call \in [Calls -> CallRecord]

Init ==
    /\ request = [status |-> "ACTIVA", active |-> TRUE, paused |-> FALSE,
                  fresh |-> TRUE, hidden |-> FALSE]
    /\ offer = [o \in Offers |-> NoOffer]
    /\ call = [c \in Calls |-> NoCall]

-----------------------------------------------------------------------------
(* Conditions the handlers test.                                           *)

Exists(o) == offer[o].status \notin {"NONE", "DELETED"}
Pending(o) == offer[o].status = "PENDIENTE"

\* The WHERE clause { ACEPTADA, dealCompletedAt: null, negotiationEndedAt: null }.
Negotiating(o) ==
    /\ offer[o].status = "ACEPTADA"
    /\ ~offer[o].deal
    /\ offer[o].ended = None

Closed == request.status = "CERRADA"

\* isOfferable: the effective status is ACTIVA or NEGOCIANDO.
Offerable ==
    /\ request.active
    /\ ~Closed
    /\ ~request.paused
    /\ request.fresh

HasOffered(s) == \E o \in Offers : Exists(o) /\ offer[o].seller = s

OtherDeal(o) == \E q \in Offers \ {o} : offer[q].deal

\* Unique index Offer(requestId, sellerId), at the moment of the insert.
InsertAllowed_NoIndex(s) == TRUE
InsertAllowed(s) == ~HasOffered(s)

\* Partial unique index Offer(requestId) WHERE dealCompletedAt IS NOT NULL, at
\* the moment of the update.
DealAllowed_NoIndex(o) == TRUE
DealAllowed(o) == ~OtherDeal(o)

\* An endNegotiation or a close holds the row lock of o.  Locks are taken in one
\* step here; RowLocks has them one by one, with that of the request, and what
\* waits for what.
Locked(o) == \E d \in Calls : o \in call[d].held

-----------------------------------------------------------------------------
(* The life of a call.                                                     *)

\* The reads allow the operation: the call goes on to the write `at`.
Begin(c, at, o, by, s) ==
    /\ call[c].at = "idle"
    /\ call' = [call EXCEPT ![c] = [at |-> at, offer |-> o, by |-> by,
                                    seller |-> s, sync |-> "keep", held |-> {}]]
    /\ UNCHANGED <<request, offer>>

Proceed(c, at) == call' = [call EXCEPT ![c].at = at]

Return(c) == call' = [call EXCEPT ![c] = NoCall]

\* The process dies: what is committed stays, an open transaction rolls back.
Crash(c) ==
    /\ call[c].at # "idle"
    /\ Return(c)
    /\ UNCHANGED <<request, offer>>

-----------------------------------------------------------------------------
(* OffersService.                                                          *)

ReadCreate(c, s) ==
    /\ Offerable
    /\ ~request.hidden
    /\ ~HasOffered(s)
    /\ \E o \in Offers : offer[o].status = "NONE"   \* bound: rows left to insert
    /\ Begin(c, "create", None, None, s)

NewOffer(s) == [NoOffer EXCEPT !.status = "PENDIENTE", !.seller = s]

\* The insert; a P2002 on the unique index ends the call with a conflict.
CreateOffer(c) ==
    /\ call[c].at = "create"
    /\ \/ /\ InsertAllowed(call[c].seller)
          /\ \E o \in Offers :
                /\ offer[o].status = "NONE"
                /\ offer' = [offer EXCEPT ![o] = NewOffer(call[c].seller)]
       \/ /\ ~InsertAllowed(call[c].seller)
          /\ UNCHANGED offer
    /\ Return(c)
    /\ UNCHANGED request

ReadAccept(c, o) ==
    /\ Exists(o)
    /\ request.active
    /\ Closed => offer[o].status = "ACEPTADA"
    /\ Begin(c, "accept", o, None, None)

AcceptMatches_AnyStatus(o) == Exists(o)
AcceptMatches(o) == Pending(o)

\* One transaction.  An offer already accepted is answered again, without
\* effect; one in any other status makes the transaction fail.
AcceptTx(c) ==
    LET o == call[c].offer IN
    /\ call[c].at = "accept"
    /\ \/ /\ AcceptMatches(o)
          /\ offer' = [offer EXCEPT ![o].status = "ACEPTADA", ![o].chat = TRUE]
          /\ request' = [request EXCEPT
                !.status = IF @ = "ACTIVA" THEN "NEGOCIANDO" ELSE @,
                !.fresh = TRUE]
       \/ /\ ~AcceptMatches(o)
          /\ UNCHANGED <<offer, request>>
    /\ Return(c)

ReadReject(c, o) == Exists(o) /\ Begin(c, "reject", o, None, None)

RejectMatches_AnyStatus(o) == Exists(o)
RejectMatches(o) == Pending(o)

\* No transaction: the activity of the buyer is a second statement.
RejectOffer(c) ==
    LET o == call[c].offer IN
    /\ call[c].at = "reject"
    /\ \/ /\ RejectMatches(o)
          /\ offer' = [offer EXCEPT ![o].status = "RECHAZADA"]
          /\ Proceed(c, "rejected")
       \/ /\ ~RejectMatches(o)
          /\ Return(c)
          /\ UNCHANGED offer
    /\ UNCHANGED request

RejectTouch(c) ==
    /\ call[c].at = "rejected"
    /\ request' = [request EXCEPT !.fresh = TRUE]
    /\ Return(c)
    /\ UNCHANGED offer

ReadComplete(c, o) ==
    /\ request.active
    /\ offer[o].status = "ACEPTADA"
    /\ offer[o].chat
    /\ ~offer[o].deal
    /\ offer[o].ended = None
    /\ ~OtherDeal(o)
    /\ ~Closed
    /\ Begin(c, "complete", o, None, None)

CompleteMatches_EndedToo(o) == offer[o].status = "ACEPTADA" /\ ~offer[o].deal
CompleteMatches(o) == Negotiating(o)

\* The request as complete() and close() leave it, whatever it was.
ClosedRow ==
    [request EXCEPT !.status = "CERRADA", !.paused = FALSE, !.fresh = TRUE]

\* One transaction, behind the row lock; P2002 on the partial index rolls back.
CompleteTx(c) ==
    LET o == call[c].offer IN
    /\ call[c].at = "complete"
    /\ ~Locked(o)
    /\ \/ /\ CompleteMatches(o)
          /\ DealAllowed(o)
          /\ offer' = [offer EXCEPT ![o].deal = TRUE]
          /\ request' = ClosedRow
       \/ /\ ~(CompleteMatches(o) /\ DealAllowed(o))
          /\ UNCHANGED <<offer, request>>
    /\ Return(c)

ReadEnd(c, o, by) ==
    /\ request.active
    /\ offer[o].status = "ACEPTADA"
    /\ ~offer[o].deal
    /\ offer[o].ended = None
    /\ Begin(c, "end", o, by, None)

EndMatches_DealToo(o) == offer[o].status = "ACEPTADA" /\ offer[o].ended = None
EndMatches(o) == Negotiating(o)

\* syncRequestNegotiationStatus counts what is committed, and its own write.
SyncDecision_OthersIgnored(o) ==
    IF request.active /\ request.status = "NEGOCIANDO" /\ ~request.paused
    THEN "demote" ELSE "keep"
SyncDecision(o) ==
    IF ~request.active \/ Closed THEN "keep"
    ELSE IF \E q \in Offers \ {o} : Negotiating(q) THEN "promote"
    ELSE IF request.status = "NEGOCIANDO" /\ ~request.paused THEN "demote"
    ELSE "keep"

\* The updateMany statements of the sync re-test the status when they run.
SyncedStatus_Blind(sync) ==
    IF sync = "promote" THEN "NEGOCIANDO"
    ELSE IF sync = "demote" THEN "ACTIVA" ELSE request.status
SyncedStatus(sync) ==
    IF sync = "promote" /\ request.status = "ACTIVA" THEN "NEGOCIANDO"
    ELSE IF sync = "demote" /\ request.status = "NEGOCIANDO" THEN "ACTIVA"
    ELSE request.status

\* The transaction takes the row lock and decides; nobody else sees its write.
EndTx(c) ==
    LET o == call[c].offer IN
    /\ call[c].at = "end"
    /\ ~Locked(o)
    /\ \/ /\ EndMatches(o)
          /\ call' = [call EXCEPT ![c] =
                [@ EXCEPT !.at = "ending", !.sync = SyncDecision(o), !.held = {o}]]
       \/ /\ ~EndMatches(o)
          /\ Return(c)
    /\ UNCHANGED <<request, offer>>

EndCommit(c) ==
    LET o == call[c].offer IN
    /\ call[c].at = "ending"
    /\ offer' = [offer EXCEPT ![o].ended = call[c].by, ![o].chat = TRUE]
    /\ request' = [request EXCEPT !.status = SyncedStatus(call[c].sync)]
    /\ Return(c)

\* removeFromListing, and dismiss, where it ends for a seller's rejected offer.
Removable_Any(o, by) == offer[o].status # "PENDIENTE" /\ Exists(o)
Removable(o, by) ==
    \/ offer[o].deal
    \/ offer[o].ended # None
    \/ offer[o].status = "RECHAZADA" /\ by = "SELLER"

ReadHide(c, o, by) ==
    /\ Exists(o)
    /\ Removable(o, by)
    /\ by \notin offer[o].gone
    /\ Begin(c, "hide", o, by, None)

HideOffer(c) ==
    LET o == call[c].offer IN
    /\ call[c].at = "hide"
    /\ offer' = [offer EXCEPT ![o].gone = IF Exists(o) THEN @ \cup {call[c].by} ELSE @]
    /\ Return(c)
    /\ UNCHANGED request

-----------------------------------------------------------------------------
(* RequestsService.                                                        *)

ReadClose(c) ==
    /\ request.active
    /\ ~Closed
    /\ Begin(c, "close", None, None, None)

\* The transaction waits for the row locks and ends what is under way.
CloseTx(c) ==
    /\ call[c].at = "close"
    /\ \A o \in Offers : Negotiating(o) => ~Locked(o)
    /\ call' = [call EXCEPT ![c] =
          [@ EXCEPT !.at = "closing", !.held = {o \in Offers : Negotiating(o)}]]
    /\ UNCHANGED <<request, offer>>

\* The offers as the updateMany of close() leaves them.
OffersEndedByBuyer_Kept(held) == offer
OffersEndedByBuyer(held) ==
    [o \in Offers |-> IF o \in held THEN [offer[o] EXCEPT !.ended = "BUYER"] ELSE offer[o]]

\* It closes the request and commits.  What was accepted meanwhile goes on.
CloseCommit(c) ==
    /\ call[c].at = "closing"
    /\ offer' = OffersEndedByBuyer(call[c].held)
    /\ request' = ClosedRow
    /\ Return(c)

ReadRenew(c) ==
    /\ request.active
    /\ ~Closed
    /\ Begin(c, "renew", None, None, None)

RenewRequest(c) ==
    /\ call[c].at = "renew"
    /\ request' = [request EXCEPT !.paused = FALSE, !.fresh = TRUE]
    /\ Return(c)
    /\ UNCHANGED offer

ReadPause(c) ==
    /\ request.active
    /\ ~Closed
    /\ ~request.paused
    /\ Begin(c, "pause", None, None, None)

PauseRequest(c) ==
    /\ call[c].at = "pause"
    /\ request' = [request EXCEPT !.paused = TRUE]
    /\ Return(c)
    /\ UNCHANGED offer

RemovalAllowed == Closed \/ \A o \in Offers : ~Negotiating(o)

ReadRemove(c) ==
    /\ RemovalAllowed
    /\ Begin(c, "remove", None, None, None)

RemoveRequest(c) ==
    /\ call[c].at = "remove"
    /\ request' = [request EXCEPT !.active = FALSE]
    /\ Return(c)
    /\ UNCHANGED offer

EditAllowed(limited) ==
    /\ request.active
    /\ request.status = "ACTIVA"
    /\ \A o \in Offers : ~Negotiating(o)
    /\ (\E o \in Offers : Pending(o)) => limited

ReadEdit(c, limited) ==
    /\ EditAllowed(limited)
    /\ Begin(c, IF limited THEN "editLimited" ELSE "editAll", None, None, None)

\* The fields themselves are left out; the edit counts as buyer activity.
EditRequest(c) ==
    /\ call[c].at \in {"editAll", "editLimited"}
    /\ request' = [request EXCEPT !.fresh = TRUE]
    /\ Return(c)
    /\ UNCHANGED offer

-----------------------------------------------------------------------------
(* ChatsService.send by the buyer: three statements after the reads.       *)

ReadSend(c, o) ==
    /\ offer[o].chat
    /\ offer[o].status = "ACEPTADA"
    /\ offer[o].ended = None
    /\ Begin(c, "send", o, None, None)

\* The message itself is left out.
SendMessage(c) ==
    /\ call[c].at = "send"
    /\ IF offer[call[c].offer].chat THEN Proceed(c, "sent") ELSE Return(c)
    /\ UNCHANGED <<request, offer>>

SendTouch(c) ==
    /\ call[c].at = "sent"
    /\ request' = [request EXCEPT !.fresh = TRUE]
    /\ Proceed(c, "touched")
    /\ UNCHANGED offer

PromotedStatus_Blind == "NEGOCIANDO"
PromotedStatus == IF request.status = "ACTIVA" THEN "NEGOCIANDO" ELSE request.status

SendPromote(c) ==
    /\ call[c].at = "touched"
    /\ request' = [request EXCEPT !.status = PromotedStatus]
    /\ Return(c)
    /\ UNCHANGED offer

-----------------------------------------------------------------------------

\* The buyer lets the confirmation time go by.
Age ==
    /\ request.fresh
    /\ request' = [request EXCEPT !.fresh = FALSE]
    /\ UNCHANGED <<offer, call>>

Read(c) ==
    \/ \E s \in Sellers : ReadCreate(c, s)
    \/ \E o \in Offers : \/ ReadAccept(c, o)
                         \/ ReadReject(c, o)
                         \/ ReadComplete(c, o)
                         \/ ReadSend(c, o)
    \/ \E o \in Offers, by \in Parties : ReadEnd(c, o, by) \/ ReadHide(c, o, by)
    \/ ReadClose(c)
    \/ ReadRenew(c)
    \/ ReadPause(c)
    \/ ReadRemove(c)
    \/ \E limited \in BOOLEAN : ReadEdit(c, limited)

Write(c) ==
    \/ CreateOffer(c)
    \/ AcceptTx(c)
    \/ RejectOffer(c)
    \/ RejectTouch(c)
    \/ CompleteTx(c)
    \/ EndTx(c)
    \/ EndCommit(c)
    \/ HideOffer(c)
    \/ CloseTx(c)
    \/ CloseCommit(c)
    \/ RenewRequest(c)
    \/ PauseRequest(c)
    \/ RemoveRequest(c)
    \/ EditRequest(c)
    \/ SendMessage(c)
    \/ SendTouch(c)
    \/ SendPromote(c)

Next ==
    \/ \E c \in Calls : Read(c) \/ Write(c) \/ Crash(c)
    \/ Age

Spec == Init /\ [][Next]_vars

-----------------------------------------------------------------------------
(* Safety.                                                                 *)

\* At most one offer of a request ends in a deal, however many completes race.
OneDeal ==
    \A o, q \in Offers : offer[o].deal /\ offer[q].deal => o = q

\* A negotiation ends in one way: by a deal or by one of the parties, never
\* both, and only after it was accepted.
DealXorEnded ==
    \A o \in Offers :
        offer[o].deal \/ offer[o].ended # None =>
            /\ offer[o].status = "ACEPTADA"
            /\ offer[o].chat
            /\ offer[o].deal => offer[o].ended = None

\* A request whose deal was struck is closed, whatever the calls that were in
\* flight at that moment go on to write.
DealClosesRequest ==
    (\E o \in Offers : offer[o].deal) => Closed

\* A seller has at most one offer on the request.
OneOfferPerSeller ==
    \A o, q \in Offers :
        Exists(o) /\ Exists(q) /\ offer[o].seller = offer[q].seller => o = q

\* Nobody's list loses an offer that still waits for something: one that is
\* pending, or in negotiation.
GoneOnlyWhenOver ==
    \A o \in Offers : offer[o].gone # {} => ~Pending(o) /\ ~Negotiating(o)

\* No call left over from an earlier state brings a closed request back.
ClosedIsFinal ==
    [][Closed => Closed']_vars

OutcomeKept(o) ==
    /\ offer[o].status \in {"ACEPTADA", "RECHAZADA"} => offer'[o].status = offer[o].status
    /\ offer[o].deal => offer'[o].deal
    /\ offer[o].ended # None => offer'[o].ended = offer[o].ended

\* The outcome of an offer is never rewritten: not accept by reject, nor the
\* party who ended the talks, nor a deal.
OutcomeIsFinal ==
    [][\A o \in Offers : OutcomeKept(o)]_vars

(* What the promises of module Deal look like in the rows.                 *)

Phase ==
    [o \in Offers |->
        IF offer[o].deal THEN "dealt"
        ELSE IF offer[o].ended # None THEN "ended"
        ELSE IF offer[o].status = "ACEPTADA" THEN "accepted"
        ELSE IF offer[o].status = "PENDIENTE" THEN "pending"
        ELSE IF offer[o].status = "RECHAZADA" THEN "rejected"
        ELSE "none"]

Deals == INSTANCE Deal WITH phase <- Phase, open <- ~Closed

\* The handlers implement the promise made in module Deal.
ImplementsDeal == Deals!Spec

(* The inductive invariant behind the safety properties.                   *)

\* A call about to write has the rows and the party its handler names.
CallTargets ==
    \A c \in Calls :
        /\ call[c].at \in {"accept", "reject", "rejected", "complete", "end", "ending",
                           "hide", "send", "sent", "touched"} => call[c].offer \in Offers
        /\ call[c].at \in {"end", "ending", "hide"} => call[c].by \in Parties
        /\ call[c].at = "create" => call[c].seller \in Sellers

\* What a call still knows, when it writes, of what it read.
CallReads ==
    \A c \in Calls :
        /\ call[c].at = "complete" => offer[call[c].offer].status = "ACEPTADA"
        /\ call[c].at = "hide" => Removable(call[c].offer, call[c].by)

\* A row lock is held by one open transaction, and keeps the negotiation under way.
LockInv ==
    /\ \A c \in Calls : \A o \in call[c].held : Negotiating(o)
    /\ \A c, d \in Calls : c # d => call[c].held \cap call[d].held = {}
    /\ \A c \in Calls : call[c].at = "ending" => call[c].offer \in call[c].held
    /\ \A c \in Calls : call[c].held # {} => call[c].at \in {"ending", "closing"}

\* An accepted offer has its chat, and only an accepted one has an outcome.
OfferInv ==
    \A o \in Offers :
        /\ offer[o].status = "ACEPTADA" => offer[o].chat
        /\ offer[o].deal \/ offer[o].ended # None => offer[o].status = "ACEPTADA"
        /\ offer[o].deal => offer[o].ended = None

\* What holds beside administrators too, who write without asking who reads.
CoreInv == TypeOK /\ CallTargets /\ LockInv /\ OfferInv

IInv ==
    /\ CoreInv
    /\ CallReads
    /\ OneDeal
    /\ DealClosesRequest
    /\ OneOfferPerSeller
    /\ GoneOnlyWhenOver
=============================================================================
