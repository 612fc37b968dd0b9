------------------------- MODULE NegotiationProofs -------------------------
(***************************************************************************)
(* Proofs about Negotiation, for any number of calls, offers and sellers,  *)
(* and about the modules over it: NegotiationAdmin keeps the core of its   *)
(* invariant, NegotiationOverlaps adds to it, and Deal is implemented.     *)
(***************************************************************************)
EXTENDS NegotiationAdmin, NegotiationOverlaps, TLAPS

(***************************************************************************)
(* Begin, Proceed and Return keep the table of calls well typed.           *)
(***************************************************************************)
LEMMA BeginType ==
    ASSUME TypeOK, NEW c \in Calls, NEW at \in Writes,
           NEW o \in Offers \cup {None}, NEW by \in Parties \cup {None},
           NEW s \in Sellers \cup {None}, Begin(c, at, o, by, s)
    PROVE  TypeOK'
  BY DEF TypeOK, Begin, CallRecord, Syncs

\* A call that returns, or whose process dies, keeps the type of `call`.
LEMMA ReturnType ==
    ASSUME TypeOK, NEW c \in Calls, Return(c)
    PROVE  call' \in [Calls -> CallRecord]
  BY DEF TypeOK, Return, NoCall, CallRecord, Syncs, Writes

\* A call that goes on to its next write keeps the type of `call`.
LEMMA ProceedType ==
    ASSUME TypeOK, NEW c \in Calls, NEW at \in Writes, Proceed(c, at)
    PROVE  call' \in [Calls -> CallRecord]
  BY DEF TypeOK, Proceed, CallRecord

(***************************************************************************)
(* A call in its read phase changes nothing but its own record.            *)
(***************************************************************************)
LEMMA ReadType ==
    ASSUME TypeOK, NEW c \in Calls, Read(c)
    PROVE  TypeOK'
<1> USE BeginType DEF Writes, Parties
<1>1. CASE \E s \in Sellers : ReadCreate(c, s)
  BY <1>1 DEF ReadCreate
<1>2. CASE \E o \in Offers : \/ ReadAccept(c, o) \/ ReadReject(c, o)
                             \/ ReadComplete(c, o) \/ ReadSend(c, o)
  BY <1>2 DEF ReadAccept, ReadReject, ReadComplete, ReadSend
<1>3. CASE \E o \in Offers, by \in Parties : ReadEnd(c, o, by) \/ ReadHide(c, o, by)
  BY <1>3 DEF ReadEnd, ReadHide
<1>4. CASE ReadClose(c) \/ ReadRenew(c) \/ ReadPause(c) \/ ReadRemove(c)
  BY <1>4 DEF ReadClose, ReadRenew, ReadPause, ReadRemove
<1>5. CASE \E limited \in BOOLEAN : ReadEdit(c, limited)
  BY <1>5 DEF ReadEdit
<1> QED
  BY <1>1, <1>2, <1>3, <1>4, <1>5 DEF Read

(***************************************************************************)
(* The invariant holds at the start.                                       *)
(***************************************************************************)
LEMMA InitInv == Init => IInv
  BY NoneAssumption
  DEF Init, IInv, CoreInv, TypeOK, RequestRow, RequestStatus, OfferRow, OfferStatus, Parties,
      CallRecord, Syncs, Writes, NoOffer, NoCall, CallTargets, CallReads, LockInv, OfferInv,
      OneDeal, DealClosesRequest, OneOfferPerSeller, GoneOnlyWhenOver,
      Exists, Pending, Negotiating, Closed

(***************************************************************************)
(* What a write does to the table of calls: it changes the record of its   *)
(* own call only, and leaves it at its next write or idle.                 *)
(***************************************************************************)
LEMMA WriteCalls ==
    ASSUME TypeOK, CallTargets, NEW c \in Calls, Write(c)
    PROVE  /\ call' \in [Calls -> CallRecord]
           /\ \A d \in Calls \ {c} : call'[d] = call[d]
           /\ \/ call'[c] = NoCall
              \/ /\ call[c].at \in {"reject", "send", "sent"}
                 /\ call'[c].at \in {"rejected", "sent", "touched"}
                 /\ call'[c].offer = call[c].offer
                 /\ call'[c].by = call[c].by
                 /\ call'[c].held = call[c].held
              \/ /\ EndTx(c)
                 /\ EndMatches(call[c].offer)
                 /\ call'[c].at = "ending"
                 /\ call'[c].offer = call[c].offer
                 /\ call'[c].by = call[c].by
                 /\ call'[c].held = {call[c].offer}
              \/ /\ CloseTx(c)
                 /\ call'[c].at = "closing"
                 /\ call'[c].held = {o \in Offers : Negotiating(o)}
<1>1. ASSUME Return(c)
      PROVE  /\ call' \in [Calls -> CallRecord]
             /\ \A d \in Calls \ {c} : call'[d] = call[d]
             /\ call'[c] = NoCall
  BY <1>1, ReturnType DEF Return, TypeOK
<1>2. ASSUME NEW at \in {"rejected", "sent", "touched"}, Proceed(c, at)
      PROVE  /\ call' \in [Calls -> CallRecord]
             /\ \A d \in Calls \ {c} : call'[d] = call[d]
             /\ call'[c].at = at
             /\ call'[c].offer = call[c].offer
             /\ call'[c].by = call[c].by
             /\ call'[c].held = call[c].held
  <2>1. at \in Writes
    BY DEF Writes
  <2> QED
    BY <1>2, <2>1, ProceedType DEF Proceed, TypeOK, CallRecord
<1>3. CASE CreateOffer(c) \/ AcceptTx(c) \/ CompleteTx(c) \/ EndCommit(c)
  BY <1>1, <1>3 DEF CreateOffer, AcceptTx, CompleteTx, EndCommit
<1>4. CASE HideOffer(c) \/ CloseCommit(c) \/ RenewRequest(c) \/ PauseRequest(c)
  BY <1>1, <1>4 DEF HideOffer, CloseCommit, RenewRequest, PauseRequest
<1>5. CASE RemoveRequest(c) \/ EditRequest(c) \/ RejectTouch(c) \/ SendPromote(c)
  BY <1>1, <1>5 DEF RemoveRequest, EditRequest, RejectTouch, SendPromote
<1>6. CASE RejectOffer(c)
  BY <1>1, <1>2, <1>6 DEF RejectOffer
<1>7. CASE SendMessage(c) \/ SendTouch(c)
  BY <1>1, <1>2, <1>7 DEF SendMessage, SendTouch
<1>8. CASE EndTx(c)
  <2>1. CASE Return(c)
    BY <1>1, <2>1
  <2>2. CASE /\ EndMatches(call[c].offer)
             /\ call' = [call EXCEPT ![c] =
                    [@ EXCEPT !.at = "ending", !.sync = SyncDecision(call[c].offer),
                              !.held = {call[c].offer}]]
    <3>1. SyncDecision(call[c].offer) \in Syncs
      BY DEF SyncDecision, Syncs
    <3>2. call[c].at = "end" /\ call[c] \in CallRecord
      BY <1>8 DEF EndTx, TypeOK
    <3>3. call[c].offer \in Offers
      BY <3>2 DEF CallTargets
    <3>4. [call[c] EXCEPT !.at = "ending", !.sync = SyncDecision(call[c].offer),
                          !.held = {call[c].offer}] \in CallRecord
      BY <3>1, <3>2, <3>3 DEF CallRecord, Writes
    <3> QED
      BY <1>8, <2>2, <3>2, <3>4 DEF TypeOK, CallRecord
  <2> QED
    BY <1>8, <2>1, <2>2 DEF EndTx
<1>9. CASE CloseTx(c)
  <2> DEFINE held == {o \in Offers : Negotiating(o)}
  <2>1. /\ call[c] \in CallRecord
        /\ call' = [call EXCEPT ![c] = [@ EXCEPT !.at = "closing", !.held = held]]
    BY <1>9 DEF CloseTx, TypeOK
  <2>2. [call[c] EXCEPT !.at = "closing", !.held = held] \in CallRecord
    BY <2>1 DEF CallRecord, Writes
  <2> QED
    BY <1>9, <2>1, <2>2 DEF TypeOK, CallRecord
<1> QED
  BY <1>3, <1>4, <1>5, <1>6, <1>7, <1>8, <1>9 DEF Write

(***************************************************************************)
(* What a write does to the rows: each one stays in its table's type, and  *)
(* a closed request stays closed.                                          *)
(***************************************************************************)
LEMMA WriteRows ==
    ASSUME CoreInv, NEW c \in Calls, Write(c)
    PROVE  /\ request' \in RequestRow
           /\ Closed => Closed'
           /\ offer' \in [Offers -> OfferRow]
<1> USE DEF CoreInv
<1> DEFINE o == call[c].offer
<1>1. CASE CreateOffer(c)
  <2>1. NewOffer(call[c].seller) \in OfferRow
    BY <1>1, NoneAssumption
    DEF CreateOffer, CallTargets, NewOffer, NoOffer, OfferRow, OfferStatus, Parties
  <2> QED
    BY <1>1, <2>1 DEF CreateOffer, TypeOK, Closed
<1>2. CASE AcceptTx(c)
  <2>1. o \in Offers
    BY <1>2 DEF AcceptTx, CallTargets
  <2>2. offer' \in [Offers -> OfferRow]
    BY <1>2, <2>1 DEF AcceptTx, TypeOK, OfferRow, OfferStatus
  <2>3. request' \in RequestRow /\ (Closed => Closed')
    BY <1>2 DEF AcceptTx, TypeOK, RequestRow, RequestStatus, Closed
  <2> QED
    BY <2>2, <2>3
<1>3. CASE RejectOffer(c)
  BY <1>3 DEF RejectOffer, TypeOK, OfferRow, OfferStatus, Closed
<1>4. CASE CompleteTx(c)
  <2>a. offer' = [offer EXCEPT ![o].deal = TRUE] \/ offer' = offer
    BY <1>4 DEF CompleteTx
  <2>b. o \in Offers
    BY <1>4 DEF CompleteTx, CallTargets
  <2>c. offer \in [Offers -> OfferRow]
    BY DEF TypeOK
  <2>d. [offer[o] EXCEPT !.deal = TRUE] \in OfferRow
    BY <2>b, <2>c DEF OfferRow
  <2>1. offer' \in [Offers -> OfferRow]
    <3> HIDE DEF CoreInv, o
    <3> QED
      BY <2>a, <2>b, <2>c, <2>d
  <2>2. request' \in RequestRow /\ (Closed => Closed')
    BY <1>4 DEF CompleteTx, ClosedRow, TypeOK, RequestRow, RequestStatus, Closed
  <2> QED
    BY <2>1, <2>2
<1>5. CASE EndCommit(c)
  <2>1. o \in Offers /\ call[c].by \in Parties
    BY <1>5 DEF EndCommit, CallTargets
  <2>2. offer' \in [Offers -> OfferRow]
    BY <1>5, <2>1 DEF EndCommit, TypeOK, OfferRow
  <2>3. request' \in RequestRow /\ (Closed => Closed')
    BY <1>5 DEF EndCommit, SyncedStatus, TypeOK, RequestRow, RequestStatus, Closed
  <2> QED
    BY <2>2, <2>3
<1>6. CASE HideOffer(c)
  <2>1. o \in Offers /\ call[c].by \in Parties
    BY <1>6 DEF HideOffer, CallTargets
  <2> QED
    BY <1>6, <2>1 DEF HideOffer, TypeOK, OfferRow, Closed
<1>7. CASE CloseCommit(c)
  <2>1. OffersEndedByBuyer(call[c].held) \in [Offers -> OfferRow]
    BY DEF OffersEndedByBuyer, TypeOK, OfferRow, Parties
  <2> QED
    BY <1>7, <2>1 DEF CloseCommit, ClosedRow, TypeOK, RequestRow, RequestStatus, Closed
<1>8. CASE RenewRequest(c) \/ PauseRequest(c) \/ RemoveRequest(c) \/ EditRequest(c)
  BY <1>8
  DEF RenewRequest, PauseRequest, RemoveRequest, EditRequest, TypeOK, RequestRow, Closed
<1>9. CASE RejectTouch(c) \/ SendTouch(c) \/ SendMessage(c) \/ EndTx(c) \/ CloseTx(c)
  BY <1>9 DEF RejectTouch, SendTouch, SendMessage, EndTx, CloseTx, TypeOK, RequestRow, Closed
<1>10. CASE SendPromote(c)
  BY <1>10 DEF SendPromote, PromotedStatus, TypeOK, RequestRow, RequestStatus, Closed
<1> QED
  BY <1>1, <1>2, <1>3, <1>4, <1>5, <1>6, <1>7, <1>8, <1>9, <1>10 DEF Write

(***************************************************************************)
(* The changes a write can make to the table of offers, one operator each. *)
(***************************************************************************)
RowInserted(c, o) ==
    /\ call[c].at = "create"
    /\ offer[o].status = "NONE"
    /\ InsertAllowed(call[c].seller)
    /\ offer' = [offer EXCEPT ![o] = NewOffer(call[c].seller)]

RowAccepted(o) ==
    /\ Pending(o)
    /\ offer' = [offer EXCEPT ![o].status = "ACEPTADA", ![o].chat = TRUE]

RowRejected(o) ==
    /\ Pending(o)
    /\ offer' = [offer EXCEPT ![o].status = "RECHAZADA"]

RowDealt(c, o) ==
    /\ call[c].at = "complete"
    /\ call[c].offer = o
    /\ ~Locked(o)
    /\ Negotiating(o)
    /\ DealAllowed(o)
    /\ offer' = [offer EXCEPT ![o].deal = TRUE]
    /\ Closed'

RowEnded(c, o) ==
    /\ call[c].at = "ending"
    /\ call[c].offer = o
    /\ call[c].by \in Parties
    /\ offer' = [offer EXCEPT ![o].ended = call[c].by, ![o].chat = TRUE]

RowHidden(c, o) ==
    /\ call[c].at = "hide"
    /\ call[c].offer = o
    /\ offer' = [offer EXCEPT ![o].gone = IF Exists(o) THEN @ \cup {call[c].by} ELSE @]

RowsClosed(c) ==
    /\ offer' = OffersEndedByBuyer(call[c].held)
    /\ Closed'

OneRow(c, o) ==
    \/ RowInserted(c, o) \/ RowAccepted(o) \/ RowRejected(o)
    \/ RowDealt(c, o) \/ RowEnded(c, o) \/ RowHidden(c, o)

\* A write leaves the offers alone, ends the negotiations a close holds, or
\* changes one offer in one of the ways of OneRow.
LEMMA WriteEffect ==
    ASSUME CoreInv, NEW c \in Calls, Write(c)
    PROVE  offer' = offer \/ RowsClosed(c) \/ \E o \in Offers : OneRow(c, o)
<1> USE DEF CoreInv
<1> DEFINE o == call[c].offer
<1>1. CASE CreateOffer(c)
  BY <1>1 DEF CreateOffer, OneRow, RowInserted
<1>2. CASE AcceptTx(c)
  <2>1. o \in Offers
    BY <1>2 DEF AcceptTx, CallTargets
  <2> QED
    BY <1>2, <2>1 DEF AcceptTx, AcceptMatches, OneRow, RowAccepted
<1>3. CASE RejectOffer(c)
  <2>1. o \in Offers
    BY <1>3 DEF RejectOffer, CallTargets
  <2> QED
    BY <1>3, <2>1 DEF RejectOffer, RejectMatches, OneRow, RowRejected
<1>4. CASE CompleteTx(c)
  <2>1. o \in Offers
    BY <1>4 DEF CompleteTx, CallTargets
  <2>2. request' = ClosedRow => Closed'
    BY DEF ClosedRow, Closed, TypeOK, RequestRow
  <2> QED
    BY <1>4, <2>1, <2>2 DEF CompleteTx, CompleteMatches, OneRow, RowDealt
<1>5. CASE EndCommit(c)
  <2>1. o \in Offers /\ call[c].by \in Parties
    BY <1>5 DEF EndCommit, CallTargets
  <2> QED
    BY <1>5, <2>1 DEF EndCommit, OneRow, RowEnded
<1>6. CASE HideOffer(c)
  <2>1. o \in Offers
    BY <1>6 DEF HideOffer, CallTargets
  <2> QED
    BY <1>6, <2>1 DEF HideOffer, OneRow, RowHidden
<1>7. CASE CloseCommit(c)
  <2>1. Closed'
    BY <1>7 DEF CloseCommit, ClosedRow, Closed, TypeOK, RequestRow
  <2> QED
    BY <1>7, <2>1 DEF CloseCommit, RowsClosed
<1>8. CASE RenewRequest(c) \/ PauseRequest(c) \/ RemoveRequest(c) \/ EditRequest(c)
  BY <1>8 DEF RenewRequest, PauseRequest, RemoveRequest, EditRequest
<1>9. CASE \/ RejectTouch(c) \/ EndTx(c) \/ CloseTx(c) \/ SendMessage(c) \/ SendTouch(c)
           \/ SendPromote(c)
  BY <1>9 DEF RejectTouch, EndTx, CloseTx, SendMessage, SendTouch, SendPromote
<1> QED
  BY <1>1, <1>2, <1>3, <1>4, <1>5, <1>6, <1>7, <1>8, <1>9 DEF Write

(***************************************************************************)
(* What the changes have in common: no row loses its outcome.              *)
(***************************************************************************)
LEMMA EffectKeepsOutcome ==
    ASSUME CoreInv, NEW c \in Calls,
           offer' = offer \/ RowsClosed(c) \/ \E o \in Offers : OneRow(c, o),
           NEW q \in Offers
    PROVE  OutcomeKept(q)
<1> USE DEF CoreInv, OutcomeKept
<1>1. CASE offer' = offer
  BY <1>1
<1>2. CASE RowsClosed(c)
  BY <1>2 DEF RowsClosed, OffersEndedByBuyer, LockInv, Negotiating, TypeOK, OfferRow
<1>3. ASSUME NEW o \in Offers, OneRow(c, o)
      PROVE  OutcomeKept(q)
  <2> USE DEF TypeOK, OfferRow
  <2>1. CASE RowInserted(c, o)
    BY <2>1, NoneAssumption DEF RowInserted, OfferInv, NewOffer, NoOffer
  <2>2. CASE RowAccepted(o)
    BY <2>2 DEF RowAccepted, Pending
  <2>3. CASE RowRejected(o)
    BY <2>3 DEF RowRejected, Pending
  <2>4. CASE RowDealt(c, o)
    BY <2>4 DEF RowDealt
  <2>5. CASE RowEnded(c, o)
    BY <2>5 DEF RowEnded, LockInv, Negotiating
  <2>6. CASE RowHidden(c, o)
    BY <2>6 DEF RowHidden
  <2> QED
    BY <1>3, <2>1, <2>2, <2>3, <2>4, <2>5, <2>6 DEF OneRow
<1> QED
  BY <1>1, <1>2, <1>3

\* What the changes do to the chats and the outcomes.
LEMMA EffectKeepsOffers ==
    ASSUME CoreInv, NEW c \in Calls, offer' \in [Offers -> OfferRow],
           offer' = offer \/ RowsClosed(c) \/ \E o \in Offers : OneRow(c, o)
    PROVE  OfferInv'
<1> USE DEF CoreInv, TypeOK, OfferRow
<1>1. CASE offer' = offer
  BY <1>1 DEF OfferInv
<1>2. CASE RowsClosed(c)
  <2>1. \A q \in Offers :
           /\ offer'[q] = IF q \in call[c].held THEN [offer[q] EXCEPT !.ended = "BUYER"]
                                                 ELSE offer[q]
           /\ q \in call[c].held => Negotiating(q)
    BY <1>2 DEF RowsClosed, OffersEndedByBuyer, LockInv
  <2> QED
    BY <2>1 DEF OfferInv, Negotiating
<1>3. ASSUME NEW o \in Offers, OneRow(c, o)
      PROVE  OfferInv'
  <2>0. \A q \in Offers : q # o => offer'[q] = offer[q]
    BY <1>3 DEF OneRow, RowInserted, RowAccepted, RowRejected, RowDealt, RowEnded, RowHidden
  <2>1. CASE RowInserted(c, o)
    BY <2>0, <2>1 DEF RowInserted, NewOffer, NoOffer, OfferInv
  <2>2. CASE RowAccepted(o) \/ RowRejected(o)
    BY <2>0, <2>2 DEF RowAccepted, RowRejected, Pending, OfferInv
  <2>3. CASE RowDealt(c, o)
    BY <2>0, <2>3 DEF RowDealt, Negotiating, OfferInv
  <2>4. CASE RowEnded(c, o)
    <3>1. Negotiating(o)
      BY <2>4 DEF RowEnded, LockInv
    <3> QED
      BY <2>0, <2>4, <3>1 DEF RowEnded, Negotiating, OfferInv
  <2>5. CASE RowHidden(c, o)
    BY <2>0, <2>5 DEF RowHidden, OfferInv
  <2> QED
    BY <1>3, <2>1, <2>2, <2>3, <2>4, <2>5 DEF OneRow
<1> QED
  BY <1>1, <1>2, <1>3

(***************************************************************************)
(* The conjuncts of IInv that speak of the offers alone.                   *)
(***************************************************************************)
LEMMA EffectOfferInv ==
    ASSUME IInv, NEW c \in Calls, offer' \in [Offers -> OfferRow],
           offer' = offer \/ RowsClosed(c) \/ \E o \in Offers : OneRow(c, o)
    PROVE  OneDeal' /\ OneOfferPerSeller' /\ GoneOnlyWhenOver'
<1> USE DEF IInv, CoreInv
<1>1. CASE offer' = offer
  BY <1>1 DEF OneDeal, OneOfferPerSeller, GoneOnlyWhenOver, Exists, Pending,
              Negotiating
<1>2. CASE RowsClosed(c)
  <2>1. \A q \in Offers :
           /\ offer'[q] = IF q \in call[c].held THEN [offer[q] EXCEPT !.ended = "BUYER"]
                                                 ELSE offer[q]
           /\ q \in call[c].held => Negotiating(q)
    BY <1>2 DEF RowsClosed, OffersEndedByBuyer, LockInv
  <2>2. \A q \in Offers : /\ offer'[q].deal = offer[q].deal
                          /\ offer'[q].status = offer[q].status
                          /\ offer'[q].seller = offer[q].seller
    BY <2>1 DEF TypeOK, OfferRow
  <2>4. OneDeal' /\ OneOfferPerSeller'
    BY <2>2 DEF OneDeal, OneOfferPerSeller, Exists
  <2>5. GoneOnlyWhenOver'
    BY <2>1 DEF GoneOnlyWhenOver, Pending, Negotiating, TypeOK, OfferRow
  <2> QED
    BY <2>4, <2>5
<1>3. ASSUME NEW o \in Offers, OneRow(c, o)
      PROVE  OneDeal' /\ OneOfferPerSeller' /\ GoneOnlyWhenOver'
  <2> USE DEF TypeOK, OfferRow
  <2>0. \A q \in Offers : q # o => offer'[q] = offer[q]
    BY <1>3 DEF OneRow, RowInserted, RowAccepted, RowRejected, RowDealt, RowEnded, RowHidden
  <2>1. CASE RowInserted(c, o)
    <3>1. offer'[o] = NewOffer(call[c].seller)
      BY <2>1 DEF RowInserted
    <3>2. /\ offer'[o].status = "PENDIENTE"
          /\ offer'[o].ended = None
          /\ ~offer'[o].deal
          /\ offer'[o].gone = {}
      BY <3>1 DEF NewOffer, NoOffer
    <3>4. OneDeal' /\ GoneOnlyWhenOver'
      BY <2>0, <3>2 DEF OneDeal, GoneOnlyWhenOver, Pending, Negotiating
    <3>3. OneOfferPerSeller'
      BY <2>0, <2>1, <3>1
      DEF OneOfferPerSeller, Exists, RowInserted, InsertAllowed, HasOffered, NewOffer, NoOffer
    <3> QED
      BY <3>3, <3>4
  <2>2. CASE RowAccepted(o) \/ RowRejected(o)
    <3>1. /\ Pending(o)
          /\ offer'[o].status \in {"ACEPTADA", "RECHAZADA"}
          /\ offer'[o].status = "ACEPTADA" => offer'[o].chat
          /\ offer'[o].deal = offer[o].deal
          /\ offer'[o].ended = offer[o].ended
          /\ offer'[o].gone = offer[o].gone
          /\ offer'[o].seller = offer[o].seller
      BY <2>2 DEF RowAccepted, RowRejected
    <3> QED
      BY <2>0, <3>1 DEF OneDeal, OneOfferPerSeller, GoneOnlyWhenOver, Exists,
                        Pending, Negotiating
  <2>3. CASE RowDealt(c, o)
    <3>1. /\ Negotiating(o)
          /\ offer'[o].deal
          /\ offer'[o].status = offer[o].status
          /\ offer'[o].chat = offer[o].chat
          /\ offer'[o].ended = offer[o].ended
          /\ offer'[o].gone = offer[o].gone
          /\ offer'[o].seller = offer[o].seller
      BY <2>3 DEF RowDealt
    <3>2. \A q \in Offers \ {o} : ~offer[q].deal
      BY <2>3 DEF RowDealt, DealAllowed, OtherDeal
    <3>4. OneDeal' /\ OneOfferPerSeller'
      BY <2>0, <3>1, <3>2 DEF OneDeal, OneOfferPerSeller, Exists
    <3>5. GoneOnlyWhenOver'
      BY <2>0, <3>1, <3>2 DEF GoneOnlyWhenOver, Pending, Negotiating
    <3> QED
      BY <3>4, <3>5
  <2>4. CASE RowEnded(c, o)
    <3>1. Negotiating(o)
      BY <2>4 DEF RowEnded, LockInv
    <3>2. /\ offer'[o].ended = call[c].by
          /\ offer'[o].chat
          /\ offer'[o].status = offer[o].status
          /\ offer'[o].deal = offer[o].deal
          /\ offer'[o].gone = offer[o].gone
          /\ offer'[o].seller = offer[o].seller
      BY <2>4 DEF RowEnded
    <3>4. OneDeal' /\ OneOfferPerSeller'
      BY <2>0, <3>1, <3>2 DEF OneDeal, OneOfferPerSeller, Exists
    <3>5. GoneOnlyWhenOver'
      BY <2>0, <3>1, <3>2 DEF GoneOnlyWhenOver, Pending, Negotiating
    <3> QED
      BY <3>4, <3>5
  <2>5. CASE RowHidden(c, o)
    <3>1. ~Pending(o) /\ ~Negotiating(o)
      BY <2>5 DEF RowHidden, CallReads, Removable, Pending, Negotiating, OfferInv
    <3>2. /\ offer'[o].ended = offer[o].ended
          /\ offer'[o].chat = offer[o].chat
          /\ offer'[o].status = offer[o].status
          /\ offer'[o].deal = offer[o].deal
          /\ offer'[o].seller = offer[o].seller
      BY <2>5 DEF RowHidden
    <3>4. OneDeal' /\ OneOfferPerSeller'
      BY <2>0, <3>1, <3>2 DEF OneDeal, OneOfferPerSeller, Exists
    <3>5. GoneOnlyWhenOver'
      BY <2>0, <3>1, <3>2 DEF GoneOnlyWhenOver, Pending, Negotiating
    <3> QED
      BY <3>4, <3>5
  <2> QED
    BY <1>3, <2>1, <2>2, <2>3, <2>4, <2>5 DEF OneRow
<1> QED
  BY <1>1, <1>2, <1>3

(***************************************************************************)
(* The conjuncts of IInv that relate the calls to the offers.              *)
(***************************************************************************)
LEMMA WriteCallTargets ==
    ASSUME CoreInv, NEW c \in Calls, Write(c)
    PROVE  CallTargets'
<1> USE DEF CoreInv
<1>1. ASSUME NEW d \in Calls, d # c
      PROVE  call'[d] = call[d]
  BY <1>1, WriteCalls
<1>2. \/ call'[c] = NoCall
      \/ call'[c].at = "closing"
      \/ /\ call'[c].at \in {"rejected", "sent", "touched", "ending"}
         /\ call'[c].offer = call[c].offer
         /\ call'[c].by = call[c].by
         /\ call[c].at \in {"reject", "send", "sent", "end"}
         /\ call'[c].at = "ending" => call[c].at = "end"
  BY WriteCalls DEF EndTx
<1> QED
  BY <1>1, <1>2 DEF CallTargets, NoCall

\* What a call has read of an outcome stays true, for outcomes stay.
LEMMA WriteCallReads ==
    ASSUME IInv, NEW c \in Calls, Write(c)
    PROVE  CallReads'
<1> USE DEF IInv, CoreInv
<1>1. \A q \in Offers : OutcomeKept(q)
  BY WriteEffect, EffectKeepsOutcome
<1>2. ASSUME NEW d \in Calls, d # c,
             call[d].at \in {"complete", "hide"}
      PROVE  /\ call[d].at = "complete" => offer'[call[d].offer].status = "ACEPTADA"
             /\ call[d].at = "hide" => Removable(call[d].offer, call[d].by)'
  <2>1. call[d].offer \in Offers /\ call'[d] = call[d]
    BY <1>2, WriteCalls DEF CallTargets
  <2>2. CASE call[d].at = "complete"
    BY <1>1, <2>1, <2>2 DEF CallReads, OutcomeKept
  <2>3. CASE call[d].at = "hide"
    BY <1>1, <2>1, <2>3, NoneAssumption DEF CallReads, OutcomeKept, Removable
  <2> QED
    BY <1>2, <2>2, <2>3
<1>3. ASSUME NEW d \in Calls, d # c
      PROVE  call'[d] = call[d]
  BY <1>3, WriteCalls
<1>4. call'[c].at \notin {"complete", "hide"}
  BY WriteCalls DEF NoCall
<1> QED
  BY <1>2, <1>3, <1>4 DEF CallReads

\* What another call holds, a write leaves under negotiation.
LEMMA HeldStays ==
    ASSUME CoreInv, NEW c \in Calls, Write(c), NEW d \in Calls, d # c,
           NEW q \in call[d].held
    PROVE  q \in Offers /\ Negotiating(q)'
<1> USE DEF CoreInv
<1>1. q \in Offers /\ Negotiating(q) /\ Locked(q) /\ q \notin call[c].held
  BY DEF LockInv, Locked, TypeOK, CallRecord
<1>2. offer'[q].status = offer[q].status /\ offer'[q].deal = offer[q].deal
      /\ offer'[q].ended = offer[q].ended
  <2> USE DEF TypeOK, OfferRow
  <2>1. CASE offer' = offer
    BY <2>1
  <2>2. CASE RowsClosed(c)
    BY <1>1, <2>2 DEF RowsClosed, OffersEndedByBuyer
  <2>3. ASSUME NEW o \in Offers, OneRow(c, o)
        PROVE  /\ offer'[q].status = offer[q].status
               /\ offer'[q].deal = offer[q].deal
               /\ offer'[q].ended = offer[q].ended
    <3>1. CASE o # q
      BY <1>1, <2>3, <3>1 DEF OneRow, RowInserted, RowAccepted, RowRejected, RowDealt,
                              RowEnded, RowHidden
    <3>2. CASE o = q /\ RowEnded(c, o)
      BY <1>1, <3>2 DEF RowEnded, LockInv
    <3>3. CASE o = q /\ RowHidden(c, o)
      BY <1>1, <3>3 DEF RowHidden
    <3>4. CASE o = q /\ ~RowEnded(c, o) /\ ~RowHidden(c, o)
      BY <1>1, <2>3, <3>4 DEF OneRow, RowInserted, RowAccepted, RowRejected, RowDealt,
                              Negotiating, Pending
    <3> QED
      BY <3>1, <3>2, <3>3, <3>4
  <2> QED
    BY <2>1, <2>2, <2>3, WriteEffect
<1> QED
  BY <1>1, <1>2 DEF Negotiating

\* What the call of a write holds afterwards: nothing, or rows that were free
\* and are under negotiation.
LEMMA HeldTaken ==
    ASSUME CoreInv, NEW c \in Calls, Write(c)
    PROVE  /\ \A q \in call'[c].held : q \in Offers /\ ~Locked(q) /\ Negotiating(q)'
           /\ call'[c].at = "ending" => call'[c].offer \in call'[c].held
           /\ call'[c].held # {} => call'[c].at \in {"ending", "closing"}
<1> USE DEF CoreInv
<1>1. CASE call'[c] = NoCall
  BY <1>1 DEF NoCall
<1>2. CASE /\ call[c].at \in {"reject", "send", "sent"}
           /\ call'[c].at \in {"rejected", "sent", "touched"}
           /\ call'[c].held = call[c].held
  BY <1>2 DEF LockInv
<1>3. CASE /\ EndTx(c)
           /\ EndMatches(call[c].offer)
           /\ call'[c].at = "ending"
           /\ call'[c].offer = call[c].offer
           /\ call'[c].held = {call[c].offer}
  BY <1>3 DEF EndTx, EndMatches, Negotiating, CallTargets
<1>4. CASE /\ CloseTx(c)
           /\ call'[c].at = "closing"
           /\ call'[c].held = {o \in Offers : Negotiating(o)}
  BY <1>4 DEF CloseTx, Negotiating
<1> QED
  BY <1>1, <1>2, <1>3, <1>4, WriteCalls

\* After a write, a row lock still has one holder, and its row a negotiation.
LEMMA WriteLockInv ==
    ASSUME CoreInv, NEW c \in Calls, Write(c)
    PROVE  LockInv'
<1> USE DEF CoreInv
<1>1. ASSUME NEW d \in Calls, d # c
      PROVE  call'[d] = call[d]
  BY <1>1, WriteCalls
<1>2. \A d \in Calls : \A q \in call'[d].held : Negotiating(q)'
  BY <1>1, HeldStays, HeldTaken
<1>3. ASSUME NEW d \in Calls, NEW e \in Calls, d # e
      PROVE  call'[d].held \cap call'[e].held = {}
  <2>1. CASE d # c /\ e # c
    BY <1>1, <1>3, <2>1 DEF LockInv
  <2>2. CASE d = c \/ e = c
    BY <1>1, <1>3, <2>2, HeldTaken DEF Locked
  <2> QED
    BY <2>1, <2>2
<1>4. ASSUME NEW d \in Calls
      PROVE  /\ call'[d].at = "ending" => call'[d].offer \in call'[d].held
             /\ call'[d].held # {} => call'[d].at \in {"ending", "closing"}
  BY <1>1, HeldTaken DEF LockInv
<1> QED
  BY <1>2, <1>3, <1>4 DEF LockInv

(***************************************************************************)
(* Only a deal and the close of the request close it.                      *)
(***************************************************************************)
LEMMA WriteCloses ==
    ASSUME CoreInv, NEW c \in Calls, Write(c), ~Closed, Closed'
    PROVE  RowsClosed(c) \/ \E o \in Offers : RowDealt(c, o)
<1> USE DEF CoreInv
<1>1. CASE CompleteTx(c)
  <2>1. call[c].offer \in Offers
    BY <1>1 DEF CompleteTx, CallTargets
  <2> QED
    BY <1>1, <2>1 DEF CompleteTx, CompleteMatches, RowDealt, Closed
<1>2. CASE CloseCommit(c)
  BY <1>2 DEF CloseCommit, RowsClosed
<1>3. CASE \/ CreateOffer(c) \/ RejectOffer(c) \/ HideOffer(c) \/ EndTx(c) \/ CloseTx(c)
           \/ SendMessage(c)
  BY <1>3 DEF CreateOffer, RejectOffer, HideOffer, EndTx, CloseTx, SendMessage, Closed
<1>4. CASE AcceptTx(c)
  BY <1>4 DEF AcceptTx, TypeOK, RequestRow, Closed
<1>5. CASE EndCommit(c) \/ SendPromote(c)
  BY <1>5 DEF EndCommit, SendPromote, SyncedStatus, PromotedStatus, TypeOK, RequestRow,
              Closed
<1>6. CASE \/ RejectTouch(c) \/ RenewRequest(c) \/ PauseRequest(c) \/ RemoveRequest(c)
           \/ EditRequest(c) \/ SendTouch(c)
  BY <1>6 DEF RejectTouch, RenewRequest, PauseRequest, RemoveRequest, EditRequest,
              SendTouch, TypeOK, RequestRow, Closed
<1> QED
  BY <1>1, <1>2, <1>3, <1>4, <1>5, <1>6 DEF Write

\* After a write, a request with a deal is closed: a deal is struck and the
\* request closed in one transaction.
LEMMA WriteDealCloses ==
    ASSUME IInv, NEW c \in Calls, Write(c)
    PROVE  DealClosesRequest'
<1> USE DEF IInv, CoreInv
<1>1. ASSUME NEW q \in Offers, offer'[q].deal
      PROVE  offer[q].deal \/ Closed'
  <2> USE DEF TypeOK, OfferRow
  <2>1. CASE offer' = offer
    BY <1>1, <2>1
  <2>2. CASE RowsClosed(c)
    BY <2>2 DEF RowsClosed
  <2>3. ASSUME NEW o \in Offers, OneRow(c, o)
        PROVE  offer[q].deal \/ Closed'
    <3>1. CASE RowInserted(c, o)
      BY <1>1, <3>1 DEF RowInserted, NewOffer, NoOffer
    <3>2. CASE RowDealt(c, o)
      BY <3>2 DEF RowDealt
    <3>3. CASE RowAccepted(o) \/ RowRejected(o) \/ RowEnded(c, o) \/ RowHidden(c, o)
      BY <1>1, <3>3 DEF RowAccepted, RowRejected, RowEnded, RowHidden
    <3> QED
      BY <2>3, <3>1, <3>2, <3>3 DEF OneRow
  <2> QED
    BY <2>1, <2>2, <2>3, WriteEffect
<1>2. Closed => Closed'
  BY WriteRows
<1> QED
  BY <1>1, <1>2 DEF DealClosesRequest

(***************************************************************************)
(* What a call knows at the end of its reads, and what the start of a call *)
(* or its loss does to the invariant: nothing.                             *)
(***************************************************************************)
Knows(r) ==
    /\ r.at \notin {"ending", "closing"}
    /\ r.held = {}
    /\ r.at \in {"accept", "reject", "rejected", "complete", "end", "hide", "send",
                 "sent", "touched"} => r.offer \in Offers
    /\ r.at \in {"end", "hide"} => r.by \in Parties
    /\ r.at = "create" => r.seller \in Sellers
    /\ r.at = "complete" => offer[r.offer].status = "ACEPTADA"
    /\ r.at = "hide" => Removable(r.offer, r.by)

\* What Begin stores of a call, and that it stores nothing else.
LEMMA BeginRecord ==
    ASSUME TypeOK, NEW c \in Calls, NEW at, NEW o, NEW by, NEW s, Begin(c, at, o, by, s)
    PROVE  /\ UNCHANGED <<request, offer>>
           /\ \A d \in Calls \ {c} : call'[d] = call[d]
           /\ call'[c].at = at
           /\ call'[c].offer = o
           /\ call'[c].by = by
           /\ call'[c].seller = s
           /\ call'[c].held = {}
  BY DEF Begin, TypeOK

\* What a read phase leaves its call with is what it has read.
LEMMA ReadKnows ==
    ASSUME TypeOK, NEW c \in Calls, Read(c)
    PROVE  /\ UNCHANGED <<request, offer>>
           /\ \A d \in Calls \ {c} : call'[d] = call[d]
           /\ Knows(call'[c])
<1> USE BeginRecord DEF Knows
<1>1. CASE \E s \in Sellers : ReadCreate(c, s)
  BY <1>1 DEF ReadCreate
<1>2. CASE \E o \in Offers : ReadAccept(c, o) \/ ReadReject(c, o) \/ ReadSend(c, o)
  BY <1>2 DEF ReadAccept, ReadReject, ReadSend
<1>3. CASE \E o \in Offers : ReadComplete(c, o)
  BY <1>3 DEF ReadComplete
<1>4. CASE \E o \in Offers, by \in Parties : ReadEnd(c, o, by)
  BY <1>4 DEF ReadEnd
<1>5. CASE \E o \in Offers, by \in Parties : ReadHide(c, o, by)
  BY <1>5 DEF ReadHide
<1>6. CASE ReadClose(c) \/ ReadRenew(c) \/ ReadPause(c) \/ ReadRemove(c)
  BY <1>6 DEF ReadClose, ReadRenew, ReadPause, ReadRemove
<1>7. CASE \E limited \in BOOLEAN : ReadEdit(c, limited)
  BY <1>7 DEF ReadEdit
<1> QED
  BY <1>1, <1>2, <1>3, <1>4, <1>5, <1>6, <1>7 DEF Read

\* A call whose process dies knows nothing any more.
CrashKnows(c) ==
    /\ UNCHANGED <<request, offer>>
    /\ \A d \in Calls \ {c} : call'[d] = call[d]
    /\ Knows(call'[c])

\* What the death of a process leaves of its call, and of the rows.
LEMMA CrashForgets ==
    ASSUME TypeOK, NEW c \in Calls, Crash(c)
    PROVE  CrashKnows(c) /\ TypeOK'
<1>1. /\ UNCHANGED <<request, offer>>
      /\ \A d \in Calls \ {c} : call'[d] = call[d]
      /\ call'[c] = NoCall
  BY DEF Crash, Return, TypeOK
<1>2. TypeOK'
  BY <1>1, ReturnType DEF Crash, TypeOK
<1> QED
  BY <1>1, <1>2 DEF CrashKnows, Knows, NoCall

\* A step that changes no row and leaves a call knowing only what the rows say
\* keeps the core of the invariant, ...
LEMMA CallChangeCore ==
    ASSUME CoreInv, TypeOK', NEW c \in Calls, UNCHANGED <<request, offer>>,
           \A d \in Calls \ {c} : call'[d] = call[d], Knows(call'[c])
    PROVE  CoreInv'
<1> USE DEF CoreInv
<1>1. CallTargets'
  BY DEF CallTargets, Knows
<1>2. LockInv'
  BY DEF LockInv, Knows, Negotiating
<1>3. OfferInv'
  BY DEF OfferInv
<1> QED
  BY <1>1, <1>2, <1>3

\* ... and the rest of it.
LEMMA CallChangeInv ==
    ASSUME IInv, TypeOK', NEW c \in Calls, UNCHANGED <<request, offer>>,
           \A d \in Calls \ {c} : call'[d] = call[d], Knows(call'[c])
    PROVE  IInv'
<1> USE DEF IInv
<1>1. CoreInv'
  BY CallChangeCore
<1>2. CallReads'
  BY DEF CallReads, Knows, Removable
<1>3. OneDeal' /\ DealClosesRequest' /\ OneOfferPerSeller' /\ GoneOnlyWhenOver'
  BY DEF OneDeal, DealClosesRequest, OneOfferPerSeller, GoneOnlyWhenOver,
         Closed, Exists, Pending, Negotiating
<1> QED
  BY <1>1, <1>2, <1>3

(***************************************************************************)
(* Every step keeps the core of the invariant, ...                         *)
(***************************************************************************)
LEMMA NextCore == CoreInv /\ [Next]_vars => CoreInv'
<1> SUFFICES ASSUME CoreInv, [Next]_vars
             PROVE  CoreInv'
  OBVIOUS
<1> USE DEF CoreInv
<1>1. ASSUME NEW c \in Calls, Read(c)
      PROVE  CoreInv'
  BY <1>1, ReadType, ReadKnows, CallChangeCore
<1>2. ASSUME NEW c \in Calls, Write(c)
      PROVE  CoreInv'
  <2>1. TypeOK'
    BY <1>2, WriteRows, WriteCalls DEF TypeOK
  <2> QED
    BY <1>2, <2>1, WriteRows, WriteEffect, EffectKeepsOffers, WriteCallTargets, WriteLockInv
<1>3. ASSUME NEW c \in Calls, Crash(c)
      PROVE  CoreInv'
  <2>1. CrashKnows(c) /\ TypeOK'
    BY <1>3, CrashForgets
  <2> QED
    BY <2>1, CallChangeCore DEF CrashKnows
<1>4. CASE Age
  <2>1. TypeOK' /\ UNCHANGED <<offer, call>>
    BY <1>4 DEF Age, TypeOK, RequestRow
  <2> QED
    BY <2>1 DEF CallTargets, LockInv, OfferInv, Negotiating
<1>5. CASE UNCHANGED vars
  BY <1>5 DEF vars, TypeOK, CallTargets, LockInv, OfferInv, Negotiating
<1> QED
  BY <1>1, <1>2, <1>3, <1>4, <1>5 DEF Next

(***************************************************************************)
(* ... and, as long as no administrator writes, all of it.                 *)
(***************************************************************************)
LEMMA NextInv == IInv /\ [Next]_vars => IInv'
<1> SUFFICES ASSUME IInv, [Next]_vars
             PROVE  IInv'
  OBVIOUS
<1> USE DEF IInv
<1>0. CoreInv' /\ TypeOK /\ TypeOK'
  BY NextCore DEF CoreInv
<1>1. ASSUME NEW c \in Calls, Read(c)
      PROVE  IInv'
  BY <1>0, <1>1, ReadKnows, CallChangeInv
<1>2. ASSUME NEW c \in Calls, Write(c)
      PROVE  IInv'
  <2>1. OneDeal' /\ OneOfferPerSeller' /\ GoneOnlyWhenOver'
    BY <1>2, WriteRows, WriteEffect, EffectOfferInv
  <2> QED
    BY <1>0, <1>2, <2>1, WriteCallReads, WriteDealCloses
<1>3. ASSUME NEW c \in Calls, Crash(c)
      PROVE  IInv'
  BY <1>0, <1>3, CrashForgets, CallChangeInv DEF CrashKnows
<1>4. CASE Age \/ UNCHANGED vars
  <2>1. Closed' = Closed /\ UNCHANGED <<offer, call>>
    BY <1>0, <1>4 DEF Age, TypeOK, RequestRow, Closed, vars
  <2> QED
    BY <1>0, <2>1 DEF CallReads, OneDeal, DealClosesRequest, OneOfferPerSeller,
                      GoneOnlyWhenOver, Exists, Pending, Negotiating, Removable
<1> QED
  BY <1>1, <1>2, <1>3, <1>4 DEF Next

-----------------------------------------------------------------------------

(***************************************************************************)
(* The inductive invariant holds in every state the handlers reach.        *)
(***************************************************************************)
THEOREM Invariance == Spec => []IInv
<1>1. Init => IInv
  BY InitInv
<1>2. IInv /\ [Next]_vars => IInv'
  BY NextInv
<1> QED
  BY <1>1, <1>2, PTL DEF Spec

(***************************************************************************)
(* The rows keep the types of the schema, and every call the fields of its *)
(* handler.                                                                *)
(***************************************************************************)
THEOREM TypeCorrect == Spec => []TypeOK
<1>1. IInv => TypeOK
  BY DEF IInv, CoreInv
<1> QED
  BY <1>1, Invariance, PTL

(***************************************************************************)
(* However many complete() calls race, one offer at most ends in a deal.   *)
(***************************************************************************)
THEOREM AtMostOneDeal == Spec => []OneDeal
<1>1. IInv => OneDeal
  BY DEF IInv
<1> QED
  BY <1>1, Invariance, PTL

(***************************************************************************)
(* A negotiation ends by a deal or by a party, after an acceptance.        *)
(***************************************************************************)
THEOREM OneOutcome == Spec => []DealXorEnded
<1>1. IInv => DealXorEnded
  BY DEF IInv, CoreInv, OfferInv, DealXorEnded
<1> QED
  BY <1>1, Invariance, PTL

(***************************************************************************)
(* The request of a deal stays closed.                                     *)
(***************************************************************************)
THEOREM DealtIsClosed == Spec => []DealClosesRequest
<1>1. IInv => DealClosesRequest
  BY DEF IInv
<1> QED
  BY <1>1, Invariance, PTL

(***************************************************************************)
(* A seller never has two offers on the request.                           *)
(***************************************************************************)
THEOREM NoSecondOffer == Spec => []OneOfferPerSeller
<1>1. IInv => OneOfferPerSeller
  BY DEF IInv
<1> QED
  BY <1>1, Invariance, PTL

(***************************************************************************)
(* No list loses an offer that still waits for something.                  *)
(***************************************************************************)
THEOREM NothingOpenIsGone == Spec => []GoneOnlyWhenOver
<1>1. IInv => GoneOnlyWhenOver
  BY DEF IInv
<1> QED
  BY <1>1, Invariance, PTL

(***************************************************************************)
(* No handler of the parties brings a closed request back.                 *)
(***************************************************************************)
THEOREM ClosedStays == Spec => ClosedIsFinal
<1>1. ASSUME IInv, [Next]_vars
      PROVE  [Closed => Closed']_vars
  <2>1. ASSUME NEW c \in Calls, Read(c) \/ Crash(c)
        PROVE  request' = request
    BY <1>1, <2>1, ReadKnows DEF Crash, IInv, CoreInv
  <2>2. ASSUME NEW c \in Calls, Write(c)
        PROVE  Closed => Closed'
    BY <1>1, <2>2, WriteRows DEF IInv
  <2>3. Age => (Closed => Closed')
    BY <1>1 DEF Age, IInv, CoreInv, TypeOK, RequestRow, Closed
  <2> QED
    BY <1>1, <2>1, <2>2, <2>3 DEF Next, Closed
<1> QED
  BY <1>1, Invariance, PTL DEF Spec, ClosedIsFinal

(***************************************************************************)
(* The outcome of an offer, once written, is never rewritten.              *)
(***************************************************************************)
THEOREM OutcomeStays == Spec => OutcomeIsFinal
<1>1. ASSUME IInv, [Next]_vars
      PROVE  [\A o \in Offers : OutcomeKept(o)]_vars
  <2>1. ASSUME NEW c \in Calls, Write(c)
        PROVE  \A o \in Offers : OutcomeKept(o)
    BY <1>1, <2>1, WriteEffect, EffectKeepsOutcome DEF IInv
  <2>2. ASSUME NEW c \in Calls, Read(c) \/ Crash(c)
        PROVE  offer' = offer
    BY <1>1, <2>2, ReadKnows DEF Crash, IInv, CoreInv
  <2>3. Age => offer' = offer
    BY DEF Age
  <2>4. offer' = offer => \A o \in Offers : OutcomeKept(o)
    BY DEF OutcomeKept
  <2> QED
    BY <1>1, <2>1, <2>2, <2>3, <2>4 DEF Next
<1> QED
  BY <1>1, Invariance, PTL DEF Spec, OutcomeIsFinal
-----------------------------------------------------------------------------
(***************************************************************************)
(* Beside administrators, and the moderation by reports, who write without *)
(* asking who reads, the core of the invariant is what is left.            *)
(***************************************************************************)
LEMMA AdminKeepsCore ==
    ASSUME CoreInv, AdminStep
    PROVE  CoreInv'
<1> USE DEF CoreInv
<1>1. CASE AdminClose \/ AdminReactivate \/ HideByReports \/ AdminRestore
  <2>1. request' \in RequestRow /\ UNCHANGED <<offer, call>>
    BY <1>1 DEF AdminClose, AdminReactivate, HideByReports, AdminRestore, TypeOK, RequestRow,
                RequestStatus
  <2> QED
    BY <2>1 DEF TypeOK, CallTargets, LockInv, OfferInv, Negotiating
<1>2. ASSUME NEW o \in Offers, AdminDeleteOffer(o)
      PROVE  CoreInv'
  <2> DEFINE deleted == [NoOffer EXCEPT !.status = "DELETED"]
  <2>1. /\ deleted \in OfferRow
        /\ deleted.status = "DELETED" /\ ~deleted.deal /\ deleted.ended = None
    BY DEF NoOffer, OfferRow, OfferStatus
  <2>2. /\ offer' = [offer EXCEPT ![o] = deleted]
        /\ UNCHANGED <<request, call>>
        /\ \A c \in Calls : o \notin call[c].held
    BY <1>2 DEF AdminDeleteOffer, Locked
  <2> HIDE DEF deleted
  <2>3. TypeOK'
    BY <2>1, <2>2 DEF TypeOK
  <2>4. \A q \in Offers : offer'[q] = IF q = o THEN deleted ELSE offer[q]
    BY <2>2 DEF TypeOK
  <2>5. OfferInv'
    BY <2>1, <2>4 DEF OfferInv
  <2>6. \A c \in Calls : call[c].held \subseteq Offers
    BY DEF TypeOK, CallRecord
  <2>7. LockInv'
    BY <2>2, <2>4, <2>6 DEF LockInv, Negotiating
  <2>8. CallTargets'
    BY <2>2 DEF CallTargets
  <2> QED
    BY <2>3, <2>5, <2>7, <2>8
<1> QED
  BY <1>1, <1>2 DEF AdminStep

(***************************************************************************)
(* Row locks, chats and outcomes stay sound whatever an administrator does *)
(* beside the calls of the parties.                                        *)
(***************************************************************************)
THEOREM CoreInvariance == AdminSpec => []CoreInv
<1>1. Init => CoreInv
  BY InitInv DEF IInv
<1>2. CoreInv /\ [AdminNext]_vars => CoreInv'
  BY NextCore, AdminKeepsCore DEF AdminNext
<1> QED
  BY <1>1, <1>2, PTL DEF AdminSpec

\* A step of the parties reopens nothing and rewrites no outcome.
LEMMA PartiesKeep ==
    ASSUME CoreInv, Next
    PROVE  (Closed => Closed') /\ \A o \in Offers : OutcomeKept(o)
<1>1. ASSUME NEW c \in Calls, Write(c)
      PROVE  (Closed => Closed') /\ \A o \in Offers : OutcomeKept(o)
  BY <1>1, WriteRows, WriteEffect, EffectKeepsOutcome
<1>2. ASSUME NEW c \in Calls, Read(c) \/ Crash(c)
      PROVE  UNCHANGED <<request, offer>>
  BY <1>2, ReadKnows DEF Crash, CoreInv
<1>3. Age => (Closed => Closed') /\ offer' = offer
  BY DEF Age, CoreInv, TypeOK, RequestRow, Closed
<1> QED
  BY <1>1, <1>2, <1>3 DEF Next, Closed, OutcomeKept

(***************************************************************************)
(* A closed request is reopened by AdminService.reactivateRequest and by   *)
(* nothing else, however many calls are under way.                         *)
(***************************************************************************)
THEOREM ReopenedByAdmin == AdminSpec => OnlyAdminReopens
<1>1. ASSUME CoreInv, [AdminNext]_vars
      PROVE  [Closed /\ ~Closed' => AdminReactivate]_vars
  <2>1. AdminStep => AdminReactivate \/ (Closed => Closed')
    BY <1>1 DEF AdminStep, AdminClose, AdminDeleteOffer, HideByReports, AdminRestore, CoreInv,
                TypeOK, RequestRow, Closed
  <2> QED
    BY <1>1, <2>1, PartiesKeep DEF AdminNext
<1> QED
  BY <1>1, CoreInvariance, PTL DEF AdminSpec, OnlyAdminReopens

(***************************************************************************)
(* Only the deletion of the offer takes its outcome away.                  *)
(***************************************************************************)
THEOREM OutcomeOutlives == AdminSpec => OutcomeOutlivesAdmin
<1> DEFINE Outlives ==
        \A o \in Offers :
           /\ offer[o].status \in {"ACEPTADA", "RECHAZADA"} =>
                  offer'[o].status \in {offer[o].status, "DELETED"}
           /\ offer[o].deal => offer'[o].deal \/ AdminDeleteOffer(o)
           /\ offer[o].ended # None =>
                  offer'[o].ended = offer[o].ended \/ AdminDeleteOffer(o)
<1>1. ASSUME CoreInv, [AdminNext]_vars
      PROVE  [Outlives]_vars
  <2>1. Next => Outlives
    BY <1>1, PartiesKeep DEF OutcomeKept
  <2>2. ASSUME NEW o \in Offers, AdminDeleteOffer(o)
        PROVE  Outlives
    <3>1. \A q \in Offers : q # o => offer'[q] = offer[q]
      BY <2>2 DEF AdminDeleteOffer
    <3>2. offer'[o].status = "DELETED"
      BY <1>1, <2>2 DEF AdminDeleteOffer, NoOffer, CoreInv, TypeOK
    <3> QED
      BY <2>2, <3>1, <3>2
  <2>3. AdminStep => Outlives \/ \E o \in Offers : AdminDeleteOffer(o)
    BY DEF AdminStep, AdminClose, AdminReactivate, HideByReports, AdminRestore
  <2> QED
    BY <1>1, <2>1, <2>2, <2>3 DEF AdminNext
<1> QED
  BY <1>1, CoreInvariance, PTL DEF AdminSpec, OutcomeOutlivesAdmin

-----------------------------------------------------------------------------
(***************************************************************************)
(* What the handlers intend (NegotiationOverlaps).  A negotiation that no  *)
(* other call was past when it began is counted by every call that goes on *)
(* to end, to close or to remove; so none of them is wrong about it.       *)
(***************************************************************************)
CountedBy(c, o) ==
    /\ call[c].at = "remove" => Closed
    /\ call[c].at = "ending" /\ call[c].sync = "demote" => o = call[c].offer
    /\ call[c].at = "closing" => o \in call[c].held

Shown == ~Closed => request.status = "NEGOCIANDO"

Going == Closed \/ ~request.active => \E q \in Offers : offer[q].deal

\* What OverlapInv says, one negotiation at a time.
LEMMA OneByOne ==
    /\ CountedInv
    /\ NegotiatingShows
    /\ OverWithoutTalks
  <=> \A o \in Timely : Negotiating(o) =>
         (\A c \in Calls : CountedBy(c, o)) /\ Shown /\ Going
<1>1. CountedInv <=> \A o \in Timely : Negotiating(o) => \A c \in Calls : CountedBy(c, o)
  BY DEF CountedInv, CountedBy
<1>2. NegotiatingShows <=> \A o \in Timely : Negotiating(o) => Shown
  BY DEF NegotiatingShows, Shown
<1>3. OverWithoutTalks <=> \A o \in Timely : Negotiating(o) => Going
  BY DEF OverWithoutTalks, Going
<1> QED
  BY <1>1, <1>2, <1>3

\* A read phase removes a request only when nobody negotiates, or it is closed.
LEMMA ReadCounts ==
    ASSUME TypeOK, NEW c \in Calls, Read(c), NEW o \in Offers, Negotiating(o)
    PROVE  CountedBy(c, o)'
<1>1. /\ UNCHANGED <<request, offer>>
      /\ call'[c].at \notin {"ending", "closing"}
  BY ReadKnows DEF Knows
<1> SUFFICES ASSUME call'[c].at = "remove"
             PROVE  Closed
  BY <1>1 DEF CountedBy, Closed
<1>2. CASE ReadRemove(c)
  BY <1>2 DEF ReadRemove, RemovalAllowed
<1>3. CASE \E s \in Sellers : ReadCreate(c, s)
  BY <1>3, BeginRecord DEF ReadCreate
<1>4. CASE \E q \in Offers : \/ ReadAccept(c, q) \/ ReadReject(c, q)
                             \/ ReadSend(c, q) \/ ReadComplete(c, q)
  BY <1>4, BeginRecord DEF ReadAccept, ReadReject, ReadSend, ReadComplete
<1>5. CASE \E q \in Offers, by \in Parties : ReadEnd(c, q, by) \/ ReadHide(c, q, by)
  BY <1>5, BeginRecord DEF ReadEnd, ReadHide
<1>6. CASE ReadClose(c) \/ ReadRenew(c) \/ ReadPause(c)
  BY <1>6, BeginRecord DEF ReadClose, ReadRenew, ReadPause
<1>7. CASE \E limited \in BOOLEAN : ReadEdit(c, limited)
  BY <1>7, BeginRecord DEF ReadEdit
<1> QED
  BY <1>2, <1>3, <1>4, <1>5, <1>6, <1>7 DEF Read

\* A transaction that opens counts every negotiation it finds.
LEMMA WriteCounts ==
    ASSUME CoreInv, NEW c \in Calls, Write(c), NEW o \in Offers, Negotiating(o)
    PROVE  CountedBy(c, o)'
<1> USE DEF CoreInv
<1>1. CASE EndTx(c) /\ call'[c].at = "ending"
  <2> DEFINE q == call[c].offer
  <2>1. call' = [call EXCEPT ![c] =
                    [@ EXCEPT !.at = "ending", !.sync = SyncDecision(q), !.held = {q}]]
    BY <1>1 DEF EndTx, Return, NoCall, TypeOK
  <2>2. call[c] \in CallRecord /\ call \in [Calls -> CallRecord]
    BY DEF TypeOK
  <2>3. call'[c].sync = SyncDecision(q) /\ call'[c].offer = q
    BY <2>1, <2>2 DEF CallRecord
  <2>4. SyncDecision(q) = "demote" => \A r \in Offers \ {q} : ~Negotiating(r)
    BY DEF SyncDecision
  <2> QED
    BY <1>1, <2>3, <2>4 DEF CountedBy
<1>2. CASE call'[c].at = "closing" /\ call'[c].held = {r \in Offers : Negotiating(r)}
  BY <1>2 DEF CountedBy
<1>3. CASE call'[c].at \in {"idle", "rejected", "sent", "touched"}
  BY <1>3 DEF CountedBy
<1> QED
  BY <1>1, <1>2, <1>3, WriteCalls DEF NoCall

\* A change of one offer that is not accepted adds no negotiation.
LEMMA TalksBegin ==
    ASSUME CoreInv, NEW c \in Calls, Write(c), NEW q \in Offers, Negotiating(q)', ~Negotiating(q)
    PROVE  AcceptTx(c) /\ call[c].offer = q /\ Pending(q)
<1> USE DEF CoreInv, TypeOK, OfferRow
<1>1. CASE AcceptTx(c)
  BY <1>1 DEF AcceptTx, AcceptMatches, Negotiating, CallTargets
<1>2. CASE CreateOffer(c)
  BY <1>2 DEF CreateOffer, NewOffer, NoOffer, Negotiating
<1>3. CASE RejectOffer(c)
  BY <1>3 DEF RejectOffer, Negotiating, CallTargets
<1>4. CASE CompleteTx(c)
  BY <1>4 DEF CompleteTx, Negotiating, CallTargets
<1>5. CASE EndCommit(c)
  <2>1. Negotiating(call[c].offer) /\ call[c].offer \in Offers
    BY <1>5 DEF EndCommit, LockInv, CallTargets
  <2> QED
    BY <1>5, <2>1 DEF EndCommit, Negotiating
<1>6. CASE HideOffer(c)
  BY <1>6 DEF HideOffer, Negotiating, CallTargets
<1>7. CASE CloseCommit(c)
  <2>1. \A o \in call[c].held : Negotiating(o)
    BY DEF LockInv
  <2> QED
    BY <1>7, <2>1 DEF CloseCommit, OffersEndedByBuyer, Negotiating
<1>8. CASE offer' = offer
  BY <1>8 DEF Negotiating
<1> QED
  BY <1>1, <1>2, <1>3, <1>4, <1>5, <1>6, <1>7, <1>8
  DEF Write, RenewRequest, PauseRequest, RemoveRequest, EditRequest, RejectTouch, EndTx, CloseTx,
      SendMessage, SendTouch, SendPromote

\* An accept that no other call is past begins a negotiation in good order.
LEMMA AcceptInTime ==
    ASSUME CoreInv, NEW c \in Calls, AcceptTx(c), Pending(call[c].offer), ~Deciding,
           NEW o \in Offers
    PROVE  (\A d \in Calls : CountedBy(d, o)') /\ Shown' /\ Going'
<1> USE DEF CoreInv
<1>1. request.active /\ ~Closed /\ request \in RequestRow
  BY DEF Deciding, TypeOK
<1>2. request' = [request EXCEPT
                     !.status = IF @ = "ACTIVA" THEN "NEGOCIANDO" ELSE @, !.fresh = TRUE]
  BY DEF AcceptTx, AcceptMatches
<1>3. request'.active /\ request'.status = "NEGOCIANDO"
  BY <1>1, <1>2 DEF RequestRow, RequestStatus, Closed
<1>4. \A d \in Calls \ {c} : call'[d] = call[d]
  BY DEF AcceptTx, Return, TypeOK
<1>5. call'[c].at = "idle"
  BY DEF AcceptTx, Return, NoCall, TypeOK
<1>6. \A d \in Calls : CountedBy(d, o)'
  BY <1>4, <1>5 DEF Deciding, CountedBy
<1> QED
  BY <1>3, <1>6 DEF Shown, Going, Closed

\* A write keeps what the handlers intend of a negotiation that all calls counted.
LEMMA WriteInTime ==
    ASSUME IInv, NEW c \in Calls, Write(c), NEW o \in Offers, Negotiating(o), Negotiating(o)',
           \A d \in Calls : CountedBy(d, o), Shown, Going
    PROVE  Shown' /\ Going'
<1> USE DEF IInv, CoreInv
<1>0. /\ request \in RequestRow
      /\ request' \in RequestRow
      /\ Closed => Closed'
      /\ \A q \in Offers : OutcomeKept(q)
  BY WriteRows, WriteEffect, EffectKeepsOutcome DEF TypeOK
<1>1. (\E q \in Offers : offer[q].deal) => \E q \in Offers : offer'[q].deal
  BY <1>0 DEF OutcomeKept
<1>2. CASE /\ request'.status = request.status \/ (request'.status = "NEGOCIANDO" /\ ~Closed)
           /\ request'.active = request.active
  <2>1. Closed' => Closed
    BY <1>2 DEF Closed
  <2> QED
    BY <1>1, <1>2, <2>1 DEF Shown, Going, Closed
<1>3. CASE AcceptTx(c)
  <2>1. CASE request' = request
    BY <1>2, <2>1
  <2>2. CASE request' = [request EXCEPT
                            !.status = IF @ = "ACTIVA" THEN "NEGOCIANDO" ELSE @, !.fresh = TRUE]
    BY <1>0, <1>2, <2>2 DEF RequestRow, Closed
  <2> QED
    BY <1>3, <2>1, <2>2 DEF AcceptTx
<1>4. CASE EndCommit(c)
  <2>1. /\ call[c].at = "ending"
        /\ call[c].by # None
        /\ call[c].offer \in Offers
    BY <1>4, NoneAssumption DEF EndCommit, CallTargets
  <2>2. offer'[call[c].offer].ended = call[c].by
    BY <1>4, <2>1 DEF EndCommit, TypeOK, OfferRow
  <2>3. o # call[c].offer
    BY <2>1, <2>2 DEF Negotiating
  <2>4. call[c].sync # "demote"
    BY <2>1, <2>3 DEF CountedBy
  <2>5. request' = [request EXCEPT !.status = SyncedStatus(call[c].sync)]
    BY <1>4 DEF EndCommit
  <2>6. request'.status = SyncedStatus(call[c].sync) /\ request'.active = request.active
    BY <1>0, <2>5 DEF RequestRow
  <2> QED
    BY <1>2, <2>4, <2>6 DEF SyncedStatus, Closed
<1>5. CASE CloseCommit(c)
  <2>1. call[c].at = "closing"
    BY <1>5 DEF CloseCommit
  <2>2. o \in call[c].held
    BY <2>1 DEF CountedBy
  <2>3. offer'[o].ended = "BUYER"
    BY <1>5, <2>2 DEF CloseCommit, OffersEndedByBuyer, TypeOK, OfferRow
  <2> QED
    BY <2>3, NoneAssumption DEF Negotiating, Parties
<1>6. CASE CompleteTx(c)
  <2>1. CASE request' = request
    BY <1>2, <2>1
  <2>2. CASE offer' = [offer EXCEPT ![call[c].offer].deal = TRUE] /\ request' = ClosedRow
    <3>1. call[c].offer \in Offers
      BY <1>6 DEF CompleteTx, CallTargets
    <3>2. offer'[call[c].offer].deal
      BY <2>2, <3>1 DEF TypeOK, OfferRow
    <3>3. Closed'
      BY <1>0, <2>2 DEF ClosedRow, RequestRow, Closed
    <3> QED
      BY <3>1, <3>2, <3>3 DEF Shown, Going
  <2> QED
    BY <1>6, <2>1, <2>2 DEF CompleteTx
<1>7. CASE RemoveRequest(c)
  <2>1. Closed
    BY <1>7 DEF RemoveRequest, CountedBy
  <2> QED
    BY <1>0, <1>1, <2>1 DEF Shown, Going
<1>8. CASE \/ CreateOffer(c) \/ RejectOffer(c) \/ HideOffer(c) \/ EndTx(c) \/ CloseTx(c)
           \/ SendMessage(c)
  BY <1>2, <1>8 DEF CreateOffer, RejectOffer, HideOffer, EndTx, CloseTx, SendMessage
<1>9. CASE RejectTouch(c) \/ EditRequest(c) \/ SendTouch(c)
  BY <1>0, <1>2, <1>9 DEF RejectTouch, EditRequest, SendTouch, RequestRow
<1>10. CASE RenewRequest(c) \/ PauseRequest(c)
  BY <1>0, <1>2, <1>10 DEF RenewRequest, PauseRequest, RequestRow
<1>11. CASE SendPromote(c)
  BY <1>0, <1>2, <1>11 DEF SendPromote, PromotedStatus, RequestRow, Closed
<1> QED
  BY <1>3, <1>4, <1>5, <1>6, <1>7, <1>8, <1>9, <1>10, <1>11 DEF Write

\* A write keeps what the handlers intend of every negotiation begun in time.
LEMMA WriteOverlaps ==
    ASSUME OverlapInv, NEW c \in Calls, Write(c),
           late' = IF Deciding THEN late \cup AcceptedNow ELSE late,
           NEW o \in Offers \ late', Negotiating(o)'
    PROVE  (\A d \in Calls : CountedBy(d, o)') /\ Shown' /\ Going'
<1> USE DEF OverlapInv, IInv
<1>1. CASE ~Negotiating(o)
  <2>1. AcceptTx(c) /\ call[c].offer = o /\ Pending(o)
    BY <1>1, TalksBegin
  <2>2. o \in AcceptedNow
    BY <2>1 DEF AcceptedNow, Pending, Negotiating
  <2>3. ~Deciding
    BY <2>2
  <2> QED
    BY <2>1, <2>3, AcceptInTime
<1>2. CASE Negotiating(o)
  <2>1. o \in Timely
    BY DEF Timely
  <2>2. (\A d \in Calls : CountedBy(d, o)) /\ Shown /\ Going
    BY <1>2, <2>1, OneByOne
  <2>3. Shown' /\ Going'
    BY <1>2, <2>2, WriteInTime
  <2>4. CountedBy(c, o)'
    BY <1>2, WriteCounts
  <2>5. ASSUME NEW d \in Calls, d # c
        PROVE  CountedBy(d, o)'
    <3>1. call'[d] = call[d] /\ (Closed => Closed')
      BY <2>5, WriteCalls, WriteRows DEF CoreInv
    <3> QED
      BY <2>2, <3>1 DEF CountedBy
  <2> QED
    BY <2>3, <2>4, <2>5
<1> QED
  BY <1>1, <1>2

(***************************************************************************)
(* What the handlers intend holds of every offer that was not accepted     *)
(* past another call, however many calls overlap.                          *)
(***************************************************************************)
THEOREM OverlapInvariance == OverlapSpec => []OverlapInv
<1>1. OverlapInit => OverlapInv
  <2> SUFFICES ASSUME OverlapInit PROVE OverlapInv
    OBVIOUS
  <2>1. \A o \in Offers : ~Negotiating(o)
    BY DEF OverlapInit, Init, NoOffer, Negotiating
  <2>2. Timely \subseteq Offers
    BY DEF Timely
  <2>3. CountedInv /\ NegotiatingShows /\ OverWithoutTalks
    BY <2>1, <2>2, OneByOne
  <2> QED
    BY <2>3, InitInv DEF OverlapInit, OverlapInv
<1>2. ASSUME OverlapInv, [OverlapNext]_overlapVars
      PROVE  OverlapInv'
  <2>0. IInv' /\ IInv /\ CoreInv /\ TypeOK
    BY <1>2, NextInv DEF OverlapInv, OverlapNext, overlapVars, IInv, CoreInv
  <2>1. late' \in SUBSET Offers /\ late \subseteq late'
    BY <1>2 DEF OverlapInv, OverlapNext, overlapVars, AcceptedNow
  <2> SUFFICES ASSUME NEW o \in Offers \ late', Negotiating(o)'
               PROVE  (\A d \in Calls : CountedBy(d, o)') /\ Shown' /\ Going'
    <3>1. (\A o \in Timely : Negotiating(o) =>
             (\A d \in Calls : CountedBy(d, o)) /\ Shown /\ Going)'
      BY DEF Timely
    <3>2. CountedInv'
      BY <3>1 DEF CountedInv, CountedBy
    <3>3. NegotiatingShows' /\ OverWithoutTalks'
      BY <3>1 DEF NegotiatingShows, OverWithoutTalks, Shown, Going
    <3> QED
      BY <2>0, <2>1, <3>2, <3>3 DEF OverlapInv
  <2>2. ASSUME NEW c \in Calls, Write(c), OverlapNext
        PROVE  (\A d \in Calls : CountedBy(d, o)') /\ Shown' /\ Going'
    BY <1>2, <2>2, WriteOverlaps DEF OverlapNext
  <2>3. ASSUME offer' = offer, request'.status = request.status,
               request'.active = request.active,
               \A d \in Calls : CountedBy(d, o) => CountedBy(d, o)'
        PROVE  (\A d \in Calls : CountedBy(d, o)') /\ Shown' /\ Going'
    <3>1. o \in Timely /\ Negotiating(o)
      BY <2>1, <2>3 DEF Timely, Negotiating
    <3>2. (\A d \in Calls : CountedBy(d, o)) /\ Shown /\ Going
      BY <1>2, <3>1, OneByOne DEF OverlapInv
    <3> QED
      BY <2>3, <3>2 DEF Shown, Going, Closed
  <2>4. ASSUME NEW c \in Calls, Read(c)
        PROVE  (\A d \in Calls : CountedBy(d, o)') /\ Shown' /\ Going'
    <3>1. /\ UNCHANGED <<request, offer>>
          /\ \A d \in Calls \ {c} : call'[d] = call[d]
      BY <2>0, <2>4, ReadKnows
    <3>2. Negotiating(o)
      BY <3>1 DEF Negotiating
    <3>3. CountedBy(c, o)'
      BY <2>0, <2>4, <3>2, ReadCounts
    <3> QED
      BY <2>3, <3>1, <3>3 DEF CountedBy, Closed
  <2>5. ASSUME NEW c \in Calls, Crash(c)
        PROVE  (\A d \in Calls : CountedBy(d, o)') /\ Shown' /\ Going'
    <3>1. /\ UNCHANGED <<request, offer>>
          /\ \A d \in Calls \ {c} : call'[d] = call[d]
          /\ call'[c].at = "idle"
      BY <2>0, <2>5 DEF Crash, Return, NoCall, TypeOK
    <3> QED
      BY <2>3, <3>1 DEF CountedBy, Closed
  <2>6. CASE Age \/ UNCHANGED vars
    <3>1. /\ UNCHANGED <<offer, call>>
          /\ request'.status = request.status /\ request'.active = request.active
      BY <2>0, <2>6 DEF Age, vars, TypeOK, RequestRow
    <3> QED
      BY <2>3, <3>1 DEF CountedBy, Closed
  <2> QED
    BY <1>2, <2>2, <2>4, <2>5, <2>6 DEF OverlapNext, Next, overlapVars
<1> QED
  BY <1>1, <1>2, PTL DEF OverlapSpec

(***************************************************************************)
(* An open request shows as NEGOCIANDO as long as a negotiation goes on    *)
(* that was not accepted past another call (syncRequestNegotiationStatus   *)
(* counts right).                                                          *)
(***************************************************************************)
THEOREM TalksShow == OverlapSpec => []NegotiatingShows
<1>1. OverlapInv => NegotiatingShows
  BY DEF OverlapInv
<1> QED
  BY <1>1, OverlapInvariance, PTL

(***************************************************************************)
(* A request that its buyer removed or closed leaves nobody negotiating,   *)
(* but for offers that were accepted past another call.                    *)
(***************************************************************************)
THEOREM NobodyLeftTalking == OverlapSpec => []OverWithoutTalks
<1>1. OverlapInv => OverWithoutTalks
  BY DEF OverlapInv
<1> QED
  BY <1>1, OverlapInvariance, PTL

-----------------------------------------------------------------------------
(***************************************************************************)
(* A change to one row changes the phase of that offer only.               *)
(***************************************************************************)
LEMMA PhaseOfOne ==
    ASSUME NEW o \in Offers, \A q \in Offers \ {o} : offer'[q] = offer[q],
           NEW from, NEW to, Phase[o] = from, Phase'[o] = to
    PROVE  Deals!Advance(o, from, to)
<1>1. \A q \in Offers \ {o} : Phase'[q] = Phase[q]
  BY DEF Phase
<1>2. /\ Phase = [q \in Offers |-> Phase[q]]
      /\ Phase' = [q \in Offers |-> Phase'[q]]
  BY DEF Phase
<1>3. Phase' = [Phase EXCEPT ![o] = to]
  BY <1>1, <1>2
<1> QED
  BY <1>3 DEF Deals!Advance

\* Two phase functions that agree on every offer are equal.
LEMMA PhaseSame ==
    ASSUME \A q \in Offers : Phase'[q] = Phase[q]
    PROVE  Phase' = Phase
  BY DEF Phase

(***************************************************************************)
(* A complete() that the index lets through finds no other deal.           *)
(***************************************************************************)
LEMMA NoOtherDeal ==
    ASSUME NEW c \in Calls, NEW o \in Offers, RowDealt(c, o)
    PROVE  \A q \in Offers : ~offer[q].deal
  BY DEF RowDealt, DealAllowed, OtherDeal, Negotiating

\* A write of one offer is one step of Deal, or a stutter.
LEMMA RowStep ==
    ASSUME IInv, NEW c \in Calls, NEW o \in Offers, OneRow(c, o),
           RowDealt(c, o) \/ Closed' = Closed
    PROVE  Deals!Next \/ UNCHANGED Deals!dealVars
<1> USE DEF IInv, CoreInv
<1>0. \A q \in Offers \ {o} : offer'[q] = offer[q]
  BY DEF OneRow, RowInserted, RowAccepted, RowRejected, RowDealt, RowEnded, RowHidden,
         TypeOK
<1>1. CASE RowInserted(c, o) /\ ~RowDealt(c, o)
  <2>1. Phase[o] = "none" /\ Phase'[o] = "pending"
    <3>1. offer[o].status = "NONE" /\ offer'[o] = NewOffer(call[c].seller)
      BY <1>1 DEF RowInserted, TypeOK
    <3> QED
      BY <3>1 DEF Phase, NewOffer, NoOffer, OfferInv
  <2>2. Deals!Advance(o, "none", "pending")
    BY <1>0, <2>1, PhaseOfOne
  <2> QED
    BY <1>1, <2>2 DEF Deals!Next, Deals!Submit
<1>2. CASE RowAccepted(o) /\ ~RowDealt(c, o)
  <2>1. Phase[o] = "pending" /\ Phase'[o] = "accepted"
    BY <1>2 DEF RowAccepted, Pending, Phase, OfferInv, TypeOK, OfferRow
  <2>2. Deals!Advance(o, "pending", "accepted")
    BY <1>0, <2>1, PhaseOfOne
  <2> QED
    BY <1>2, <2>2 DEF Deals!Next, Deals!Accept
<1>3. CASE RowRejected(o) /\ ~RowDealt(c, o)
  <2>1. Phase[o] = "pending" /\ Phase'[o] = "rejected"
    BY <1>3 DEF RowRejected, Pending, Phase, OfferInv, TypeOK, OfferRow
  <2>2. Deals!Advance(o, "pending", "rejected")
    BY <1>0, <2>1, PhaseOfOne
  <2> QED
    BY <1>3, <2>2 DEF Deals!Next, Deals!Reject
<1>4. CASE RowDealt(c, o)
  <2>1. Phase[o] = "accepted" /\ Phase'[o] = "dealt"
    BY <1>4 DEF RowDealt, Negotiating, Phase, TypeOK, OfferRow
  <2>2. Deals!Advance(o, "accepted", "dealt")
    BY <1>0, <2>1, PhaseOfOne
  <2>3. \A q \in Offers : ~offer[q].deal
    BY <1>4, NoOtherDeal
  <2>4. \A q \in Offers : Phase[q] # "dealt"
    BY <2>3 DEF Phase
  <2>5. Closed'
    BY <1>4 DEF RowDealt
  <2> QED
    BY <2>2, <2>4, <2>5 DEF Deals!Next, Deals!Settle
<1>5. CASE RowEnded(c, o) /\ ~RowDealt(c, o)
  <2>1. Negotiating(o)
    BY <1>5 DEF RowEnded, LockInv
  <2>2. Phase[o] = "accepted" /\ Phase'[o] = "ended"
    BY <1>5, <2>1, NoneAssumption DEF RowEnded, Negotiating, Phase, TypeOK, OfferRow
  <2>3. Deals!Advance(o, "accepted", "ended")
    BY <1>0, <2>2, PhaseOfOne
  <2> QED
    BY <1>5, <2>3 DEF Deals!Next, Deals!EndTalks
<1>6. CASE RowHidden(c, o) /\ ~RowDealt(c, o)
  <2>1. \A q \in Offers : Phase'[q] = Phase[q]
    BY <1>6 DEF RowHidden, Phase, TypeOK, OfferRow
  <2> QED
    BY <1>6, <2>1, PhaseSame DEF Deals!dealVars
<1> QED
  BY <1>1, <1>2, <1>3, <1>4, <1>5, <1>6 DEF OneRow

\* The commit of close() is the step of Deal in which the buyer ends what its
\* transaction holds.
LEMMA CloseStep ==
    ASSUME IInv, NEW c \in Calls, RowsClosed(c)
    PROVE  Deals!CloseSearch
<1> USE DEF IInv, CoreInv
<1> DEFINE held == call[c].held
<1>1. /\ held \subseteq Offers
      /\ \A q \in held : Negotiating(q)
  BY DEF LockInv, TypeOK, CallRecord
<1>2. held \in SUBSET {o \in Offers : Phase[o] = "accepted"}
  BY <1>1 DEF Negotiating, Phase
<1>3. \A q \in Offers : Phase'[q] = IF q \in held THEN "ended" ELSE Phase[q]
  BY <1>1, NoneAssumption
  DEF RowsClosed, OffersEndedByBuyer, Negotiating, Phase, TypeOK, OfferRow, Parties
<1>4. Phase' = [q \in Offers |-> IF q \in held THEN "ended" ELSE Phase[q]]
  BY <1>3 DEF Phase
<1> QED
  BY <1>2, <1>4 DEF RowsClosed, Deals!CloseSearch

(***************************************************************************)
(* The handlers implement the promise of Deal: under the mapping of Phase, *)
(* every step is a step of Deal or a stutter.                              *)
(***************************************************************************)
THEOREM Refinement == Spec => ImplementsDeal
<1>1. Init => Deals!Init
  BY DEF Init, NoOffer, Phase, Closed, Deals!Init
<1>2. ASSUME IInv, [Next]_vars
      PROVE  [Deals!Next]_(Deals!dealVars)
  <2>1. ASSUME UNCHANGED <<request, offer>>
        PROVE  UNCHANGED Deals!dealVars
    BY <2>1 DEF Phase, Closed, Deals!dealVars
  <2>2. ASSUME NEW c \in Calls, Read(c) \/ Crash(c)
        PROVE  UNCHANGED Deals!dealVars
    BY <1>2, <2>1, <2>2, ReadKnows DEF Crash, IInv, CoreInv
  <2>3. CASE Age
    BY <1>2, <2>3 DEF Age, IInv, CoreInv, TypeOK, RequestRow, Phase, Closed, Deals!dealVars
  <2>4. ASSUME NEW c \in Calls, Write(c)
        PROVE  Deals!Next \/ UNCHANGED Deals!dealVars
    <3>1. CASE RowsClosed(c)
      BY <1>2, <3>1, CloseStep DEF Deals!Next
    <3>2. ASSUME NEW o \in Offers, RowDealt(c, o)
          PROVE  Deals!Next \/ UNCHANGED Deals!dealVars
      BY <1>2, <3>2, RowStep DEF OneRow
    <3>3. CASE ~RowsClosed(c) /\ \A o \in Offers : ~RowDealt(c, o)
      <4>1. Closed' = Closed
        BY <1>2, <2>4, <3>3, WriteRows, WriteCloses DEF Closed, IInv
      <4>2. CASE offer' = offer
        BY <4>1, <4>2 DEF Phase, Deals!dealVars
      <4> QED
        BY <1>2, <2>4, <3>3, <4>1, <4>2, RowStep, WriteEffect DEF IInv
    <3> QED
      BY <3>1, <3>2, <3>3
  <2> QED
    BY <1>2, <2>1, <2>2, <2>3, <2>4 DEF Next, vars
<1> QED
  BY <1>1, <1>2, Invariance, PTL DEF Spec, ImplementsDeal, Deals!Spec
=============================================================================
