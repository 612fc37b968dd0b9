------------------------ MODULE NegotiationOverlaps ------------------------
(***************************************************************************)
(* What the handlers of Negotiation intend about the status of a request   *)
(* and its negotiations, and guarantee of every offer but those whose      *)
(* accept went past another call: accept() tests the request before its    *)
(* transaction, and no call locks the row of the request while it counts   *)
(* negotiations.                                                           *)
(***************************************************************************)
EXTENDS Negotiation

VARIABLE late    \* history: the offers that were accepted past another call

overlapVars == <<vars, late>>

\* The request is over, or a call that has counted the negotiations goes on to
\* end, to close or to remove on the strength of it.
Deciding ==
    \/ Closed
    \/ ~request.active
    \/ \E c \in Calls :
          \/ call[c].at \in {"closing", "remove"}
          \/ call[c].at = "ending" /\ call[c].sync = "demote"

AcceptedNow == {o \in Offers : offer[o].status # "ACEPTADA" /\ offer'[o].status = "ACEPTADA"}

OverlapInit == Init /\ late = {}

OverlapNext ==
    /\ Next
    /\ late' = IF Deciding THEN late \cup AcceptedNow ELSE late

OverlapSpec == OverlapInit /\ [][OverlapNext]_overlapVars

\* Offers that the calls in flight have counted, or would have.
Timely == Offers \ late

\* A negotiation under way on an open request shows as NEGOCIANDO, also after
\* another one ended and whatever stale writes follow (syncRequestNegotiationStatus,
\* offers.service.ts:81-110).
NegotiatingShows ==
    ~Closed => \A o \in Timely : Negotiating(o) => request.status = "NEGOCIANDO"

\* A request that its buyer removed or closed leaves nobody negotiating: removing
\* is refused during talks, closing ends them (striking a deal ends only its own).
OverWithoutTalks ==
    Closed \/ ~request.active =>
        \/ \A o \in Timely : ~Negotiating(o)
        \/ \E o \in Offers : offer[o].deal

\* What a call knows, when it writes, of the negotiations it counted.
CountedInv ==
    \A c \in Calls : \A o \in Timely :
        Negotiating(o) =>
            /\ call[c].at = "remove" => Closed
            /\ call[c].at = "ending" /\ call[c].sync = "demote" => o = call[c].offer
            /\ call[c].at = "closing" => o \in call[c].held

OverlapInv ==
    /\ IInv
    /\ late \in SUBSET Offers
    /\ CountedInv
    /\ NegotiatingShows
    /\ OverWithoutTalks
=============================================================================
