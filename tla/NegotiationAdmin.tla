-------------------------- MODULE NegotiationAdmin --------------------------
(***************************************************************************)
(* The negotiation of a request together with the admin panel and the      *)
(* moderation by reports, which write the same rows without asking whether *)
(* a call of the buyer or of a seller is in flight.                        *)
(***************************************************************************)
EXTENDS Negotiation

\* AdminService.closeRequest: negotiations are left as they are.
AdminClose ==
    /\ request' = [request EXCEPT !.status = "CERRADA", !.active = FALSE, !.paused = FALSE]
    /\ UNCHANGED <<offer, call>>

\* AdminService.reactivateRequest: ACTIVA whatever the offers say.
AdminReactivate ==
    /\ request' = [request EXCEPT !.status = "ACTIVA", !.active = TRUE,
                                  !.paused = FALSE, !.fresh = TRUE]
    /\ UNCHANGED <<offer, call>>

\* AdminService.deleteOffer: the chat goes with the row; the request is not told.
AdminDeleteOffer(o) ==
    /\ Exists(o)
    /\ ~Locked(o)
    /\ offer' = [offer EXCEPT ![o] = [NoOffer EXCEPT !.status = "DELETED"]]
    /\ UNCHANGED <<request, call>>

\* ReportsService.evaluateContent, once enough users have reported the request.
HideByReports ==
    /\ ~request.hidden
    /\ request' = [request EXCEPT !.hidden = TRUE]
    /\ UNCHANGED <<offer, call>>

\* AdminService.restoreRequest.
AdminRestore ==
    /\ request' = [request EXCEPT !.hidden = FALSE]
    /\ UNCHANGED <<offer, call>>

AdminStep ==
    \/ AdminClose
    \/ AdminReactivate
    \/ \E o \in Offers : AdminDeleteOffer(o)
    \/ HideByReports
    \/ AdminRestore

AdminNext == Next \/ AdminStep

AdminSpec == Init /\ [][AdminNext]_vars

-----------------------------------------------------------------------------

\* Only an administrator reopens a closed request: no call in flight does it
\* on the way, however the two overlap.
OnlyAdminReopens ==
    [][Closed /\ ~Closed' => AdminReactivate]_vars

\* Short of a deletion, an outcome outlives everything an administrator does to
\* the request: a deal survives its reopening, an ended negotiation stays ended.
OutcomeOutlivesAdmin ==
    [][\A o \in Offers :
         /\ offer[o].status \in {"ACEPTADA", "RECHAZADA"} =>
                offer'[o].status \in {offer[o].status, "DELETED"}
         /\ offer[o].deal => offer'[o].deal \/ AdminDeleteOffer(o)
         /\ offer[o].ended # None =>
                offer'[o].ended = offer[o].ended \/ AdminDeleteOffer(o)]_vars
=============================================================================
