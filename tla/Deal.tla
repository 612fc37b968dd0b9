-------------------------------- MODULE Deal --------------------------------
(***************************************************************************)
(* What the API promises the buyer and the sellers of one request, without *)
(* saying how: every offer moves forward through its phases and never      *)
(* back, a deal is struck at most once and closes the search, and nothing  *)
(* opens the search again.  Module Negotiation implements it.              *)
(***************************************************************************)
CONSTANT Offers

VARIABLES
    phase,   \* [Offers -> Phases]: how far each offer has come
    open     \* the request is not CERRADA

dealVars == <<phase, open>>

Phases == {"none", "pending", "rejected", "accepted", "ended", "dealt"}

Init ==
    /\ phase = [o \in Offers |-> "none"]
    /\ open = TRUE

Advance(o, from, to) ==
    /\ phase[o] = from
    /\ phase' = [phase EXCEPT ![o] = to]

Submit(o) == Advance(o, "none", "pending")      /\ UNCHANGED open
Reject(o) == Advance(o, "pending", "rejected")  /\ UNCHANGED open
Accept(o) == Advance(o, "pending", "accepted")  /\ UNCHANGED open
EndTalks(o) == Advance(o, "accepted", "ended")  /\ UNCHANGED open

\* The one step that strikes a deal.
Settle(o) ==
    /\ \A q \in Offers : phase[q] # "dealt"
    /\ Advance(o, "accepted", "dealt")
    /\ open' = FALSE

\* The buyer gives the search up, and with it the negotiations under way when
\* the buyer did so: one whose accept was on its way may survive.
CloseSearch ==
    /\ \E over \in SUBSET {o \in Offers : phase[o] = "accepted"} :
          phase' = [o \in Offers |-> IF o \in over THEN "ended" ELSE phase[o]]
    /\ open' = FALSE

Next ==
    \/ CloseSearch
    \/ \E o \in Offers : \/ Submit(o) \/ Reject(o) \/ Accept(o)
                         \/ EndTalks(o) \/ Settle(o)

Spec == Init /\ [][Next]_dealVars
=============================================================================
