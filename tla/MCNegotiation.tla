--------------------------- MODULE MCNegotiation ---------------------------
(***************************************************************************)
(* Instances of Negotiation and NegotiationOverlaps for the model checker. *)
(***************************************************************************)
EXTENDS NegotiationOverlaps, TLC

\* Calls, offers and sellers are told apart by nothing but their identity.
Symmetry ==
    Permutations(Calls) \cup Permutations(Offers) \cup Permutations(Sellers)
=============================================================================
