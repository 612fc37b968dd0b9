------------------------- MODULE MCNegotiationAdmin -------------------------
(***************************************************************************)
(* Instances of NegotiationAdmin for the model checker.                    *)
(***************************************************************************)
EXTENDS NegotiationAdmin, TLC

Symmetry ==
    Permutations(Calls) \cup Permutations(Offers) \cup Permutations(Sellers)
=============================================================================
