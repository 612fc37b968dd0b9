----------------------------- MODULE MCWebhook -----------------------------
(***************************************************************************)
(* Instances of WebhookOverlaps for the model checker.                     *)
(***************************************************************************)
EXTENDS WebhookOverlaps, TLC

\* Requests are told apart by nothing but their identity; events are ordered.
Symmetry == Permutations(Workers)
=============================================================================
