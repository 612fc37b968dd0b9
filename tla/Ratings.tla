------------------------------ MODULE Ratings ------------------------------
(***************************************************************************)
(* RatingsService.create on one accepted offer, called by its buyer and    *)
(* its seller, twice each when a form is sent twice, while the chat goes   *)
(* on, the deal is completed or the negotiation ends.                      *)
(***************************************************************************)
EXTENDS Integers, FiniteSets

CONSTANT MaxRatings     \* calls of create

ASSUME RatingsAssumption == MaxRatings \in Nat

VARIABLES
    deal,       \* the offer and its chat: replied, completed, ended
    rating      \* the calls, each the row it may store

ratingVars == <<deal, rating>>

RatingCalls == 1 .. MaxRatings
Parties == {"buyer", "seller"}
RatingTypes == {"REVIEW", "NO_RESPONSE"}

NoRating == [at |-> "unused", from |-> "buyer", type |-> "REVIEW"]
RatingRows == {c \in RatingCalls : rating[c].at = "stored"}

RatingsInit ==
    /\ deal = [replied |-> FALSE, completed |-> FALSE, ended |-> FALSE]
    /\ rating = [c \in RatingCalls |-> NoRating]

Rated(from) == \E c \in RatingRows : rating[c].from = from

RatingAt(c, step) == rating' = [rating EXCEPT ![c].at = step]

\* The read of an earlier rating.  Calls are numbered in the order they arrive.
CheckRating(c, from, type) ==
    /\ rating[c].at = "unused"
    /\ \A b \in 1 .. c - 1 : rating[b].at # "unused"
    /\ rating' = [rating EXCEPT ![c] =
                    [at |-> IF Rated(from) THEN "refused" ELSE "checked",
                     from |-> from, type |-> type]]
    /\ UNCHANGED deal

\* A mutant: a review of a negotiation without a deal.
MayRate_Accepted(from, type) ==
    \/ type = "NO_RESPONSE" /\ ~deal.ended /\ from = "seller" /\ ~deal.replied
    \/ type = "REVIEW"

\* getNegotiationOfferContext and getCompletedOfferContext.
MayRate(from, type) ==
    \/ type = "NO_RESPONSE" /\ ~deal.ended /\ from = "seller" /\ ~deal.replied
    \/ type = "REVIEW" /\ deal.completed

ReadOffer(c) ==
    /\ rating[c].at = "checked"
    /\ RatingAt(c, IF MayRate(rating[c].from, rating[c].type) THEN "insert" ELSE "refused")
    /\ UNCHANGED deal

\* The insert, or the unique index on <<fromUserId, offerId>>.
InsertRating(c) ==
    /\ rating[c].at = "insert"
    /\ RatingAt(c, IF Rated(rating[c].from) THEN "refused" ELSE "stored")
    /\ UNCHANGED deal

----------------------------------------------------------------------------
(* The chat and the negotiation, see ChatSending and Negotiation.          *)

DealSets(field) ==
    /\ ~deal[field]
    /\ deal' = [deal EXCEPT ![field] = TRUE]
    /\ UNCHANGED rating

BuyerReplies == ~deal.ended /\ DealSets("replied")
DealIsCompleted == ~deal.ended /\ DealSets("completed")
NegotiationIsEnded == ~deal.completed /\ DealSets("ended")

RatingsNext ==
    \/ \E c \in RatingCalls :
          \/ \E from \in Parties, type \in RatingTypes : CheckRating(c, from, type)
          \/ ReadOffer(c)
          \/ InsertRating(c)
    \/ BuyerReplies
    \/ DealIsCompleted
    \/ NegotiationIsEnded

RatingsSpec == RatingsInit /\ [][RatingsNext]_ratingVars

----------------------------------------------------------------------------
RatingsTypeOK ==
    /\ deal \in [replied : BOOLEAN, completed : BOOLEAN, ended : BOOLEAN]
    /\ rating \in [RatingCalls ->
          [at : {"unused", "checked", "insert", "stored", "refused"},
           from : Parties, type : RatingTypes]]

\* Whatever the calls overlap with, reputations are built on what happened: each
\* party rates an offer once, stars are for a completed deal, and only a seller
\* reports a buyer for not answering, never twice and never beside a review.
RatingsStand ==
    \A c \in RatingRows :
        /\ rating[c].type = "REVIEW" => deal.completed
        /\ rating[c].type = "NO_RESPONSE" => rating[c].from = "seller"
        /\ \A b \in RatingRows : rating[b].from = rating[c].from => b = c
=============================================================================
