----------------------------- MODULE MCServices -----------------------------
(***************************************************************************)
(* Instances of ChatSending, Moderation, MatchingAlerts and Ratings for    *)
(* the model checker.  They share no state: a behaviour picks one of them, *)
(* and the others stay as they began.                                      *)
(***************************************************************************)
EXTENDS ChatSending, Moderation, MatchingAlerts, Ratings

VARIABLE part

Parts == {"chat", "moderation", "alerts", "ratings"}
serviceVars == <<part, chatVars, moderationVars, alertVars, ratingVars>>

\* Where a part may begin in several ways, the others begin in one.
ServicesInit ==
    /\ part \in Parts
    /\ ChatInit /\ (part = "chat" \/ connected)
    /\ ModerationInit /\ (part = "moderation" \/ standing = Reporters)
    /\ AlertsInit
    /\ RatingsInit

ServicesNext ==
    \/ /\ part = "chat" /\ ChatNext
       /\ UNCHANGED <<part, moderationVars, alertVars, ratingVars>>
    \/ /\ part = "moderation" /\ ModerationNext
       /\ UNCHANGED <<part, chatVars, alertVars, ratingVars>>
    \/ /\ part = "alerts" /\ AlertsNext
       /\ UNCHANGED <<part, chatVars, moderationVars, ratingVars>>
    \/ /\ part = "ratings" /\ RatingsNext
       /\ UNCHANGED <<part, chatVars, moderationVars, alertVars>>

\* The fairness of ChatFairSpec, which the other parts satisfy by standing still.
ServicesSpec ==
    /\ ServicesInit
    /\ [][ServicesNext]_serviceVars
    /\ \A c \in CallIds :
          /\ WF_chatVars(part = "chat" /\ ServerStep(c))
          /\ WF_chatVars(part = "chat" /\ ClientStep(c))

=============================================================================
