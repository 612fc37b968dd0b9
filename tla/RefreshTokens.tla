--------------------------- MODULE RefreshTokens ---------------------------
(***************************************************************************)
(* The refresh tokens of one user on the server (AuthService).  A request  *)
(* runs in statements of its own: a refresh reads its token, revokes it    *)
(* and issues the next one; requests of several clients, and those a       *)
(* client gave up on, interleave.  Access tokens are not kept by the       *)
(* server: any number of them may be around, and each request they come    *)
(* with reads again whether the account is active.                         *)
(***************************************************************************)
EXTENDS Naturals

CONSTANTS
    Requests,     \* requests served at the same time
    MaxTokens,    \* bound on the tokens issued
    MaxFailures   \* bound on requests that fail and on what clients lose

ASSUME TokensAssumption == {MaxTokens, MaxFailures} \subseteq Nat

VARIABLES
    issued,       \* refresh tokens issued so far; they are named 1, 2, ...
    valid,        \* those neither revoked nor expired
    active,       \* the account is neither blocked nor suspended
    request,      \* [Requests -> request being served]
    failures

server == <<issued, valid, active, request, failures>>

NoToken == 0
Tokens == 1..MaxTokens

Kinds == {"refresh", "login", "logout"}

\* The outcomes of a request; the token of an "ok" is the one that was issued.
\* "failed" is a 5xx, a lost connection or a timeout.
Answers == {"ok", "invalid", "forbidden", "failed"}

NoRequest == [at |-> "none", kind |-> "login", token |-> NoToken, answer |-> "ok"]

RequestRecord == [at : {"none", "read", "revoke", "issue", "answered"},
                  kind : Kinds, token : 0..MaxTokens, answer : Answers]

ServerTypeOK ==
    /\ issued \in 0..MaxTokens
    /\ valid \subseteq 1..issued
    /\ active \in BOOLEAN
    /\ request \in [Requests -> RequestRecord]
    /\ failures \in 0..MaxFailures

ServerInit ==
    /\ issued = 0
    /\ valid = {}
    /\ active = TRUE
    /\ request = [r \in Requests |-> NoRequest]
    /\ failures = 0

-----------------------------------------------------------------------------
(* What clients do with requests.                                          *)

Free(r) == request[r].at = "none"

Sent(kind, t) == [NoRequest EXCEPT !.at = "read", !.kind = kind, !.token = t]

Answered(r) == request[r].at = "answered"

-----------------------------------------------------------------------------
(* The handlers.                                                           *)

Reply(r, answer) == [request[r] EXCEPT !.at = "answered", !.answer = answer]

\* refresh and logout look the token up; login has compared the password.
ReadToken(r) ==
    /\ request[r].at = "read"
    /\ LET kind == request[r].kind
           known == request[r].token \in valid
           next == CASE kind = "refresh" /\ ~known -> Reply(r, "invalid")
                     [] kind # "logout" /\ (kind = "login" \/ known) /\ ~active -> Reply(r, "forbidden")
                     [] kind = "logout" /\ ~known -> Reply(r, "ok")
                     [] kind = "login" -> [request[r] EXCEPT !.at = "issue"]
                     [] OTHER -> [request[r] EXCEPT !.at = "revoke"]
       IN request' = [request EXCEPT ![r] = next]
    /\ UNCHANGED <<issued, valid, active, failures>>

\* By the id of the row: a token revoked since it was read is revoked again.
RevokeToken(r) ==
    /\ request[r].at = "revoke"
    /\ valid' = valid \ {request[r].token}
    /\ request' = [request EXCEPT ![r] = IF @.kind = "logout" THEN Reply(r, "ok")
                                         ELSE [@ EXCEPT !.at = "issue"]]
    /\ UNCHANGED <<issued, active, failures>>

IssueToken(r) ==
    /\ request[r].at = "issue"
    /\ issued < MaxTokens
    /\ issued' = issued + 1
    /\ valid' = valid \cup {issued'}
    /\ request' = [request EXCEPT ![r] = [Reply(r, "ok") EXCEPT !.token = issued']]
    /\ UNCHANGED <<active, failures>>

\* A statement fails or the process dies: what was revoked stays revoked.
RequestFails(r) ==
    /\ request[r].at \in {"read", "revoke", "issue"}
    /\ failures < MaxFailures
    /\ failures' = failures + 1
    /\ request' = [request EXCEPT ![r] = Reply(r, "failed")]
    /\ UNCHANGED <<issued, valid, active>>

ServerStep(r) == ReadToken(r) \/ RevokeToken(r) \/ IssueToken(r)

-----------------------------------------------------------------------------
(* The rest of the server.                                                 *)

\* expiresAt passes; the nightly purge deletes tokens that are no longer valid.
TokenExpires(t) ==
    /\ t \in valid
    /\ valid' = valid \ {t}
    /\ UNCHANGED <<issued, active, request, failures>>

\* One transaction: the new password, the used link, every token revoked.
ResetPassword ==
    /\ valid # {}
    /\ valid' = {}
    /\ UNCHANGED <<issued, active, request, failures>>

\* An administrator blocks, reports suspend, and both can be taken back.
AccountChanges ==
    /\ active' = ~active
    /\ UNCHANGED <<issued, valid, request, failures>>

ServerNext ==
    \/ \E r \in Requests : ServerStep(r) \/ RequestFails(r)
    \/ \E t \in valid : TokenExpires(t)
    \/ ResetPassword
    \/ AccountChanges
=============================================================================
