----------------------------- MODULE WebSession -----------------------------
(***************************************************************************)
(* The session of the web application (api.ts, session.ts, the login page) *)
(* on top of the server of RefreshTokens.  All tabs share the access token *)
(* in localStorage and the cookie with the refresh token; the promise of a *)
(* refresh in flight is shared within a tab only.  The cookie goes with a  *)
(* request when it is sent, and changes when an answer arrives.            *)
(***************************************************************************)
EXTENDS RefreshTokens

CONSTANT Tabs

VARIABLES
    access,    \* localStorage has an access token
    cookie,    \* the refresh token of the cookie
    tab,       \* [Tabs -> what the tab waits for]
    alone,     \* a logout is under way, and nothing else of the tabs was sent meanwhile
    left        \* that logout came back, and nobody has asked for a login since

browser == <<access, cookie, tab, alone, left>>

NoAnswer == "nothing"

ASSUME NoAnswerAssumption == NoAnswer \notin Requests

\* `call` is a call of the API, with the access token (`with`) or without; the rest are
\* the requests of a refresh, a login and a logout that the tab waits for.
TabRecord == [call : {"idle", "sent", "waits", "again"}, with : BOOLEAN,
              refresh : Requests \cup {NoAnswer}, login : Requests \cup {NoAnswer},
              logout : Requests \cup {NoAnswer}]
TabIdle == [call |-> "idle", with |-> FALSE, refresh |-> NoAnswer, login |-> NoAnswer,
            logout |-> NoAnswer]

WebInit ==
    /\ access = FALSE
    /\ cookie = NoToken
    /\ tab = [t \in Tabs |-> TabIdle]
    /\ alone = FALSE
    /\ left = FALSE

WebTypeOK ==
    /\ ServerTypeOK
    /\ tab \in [Tabs -> TabRecord]
    /\ cookie \in 0..MaxTokens
    /\ {access, alone, left} \subseteq BOOLEAN

\* The browser sends a request, with the cookie it has.
Fetch(r, kind, t) ==
    /\ Free(r)
    /\ request' = [request EXCEPT ![r] = Sent(kind, t)]
    /\ UNCHANGED <<issued, valid, active, failures>>

\* What the answer does to the cookie; an error leaves it as it is.
CookieAfter_Kept(kind, answer, token) ==
    IF answer = "ok" /\ kind # "logout" THEN token ELSE cookie
CookieAfter(kind, answer, token) ==
    IF answer # "ok" THEN cookie ELSE IF kind = "logout" THEN NoToken ELSE token

Arrives(r) ==
    /\ r # NoAnswer /\ Answered(r)
    /\ request' = [request EXCEPT ![r] = NoRequest]
    /\ cookie' = CookieAfter(request[r].kind, request[r].answer, request[r].token)
    /\ UNCHANGED <<issued, valid, active, failures>>

\* The connection breaks, before the server has the request or after.
Breaks(r) ==
    /\ failures < MaxFailures
    /\ failures' = failures + 1
    /\ \/ UNCHANGED request
       \/ request[r].at = "read" /\ request' = [request EXCEPT ![r] = NoRequest]
    /\ UNCHANGED <<issued, valid, active>>

-----------------------------------------------------------------------------
(* api().                                                                  *)

\* Any screen, signed in or not, calls the API.
WebCall(t) ==
    /\ tab[t].call = "idle"
    /\ tab' = [tab EXCEPT ![t].call = "sent", ![t].with = access]
    /\ UNCHANGED <<server, access, cookie, alone, left>>

\* 200, or an error that is neither of the two below.
WebCallReturns(t) ==
    /\ tab[t].call \in {"sent", "again"}
    /\ tab' = [tab EXCEPT ![t].call = "idle", ![t].with = FALSE]
    /\ UNCHANGED <<server, access, cookie, alone, left>>

\* 403 with the code of a blocked or suspended account.
WebCallForbidden(t) ==
    /\ tab[t].call \in {"sent", "again"} /\ tab[t].with
    /\ ~active
    /\ access' = FALSE
    /\ tab' = [tab EXCEPT ![t].call = "idle", ![t].with = FALSE]
    /\ UNCHANGED <<server, cookie, alone, left>>

\* 401, the first time.  Calls of a tab that share its refresh are one here.
WebCallUnauthorized(t) ==
    /\ tab[t].call = "sent"
    /\ \E r \in Requests :
          /\ Fetch(r, "refresh", cookie)
          /\ tab' = [tab EXCEPT ![t].call = "waits", ![t].with = FALSE, ![t].refresh = r]
    /\ alone' = FALSE
    /\ UNCHANGED <<access, cookie, left>>

\* A call that waits is made again with the new token, or fails.  Any error of the
\* server, a 5xx too, throws the access token away.
Refreshed(t) ==
    /\ Arrives(tab[t].refresh)
    /\ access' = (request[tab[t].refresh].answer = "ok")
    /\ tab' = [tab EXCEPT ![t].refresh = NoAnswer, ![t].with = access',
                          ![t].call = IF access' THEN "again" ELSE "idle"]
    /\ UNCHANGED <<alone, left>>

\* fetch rejects: the access token stays, and the call fails.
RefreshBreaks(t) ==
    /\ tab[t].refresh # NoAnswer
    /\ Breaks(tab[t].refresh)
    /\ tab' = [tab EXCEPT ![t].refresh = NoAnswer, ![t].call = "idle", ![t].with = FALSE]
    /\ UNCHANGED <<access, cookie, alone, left>>

-----------------------------------------------------------------------------
(* The login page and logoutSession.                                       *)

WebLogin(t) ==
    /\ tab[t] = TabIdle /\ ~access
    /\ \E r \in Requests : /\ Fetch(r, "login", NoToken)
                           /\ tab' = [tab EXCEPT ![t].login = r]
    /\ alone' = FALSE
    /\ left' = FALSE
    /\ UNCHANGED <<access, cookie>>

WebLoginReturns(t) ==
    /\ Arrives(tab[t].login)
    /\ access' = (access \/ request[tab[t].login].answer = "ok")
    /\ tab' = [tab EXCEPT ![t].login = NoAnswer]
    /\ UNCHANGED <<alone, left>>

\* Also while calls and a refresh of the tab are under way.
WebLogout(t) ==
    /\ access
    /\ tab[t].logout = NoAnswer
    /\ \E r \in Requests : /\ Fetch(r, "logout", cookie)
                           /\ tab' = [tab EXCEPT ![t].logout = r]
    /\ alone' = \A q \in Tabs : {tab[q].refresh, tab[q].login, tab[q].logout} = {NoAnswer}
    /\ left' = FALSE
    /\ UNCHANGED <<access, cookie>>

\* Whatever the answer, the tokens are cleared; then the page loads again, and
\* what it waited for is forgotten.
WebLogoutReturns(t) ==
    /\ Arrives(tab[t].logout)
    /\ access' = FALSE
    /\ left' = (alone /\ request[tab[t].logout].answer = "ok")
    /\ tab' = [tab EXCEPT ![t] = TabIdle]
    /\ alone' = FALSE

WebLogoutBreaks(t) ==
    /\ tab[t].logout # NoAnswer
    /\ Breaks(tab[t].logout)
    /\ access' = FALSE
    /\ tab' = [tab EXCEPT ![t] = TabIdle]
    /\ alone' = FALSE
    /\ UNCHANGED <<cookie, left>>

\* The user closes the tab or loads another page.
Unload(t) ==
    /\ tab[t] # TabIdle
    /\ tab' = [tab EXCEPT ![t] = TabIdle]
    /\ alone' = (alone /\ tab[t].logout = NoAnswer)
    /\ UNCHANGED <<server, access, cookie, left>>

\* The answer of a request nobody waits for.
Forgotten(r) ==
    /\ Answered(r)
    /\ \A t \in Tabs : r \notin {tab[t].refresh, tab[t].login, tab[t].logout}
    /\ request' = [request EXCEPT ![r] = NoRequest]
    /\ UNCHANGED <<issued, valid, active, failures, browser>>

WebStep ==
    \/ \E t \in Tabs :
          \/ WebCall(t) \/ WebCallReturns(t) \/ WebCallForbidden(t) \/ WebCallUnauthorized(t)
          \/ Refreshed(t) \/ RefreshBreaks(t) \/ WebLogin(t) \/ WebLoginReturns(t)
          \/ WebLogout(t) \/ WebLogoutReturns(t) \/ WebLogoutBreaks(t) \/ Unload(t)
    \/ \E r \in Requests : Forgotten(r)

WebNext == WebStep \/ (ServerNext /\ UNCHANGED browser)

WebSpec == ServerInit /\ WebInit /\ [][WebNext]_<<server, browser>>

-----------------------------------------------------------------------------
(* Properties.                                                             *)

\* After a logout that the server confirmed, and that no other tab's refresh or login
\* overlapped, no tab brings the session back: a call that was under way, or made
\* later from a tab that still shows the user, finds neither a token nor a cookie.
WebLogoutSticks == left => ~access /\ cookie = NoToken
=============================================================================
