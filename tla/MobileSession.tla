--------------------------- MODULE MobileSession ---------------------------
(***************************************************************************)
(* The session of the mobile application (session-refresh.ts, the API      *)
(* client and AuthProvider) on top of the server of RefreshTokens.         *)
(*                                                                         *)
(* The application is one JavaScript thread: what stands between two       *)
(* awaits is one step.  A write to the secure store takes effect in a step *)
(* of its own, between the call and its continuation.  The refresh, a      *)
(* login and a logout may all be waiting at the same time; `generation`    *)
(* tells a refresh that one of the others went past it.                    *)
(***************************************************************************)
EXTENDS RefreshTokens

CONSTANT MaxGenerations   \* bound on logins and logouts

VARIABLES
    generation,
    store,      \* the refresh token in the secure store
    app,        \* the access token in memory, what the screens show, and restoreError
    calling,    \* a screen waits for an answer of the API
    refresh,    \* coordinatedRefresh, at most one in flight
    waiting,    \* who awaits its outcome
    ending,     \* the outcome "invalid" or "empty" waits for the store to be cleared
    login,
    logout,
    out,        \* the last to begin, of logins and logouts, is a logout, alone
    late        \* a refresh began between the start and the end of that logout

refreshing == <<refresh, waiting, ending>>
history == <<out, late>>
phone == <<generation, store, app, calling, refreshing, login, logout, history>>
vars == <<server, phone>>

\* `via` is the request an answer is awaited from.
Nothing == "nothing"

ASSUME PhoneAssumption == MaxGenerations \in Nat /\ Nothing \notin Requests

Via == Requests \cup {Nothing}

AppRecord == [access : BOOLEAN, status : {"booting", "authenticated", "unauthenticated"},
              retry : BOOLEAN]

\* `token` is the one to send, and then the one to store; `alone`, for the properties,
\* says that it began when no login or logout was under way.
RefreshRecord == [at : {"idle", "load", "sent", "store", "stored", "undo"},
                  gen : 0..MaxGenerations, token : 0..MaxTokens, via : Via, alone : BOOLEAN]
RefreshIdle == [at |-> "idle", gen |-> 0, token |-> NoToken, via |-> Nothing, alone |-> FALSE]

NotEnding == [at |-> "no", gen |-> 0, alone |-> FALSE]

FlowRecord == [at : {"idle", "sent", "store", "stored", "clear", "cleared"},
               token : 0..MaxTokens, via : Via]
FlowIdle == [at |-> "idle", token |-> NoToken, via |-> Nothing]

TypeOK ==
    /\ ServerTypeOK
    /\ generation \in 0..MaxGenerations
    /\ store \in 0..MaxTokens
    /\ app \in AppRecord
    /\ refresh \in RefreshRecord
    /\ waiting \subseteq {"restore", "call"}
    /\ ending \in [at : {"no", "clear", "cleared"}, gen : 0..MaxGenerations, alone : BOOLEAN]
    /\ {login, logout} \subseteq FlowRecord
    /\ {calling, out, late} \subseteq BOOLEAN

SignedIn == [access |-> TRUE, status |-> "authenticated", retry |-> FALSE]
SignedOut == [access |-> FALSE, status |-> "unauthenticated", retry |-> FALSE]
TryAgain == [SignedOut EXCEPT !.retry = TRUE]
Booting == [SignedOut EXCEPT !.status = "booting"]

Init ==
    /\ ServerInit
    /\ generation = 0
    /\ store = NoToken
    /\ app = Booting
    /\ calling = FALSE
    /\ refresh = RefreshIdle
    /\ waiting = {}
    /\ ending = NotEnding
    /\ login = FlowIdle
    /\ logout = FlowIdle
    /\ out = FALSE
    /\ late = FALSE

LoginStoring == login.at \in {"store", "stored"}

\* A request is sent on a free slot, and its answer is received once.
Send(r, kind, t) ==
    /\ Free(r)
    /\ request' = [request EXCEPT ![r] = Sent(kind, t)]
    /\ UNCHANGED <<issued, valid, active, failures>>

Receive(r) ==
    /\ Answered(r)
    /\ request' = [request EXCEPT ![r] = NoRequest]
    /\ UNCHANGED <<issued, valid, active, failures>>

\* The answer of a request its client gave up on, or does not look at.
Discard(r) ==
    /\ r \notin {refresh.via, login.via}
    /\ Receive(r)
    /\ UNCHANGED phone

-----------------------------------------------------------------------------
(* coordinatedRefresh, and applyRefreshOutcome for all who await it.       *)

\* Who comes while a refresh is in flight shares its promise.
Join(who) ==
    /\ who \notin waiting
    /\ waiting' = waiting \cup {who}
    /\ \/ refresh.at # "idle" /\ UNCHANGED <<refresh, late>>
       \/ /\ refresh.at = "idle"
          /\ refresh' = [RefreshIdle EXCEPT !.at = "load", !.gen = generation, !.token = store,
                                      !.alone = ~LoginStoring /\ logout.at = "idle"]
          /\ late' = (late \/ logout.at # "idle")
    /\ UNCHANGED <<server, generation, store, ending, login, logout, out>>

\* restoreSession, when the application starts and when the user tries again.
Restore ==
    /\ app.status = "booting" \/ app.retry
    /\ \/ /\ store # NoToken
          /\ Join("restore")
          /\ app' = [app EXCEPT !.retry = FALSE]
       \/ /\ store = NoToken
          /\ app' = SignedOut
          /\ UNCHANGED <<server, generation, store, refreshing, login, logout, history>>
    /\ UNCHANGED calling

\* The screens call the API with the access token, at most one call at a time here.
Call ==
    /\ app.access
    /\ ~calling
    /\ calling' = TRUE
    /\ UNCHANGED <<server, generation, store, app, refreshing, login, logout, history>>

CallSucceeds ==
    /\ calling
    /\ "call" \notin waiting
    /\ calling' = FALSE
    /\ UNCHANGED <<server, generation, store, app, refreshing, login, logout, history>>

\* The access token has expired: 401.
CallUnauthorized ==
    /\ calling
    /\ Join("call")
    /\ UNCHANGED <<app, calling>>

Superseded_Never == FALSE
Superseded == generation # refresh.gen

Goto(at) ==
    /\ refresh' = [refresh EXCEPT !.at = at, !.via = Nothing]
    /\ UNCHANGED <<app, calling, waiting, ending>>

\* The promise is settled: those who wait go on before anything else happens.
Settle(next) ==
    /\ refresh' = RefreshIdle
    /\ waiting' = {}
    /\ app' = next
    /\ calling' = (calling /\ "call" \notin waiting)

SettleOk == Settle(SignedIn) /\ UNCHANGED ending
SettleAborted == Settle(app) /\ UNCHANGED ending
SettleNetwork ==
    /\ Settle(IF "restore" \in waiting THEN TryAgain ELSE app)
    /\ UNCHANGED ending

\* The screens follow when the store has been cleared.
SettleInvalid ==
    /\ Settle([app EXCEPT !.access = FALSE])
    /\ ending' = [at |-> "clear", gen |-> refresh.gen, alone |-> refresh.alone]

EndingClears ==
    /\ ending.at = "clear"
    /\ store' = NoToken
    /\ ending' = [ending EXCEPT !.at = "cleared"]
    /\ UNCHANGED <<server, generation, app, calling, refresh, waiting, login, logout, history>>

EndingCleared ==
    /\ ending.at = "cleared"
    /\ ending' = NotEnding
    /\ app' = [SignedOut EXCEPT !.access = app.access]
    /\ UNCHANGED <<server, generation, store, calling, refresh, waiting, login, logout, history>>

RefreshLoaded ==
    /\ refresh.at = "load"
    /\ \/ refresh.token = NoToken /\ SettleInvalid /\ UNCHANGED server
       \/ refresh.token # NoToken /\ Superseded /\ SettleAborted /\ UNCHANGED server
       \/ /\ refresh.token # NoToken /\ ~Superseded
          /\ \E r \in Requests : /\ Send(r, "refresh", refresh.token)
                                 /\ refresh' = [refresh EXCEPT !.at = "sent", !.via = r]
          /\ UNCHANGED <<app, calling, waiting, ending>>
    /\ UNCHANGED <<generation, store, login, logout, history>>

\* isInvalidSessionError: a 401, and nothing else, says that the session is over.
EndsSession_AnyError(answer) == answer # "ok"
EndsSession(answer) == answer = "invalid"

RefreshAnswered(r) ==
    /\ refresh.at = "sent" /\ refresh.via = r
    /\ Receive(r)
    /\ LET answer == request[r].answer IN
       \/ answer = "ok" /\ Superseded /\ SettleAborted
       \/ /\ answer = "ok" /\ ~Superseded
          /\ refresh' = [refresh EXCEPT !.at = "store", !.token = request[r].token, !.via = Nothing]
          /\ UNCHANGED <<app, calling, waiting, ending>>
       \/ EndsSession(answer) /\ SettleInvalid
       \/ answer # "ok" /\ ~EndsSession(answer) /\ SettleNetwork
    /\ UNCHANGED <<generation, store, login, logout, history>>

\* After 20 seconds; the server may still do what it was asked.
RefreshTimesOut ==
    /\ refresh.at = "sent"
    /\ failures < MaxFailures
    /\ failures' = failures + 1
    /\ SettleNetwork
    /\ UNCHANGED <<issued, valid, active, request, generation, store, login, logout, history>>

RefreshStores ==
    /\ refresh.at = "store"
    /\ store' = refresh.token
    /\ Goto("stored")
    /\ UNCHANGED <<server, generation, login, logout, history>>

\* The secure store refuses, when the server has revoked the old token already.
RefreshStoreFails ==
    /\ refresh.at = "store"
    /\ failures < MaxFailures
    /\ failures' = failures + 1
    /\ store' = NoToken
    /\ Settle(TryAgain)
    /\ UNCHANGED <<issued, valid, active, request, generation, ending, login, logout, history>>

\* Only a token that is still its own is taken back.
RefreshStored ==
    /\ refresh.at = "stored"
    /\ \/ ~Superseded /\ SettleOk
       \/ Superseded /\ store # refresh.token /\ SettleAborted
       \/ Superseded /\ store = refresh.token /\ Goto("undo")
    /\ UNCHANGED <<server, generation, store, login, logout, history>>

RefreshUndone ==
    /\ refresh.at = "undo"
    /\ store' = NoToken
    /\ SettleAborted
    /\ UNCHANGED <<server, generation, login, logout, history>>

-----------------------------------------------------------------------------
(* Login, register and logout.                                             *)

Bump == generation < MaxGenerations /\ generation' = generation + 1

Login(r) ==
    /\ app.status = "unauthenticated"
    /\ login.at = "idle"
    /\ Send(r, "login", NoToken)
    /\ login' = [FlowIdle EXCEPT !.at = "sent", !.via = r]
    /\ UNCHANGED <<generation, store, app, calling, refreshing, logout, history>>

LoginAnswered(r) ==
    /\ login.at = "sent" /\ login.via = r
    /\ Receive(r)
    /\ \/ /\ request[r].answer = "ok"
          /\ Bump
          /\ login' = [FlowIdle EXCEPT !.at = "store", !.token = request[r].token]
          /\ out' = FALSE /\ late' = FALSE
       \/ /\ request[r].answer # "ok"
          /\ login' = FlowIdle
          /\ UNCHANGED <<generation, history>>
    /\ UNCHANGED <<store, app, calling, refreshing, logout>>

LoginStores ==
    /\ login.at = "store"
    /\ store' = login.token
    /\ login' = [login EXCEPT !.at = "stored"]
    /\ UNCHANGED <<server, generation, app, calling, refreshing, logout, history>>

\* persistAuthRefreshToken fails: the user stays signed out.
LoginStoreFails ==
    /\ login.at = "store"
    /\ failures < MaxFailures
    /\ failures' = failures + 1
    /\ store' = NoToken
    /\ app' = [app EXCEPT !.access = FALSE]
    /\ login' = FlowIdle
    /\ UNCHANGED <<issued, valid, active, request, generation, calling, refreshing, logout, history>>

LoginStored ==
    /\ login.at = "stored"
    /\ login' = FlowIdle
    /\ app' = SignedIn
    /\ UNCHANGED <<server, generation, store, calling, refreshing, logout, history>>

Logout ==
    /\ app.status = "authenticated"
    /\ logout.at = "idle"
    /\ Bump
    /\ logout' = [FlowIdle EXCEPT !.at = "clear", !.token = store]
    /\ out' = ~LoginStoring /\ late' = FALSE
    /\ UNCHANGED <<server, store, app, calling, refreshing, login>>

LogoutClears ==
    /\ logout.at = "clear"
    /\ app' = [app EXCEPT !.access = FALSE]
    /\ store' = NoToken
    /\ logout' = [logout EXCEPT !.at = "cleared"]
    /\ UNCHANGED <<server, generation, calling, refreshing, login, history>>

\* The server is told as well; its answer does not matter.
LogoutCleared ==
    /\ logout.at = "cleared"
    /\ logout' = FlowIdle
    /\ app' = [SignedOut EXCEPT !.access = app.access]
    /\ \/ logout.token = NoToken /\ UNCHANGED server
       \/ logout.token # NoToken /\ \E r \in Requests : Send(r, "logout", logout.token)
    /\ UNCHANGED <<generation, store, calling, refreshing, login, history>>

\* The application is killed and started again: only the secure store is kept.
Restart ==
    /\ failures < MaxFailures
    /\ failures' = failures + 1
    /\ generation' = 0
    /\ app' = Booting
    /\ calling' = FALSE
    /\ refresh' = RefreshIdle
    /\ waiting' = {}
    /\ ending' = NotEnding
    /\ login' = FlowIdle
    /\ logout' = FlowIdle
    /\ out' = FALSE
    /\ late' = FALSE
    /\ UNCHANGED <<issued, valid, active, request, store>>

PhoneStep ==
    \/ Restore \/ Call \/ CallSucceeds \/ CallUnauthorized
    \/ RefreshLoaded \/ RefreshTimesOut \/ RefreshStores \/ RefreshStoreFails
    \/ RefreshStored \/ RefreshUndone \/ EndingClears \/ EndingCleared
    \/ LoginStores \/ LoginStoreFails \/ LoginStored
    \/ Logout \/ LogoutClears \/ LogoutCleared \/ Restart
    \/ \E r \in Requests : RefreshAnswered(r) \/ Login(r) \/ LoginAnswered(r) \/ Discard(r)

Next == PhoneStep \/ (ServerNext /\ UNCHANGED phone)

Spec == Init /\ [][Next]_vars

-----------------------------------------------------------------------------
(* Properties.                                                             *)

\* When a logout has ended, no refresh that was on its way when it began brings the
\* session back: there is no access token, the login screen shows, and a token it may
\* have stored is about to be taken back (session-refresh.ts, logout of AuthProvider).
\* `late`: a refresh that began during the logout has its generation, and may.
LogoutSticks ==
    out /\ ~late /\ logout.at = "idle" =>
        /\ ~app.access
        /\ app.status = "unauthenticated"
        /\ store # NoToken => refresh.at \in {"stored", "undo"}

\* A session the server would still accept is not thrown away because a refresh timed
\* out, failed with a 5xx or was refused to a suspended account: unless a login or a
\* logout went past the refresh, it clears the store only of a dead token.
OnlyDeadTokensThrown ==
    [][EndingClears /\ ending.alone /\ ending.gen = generation => store \notin valid]_vars
=============================================================================
