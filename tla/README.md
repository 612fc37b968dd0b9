# Verification of the buyseekk API

buyseekk is a reverse marketplace. A buyer publishes a *request* ("I am looking
for a car"), sellers make *offers* on it, the buyer accepts one or more of them,
which opens a chat for each, and in the end closes a deal with at most one
seller. This directory holds TLA+ models of the parts of the API
(`src/apps/api`) and of its web and mobile clients where steps of several
requests, users, processes or outside services interleave, their TLC
configurations, and proofs checked by TLAPS.

## 1. The system

The API is a NestJS process; several replicas may run against one Postgres
database. There is no lock and no queue in the process: handlers are `async`
functions, so between any two `await`s other handlers, of this process or
another one, run. What protects the data is what Postgres does inside one
statement or one transaction (READ COMMITTED, Prisma's default): row locks of an
UPDATE, the WHERE clause of an `updateMany`, and unique indexes.

| Component | State | Operations | Hard because | Correct when |
|---|---|---|---|---|
| Negotiation (`offers`, `requests`, part of `chats`) | rows `Request`, `Offer`, `Chat` | create, accept, reject, complete, endNegotiation, dismiss, removeFromListing; close, renew, pause, remove, update; the effect of send | reads and writes are apart; some handlers write in a transaction, some in two statements | one deal per request, outcomes final, a closed request stays closed, the status shows the negotiations |
| Request lifecycle | `status`, `active`, `pausedAt`, `lastBuyerActivityAt` | create with a limit, renew, pause, edit, close, remove; the passing of time | the status is derived from the clock twice, in TypeScript and in SQL, at boundaries | both derivations agree, the limit holds, the buyer is told before the archive |
| Notifications | rows `Notification` with a dedupe key | hourly scan of every replica, alerts of matching requests, create, remove, clearAll, marks | replicas race, notifications fail and are swallowed | each notice reaches its user, once |
| Chats | rows `Chat`, `Message`, `ChatReadState`; the composer of the client | send over socket or REST, join, mark read, list | timeouts, retries with a client id on another transport, answers that never come | a text is stored once, never lost, and every send ends |
| Administration | the same rows, flags of `User` | close, reactivate, delete, restore, block, suspend | they write without asking who else does | only an administrator reopens; outcomes survive |
| Reports and moderation | rows `Report`, the flags of what is reported | create, which counts and acts | the count follows the insert, calls overlap | no threshold is missed, none passed by fewer people |
| Stripe webhook | rows `BillingEvent`, `Subscription`, `User.subscriptionPlan` | claim with a lease, dispatch, sync, mark | events come late, twice, out of order, and requests die half way | nothing acknowledged is lost, newer state wins, the cache mirrors the row |
| Billing management | the same rows and Stripe | cancel at period end, resume | the answer of Stripe races its own events | the newest state wins |
| Checkout | rows `BillingCustomer`, `BillingCheckoutSession` | create or reuse a session | crashes between Stripe and the row, retries with idempotency keys | one open session, none lost |
| Authentication and the clients' sessions | rows `RefreshToken`, `AuthToken`; the secure store of the phone, `localStorage` and the cookie of the browser | login, refresh, logout, verify, reset, purge | rotation is a read and an update, answers are lost, refreshes of one device overlap its logouts and logins | a logout lasts, a good session is not thrown away |
| Ratings | rows `Rating` | create | a form sent twice, a deal or a reply meanwhile | a rating rests on what happened |
| Saved searches | rows `SavedSearch` | create, update, remove, set default | a search is saved while a request is published; a count before an insert | no match is missed, one alert each, the limit of the plan |
| Storage, users and profiles | objects of the store; URLs in `User`, `Request`, `Offer` | upload, update, create, delete what is left behind | the rows and the objects are written apart | no row shows a deleted image |
| Saved requests | rows `SavedRequest` | save, remove | - | - |
| Filters, guards, throttling, configuration, demo, e-mail | none of interest | pure checks, wiring, output | - | - |
| Shared package | none | derivations used by all | - | modelled with their users |

The components meet in the database: `OffersService` and `ChatsService` write the
status of the request that `RequestsService` owns; the admin panel and the reports
write it too; every handler calls `NotificationsService` after its commit and
survives its failure (`bestEffort`); `BillingService` stores the answer of Stripe
through the sync of the webhook service, which calls `SubscriptionService` to
refresh the plan cache. `RequestsService.create` and `SavedSearchesService` look
for each other's rows and alert through `NotificationsService`; three services hand
the URLs they drop to `StorageObjectsService`. The clients meet the API in requests
that may be lost, late or answered after the client gave up. `PROJECT.json` lists each
hazard at its line.

## 2. The modules

| Module | What it is |
|---|---|
| `Deal` | abstract: what one request promises, as phases of its offers |
| `Negotiation` | the handlers on one request and its offers, with every read and write apart |
| `NegotiationOverlaps` | extends it by a history of the offers accepted past another call, and states what holds of all others |
| `NegotiationAdmin` | extends it by the admin panel and the moderation |
| `RowLocks` | the row locks the transactions of the negotiation take one by one, and what may wait for what |
| `RequestLifecycle` | the requests of one buyer over time, and the scans that watch them |
| `StripeWebhook` | the subscription of one user at Stripe and its copy in the API |
| `WebhookOverlaps` | extends it by a history of what overlapping requests overwrite or leave behind, and states what holds of the rest |
| `Checkout` | how one user buys Plus: attempts in the API, customers and sessions at Stripe |
| `RefreshTokens` | the server's side of sessions: login, rotation, logout, reset, expiry, blocks |
| `MobileSession`, `WebSession` | extend it by the application on a phone, and by the tabs of a browser |
| `ChatSending` | one participant's composer, two transports and `ChatsService.send` |
| `Moderation` | reports of a request and of its owner, and what they set off |
| `MatchingAlerts` | saved searches, published requests and the alerts between them |
| `Ratings` | the ratings of one accepted offer |
| `StorageObjects` | the images of one user and the rows that show them |
| `MCNegotiation`, `MCNegotiationAdmin`, `MCWebhook` | symmetry for TLC |
| `MCServices`, `MCClients` | one instance of several modules that share no state |
| `NegotiationProofs` | theorems about the handlers, overlapping or beside administrators, and the refinement of `Deal` |
| `StripeWebhookProofs` | theorems about `StripeWebhook` and `WebhookOverlaps` |
| `RowLocksProofs`, `RequestLifecycleProofs`, `CheckoutProofs`, `ModerationProofs` | theorems about the module each is named for |
| `ServicesProofs` | theorems about `ChatSending`, `MatchingAlerts` and `Ratings` |
| `ClientsProofs` | theorems about `StorageObjects`, `WebSession` and `MobileSession`, on `RefreshTokens` |

Some definitions have a neighbour with a suffix, such as `DealAllowed_NoIndex`
before `DealAllowed`. It is the definition with a plausible mistake in it, and no
specification uses it: `PROJECT.json` ("mutants") names the run and the property
that find the mistake when the definition is replaced by its neighbour.

### Negotiation

One request stands for all: handlers of two requests share no row, except the
daily limit of a seller, which is left out here. A call is in flight from its
last read to its last write; `call[c].at` names the write it makes next. Each
handler has a `Read...` action, which is its reads and early returns, and one
action per transaction or separate statement:

| Handler | Actions |
|---|---|
| `OffersService.create` | `ReadCreate`, `CreateOffer` (unique index in `InsertAllowed`) |
| `accept` | `ReadAccept`, `AcceptTx` (conditional update, chat, request) |
| `reject` | `ReadReject`, `RejectOffer`, `RejectTouch` |
| `complete` | `ReadComplete`, `CompleteTx` (partial unique index in `DealAllowed`) |
| `endNegotiation` | `ReadEnd`, `EndTx` (update and the decision of the sync, row lock held), `EndCommit` |
| `dismiss`, `removeFromListing` | `ReadHide`, `HideOffer` |
| `RequestsService.close` | `ReadClose`, `CloseTx` (ends the negotiations, row locks held), `CloseCommit` |
| `renew`, `pause`, `remove`, `update` | `ReadRenew`, `RenewRequest` and so on |
| `ChatsService.send` | `ReadSend`, `SendMessage`, `SendTouch`, `SendPromote` |
| the clock | `Age`: the request becomes pending of confirmation |
| a process dies | `Crash`: what is committed stays, an open transaction rolls back |

`endNegotiation` and `close` are two actions each. Under READ COMMITTED the sync of
the first counts the negotiations, and another transaction may commit before it
writes the status; the second ends the negotiations it finds, and an accept may
commit before it closes the request. `call[c].held` is the offers whose row locks such
an open transaction holds; `CompleteTx`, another `EndTx` or `CloseTx` waits for them.
The other transactions are one step: their first statement is the conditional update
of the one offer that decides, and keeps its lock to the end.

`Negotiation` is about what the transactions write, and takes the locks of each in one
step. `RowLocks` is about the waiting: `accept`, `complete`, `endNegotiation`, `close`
and `deleteRequest` of the administrator take their rows one by one (`Ask`, `Obtain`) in
the order of their statements, hold them until `Commit` or `RollBack`, and pass over or give
up what turns out not to match (`PassOver`, `GiveUp`). An `updateMany` of several offers
takes them in any order, since Postgres promises none. The partial unique index is a row of
its own (`DealEntry`), for which a second deal waits.

`NegotiationOverlaps` adds one variable, `late`: the offers whose accept was committed on a
request that was over by then, or past a call that had counted the negotiations and was
about to end, close or remove on the strength of it (`Deciding`). Nothing in the code
prevents these; of every other offer the status of the request is right, and the module
says so.

`Deal` promises what survives this. Its `CloseSearch` ends some of the accepted
offers, not all, and `Settle` does not ask that the search be open: a
`complete()` that read the request open may strike the deal of a negotiation which
survived the close.

Abstractions: the text, price and images of an offer and the messages
themselves; the age of the request is one bit, `fresh` (`RequestLifecycle` has
the clock); several reads of a handler with no write between them are one. Two
sync reads that see the same snapshot are merged.

### RequestLifecycle

Time is counted in periods of the hourly scan. `EffectiveStatus`,
`IsVisibleToSellers`, `IsOfferable` are the TypeScript of the shared package;
`VisibleToSellersWhere`, `CountsTowardBuyerLimit`, `ScanWhere` the WHERE clauses.
`create` is two steps, since its count and its insert race; the other handlers
are one step here, because `Negotiation` looks between their steps. A scan reads its
rows once (`ScanStart`) and treats them one at a time (`Notify`, `NotifyFails`). A notice whose
kind the buyer has turned off (`Gated`, `SetPreferences`) is not stored, and nobody
counts that as a failure; `declined` keeps a record of it.

### StripeWebhook

One user, one subscription. `stripe` is the subscription as Stripe has it,
`event` what Stripe has created, `ledger` the rows of `BillingEvent`, `sub` the row
of `Subscription`, `plan` the cache. A worker passes through the statements of the
handler one by one: `Claim` (insert), `Found` (read), `Reclaim` (conditional
update), `Handle` (ask Stripe), `ReadSub`, `Upsert`, `ReadPlan` (the cached plan),
`ReadRows` (what the rows grant), `WritePlan`, `Mark`, `Ack`;
`ReadManage`, `CallStripe`, `Stamp` are a cancel or a resume, which goes on into
`ReadSub`. The stamp of an event is a full second, the stamp of the API falls
within one, so `at` counts half seconds.

`WebhookOverlaps` adds three variables, one for each thing that requests served at once may do
to each other: `lost` (events the row reflected before an older one was written over them),
`overtaken` (calls of the user past which the row was written after Stripe had answered them)
and `behind` (a refresh of the cache died, or the row was written past one that had decided).
Each is closed again by a later write: of a newer row, of the answer itself, of a refresh that
nothing goes past.

Abstractions: all replicas read one clock; `PLUS_FEATURES_UNLOCKED` is off; events of unknown
type, of another customer or with an unknown status, which the handler logs and acknowledges,
are left out; `cancel_at_period_end` is changed only through the API; the mark of the checkout
session is in `Checkout`.

### Checkout

A call is one POST of the checkout. It finds or makes the customer (`FindCustomer`,
`CreateCustomer`, `InsertCustomer`), expires old attempts (`ExpireStale`), reuses an open one
(`FindOpen`, `Reuse`) or claims a row under the partial unique index (`Claim`, `Reread` for the
loser), asks Stripe for a session (`CreateSession`, `CreateSessionRefused`), and attaches it
(`Attach`) or cancels the attempt after a definitive error (`CancelAttempt`). Stripe takes a
request that repeats the key of a session or of a customer for the same one as long as it
remembers the key, and makes a new one afterwards. A request to Stripe may take effect and lose
its answer (`LoseAnswer`), a step may fail (`Fails`), a call may die (`Die`). Stripe remembers
an idempotency key for `StripeTtl`, expires sessions, and sends an event about the end of each,
again until it is processed; the webhook marks the attempt first and syncs the subscription in a
later step (`WebhookCompleted`, `WebhookSyncs`). Abstractions: a call lasts less than one unit
of the clock from the moment it takes `asOf` (`Timely`); prices, currencies and the return URLs
are left out.

### RefreshTokens, MobileSession, WebSession

`login`, `refresh` and `logout` of `AuthService` are the steps of one request: `ReadToken`,
`RevokeToken`, `IssueToken`. A request that fails between two of them answers an error and
leaves what it did. Tokens expire and are purged, a reset of the password revokes all, an
account is blocked and unblocked.

`MobileSession` is the application, one JavaScript thread: what stands between two awaits is one
step, a write to the secure store takes effect in a step of its own. At most one refresh is in
flight (`refresh`, with the generation it began in), a login and a logout may overlap it and one
another. The outcomes of a refresh are those of `coordinatedRefresh`; "invalid" and "empty"
clear the store in a step of their own (`ending`).

`WebSession` is two tabs that share the access token in `localStorage` and the cookie; the
promise of a refresh is shared within a tab only. The cookie travels with a request when it is
sent and changes when an answer arrives (`Arrives`). A tab may be closed or loaded again at any
time (`Unload`); the browser aborts what it asked for, which goes on at the server but whose
answer changes nothing (`Forgotten`).

### ChatSending

The composer emits over the socket when it is connected and over REST when it is not, with an id
that stays the same while the text does (`ClientMessageIdFor`). Without an acknowledgement in
time it gives the text back, or asks again over REST. `call` has both sides of each request:
`CheckExisting`, `StampMessage`, `CommitMessage`, `EmitMessage` are `ChatsService.send`;
`AnswerArrives`, `RefusalArrives`, `RestBreaks`, `RequestLost` and `AckTimesOut` are what
becomes of its answer. An exception of a socket handler answers nothing. The connection breaks
and comes back, and the negotiation may end. The user may press send whenever the input holds a
text and nothing is being sent, whether the thread shows that text already or not. `wiped` says
that an acknowledgement came after its timeout and reset `lastAttemptRef` while it still held
an id: of a newer text, or of the same one, which is then back in the input.

### Moderation, MatchingAlerts, Ratings

`Moderation`: each call of `ReportsService.create` tests for an earlier report and weighs its
own (`ReadReport`), inserts (`InsertReport`), counts the people who reported the content, reads
its flags and acts (`CountContent`, `EvaluateContent`), then does the same with its owner
(`ReadReported`, `EvaluateUser`). An administrator restores, unsuspends and blocks meanwhile.
One request of one owner stands for the contents of each kind.

`MatchingAlerts`: publishing stores the request, reads the searches and alerts (`StorePost`,
`ReadSearches`, `AlertOfPost`); saving stores the search, reads the requests and alerts
(`InsertSearch`, `ScanPosts`, `AlertOfScan`). A filter is the set of requests it matches. The
dedupe key is a row the user may delete. The searches' limit, the default and the later edits
are steps of their own. `excused` holds the pairs of which the seller need not hear: a failed
notification, one that was not wanted, a death of the call, an edit of the filter.

`Ratings`: `create` reads an earlier rating, then the offer, then inserts under the unique index.

### StorageObjects

The row of the user has two avatars; one request and one offer stand for all. A call reads a row
(`ReadRow`), writes it (`WriteRow`), and then counts and deletes what it dropped, one URL at a
time, one table at a time (`CountTable`, `DeleteObject`). A creation that fails counts and
deletes what it was to attach, although it may have been committed (`WriteFails`); the second of
two offers of a seller meets the unique index (`WriteRefused`). Nothing else of the API deletes
objects. A call that leaves the images as they are writes nothing of the model. A form may send
any URL of its owner: `assertOwnedImageUrls` tests shape and owner, not that the object exists.
`sentGone` has the URLs that were sent when their object was gone already.

## 3. What the runs check

Passing runs:

| Run | Question and answer |
|---|---|
| `negotiation` | Two calls on two offers, in every overlap and with crashes: at most one deal, a deal excludes an ended negotiation, a deal closes the request, one offer per seller, no list loses what is open, a closed request stays closed, outcomes are final; the rows implement `Deal`. Every negotiation but a `late` one shows on its request, and a removed or closed request has none but beside a deal. |
| `row_locks` | Three transactions that lock the request and two offers: they block each other only if two closes, or the deletion of the request, are among them; without these every call ends, and Postgres has no deadlock to break. |
| `negotiation_admin` | With the admin panel and moderation: only `reactivateRequest` reopens; outcomes survive a reopening. |
| `request_lifecycle` | The two derivations of the status agree away from the cutoffs (and the scan at them too); the buyer is told before the archive, unless the notice was turned off when it was due, and once. |
| `webhook_overlaps` | Two requests at once, one of which may die, and a call of the user: an acknowledged event is applied unless it is `lost`, the row ends with Stripe's status in whatever order the events came, a cancellation is undone only by a request past which the row was written, the cache mirrors the row unless it is `behind`. |
| `webhook_live` | Two requests for one event, two of which die: every event is processed in the end, and two work on it together only if their claims are a lease apart. |
| `checkout` | Two calls, lost answers, deaths and expiry: a page that can still be paid is held by an open attempt, two are never payable together, every payment is of the customer in `BillingCustomer`, and a user who keeps asking gets Plus or a page. |
| `clients` | The phone: a refresh on its way does not bring back a session that was logged out, and nothing but a dead token is thrown away. The browser: a confirmed logout that nothing overlapped leaves neither token nor cookie in any tab. |
| `images` | Two calls on the rows of one user, forms sent again, one failing step or death: no row shows an image that was deleted, unless the form sent it when it was gone already, or attached it while another call counted its rows. |
| `services` | Chat: a text tried again is stored once, is never lost, and every send ends. Reports: overlapping ones neither miss a threshold nor act on fewer people than it says. Alerts: no match is missed, each is told once. Ratings rest on what happened. |

Runs that find a violation. Each checks one sentence of a document, a comment or
a test; `PROJECT.json` ("findings") quotes it.

| Run | What happens |
|---|---|
| `lifecycle_ActiveCap` | with one call at a time a buyer exceeds the limit: a request that stopped counting counts again |
| `webhook_OlderNeverOverwrites` | two events read the same row, the older one writes last |

The models reach other behaviours worth knowing, which explain the preconditions of
the properties above:

* accepting an offer leaves the other pending ones pending, although src/README.md:157 says "Al
  aceptar: rechaza otras ofertas pendientes + crea chat";
* `close` may end the negotiations between the read and the transaction of `accept`: a closed
  request with a negotiation whose chat takes messages (a test,
  src/apps/api/test/end-negotiation.e2e-spec.ts:371, expects the chat of a closed one to be
  blocked);
* a request that dies after the upsert of a subscription and before the refresh of the plan cache
  leaves the cache wrong until another event writes the row: the retry is taken for stale, although
  src/apps/api/prisma/schema.prisma:202 calls the cache 'mirrored from Subscription rows'. Two
  requests that refresh the cache together may leave it wrong as well (`behind` in
  `CacheMirrorsRow`);
* an event that read the row before a newer one was written is written over it, and what it
  overwrites, a cancellation too, is gone until Stripe sends something newer (`lost` in
  `AckedIsApplied` and `RowFollowsStripe`); a call of the user may write Stripe's answer over a
  cancellation that was stored meanwhile (`overtaken` in `CanceledIsFinal`);
* what `late` stands for: an accept that commits between the count and the commit of
  `endNegotiation` leaves a negotiation under an ACTIVA request; one between the count and the
  update of `remove` leaves one on a removed request. Also, an edit lands after an accept, and a
  `pause` that read the request open sets `pausedAt` after `close` cleared it;
* two closes of one request (a double click) may lock its offers in opposite orders, and the
  deletion by an administrator locks the request before its offers while all others lock it
  after: Postgres breaks the deadlock, and one of the calls answers with an error;
* the last negotiation may end and leave the request NEGOCIANDO: `send` promotes it after the end,
  two ends count one another, or the request was paused and `renew` keeps the status;
* at the exact cutoffs the list of the sellers and the derived status differ (`>=` against `gte` and
  `lt`), hence the exception in `ListMatchesStatus`;
* a notice the buyer deletes is sent again by the next scan, since the deleted row held the dedupe
  key, hence `clears` in `ToldOncePerClear`;
* a request slower than its lease works on beside the one that reclaimed its event, hence "a lease
  apart" in `ClaimsApart`;
* what Stripe changes between its answer to a cancel and the stamp of the API, or later in that
  second, looks older than the answer and is skipped, hence "no call" in `RowFollowsStripe`;
* a call that dies after Stripe made the customer and before the row of `BillingCustomer` leaves
  that customer to a retry with the same key, as the comment at
  src/apps/api/src/billing/billing.service.ts:272 says, but only as long as Stripe remembers the
  key; afterwards the retry makes a second one, and the first is orphaned. No session is ever of
  an orphan, which is what `PaymentHasOwner` says;
* the webhook of a checkout marks the attempt COMPLETE before it reads the subscription: a user
  who asks in between gets a second page and may pay twice, hence `Live` ends with the mark; an
  attach that comes late sets a COMPLETE or CANCELED row back to OPEN;
* on the phone, a call that comes back with 401 while `logout()` reads the secure store starts a
  refresh of the new generation, which may bring the session back, hence `late` in
  `LogoutSticks`. The outcome "invalid" and the undoing of an overtaken refresh
  (session-refresh.ts:111-113) clear whatever token the store holds, so a login in between may
  lose its own, hence `ending.alone` in `OnlyDeadTokensThrown`;
* a login or a refresh that read the password or the token before a reset, and issues its own
  token after the reset's transaction, leaves a session that the reset did not end; a reset link
  read by two requests before either uses it works for both;
* in the browser, two tabs that refresh with one cookie: the 401 of the loser clears the access
  token the winner stored; any error of the server to a refresh, a 5xx too, throws the access
  token away although the cookie is good; a logout whose request fails leaves the cookie, and a
  later call of any tab revives the session; a login may lose its token to the failing refresh
  of another tab. Hence `left` holds only of a confirmed logout that nothing overlapped;
* in the chat, an acknowledgement that comes after its timeout resets `lastAttemptRef`, which may
  by then hold the id of a newer message, or of the same text, which is back in the input: the
  next press stores it a second time (hence `wiped` in `TextStoredOnce`); the input stays enabled
  while a send waits, and a failure overwrites what was typed since; a retry after an error past
  the commit is answered without telling the room; two sends may commit in one order and stamp
  `lastMessageAt` in the other;
* two reports of one person slip past the test for an earlier one, and two from one address past
  the test for another; thresholds hold because people are counted, not rows (the dashboard of
  the administrator counts rows). A report of a request counts as one of its owner, and stands
  in the way of a later one of the owner;
* overlapping calls exceed the limit of saved searches, hence `serial`; two calls that set a
  default can leave two; an update refused for a taken name has already cleared the default; an
  edited filter is not matched against older requests, nor a resumed request against searches;
  the scan reads the newest hundred requests;
* a rating NO_RESPONSE may be stored after the buyer replied, when the reply falls between its
  read and its insert;
* a creation that failed deletes its images while the form keeps their URLs; the form sent again
  is stored with images that are gone (`sentGone` in `NothingDangles`);
* an image that one call attaches while another counts its rows may be deleted, which is where
  the behaviours of `StorageObjects` stop (`raced`); a death of the process leaks objects.

Bounds. `negotiation` and `negotiation_admin`: two calls, two offers, two sellers. The
properties relate at most two offers, and the races need one call between the read and the write
of another; a second offer gives "another negotiation". Their sets are symmetric. `row_locks`:
two offers, so that two transactions may lock them in opposite orders, and three calls, so that
a third may be part of the ring or wait behind it. `request_lifecycle`: one request, cutoffs 1,
3 and 5 and a clock to 6, so that every status, every cutoff and the instants around it occur;
two replicas have two scans in each of the two windows, so with two failures a notice is late
and with four it may be missed. Fewer failures than that is the assumption of
`ToldBeforeArchived`: with more failures in a window than scans, nobody can be told. The buyer
changes one preference. `webhook_overlaps`: two requests and two events, one of which is written
past the other, and two ticks, so that they share a second or not; the theorems are for any
number of both. `webhook_live`: one event, since the ledger treats each alone; two crashes, so
that both requests may reclaim what a dead one left, twice, and a clock to 3 for the leases that
takes. Bounded counters stop in guards: `MaxTime`, `MaxFailures`, `MaxClears`, `MaxSwitches`,
`MaxCrashes`, `MaxManages`; in `Crash` the second guard lets the lease run out before the clock
stops. `checkout`: two calls, since a third only repeats the part of one that died; an attempt
lives one unit, a session of Stripe two, so either may have expired before the other, and the
key of a customer before its row is written; one failure and one payment. `clients`: two
requests at a time, which is a request that was given up and its retry, or those of two tabs;
three tokens and two logins or logouts, so that a device can be logged in, out and in again.
`images`: two images, so that one replaces the other, and two calls. `services`: three calls to
send two texts, so that one is tried twice beside another; three reports by two people from two
addresses with thresholds 1, 2 and 2, so that a duplicate reaches a threshold that people do
not; two searches with a limit of one and one request; three ratings by two parties. One
failure, death or lost message each: the properties are about what a single fault does to calls
in flight. The parts of `MCServices` and of `MCClients` share no variable, so a behaviour that
picks one of them loses nothing. Every run says CHECK_DEADLOCK FALSE because the system really
may stop: the calls are over, the offers used up, the clock at its bound.

Fairness. `row_locks` assumes that a transaction goes on if it can again and again (strong
fairness), since Postgres queues those that wait for a row lock and grants it in turn. Nothing
forces a user to call, and nothing is assumed of timeouts, deaths and the detection of
deadlocks: `OrderIsEnough` is that the order of the locks does without them. `webhook_live` assumes
weak fairness of each step of a request that does not die and of the clock, and strong fairness
of the delivery of an event that is not acknowledged, since Stripe retries it; nothing is
assumed of the order. `checkout` assumes weak fairness of the steps of a call, of the webhooks,
which Stripe repeats, and that the user keeps asking, as the property says. `services` assumes
weak fairness of the server's steps and the client's timers only, not of the user or the
connection.

## 4. What is proved

Every invariant and every safety property of the passing runs is a theorem: for any number of
calls, offers, sellers, requests, replicas, events, attempts, sessions, reports, searches, tabs
and images, any cutoffs, leases, lives and thresholds. What is assumed of the constants is named
where they are declared: `None`, `NoText`, `Nothing` and `NoAnswer` stand for the absence of a
value and are none; the cutoffs are ordered; an attempt lives less long than what Stripe holds;
events are positive numbers, the lease and the thresholds are positive; the bounds are numbers.
One group of theorems has a hypothesis of its own (`FewFailures`), explained below. Few of the
properties are inductive; the list says what was added and why. TLC checked each invariant on a
run before it was proved.

* `NegotiationProofs`. `IInv` is inductive (`Invariance`). The properties are not inductive
  alone: whether an end or a close overwrites an outcome depends on the locks it took steps
  before it commits. `CallTargets` and `CallReads` say what a call works on and what it still
  knows of its reads when it writes; `LockInv` that a row lock has one holder, an end or a close
  between its two steps, and keeps the negotiation under way, so no deal is struck and nobody
  else ends it under the lock; `OfferInv` what an accepted offer has. The proof first shows
  what a write does to the rows (`WriteEffect`: nothing, one row in one of six ways, or
  what a close holds ended), then that each effect keeps each conjunct. From it: `OneDeal`,
  `DealXorEnded`, `DealClosesRequest`, `OneOfferPerSeller`, `GoneOnlyWhenOver`, and
  the action properties `ClosedIsFinal` and `OutcomeIsFinal`.
  Administrators take some of that away: after a reopening a call may hold what it read before,
  and a second deal may follow a first. What survives is `CoreInv`, the part of `IInv` about
  locks, chats and outcomes (`CoreInvariance`); `OnlyAdminReopens` and `OutcomeOutlivesAdmin`
  rest on it.
  `OverlapInv` adds `CountedInv`: when a call goes on to remove, to end or to close, what it
  knows of the negotiations under way is still so, but for the `late` ones (`OverlapInvariance`).
  From it `NegotiatingShows` and `OverWithoutTalks`, for any number of overlapping calls.
  `Refinement` is `Spec => Deals!Spec`: each write maps to one step of `Deal`, or a stutter,
  under the refinement mapping `Phase` and `~Closed`.
* `RowLocksProofs`. `LocksInv`: a row is locked by one transaction (`Exclusive`), and what a
  transaction holds and waits for follows the order of its statements (`OrderInv`). A ring of
  transactions, none of which deletes the request, then has one that holds an offer and waits
  for another, which only a close does, and it waits for another close (`RingsNeedTwoCloses`).
* `RequestLifecycleProofs`. `TypeOK`, the agreement of the two derivations of the status
  (`OfferableIsListed`, `ListMatchesStatus`, `ScanMatchesStatus`, arithmetic over any ordered
  cutoffs) and `ToldOncePerClear`, by the strengthening `SentInv`: a notice that was sent and
  is gone was deleted. `ToldBeforeArchived` is by counting: `MissedInv` says that a notice never
  sent, nor held back because it was turned off, has cost a failure for every replica and every
  period in which it was due. It holds under
  `FewFailures`, fewer failures than replicas times the length of either window: with as many,
  nobody could be told, so no weaker hypothesis on their number will do.
* `StripeWebhookProofs`. `TypeOK` and `ClaimsApart`, by `StageInv` (which stages have an event
  and a ledger row) and `LedgerInv` (the ledger has the time of the latest claim), for any number
  of workers. `RowInv` is about the row and the cache, again for any number of workers: what
  Stripe was last heard to say is in a snapshot (`EventInv`), the row says what an event or a call
  of the user said (`SubInv`) and reflects every event marked as processed, or something newer,
  unless it is `lost` (`AppliedInv`), a request has the row of its event, and a call of the user
  that was not overtaken knows of no cancellation it would undo (`RequestInv`), and until the
  cache shows what the row grants somebody is on the way to write it, unless it is `behind`
  (`CacheInv`, `Corrects`). From it `AckedIsApplied`, `CanceledIsFinal`, `CacheMirrorsRow` and
  `RowFollowsStripe`. The holes the three variables stand for are real, which
  `webhook_OlderNeverOverwrites` shows of the first.
* `CheckoutProofs`. `IInv`: a call that is past `BillingCustomer` means the customer of that
  row, however many were made (`CustomerInv`), sessions and attempts agree (`SessionInv`,
  `AttemptInv`), one attempt is open (`OneOpen`), and what a call knows of its attempt is still
  so (`CallInv`). From it `LiveIsOpen`, `OneLiveCheckout` and `PaymentHasOwner`. The tables are
  sequences; the lemmas first say what a statement does to one row, then what any step does to a
  table (`SessionFrame`, `AttemptFrame`, `ClockFrame`).
* `ModerationProofs`. `ActionsAreEarned`, by `CountInv`: rows that are stored stay, so the
  number a call counted earlier is at most the number of people who have reported when it acts;
  the count of people is a cardinality, and the lemmas `FinitelyMany` to `CountGrows` bound it.
  `ThresholdIsActedOn`, by `ActInv`: what enough people reported is flagged, or some call has
  still to count, has counted enough, or died.
* `ServicesProofs`. Of the chat `ChatInv`: an id stands for one text (`MessagesInv`) and, until
  a late acknowledgement wipes it, a text for one id (`OneKeyInv`), so `TextStoredOnce`, and the
  text is at every moment with the composer, a call or the thread, so `NothingVanishes`. Of the
  alerts `AlertsInv`: a pair that matches is told of, excused, or on its way in one of the two
  calls (`PairsInv`), and a search that is being saved has room (`LimitInv`); from it
  `NoMatchMissed`, `AlertedOnce` and `LimitHoldsSerially` (no run repeats the last, which is
  about calls that do not overlap). Of the ratings `RatingsStand`, by
  `AllowedInv` (what a call read when it was allowed to rate is never taken back before it
  inserts) and the unique index. `Least` and `Greatest` are the lemmas about what a `CHOOSE` of
  the smallest or largest of a finite set of numbers is.
* `ClientsProofs`. `ImagesInv`: what a call has counted still refers to nothing, for nobody is
  about to attach it, so what a row shows and is gone was gone when the form sent it
  (`NothingDangles`). `WebInv`: a tab waits for requests of
  its own, and after the logout each refresh under way has no token or was refused (`Hopeless`,
  `LeftInv`), so `WebLogoutSticks`. `PhoneInv`: from the start of a logout every refresh is
  doomed (`OutInv`, with `GenInv` for the generations), so `LogoutSticks`; a refresh that
  nothing went past has the token that is in the store, and between its refusal and the clearing
  no other token gets there (`ViaInv`, `SettledInv`, `DeadInv`), so `OnlyDeadTokensThrown`.
  The proofs share the lemmas about the server, `Served` and `ServerEffect`: a token that is
  not valid never is again.

The theorems of the last two modules are about the specification of each module (`ChatSpec`,
`WebSpec`, ...), of which the runs `services`, `clients` and `images` check one at a time.

Only model-checked: liveness (`OrderIsEnough`, `EventProcessed`, `AskingLeadsSomewhere`,
`SendSettles`), which is out of this prover's reach, and the two violations. That the bounded
counters let the interesting cases happen is for TLC as well: the theorems hold for any bound.

## 5. Not modelled, and why

* Read marks, unread counters and the partner's view of a chat. Read by the code they have holes
  that no property could hold against: `join` on a reconnect marks the chat read without loading
  it again, so messages missed while disconnected are neither shown nor counted; an answer to
  the first load drops what the socket appended before it.
* Registration, and the links that verify an address or reset a password: one conditional update
  each. The effect of a reset on the sessions is in `RefreshTokens`.
* The daily limit of offers: counted before the insert like the limit of saved searches, over
  the offers of a seller on many requests.
* Saved requests, and the fields of a profile other than the images and the preference for
  alerts: single statements of one owner, with nothing that relates two steps.
* Filters, guards, configuration, throttling, demo data, e-mail: pure checks, wiring, output.
  `AdminService.deleteRequest` erases the rows the models are about, and only its locks are
  modelled (`RowLocks`). Texts, prices, catalogues: no property depends on them.
* Most lines of the repository are screens, translations, styles, the scripts of an older static
  site (`src/script.js`, `src/legacy`), seeds and statistics. They keep no state that steps of
  two actors share, so there is nothing in them to model.

## 6. Plan

Done: the negotiation with its abstract specification, the lifecycle, the webhook, the checkout,
the sessions of both clients, the sending of messages, moderation, alerts, ratings and storage,
and the proofs of their safety properties. Next, in this order:

1. An abstract specification of the checkout (a user has at most one page to pay on) or of the
   sending of messages (a text is with the user or stored), and the proof that the module
   implements it, as `Negotiation` implements `Deal`.
2. The daily limit of offers over several requests of `Negotiation`.
3. The links of `AuthToken` next to the resets of `RefreshTokens`.
4. An abstract specification of the inbox, if the read marks are given one to keep.
