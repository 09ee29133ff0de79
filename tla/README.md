# A TLA+ model of the student event ticketing platform

The repository is a Go modular monolith (PostgreSQL, Redis, MinIO, an SMTP
worker) with an Android client. Students register for events and cancel,
organizers create and edit events and check passes in at the door, admins
moderate. This directory models the parts of it where requests, transactions,
workers and crashes interact, checks them with TLC on small instances, and
proves the main invariants with TLAPS for every size.

## Inventory

| Component | State | Operations | Hard behaviour | What makes it correct |
|---|---|---|---|---|
| ticketing (`ticketing/`) | table `tickets`, `events.capacity_available` | register, cancel, check in, list my tickets | row locks at READ COMMITTED, waiting requests with an old `now`, recounts, expiry computed on read | the seat counter equals seats minus passes; no overselling; one pass per student and event; used and cancelled are final; a commit still finds what was checked |
| events (`events/`) | table `events` | create, patch, delete, cover image, list | read-validate-write of PUT without a lock, a subquery with an old snapshot, cascade in the reverse lock order | counter and window stay valid; deletion leaves no orphan and no endless wait |
| notifications (`notifications/`) | table `notifications_queue`, the worker's batch | enqueue, claim, send, mark, requeue | crash between claim and mark, lost answers of the mail server, retry limit | one worker per row; bounded retries; no second copy of a confirmed mail; nothing accepted is lost |
| auth (`auth/`, `internal/infra/auth/`) | `users`, `user_roles`, `refresh_tokens`, signed tokens | register, login, refresh, request organizer role, change role | refresh, login and role change interleave; a consume without an insert | a refresh token is used once; a refresh changes no roles; logins and role changes end the old sessions; role rows match `users.role` |
| payments (`payments/`) | table `payments` | initiate, webhook | repeated and reordered webhooks; three steps without a transaction, cut off anywhere | an answered failure keeps no seat; only a failure takes a pass; the reported outcome is recorded |
| admin (`admin/`) | moderation and audit log | approve, reject, set role, lists | audit row and mail are written after the decision and may fail; decisions overtake each other; lists change while they are paged | the log explains the state; a reader of a list misses no row that stayed in it; roles allow what they should |
| analytics (`analytics/`) | Redis cache, 30 s | event statistics | queries that overlap the sale and each other, an old answer cached over a newer one | bounded age; figures add up; nobody sees figures of others |
| rate limiter (`internal/infra/rate_limit/`) | Redis counter per client and route | one check per request | fixed window that begins with a request, lost answers, restarts | below twice the limit in any window while Redis answers and keeps its keys; nobody within the limit is turned away |
| object storage (`internal/infra/storage/`, `events/handler/handler.go`) | MinIO objects, `events.cover_image_url` | upload, update the row, remove the old object | two uploads at once, edits and deletions between the steps, failures and restarts | an uploaded cover is there while its event shows it; replaced covers are removed |
| process (`cmd/api`, `internal/app`) | clients, worker context, running requests | start, serve, drain, close | a start that fails half-way, a shutdown that stops waiting | no request finds a client closed under it |
| mobile client (`mobile/`) | a stored token, screen state | API calls | a 401 in the middle of calls | not modelled |

How they interact: handlers call services, services call repositories; the
components share only the tables. Registration enqueues a confirmation mail
after its commit, rejection enqueues one to the organizer; a failed payment
calls the ticketing repository to cancel; admin calls the repositories of
events and auth; analytics reads the tables of ticketing and events. The
hazards of each component, with the line where each bites, are listed in
`PROJECT.json`.

## Modules

| Module | Role |
|---|---|
| `Ticketing` | the requests on `events` and `tickets`, one action per wait for a lock |
| `SeatLedger` | what the ticket office promises: every operation at one instant |
| `MCTicketing` | instances of `Ticketing` for TLC |
| `TicketingProofs` | the theorems about `Ticketing` |
| `NotificationQueue` | the notification table, its workers, the mail server, crashes |
| `MCNotificationQueue` | instances of `NotificationQueue` for TLC |
| `NotificationProofs` | the theorems about `NotificationQueue` |
| `AuthSessions` | users, role rows, refresh tokens and the handlers on them |
| `MCAuthSessions` | instances of `AuthSessions` for TLC |
| `AuthProofs` | the theorems about `AuthSessions` |
| `EventDesk` | what the modules below share: the events and passes of `SeatLedger`, staff, the clock, faults |
| `Payments`, `MCPayments`, `PaymentsProofs` | payments and webhooks over the seats of `SeatLedger`; instance; theorems |
| `CoverImages` | uploads of cover images to the bucket and the rows that show them |
| `Moderation` | decisions on events and role changes, the audit log, the mail of a rejection |
| `Listings` | the paged lists and a reader who asks for page after page |
| `DeskProofs` | the theorems about `CoverImages`, `Moderation` and `Listings` |
| `Entitlements`, `EntitlementsProofs` | access tokens with the roles they were issued with, and who may change what; theorems |
| `Statistics` | the statistics, their snapshot and their cache |
| `RateLimiter` | the counters in Redis |
| `RedisProofs` | the theorems about `Statistics` and `RateLimiter` |
| `Process` | the life of a server process |
| `MCBackOffice` | one instance of the seven modules from `CoverImages` to `Process` that are about the desks around the ticket office |
| `BackOfficeProofs` | the theorems about `Process` and about the seven modules together |

Some operators carry a comment "Mutant:". They are no part of the specification: each is a plausible mistake in
the operator that follows it, and shows that a property notices it.

### Ticketing

State. `event[e]` and `ticket[t]` are the table rows as committed; a status
"absent" or "deleted" stands for an id without a row. `evLock` and `tkLock` are
PostgreSQL's row locks, `req[r]` is the handler running on database connection
`r`: its operation, its position, what it read before ("now", the count of the
seats, the body of a PUT). `clock` is the server's wall clock.

Cuts. Every request is one transaction at READ COMMITTED (`db.WithTx`, or a single
statement). It is cut where it can wait for a row lock, and once more where a
count and its use are separate statements, so that other requests run in between:

| Code | Actions |
|---|---|
| `RegisterTicket` (`ticketing/repository/postgres.go`) | `RegisterStart` (payload and `now`), `RegisterLock` (SELECT ... FOR UPDATE and checks), `RegisterCommit` (INSERT ON CONFLICT, decrement, COMMIT) |
| `CancelTicket` | `CancelStart`, `CancelLockTicket`, `CancelLockEvent`, `CancelRecount`, `CancelCommit`; operation "refund" is the call with `allowAfterEventStart` |
| `UseTicketByQRHash` | `UseStart`, `UseLockTicket`, `UseLockEvent`, `UseRecount`, `UseCommit` |
| `Update` of an event | `UpdateStart` (read and validate), `UpdateSnapshot` (the statement starts and its subquery counts), `UpdateApply` (lock obtained, row re-read, columns written) |
| `Delete` of an event | `DeleteStart`, `DeleteLock`, `DeleteCascade` (one ticket row), `DeleteCommit` |
| `Create`, `UpdateModeration` | `Create`, `Moderate` |
| `GetUserTickets`, `overlayTicketExpiry` | `MyTickets`, `ShownStatus` |

A transaction's own writes appear in the tables at its commit; the locks it
holds keep every other request of the model from noticing the difference.
`Abort` is any end without COMMIT (the 25 s request timeout, a lost client or
connection, a killed process); `DetectDeadlock` is PostgreSQL's detector.

"refund" is what `payments/service` asks for after a failed payment. The deployed
router wires a stub payment repository (`payments/handler/routes.go:40`), which
never gets that far; the operation is modelled because the service calls it.

### SeatLedger

Sell, return, admit, resize, announce and close, each at one instant, over the
passes that hold a seat, their owners, and the seat counter. `Ticketing` maps its
tables to it (`Ledger == INSTANCE SeatLedger WITH ...`) and hides locks, requests
and time. `Resize` promises only *some* counter between 0 and the new capacity:
that is all the code delivers when a PUT overlaps another request.

### NotificationQueue

State. `row[n]` is a row of `notifications_queue`, `worker[w]` the e-mail worker
of one server process: position, batch, the note whose outcome it has to write,
the retry counts that came with the claim. `smtp[n]` counts the attempts by
outcome; it is history, nothing in the code reads it.

| Code | Actions |
|---|---|
| `Enqueue` | `Enqueue` |
| `DequeueBatch` | `Claim`; `ClaimLost` when the statement commits and reading its rows fails |
| `SendEmail` | `Send`, with outcome "ok", "refused", or "lost" (taken by the server, answer lost) |
| `processBatch` after a mail | `MarkSent`, `Requeue`, `MarkFailed`; `MarkLost` when the UPDATE fails and is only logged |
| `main`, `NewRouter` | `Stop`, `Start` |

A shutdown cancels the worker's context and `main` returns without waiting for
it. After the cancellation `SendEmail` and the UPDATEs return errors at once, so
that a shutdown leaves what a crash leaves, and both are `Stop`. Which queued
rows come first is left open: `created_at` is taken in Go before the INSERT, and
SKIP LOCKED passes over rows of a claim that may still fail. Without SMTP
settings the sender is a no-op that always answers "ok".

### AuthSessions

State. `role[u]` is `users.role`, `rows[u]` the user's rows of `user_roles`,
`token[t]` a row of `refresh_tokens` together with what its JWT says, `req[r]` a
handler. A handler is a few statements or short transactions with nothing held in
between; each is one action, and every other handler may run between two of them.
`RotateRefreshToken` and `UpdateUserRole` lock the user's row first, so that each
takes effect as a whole.

| Code | Actions |
|---|---|
| `Register` (`auth/service`), `CreateUser` | `Register`, `RegisterRead`, `Insert` |
| `Login`, `RotateRefreshToken` | `Login`, `Rotate` |
| `Refresh`, `ConsumeRefreshToken`, `InsertRefreshToken` | `Refresh` (parse, read, compare roles), `Consume`, `Insert` |
| `SetUserRole`, `UpdateUserRole`, `syncUserRolesInTx` | `Change` (revoke), `ChangeCommit` (role and rows) |
| `RequestOrganizerRole`, `EnsureOrganizerRolePending` | `Ask`, `Ensure` |
| time-outs, errors, a killed process; expiry | `Abort`; `Expire` |

History, which no guard reads: `era` counts the role changes of a user (its bound
`MaxChanges` does guard them), and a token remembers its `parent`, the era its
roles were read in, and whether a role change (`late`) or a login (`raced`)
overlapped the handlers that led to it. The database starts empty; users from
before migration 000012, whose rows it fills in, are not modelled.

### EventDesk and the modules on it

`Ticketing` shows that the tables implement `SeatLedger` (run `capacity`). The
other components do not look inside a transaction of the ticket office, so that
they are composed with the ledger instead: `EventDesk` extends `SeatLedger` with
the staff, the organizer of each event (which no statement changes), a clock and a
counter of faults. Their actions call the ledger's own (`Announce`, `Sell`, `Return`, `Close`,
...) where a handler changes an event or a pass.

**Payments.** `payment[f]` is the row with `provider_ref` f, `told[f][x]` what the
provider reported and whether it got a 200, `hook[h]` a webhook handler.

| Code (`payments/`) | Actions |
|---|---|
| `Initiate` | `Initiate`; the stub repository of `store = "stub"` never has a row |
| webhook handler, `HandleWebhook`, `UpdateStatusByProviderRef` | `Deliver`, `UpdateStatus` |
| `GetByEventAndUser`, `CancelTicket` with `allowAfterEventStart` | `Lookup`, `CancelPass` |
| answer 200; time-out, error, crash, lost answer | `Answer`; `CutOff` |

**CoverImages.** `cover[e]` is the object that `cover_image_url` leads to, `stored`
the bucket, `upload[u]` a handler of `POST /events/{id}/cover-image`: `StartUpload`
(read the row), `PutImage`, `SaveCover`, then `CleanOld` or `UndoPut`. An upload
answered as failed, whether the bucket took the object or not, is `PutFails`, a
failed UPDATE, applied or not, `SaveFails`. URLs also come from clients (`CreateCovered`, `EditUrl`), a deletion leaves the object
(`DeleteCovered`), and a start puts the posters back (`RestartApi`).

**Moderation.** `task[d]` is a handler of `admin/service`: `Receive` (read),
`Decide` (UpdateModeration), `Record` or `RecordFails` (the log row), `Tell` (the
mail of a rejection); `ChangeRole` enters with the log row to write. `stamp[d]` is
the place of the row by `created_at`.

**Listings.** `view` is one of the five lists with its filter and limit, `row[x]` a
row with the column the list is sorted by and the one it filters by. `ReadPage` is
a query with ORDER BY, LIMIT and OFFSET on the rows of that moment; `Insert`,
`Judge`, `Reschedule` and `Drop` are what other requests do in between.

**Entitlements.** `granted[u]` are the active rows of `user_roles`, `access[k]` an
access token with the roles that were read for it (`ReadRoles`, then `Sign`),
`call[c]` a request with its claims: `Arrive` is the middleware, `RequireRole` and the
handler's check of the organizer; `RunCreate`, `RunEdit`, `RunDelete`, `RunSetRole`
its statement.

**Statistics.** `query[q]` is a request for statistics: `LookHit` or `LookMiss` in
Redis, `Count` (the snapshot of the REPEATABLE READ transaction is that of its
first statement), `Summarize` (its last), `Store`. `cache` holds the figures under
`cacheKey` until they expire.

**RateLimiter.** `counter[k]` is the key of a client and path. `Hit` is the script
with its answer, `HitUnanswered` an attempt without one: the script ran or not,
and the client library tries again or the request passes unchecked. `TurnAway` is the
429 with its TTL; `Expiry` and `RedisRestart` are Redis. The histories `counted`,
`passed` (unchecked requests included), `unchecked` and `restarts` keep for each
instant what happened at it; no fault erases them.

**Process.** `stage` is where `main` is, `open` the clients it has connected,
`running[h]` the deadline of a request: `ConnectDb`, `ConnectRedis`,
`ConnectStorage`, `Serve`, `Signal`, `Drained`, `CloseAll`, and `Killed` at any
place.

What a reader of the code should know, found while modelling:

- A failure report that is repeated after its 200, or overtaken by a success, is
  carried out again, also on a pass that the student registered in between. What
  the code does promise is `AnsweredReleases`.
- `README.md:181` speaks of "sliding use" of the limiter; the window is fixed
  (`internal/infra/rate_limit/limiter.go`), so that nearly twice the limit passes around
  its end: run `limiter_sliding` shows it, and `LimitKept` states the bound that holds.
- The moderation queue is paged by offset while its rows leave it by being decided
  on: a reader can miss rows (`PassExplained` allows exactly that).
- The lists of events answer `limit` 0 when the request names none, though 20 rows are
  returned (`events/handler/routes.go:183`).
- An administrator may withdraw the own role, also as the only one
  (`admin/service/service.go:130`).

## Runs

| Run | Question | Instance | Distinct states |
|---|---|---|---|
| `seats3` | Do seats, rows and checks stay right with three requests at once? | 1 event, 1 seat, 2 students, 2 tickets, 3 requests; a patch that cancels the event | 0.7 million |
| `capacity` | What survives PUTs that change the capacity? Can a student get two passes? Does the code implement the ledger? Is the invariant of the proofs one? | 1 seat growing to 2 and back, 2 tickets, 2 requests; patches of the capacity and one that brings the event forward | 0.5 million |
| `live` | Does every request end? Do the door and "my tickets" agree on expiry? | 2 requests, 1 ticket, with and without `end_at`, fairness | 0.1 million |
| `stale` | violation: is the counter exact when a PUT of the capacity overlaps a registration? | 2 requests | |
| `window` | violation: do two overlapping PUTs keep `end_at` after `starts_at`? | 2 requests | |
| `queue` | What holds when everything fails? Is everything settled while nothing but the mail server fails? Is the invariant of the proofs one? | 2 notes, 2 workers, batch of 2; behaviours with all faults and behaviours with those of the mail server only; fairness | 87 thousand |
| `queue_lost` | violation: does the mail server get every accepted mail when processes stop? | 1 note, 1 worker, fairness | 150 |
| `auth_all` | Which sessions and roles survive overlapping handlers? Is the invariant of the proofs one? | 1 user, 3 tokens, 2 handlers, 2 role changes | 0.4 million |
| `auth_roles` | violation: must everyone log in again after a role change? | the same | |
| `payments` | What do webhooks do to seats and payments, repeated, out of order or cut off? Is a failed payment's seat free in the end? | 1 student, 1 event, 2 passes, 1 payment, 2 webhooks at once, reports "succeeded", "failed" and "other", 1 fault, fairness | 0.2 million |
| `backoffice` | Do covers, the audit log, lists, entitlements, statistics, limits and shutdowns stay right? | below | 1.3 million |
| `limiter_sliding` | violation: does every window let through the limit at most? | the limiter of `backoffice`, no faults | 100 |

`backoffice` checks seven components in one run. A behaviour is one of seven
workloads (`MCBackOffice`): no component reads a variable of another, so that
their interleavings show nothing a workload does not. All have 1 event, 2 staff members, 2
students, 2 passes, sizes 1 and 2, a clock to 3, requests of 1 instant and 1 fault.

| Workload | Instance | Distinct states |
|---|---|---|
| covers | 3 objects, one of them a poster, 2 uploads at once | 173 thousand |
| moderation | 3 decisions or role changes at once | 62 thousand |
| lists | 3 rows that share 2 sort keys, pages of 1 row, all five lists | 230 thousand |
| rights | 1 access token and 1 request at a time, lifetime 1 | 462 thousand |
| statistics | 3 questions (organizer, stranger, administrator over all), one at a time, asked until 2; lifetime of the cache 1 | 368 thousand |
| limiter | 1 client, limit 2, window 2, bursts of 4 | 27 thousand |
| process | 2 requests, a shutdown that waits 2 | 0.6 thousand |

What they show. With capacities fixed, the seat counter is exact, nobody is sold a
seat that does not exist, no student holds two, a pass that was used or cancelled
stays so, and every commit still finds what its checks found. With capacities
changing, the counter goes wrong in exactly one way (`OnlyStalePutBreaksSeats`):
the UPDATE of a PUT counts the tickets in its statement snapshot, waits for a row
lock, and writes the old count; the step that breaks the counter is the commit of
that PUT (`StalePut`), never one of a request beside it. The next cancellation or check-in repairs it
(`RecountHeals`), and the tables still behave as the ledger says. Waiting in a
circle takes a deletion, which locks the event before the tickets, while
everything else locks the ticket first; the detector resolves it.

For the queue: no row is handed to two workers, a mail is tried at most four
times, 'sent' means the server confirmed, and a confirmed mail is never sent
again, whatever fails. The price is in `queue_lost`: rows of a worker that stopped
stay 'processing' for ever, and a mail that was claimed and not yet tried never
goes out (`EveryMailed`).

For sessions: a refresh token is exchanged once, a session keeps the roles it began
with, and `users.role` and the active rows agree. Logins and role changes end the
other sessions, except those of handlers in flight: `OneSession` and
`OldSessionsOverlapped` say so exactly, and `auth_roles` shows that such a session
then lives on without a login when the roles come out the same. A token whose
roles differ is refused in any case.

For payments: a failure that was answered leaves the student no unused seat bought
before it, good reports never touch a pass, and a handler that was cut off after
writing the row is made good by the provider's repetition (`FailureReleases`),
because the code does its work again when the row already has the status.

For the desks: an uploaded cover can only be missing when a client copied its URL
into another event or an UPDATE was reported failed though it was applied
(`UploadedCoversAreThere`); objects are left over in the ways
`GarbageExplained` names, which include an upload that was answered as failed although
the bucket took the object. Each applied decision is in the log unless a step of it
failed, and on a quiet event the newest row is the one that rules. A reader of a list
misses a row only when rows left the list or share their key. A withdrawn role
counts for the lifetime of an access token and two requests at most. Figures are
fresh, add up and are the reader's own, through the cache as well. Fewer than twice
the limit pass in any window, plus the limit for each restart of Redis in it and the
requests that Redis gave no answer for, which the code lets through (`LimitKept`). A
shutdown closes no client under a request.

The five violations are findings; `PROJECT.json` quotes the comment, test or
README line each contradicts.

Why the bounds are enough. Every conflict in `Ticketing` is about one event row
and the tickets of that event, so one event suffices; two tickets are the fewest
for a sale that races a cancellation, three let a student register, cancel and
register again beside another pass. Two requests give every pairwise overlap;
`seats3` adds the third (a deletion between two others, or two waiting for the same
lock). `MaxClock` 2 reaches before, during and after the event. `capacity` grows an event to two
seats, the fewest with which a student can hold two. In the queue two notes form a batch that
can be half done, two workers compete for it, and the retry limit is the code's
own. Users do not share tokens or role rows, so one suffices for `AuthSessions`;
three tokens are the fewest for a refresh that overlaps a login, and two role
changes let a role be set and set back. One payment with two webhooks at once has every overlap of its reports, and a
second pass lets the student register anew between them. Two uploads are an
overlap, and three objects a poster or a first cover with the two that replace it. Three
decisions let one overtake another and a third read the log. Three rows
in pages of one are a page read, one that moves and one that must not be missed. One token and
one request show every order of reading the roles, signing, changing a role and writing;
one request for statistics meets sales, deletions, the cache and its
expiry. The counters of two clients have nothing in common, so one client suffices;
bursts of four reach the bound of `LimitKept` exactly, without a fault and with a restart of
Redis. Several tokens or requests at once, and answers stored over newer ones, are
beyond this instance: `EntitlementsProofs` and `RedisProofs` prove the properties for
any number.
What is proved for all sizes is under Proofs; the bounds matter for the rest.
The runs check `IInv` of `Ticketing`, `NotificationQueue` and `AuthSessions`, which contains their `TypeOK`. Users, tickets, requests and tokens are symmetric (no
definition names one), and the runs on them use it; the runs with a liveness property use no symmetry.
Deadlock checking stays on in the `Ticketing` runs (a request can always start or
abort; bounded ids still leave DELETE and check-in requests); the queue may
really come to rest, and the bounded tokens of `AuthSessions` run out, so their
configurations turn it off.

## Fairness

`Ticketing`: strong fairness of `Step(r)` for each connection. PostgreSQL queues
waiters for a row lock first come first served, so that a request that could get
its lock again and again gets it; a handler that is not waiting runs on, and the
deadlock detector breaks a circle. Nothing obliges a client to send a request, an
organizer to edit, or the clock to tick.

`Payments`: strong fairness of `Retry(f, x)`: the provider repeats a report until
one repetition was answered 200, as payment providers do; and weak fairness of `Handle(h)`: a
handler that is not cut off runs on. Nobody has to pay, to register or to come.

`NotificationQueue`: weak fairness of `Work(w)`: the ticker of the worker fires
every 2 s, every call returns (the dialer and the database have timeouts), and
`restart: unless-stopped` in `docker-compose.yml` brings a process back. No
fault is ever obliged to happen, and none obliged to stay away except where a run
excludes it by its constant `Faults`, or by a `mode` fixed at the start
(`MCNotificationQueue`), which is "reliable" or "failing".

## Proofs

`TicketingProofs` assumes only what `Ticketing` declares of its constants: the
ticket ids are finitely many, `None` is no id and no value, the bodies of requests
have their types and new events passed the handler's validation. The argument:

1. `IInv` is inductive. `TypeOK` and `NoOrphanTicket` are not: to see that a
   commit writes a good row one must know which requests hold which locks
   (`LocksMatchRequests`), that a lock keeps the ticket and the event as the
   handler found them (`LockedTicketsKept`, `ChecksCurrent`), that a count is
   current until its commit (`CountsCurrent`), and that no two registrations
   share a payload (`PayloadsReserved`). `Invariance` proves it, one lemma per
   conjunct and operation.
2. `TicketChanges` says in which three ways a ticket changes: sold, redeemed,
   removed, each with what the request held and knew. `UsedAndCancelledStay`,
   `ChecksHonoured` and `OnePassEach` follow.
3. `SeatsBreakOnlyByStalePut` and `RecountsHeal` follow from `CountsCurrent` and
   cardinalities of the seats.
4. Assuming that no PUT changes a capacity (`FixedCapacity`),
   `FixedCapacityExact` and `FixedCapacityNeverOversold` prove the counter exact
   and the event never oversold, for any number of requests at once. Without the
   assumption both are false (run `stale`).
5. `TicketingImplementsLedger` is the refinement: `LedgerSteps` maps each step to one
   operation of `SeatLedger` or to none, with one lemma per operation. A commit of a
   registration is `Sell` because the lock keeps what was checked; a cancellation and
   a check-in are `Return` and `Admit` with the counter they counted; a PUT is some
   `Resize`; a deletion is `Close` at its commit, though its cascade removed the
   tickets one by one under the lock.
6. `CirclesNeedDelete` orders the locks: `WaitsFor` says for what a request at each
   position waits and what it holds. `DoorAgreesWithList` compares the two
   computations of the expiry, from the row under the lock and from the list.

`NotificationProofs` has the same plan: `IInv` adds to the properties that a worker's
retry counts are those of its rows and that the attempts of a note are its
retry count, plus one while its outcome is not written yet. `NothingLost` proves
`NothingForgotten` under the assumption that no fault is enabled.

`AuthProofs`: `IInv` says what a handler holds at each position (`Positions`), that a
generated jti is in no other hands (`NewUnused`), what a refresh knows of the
token it exchanges (`Exchanges`), that a running role change has left only tokens
inserted after its revocation (`ChangesRevoked`), and that a handler about to
insert without having met a login holds the user's only session (`OneHolder`).
The constants need only that `None` is no id and no role and that the bound is a
natural number.

`PaymentsProofs`: `PayInv` says that the seats are those of the ledger (`SeatsFine`),
what a payment and its reports have to do with each other (`RefFine`), and at each
position of a webhook handler what it has written and has still to release
(`HookFine`). That a released pass stays released is `NothingBack`: no step seats
a pass again that was issued before. `FailuresRelease`, `OutcomesStand` and
`SeatsOfGoodPaymentsStay` follow.

`DeskProofs`, covers: `CoverInv` says that the new object of an upload is its own and
shown nowhere before its UPDATE (`UploadFine`), and that the object it will remove is
shown by its own event only and after the UPDATE by none (`OldCoverKept`), as long as
no client took the URL. An object that the bucket took though its upload was
answered as failed is in no handler's hands (`StoredUnknown`). Neither property is inductive without the other half: the
removal of an old object must not hit the new one of somebody else. `CoversKept` and
`GarbageHasReason` follow.

`DeskProofs`, moderation: `ModInv` says what each decision has written at its position
(`DecisionFine`) and that the ruling decision of an event is the only one without a
row, or has the newest (`RulingFine`). `TrailKept` and `NewestRowExplains` follow.

`DeskProofs`, lists: the place of a row is the number of its leaders, the rows of the
list that are sorted before it. `PassInv`: while only rows joined the list, a row that
stayed and was not seen lies at or behind the offset, or has a tie; while only rows
left, every row that was seen lies before the offset. `PageTells` connects a page with
places, whatever page the database chooses among ties. `PassIsExplained` follows, for pages
and lists of any size; the run has pages of one row.

`RedisProofs`, statistics: `StatInv` bounds the age of what a request computed
(`QueryFine`) and of what the cache holds (`EntryFine`), and says for whom the
figures are (`FitsQuestion`). The step from a hit to an answer needs that two questions with
one key may be shown the same figures (`KeyShares`), a fact about `CacheKey`.
`FiguresAreFresh` and `FiguresAreOwn` follow. `FigInv` adds that figures on their way
have no more registered than seats unless an event in scope had been cut below its
passes (`Possible`); a fresh snapshot has this because the sum of the capacities bounds
the passes of all events together (`UnionBounded`). `FiguresAddUp` follows.

`RedisProofs`, limiter: `LimInv` says that a living counter began at one instant, a
window before its expiry, and counts no more than the runs since then, and bounds what
passed since each instant of the window that ends now (`CountFine`, `ClientFine`).
What passed since an instant after the beginning is less than what the counter lets
through, because the run that made the counter came before; what passed since an
earlier one is less than that plus the quota, the limit once and once more for each
restart since then. Without a counter it is less than the quota. The requests
without an answer are added on the other side (`Few`). A run that makes the counter moves the first
bound into the second, a restart adds to the quota what the lost counter had let
through, and as instants pass the windows begin after the counter that expires.
`LimiterKeepsLimit` follows.

The sums of both are folds over finite sets, which the community modules define by a
recursive function on the subsets. That this function exists (`SumExists`), is
unique (`SumUnique`) and may add the elements in any order (`SumRemove`) is proved by
taking a least counterexample (`LeastNumber`, `SmallestSet`), since the induction
theorems of the library cannot be instantiated.

`EntitlementsProofs`: `EntInv` says of a token and of a running request how long ago
its roles were withdrawn at most (`AccessFine`, `CallFine`): the sum of that time and of
what is left of its life never grows. `OnlyTheEntitledChange` follows with
`Grace = AccessTTL + 2 * RequestTime`.

`BackOfficeProofs`: `ProcInv` says which clients are open at each place of `main`
(`OpenAt`) and that a shutdown outwaits the deadline of each request
(`DeadlinesKept`). `RequestsKeepClients` needs `DrainAssumption`: the deadline of a
request (25 s) is shorter than the wait of a shutdown (30 s).

`BackOfficeTyped` puts the seven desks together: `BackInv` is the conjunction of the components'
invariants, each in the workload that moves the component, and contains their types.

These assume of their constants only what the modules declare:
`DeskAssumption` (natural numbers, `None` is nobody, organizers are staff),
`NoneIsNoRef`, `ReportsKnown`, `CoverAssumption`, `NoneIsNoDecision`,
`DecisionsFinite`, `ListingAssumption` (finitely many rows), `StatisticsAssumption`
(finitely many events and passes, natural sizes), `LimiterAssumption`,
`EntitlementAssumption`, `DrainAssumption`. Bounds of the clock and of faults are arbitrary numbers.

Only model-checked: liveness (`RequestsEnd`, `SettlesWhenReliable`, `FailureReleases`),
which is out of the prover's reach. Every other property of a passing run is a
theorem. `NothingForgotten` is proved and not run: the run `queue` checks the stronger
`EverySettles` in the behaviours in which only the mail server fails
(`SettlesWhenReliable`).

## Not modelled, and why

The contents of requests and mails, amounts and the signature of webhooks, QR
rendering, search texts and time filters (they narrow a list), the registration
timeline (counts per hour), bucket policy and content types, JSON, CORS, logging and
configuration, and the generated API documentation: they keep no state that
another step reads. The pool limit of 20 connections would add waiting for a
connection to waiting for a lock, ended by the same time-out. The mobile client is
another program, in Kotlin, that keeps only its token and what its screens show.
Serialization failures do not occur at READ COMMITTED.

## Plan

Done: every component of the server in the table above, their runs, and theorems
about all of the modules: every safety property and every action property of
the runs, and the refinement of `SeatLedger`. Next, most important first:

1. The mails of registrations and rejections composed with `NotificationQueue`: an
   abstract queue that promises "delivered at most once after its confirmation, or
   given up", and a proof that the queue implements it.
2. The registration timeline; a run of lists with pages of several rows.
