# A TLA+ model of Banquet

The repository holds a marketplace for banquet halls: a NestJS backend
(`src/src`, MongoDB through Mongoose, Redis through ioredis) and a Next.js web
client (`src/frontend`). This directory holds TLA+ modules of the stateful parts
of both, configurations that check them with TLC, and proofs about them that
TLAPS checks. Paths below are relative to `src/src` unless they start with
`src/`.

## 1. The system

Every HTTP request runs in one Node.js process (several processes may share the
database and Redis). Between two `await`s a handler is atomic; at every `await`
any other request may run. MongoDB makes one operation on one document atomic;
the code opens no transaction (`TransactionManager` exists but has no caller).
`document.save()` sends only the paths the handler modified.

| Component | State | Operations | Talks to |
|---|---|---|---|
| Booking service `modules/bookings` | booking documents (status, event date, audit trail), availability records | create, confirm, cancel, reschedule | distributed lock, MongoDB |
| Distributed lock `infrastructure/cache` | Redis strings with a TTL; connection flag | acquire, release, executeWithLock | Redis |
| Circuit breaker `common/services/circuit-breaker.service.ts` | per circuit: state, two counters, openedAt | execute, reset | whatever it wraps |
| Idempotency interceptor `common/interceptors` | idempotency records with a unique key | intercept | MongoDB, the handler |
| Sessions `modules/auth` | accounts (status, deleted, password), refresh tokens, login attempts | register, login, refresh, logout, logout from all devices | MongoDB |
| One-time passwords `modules/auth/services/otp.service.ts` | OTP records with an attempt counter | generate, verify, clean up | MongoDB |
| Users and owners | user documents, profiles | update, change password, deactivate | MongoDB |
| Catalogue `modules/banquets` | banquet documents and their status | create, update, publish, unpublish, delete | MongoDB |
| Search `modules/search` | Redis cache of results, search log | search, cache, (invalidate) | MongoDB, Redis |
| Reviews `modules/reviews` | reviews, moderation status, rating of the banquet | create, edit, delete, reply, approve, reject, recalculate | MongoDB |
| Administration `modules/admin` | users, banquets, featured listings, tickets, activity log | suspend, activate, change role, approve, reject, feature, ticket life cycle | MongoDB |
| Transaction manager, graceful shutdown, retry interceptor | attempt counters; active-request counter | withTransaction, shutdown, retry | MongoDB; not wired in |
| Routes and guards `modules/*/…controller.ts`, `modules/auth/guards` | none; they read the token and the account | JwtAuthGuard, RolesGuard, AdminPermissionsGuard before every handler | MongoDB |
| Web client `src/frontend` | React Query's cache and requests in flight; tokens in localStorage, shared by all tabs | queries, mutations, login, logout, the interceptors' reaction to a 401 | the API |
| Analytics, audit, observability | append-only collections | record, aggregate | MongoDB |
| Confirmation queue | none (the queue is disabled) | stubs | - |

What is hard here, and has no test (the unit tests cover four domain classes):

- *check, then act, across an await*: availability and booking checks before an
  insert, a status check before a save, the lookup of an idempotency record
  before its insert, a one-time password's attempt counter;
- *multi-document writes without a transaction*: a booking and its availability
  record, a user and the activity log, a review and the banquet's rating;
- *a lock with a TTL* that is read, compared and deleted in separate calls;
- *late results*: the calls a circuit breaker let through before it opened, the
  update of an idempotency record that nobody waits for, the answers to requests
  that a page of the web client made before a mutation or a logout;
- *tokens and caches that are older than what they speak of*: the role in a
  token, a cached search, the web client's queries;
- *failures*: a process that dies between two writes, a database call that
  rejects, Redis going away, a reply that is lost.

What makes each part correct:

- bookings: no two active bookings of a banquet on one day unless two requests
  raced for it; availability agrees with the bookings; status changes follow the
  life cycle; the audit trail accounts for the status; every request ends;
- lock: no two requests inside `executeWithLock` with one key;
- circuit breaker: an opening lasts its timeout; no state is a trap;
- idempotency: a key's handler runs once; a replay is the response to the body
  it is replayed for; a key is never locked for ever;
- sessions: what is granted was justified at some time while it was asked; a
  refresh token that was refreshed or logged out is spent; an address has one
  account; failed logins lock an address out, by how much too late, and not for
  ever;
- one-time passwords: a code is accepted only by requests during which it was
  live; a new code ends the older ones; a code cannot be guessed at for ever;
- accounts and routes: a handler runs only for an account that may use its route,
  whatever its token says; an address belongs to one account;
- catalogue: the activity log accounts for the status; a stale search result goes
  away;
- reviews: one review of a customer; what is published was approved as it is; a
  rejection stands;
- web client: nothing of a user is left after a logout; what counts as valid shows
  the writes that succeeded here.

`PROJECT.json` lists every component with its status, and under `hazards` the
lines where these difficulties bite.

## 2. Modules

| Module | Models | Kind |
|---|---|---|
| `DistributedLock` | `distributed-lock.service.ts`, the connection part of `redis.service.ts` | component, driven by `Bookings` |
| `Bookings` | `booking.service.ts` and its two repositories, over `DistributedLock` | component |
| `BookingCalendar` | what the booking service promises: a request asks, is granted a day, and is decided at once | abstract specification |
| `MCBookings` | small instances of `Bookings` for TLC | model checking |
| `BookingsProofs` | theorems about `Bookings` | proofs |
| `CircuitBreaker` | `circuit-breaker.service.ts` | component |
| `Idempotency` | `idempotency.interceptor.ts`, its schema | component |
| `CommonProofs` | theorems about these two parts of `common/`, which share no state | proofs |
| `Sessions`, `SessionsProofs` | `auth.service.ts`, `token.service.ts`, the JWT strategy, and what `users.service.ts` and `user-management.service.ts` do to accounts as sessions meet it | component, proofs |
| `Otp` | `otp.service.ts` and its two routes | component |
| `OneTimeCodes` | what one-time passwords promise | abstract specification |
| `OtpProofs` | theorems about `Otp`, the refinement among them | proofs |
| `Accounts` | the routes of every controller, the guards, `users.service.ts` and `user-management.service.ts` | component |
| `MCAccounts`, `AccountsProofs` | instance of `Accounts` for TLC; theorems about it | model checking, proofs |
| `Catalogue`, `CatalogueProofs` | `banquets.service.ts`, `banquet-management.service.ts`, `audit-log.service.ts`, `search.service.ts` and its cache and repository | component, proofs |
| `Reviews`, `ReviewsProofs` | `review.service.ts`, `moderation.service.ts` | component, proofs |
| `WebClient` | the axios client, the hooks, the pages and the components with forms | component |
| `MCWebClient`, `WebClientProofs` | instance of `WebClient` for TLC; theorems about it | model checking, proofs |

Definitions keep the source's names where they have one. Beside some
definitions stands a *mutant*: the same definition with a plausible mistake.
No specification uses it; `PROJECT.json` says which property it must break, so
that each property is known to be able to fail.

### Bookings

`Clients` are request slots. A request is a `job` (operation, booking, date to
take, date as read) and a `pc` that names the await it has reached:

    create      acquire banquet available booked insert trail mark unlock delete
    reschedule  acquire acquire available booked free mark move unlock delete unlock delete
    confirm     confirm
    cancel      free cancel

The read and the checks at the head of an operation belong to the action that
accepts the request (`CreateBooking`, `ConfirmBooking`, `CancelBooking`,
`RescheduleBooking`), so what a request knows about its booking may be stale at
every later step. `held` counts the `executeWithLock` calls entered;
`LeaveFrame` is the `finally` of the innermost one. `DatabaseError` rejects an
await, `Crash` ends the request where it stands, and `LockEnvironment` expires
keys and drops or restores the connection at any time. A call that took effect
but rejected is its own step followed by `DatabaseError`.

One banquet is modelled: two banquets share no document and no lock key. An
event date is an instant, with a day in the server's time zone (`DayOf`, used by
the availability and booking queries) and a lock key built from its UTC day
(`LockKeyOf`). Dates that have passed matter because rescheduling, unlike
creating, does not check for them. Prices, guests, references and the
confirmation job are left out; the outcome of the banquet and capacity checks is
a free choice. `COMPLETED` and `REFUNDED` are statuses that no code sets.

`SETEX` has no `NX`, so `AcquireLock` overwrites. The model keeps that: nothing
about bookings is checked or proved under the assumption that the lock excludes,
or that requests keep off each other's bookings. Instead three histories record
where things may go wrong, each updated by the very step that makes it so:

- `raced`: days that a request finds free while another that found them free has
  not booked yet (`CheckBooked`), or that a confirmation takes back from a
  cancellation saved since its read (`SaveConfirmed`);
- `disturbed`: the days of two requests that work on one booking at once
  (`Accept`), and of one that fails between its first write and its last
  (`Faults`);
- `faulted`: some request crashed or had a database error.

`NoDoubleBooking` and `AvailabilityAgrees` say that nothing goes wrong on any
*other* day: a race, a crash, or a stale copy does no harm beyond the days it was
about. `BookingCalendar` is the service as a client sees it: `Ask`, then `Grant`
of a day on which there is no active booking, then the change in one step, or
`Drop`. It excludes no race, and says exactly what a race is.

The save of a reschedule sends no date when the new instant is the one that was
read, so `SaveRescheduled` then leaves a date that another has saved.

### Circuit breaker

One circuit; circuits do not touch each other. `Execute(c)` is `execute()` up to
its await, `Succeed(c)` and `Fail(c)` the recording of the result, in whatever
state the circuit is by then. The code only compares the counters with `>=`
their thresholds, so each stops at its threshold in the model. Of `openedAt` the
model keeps null, recent, or past its timeout.

### Idempotency interceptor

Every await of `intercept()` is a step, and so are the two callbacks of the pipe:
`CacheResponse` happens after the client has its answer. The response is
abstracted to the body it was computed from. `settled[r]` remembers that the key
was answered and cached when request `r` arrived, `replayed` pairs a retry's body
with what it was given. A `create` that meets the unique index is taken for a
failing database, as in the code, and the request goes on "bare". No record
expires: `expiresAt` is declared with a plain index (`:33`), which is built before
the TTL index (`:40`) and has its name, and MongoDB refuses the second. A record
whose owner dies, or cannot update it, therefore stays in processing for good,
which is what the violated `KeysAreReleased` shows.

### Sessions

`Requests` are slots again; `pc` names the database call a request is at:

    register   lookup create issue          refresh    verify owner revoke
    login      attempts find (fail | issue) logout     revoke
    change     current update               revokeAll  revokeAll

and `granted` once it has its answer. A user is the account of one e-mail
address, with the one network address it is used from, because attempts are
counted per pair of the two. Accounts are never removed: `DeactivateUser` sets
`deletedAt`, which hides the account from every lookup but not from the unique
index, so a deactivated address can be neither used nor registered again. The
administrator's `suspendUser` and `activateUser` save a copy they have read, so
`SetStatus` may write at any time. Access tokens have no state; the guard looks
at the account when the request arrives, and nothing after that. A refresh
token is not rotated: `Revoke` spends it and no new one is issued. Expired tokens
are kept in the model, since one that the database has removed is refused just
the same.

`seen[r]` records which of the facts that the answer depends on have held since
request `r` arrived. The decision and its use are different steps, so
`GrantsAreJustified` cannot ask that they hold when the answer is given; it asks
that they did at a time during the request, and for a login that the password
and the status were right *together*.

### One-time passwords

    send       invalidate create sent
    verify     find (lock | increment | use) verified

`find` reads the latest unused record and decides on a copy of it: locked when
the attempts it read are at the limit, counted when the code is wrong, used when
it is right; the write comes by another call and writes the value computed from
the copy, so overlapping guesses count once, and a slow one sets the counter
back. `OneTimeCodes` is the service without steps: a code is live from its issue
until it is retired or accepted, and a request is accepted with a code that was
live at some time while it was being decided. `ImplementsOneTimeCodes` says that
`Otp` does no more than that; the mapping calls a record live while it is neither
used nor expired, and lets a verification be accepted with the record it has
copied. A generation that fails or dies after its first call leaves the
identifier without a code, which is allowed; so is that two requests are accepted
with one code, when both were under way before either had marked it, and that two
generations which overlap leave two live codes.

"Invalidate all previous OTPs for this identifier" (`:58`) cannot mean that an older
code is never accepted again: a verification that has its copy goes on with it.
`OldCodesAreRefused` says what it can mean. `replaced` keeps, for each identifier, how
many records there were when the latest of the answered generations was asked for;
a verification takes that down as it arrives (`before`), and is never accepted with
one of them.

### Reviews

The reviews of one banquet. Each operation reads a document and saves what it has
modified on its copy. Mongoose sends a path only when the value differs from the
one read, appends to arrays with `$push`, and refuses to overwrite the array of
photos when another save came between: `Save` and `StatusAfter` say so, and all
that is checked rests on it. An edit asks for a new moderation by writing
`PENDING`; `vetted` remembers whether an approval was saved after the last edit
had read the review, and `PublishedWereApproved` asks for no more: an edit that
read a review in moderation changes no status (`review.service.ts:110`), so an
approval of the old text that is saved while the edit is under way publishes the
new one. `RejectionsStand` is about reviews that were never approved: an edit
that overlaps their rejection read them in moderation and leaves the status
alone, while an edit that read an approved review takes it back to moderation
whatever came between.

### Catalogue and search

Owners and administrators change banquets, one lookup and one write each; an
administrator's action then writes its entry to the activity log, by another
call, and `unlogged` remembers the entries that a failure took. `publishBanquet`
looks at no status, so that an owner may publish what was rejected
(`banquets.service.ts:133`), and a featured listing outlives the publication of
its banquet: nothing says otherwise, and `LogAccounts` asks only that the log
explain each status. The rejection of a banquet that was read as rejected sends no
status (step `resave`), so that a publication in between stays. A search that misses the cache reads, answers, and stores
its result afterwards; nothing invalidates the cache, as `invalidateBanquetCache`
and `clearAllCaches` have no caller. `StaleResultsEnd` is what remains true: only
the time to live ends an old result, and it does. One search stands for all,
because keys do not touch each other; its filters, order and paging are left out.

### Accounts and routes

`Routes` lists the handlers of every controller with what their decorators ask
for. A slot is first a token (`Login`), then the one request made with it
(`Send`), and then its steps: guards, lookup, `emailExists`, write. The JWT
strategy returns the role of the *account*, not of the token, which is what
`ActsAreAuthorized` rests on; the history `allowed` remembers that the account
was in use and its role fit the route at some time since the request was sent.
The routes that change no account differ by their guards only and are one
handler, `Serve`. Registration and login are one step here, with all their steps
in `Sessions`.

What the model shows beside its properties: two administrators may deactivate
each other; `save` writes to an account deleted since it was read; a `PATCH` of
one's own profile that was let in before a suspension may write `ACTIVE` after
it; `emailExists` looks for the lower-case form of an address while addresses are
stored as they were written, so two spellings of one address can both be
registered; the unique index alone keeps `AddressesDiffer`;
`AdminPermissionsGuard` lets every administrator pass, because the user that the
strategy returns has no permissions and the default set is that of a super
administrator. `OptionalAuth` on `GET /banquets/:id` is ignored by `JwtAuthGuard`,
so that visitors without a session get a 401.

### Web client

One tab. A query is its key, and `cache` and `fetch` are what React Query keeps
for it; `accessToken` is in localStorage, which the other tabs write as well. A
page is the queries its components observe and the mutations its components make:
the layouts (`PublicPage`, `SidebarPage`) show the user of the session and log
out, and the forms (`BookingForm`, `ReviewDialog`, `BanquetForm`) make one
mutation each. The `…Mutations` functions are the hooks: the keys each
invalidates when it has succeeded. `Served` and `Unanswered` are where the
client and the API agree and where not: `suspend` and `activate` are PATCH where
the route takes POST; there is no `admin/overview`, no list of `admin/banquets`,
no `bookings/:id/status`; `bookings/owner` is taken for the booking with the id
"owner"; rejections send no reason, which is required. React Query, the browser
and the API are external and modelled as the hooks meet them: a fetch goes on
when its page is left; an invalidation fetches again what is observed and
cancels a fetch in flight, but not a query's first one; the caught errors of
`Catches` become an empty list that counts as fresh. `Enabled` leaves out the
`!isOwner` of `useBookings.ts:71` and `useReviews.ts:74`, as users have no role
here: the model fetches more than the code does.

`AfterLogoutNothingIsLeft` covers everything in flight at a logout. It does not
cover a 401, which drops the token (whichever token was refused, a newer one of
another login included) and loads `/login`, nor a login, which does not clear the
cache. `ReadYourWrites` leaves out what the hooks do not promise: `deleteBanquet`
does not invalidate `["banquet", id]`, and a first fetch that overlaps a mutation
counts as valid.

## 3. Runs

| Run | Specification and bounds | Shows |
|---|---|---|
| `bookings` | `SeededSpec`, from a calendar with one booking; 2 clients, 3 bookings, 2 dates, of which one has passed, on 2 days that share a lock key, 3 requests | `NoDoubleBooking`, `AvailabilityAgrees`, `AuditAccounts`, `SavesArePartial`, the refinement `ImplementsCalendar`, and `RequestsEnd` |
| `circuit_breaker` | 3 calls, the code's thresholds 5 and 3 | `OpenCanRecover`, `OpenForOneTimeout`, `Recovers`, `Protects` |
| `idempotency` | 1 key, 2 bodies, 3 requests | `OwnerKeepsItsRecord`, `ReplaysAreFaithful`, `RetriesAreReplayed` |
| `sessions` | 1 account, 2 passwords, 1 token, 2 requests, a limit of 2 attempts | `GrantsAreJustified`, `OneRegistration`, `GrantedTokensAreSpent`, `AttemptsLimited`, `LockoutEnds` |
| `otp` | 1 identifier, 2 codes, 2 records, 2 requests, the code's limit of 3 attempts | `OldCodesAreRefused`, `GuessesEnd`, and the refinement `ImplementsOneTimeCodes` |
| `reviews` | 2 customers, 2 reviews, 2 requests | `OneReviewEach`, `PublishedWereApproved`, `RejectionsStand` |
| `catalogue` | 1 banquet, 2 requests | `LogAccounts`, `StaleResultsEnd` |
| `accounts` | 2 accounts, 2 addresses (one the lower-case form of both), 2 roles, 2 requests | `ActsAreAuthorized`, `AddressesDiffer` |
| `web_client` | 2 accounts, 9 tours of one query each, 1 write | `AfterLogoutNothingIsLeft`, `ReadYourWrites` |
| `lock_exclusion` | `Spec`, from an empty calendar; otherwise as `bookings` | **violated**: `LockExclusion` |
| `keys_released` | 1 key, 1 body, 1 request | **violated**: `KeysAreReleased` |
| `logout_all` | 1 account, 2 tokens, 1 request | **violated**: `LogoutAllRevokes` |

The passing runs of one component check its `TypeOK` as well.

The bounds. The calendar of `bookings` has one booking at the start, on the day that
can still be booked, so that three requests suffice for two creations that race for
the day a cancellation has freed, for a confirmation that is saved after a
cancellation and a new booking of its day, or for a fault in one request and two
more that meet what it left. Each of the cases that `NoDoubleBooking` and
`AvailabilityAgrees` except does occur there: without it TLC finds the property
violated. Two clients suffice for every race of two, and no step involves more than
two requests. The server lies east of UTC, where two local days share a UTC day and
with it a lock key: there a reschedule from one day to the next nests the same
lock. `MaxRequests` only bounds arrivals. Symmetry is used in `accounts` and
`web_client`, which check safety only. The interceptor's run has one key because no
action touches two of them; the theorems hold for any number. Three requests are the owner, a racing one and a
retry that comes later. Accounts and tokens do not meet each other in `Sessions`
either: with one of each, two requests cover every race of two, and with a limit
of 2 both the failures below the limit and those that overlap at it occur.
`MaxOtps` bounds the records: with two there is an older code and a newer one.
Two customers and two reviews let one customer's second review race the first,
and a deleted one make room. One banquet and one search are enough for the
catalogue, whose banquets do not touch each other. Two accounts let an
administrator and a customer, or two administrators, act on each other; owners
are to the guards what customers are, the name of one role more. In the web
client a query meets another only in the token, which `OtherTab` changes at any
time, so one query at a time is looked at, each with the pages that show it and
those that change it; one mutation is pending at a time, and one write is enough
to tell old data from new.

Deadlock is checked in every run but `accounts`: there, accounts and addresses
are used up in the end, and when every account has been deactivated nothing more
can happen. Elsewhere a state without successor could hardly exist (a free slot
may always accept a request), and that nobody waits for ever is the matter of
`RequestsEnd` and `Recovers`.

The three violated properties are things the code says and does not do:

1. `distributed-lock.service.ts:33` acquires without `NX`. Two requests for one
   key run their critical sections together, against `:7` and `:85`.
2. `auth.controller.ts:165` passes `user.id` to `logoutAll`; the JWT strategy
   returns `sub` and no `id`. Of `undefined` `ObjectId` makes a new identifier, no
   token matches, and "all sessions revoked successfully" has revoked none.
3. `idempotency-record.schema.ts:39` says that records expire after 24 hours; the
   plain index of `:33` keeps the TTL index from being built. A key whose record was
   left in processing is refused for ever.

Three more are known and have no run of their own. `booking.service.ts:50` locks
the UTC day while availability is kept by local day: off UTC, even an exclusive
lock would let two bookings take one day. `booking.service.ts:137-144` confirms what
it read: a cancellation saved in between is overwritten, with its day already freed
(`raced` records it, `AuditAccounts` shows that the audit trail keeps both).
`idempotency.interceptor.ts:94-100` takes the duplicate-key error of a racing request
for a failing database and runs the handler again, against `:11` and
`src/README.md:88`.

Fairness. `FairSpec`, and `SeededSpec` with it, assume weak fairness of each request's next step
(`Progress`): the event loop runs every ready continuation and every database or
Redis call ends, with an answer or an error. Arrivals, faults and Redis's own
events are never forced. In the circuit breaker, `Execute`, the end of each call
and the passing of the timeout are fair: a circuit nobody calls stays as it is,
so recovery is a statement about one that is being called. `Reset` and the
dependency's own behaviour are not forced; `Recovers` and `Protects` assume what
they need of them. In the interceptor the requests' steps are fair. In `Sessions` only time is: a failed attempt leaves the window of
900 seconds in the end (`Forget`), however many more arrive. In the catalogue the
requests' steps are fair, and so is the time to live of the cached result.
`GuessesEnd` needs no fairness: that the same code is guessed at only finitely
often is a matter of the lock alone. Nothing is assumed of the other modules,
whose properties are safety.

## 4. Proofs

TLAPS checks the following for every value of the constants that satisfies the
modules' named assumptions, which TLC evaluates in the runs; they say that
markers such as `NoBooking` are not ordinary values, that maps such as `DayOf`
are functions, and that thresholds and limits are positive.

`BookingsProofs`
- `TypeCorrect`: `Spec => []TypeOK`. `TypeOK` is not inductive: that a lock frame
  is popped at most as often as it was pushed depends on the step a request is
  at. `TypeInv` adds `StepFits` (which operations may be at which step and how
  many frames they hold then), `DocumentsExist` (a request's booking exists
  except while it is being created) and `IdsAreFresh`.
- `SavesStayPartial`: `Spec => SavesArePartial`, from `TypeInv`.
- `TrailsAccount`: `Spec => []AuditAccounts`. What the property lets any create in
  flight owe, the invariant lets only the request between the two saves of
  `createBooking` owe (`CreationRecorded`).
- `CalendarKeepsDaysApart`: about `BookingCalendar` alone, two active bookings share
  a day only if it was raced for (`OnePerDay`), and a granted day that was not raced
  for stays free for the request that has it (`GrantsHold`). The two need each other:
  a booking is made on a granted day only, and a day is taken by nobody but its
  holder. `CalendarInv` adds the types.
- `RequestsImplementCalendar`: `Spec => ImplementsCalendar`. The passing of
  `isDateBooked` is the grant, the insert and the three saves are the changes,
  everything else drops the request or is not seen (`DropsOrQuiet`).
- `OnlyRacesDoubleBook`: `Spec => []NoDoubleBooking`, by the two theorems before it:
  it is `OnePerDay` read through the refinement mapping. No assumption is made about
  the lock, nor about which dates share a key.
- `AvailabilityKept`: `Spec => []AvailabilityAgrees`. From the refinement also comes
  `RacesInv`: what a request has claimed is free, or raced for. The invariant
  `AvailabilityInv` has four parts. `MarksAgree` speaks of days on which something
  still runs: a record is unavailable exactly for an active booking that no request
  is half way through writing, or for the day a reschedule has marked ahead of its
  save. `ReadsHold` says that what a request read of its booking still holds, or that
  all the days concerned are disturbed; `MeetingsDisturb`, that two requests on one
  booking have disturbed theirs; `OwnDates`, that only a reschedule works with two.
- `RequestsDescend`: `Spec => []RankBounds /\ RequestsWindDown`. `Rank` counts the
  steps a request may still take, at most 13, and is 0 exactly when it is idle.
  Every step of a request lowers its rank, a fault of its own too, and nothing
  another request or Redis does changes it: no request is sent back to wait for a
  lock. With the fairness of `Progress` this is `RequestsEnd`; that some step of a
  running request can always be taken is left to TLC.

`CommonProofs`, circuit breaker: `CircuitTyped`, `OpenCircuitsCanRecover` and
`CircuitsStayOpen`, from `CircuitTypeOK /\ OpenCanRecover`, which is inductive.

`CommonProofs`, interceptor: `TypeCorrect`, `OwnersKeepTheirRecords`,
`ReplaysStayFaithful` and `AnsweredKeysAreReplayed`. They hold together: a replay
is faithful because a cached record holds the response to its own body
(`RecordsTruthful`), which is so because the owner wrote it into the record it had
inserted (`OwnerKeepsItsRecord`); and an answered key stays so while a retry is
under way, since nobody owns it (`StaysCached`).

`OtpProofs`: `Typed`, `ReplacedCodesAreRefused`, `Implements` and `GuessesAreUsedUp`.
The invariant `OtpInv` is `TypeOK` with `Dead`: once a generation has invalidated, what
was there when it was asked for is dead, and nothing brings a record back to life.
`ReplacedInv` adds that what an answered generation replaced is dead (`ReplacedDead`),
and so a verification that arrives afterwards copies something newer (`Newer`).
`Implements` maps initial states and each step; the acceptance of a code rests on the
copy's record having been live when it was copied. `GuessesAreUsedUp`
(`Spec => GuessesRunOut`) is why guesses end: while the counter of a code stands at n, the verifications that hold
less than n (`Below`) only get fewer, and a guess that sets the counter back below
n is one of them.

`ReviewsProofs`: `TypeCorrect`, `OneEach` (the unique index), `RejectionsHold`,
and `PublicationsAreApproved`, whose invariant `Moderated` adds that the audit
trail has an approval of everything published (`ApprovalsCount`) and what a copy
says of the document it was read from (`CopyTells`): a save that has seen no
other save since knows the status it writes over.

`SessionsProofs`: `TypeCorrect`, `GrantsRestOnFacts` (what a request has seen
carries over from step to step; a decision is never used without it),
`OneAccount` (whoever is past the insertion owns the account), `TokensAreSpent`,
`FailuresAreFew`: the failures recorded and the logins past the check are
together at most the limit less one plus the number of requests; and
`LockoutsAreNotProlonged` (`Spec => LockoutsRunOut`): during a lockout only the
logins past the check (`Trying`) still record failures, and they only get fewer.

`CatalogueProofs`
- `TypeCorrect`: `Types` is `TypeOK` in parts, with what its proof needs: a
  request at the lookup or the write of a banquet names one that exists, and no
  document is ever removed.
- `LogStaysComplete`: `Spec => []LogAccounts`. An entry that is owed stays owed, is
  written, or is lost by a failure of the request that owes it (`AccountedStays`);
  each save of an administrator owes its own (`SaveOwes`), and what owners do to a
  rejected or featured banquet owes none (`LogInvNext`).
- `StaleResultsAreUsedUp` (`Spec => StaleResultsDrain`): while a banquet is not
  public, the searches that have found it (`Finders`) only get fewer, and each
  return of it into the cache uses one up.

`AccountsProofs`: `TypeCorrect` (with it, that administrators' saves write no
address), `Authorized` (what the guards pass was right when they read the
account), `OneAddressEach` (every write of an address goes through the unique
index; the lookup before it is not needed).

`WebClientProofs`: `Typed`; `LogoutLeavesNothing`: neither the cache nor a
fetch that may still reach it is of a user who has left (`NothingOf(left)`); and
`WritesAreRead`: `Spec => []ReadYourWrites`. The invariant `ShowsWrites` says of
each query that what it takes for valid is as new as it is due to be (`FreshData`),
of each answer on its way the same (`FreshAnswer`), and that no more is due than
was written; what a mutation promises to show it invalidates, and cancels its fetch
(`PromisedAreInvalidated`).

Only model-checked: liveness (`RequestsEnd`, `Recovers`, `Protects`,
`LockoutEnds`, `GuessesEnd`, `StaleResultsEnd`). TLAPS proves
nothing under fairness and nothing about `ENABLED`. Of four of them the part that
is not fairness is proved above, as a quantity that only decreases: `RequestsEnd`
(`RequestsDescend`), `GuessesEnd` (`GuessesAreUsedUp`), `LockoutEnds`
(`LockoutsAreNotProlonged`) and `StaleResultsEnd` (`StaleResultsAreUsedUp`). That
such a quantity reaches its end, by induction over it, is not. The other two rest
on time passing (`Elapse`) and on the counters of the circuit.

## 5. Not modelled, and the plan

Not modelled, and why:

- support tickets: `createTicket` has no caller, so no ticket ever exists and
  every operation on one answers that it was not found;
- the rating of a banquet: `recalculateBanquetRating` sets paths that the schema
  of banquets lacks, which the driver drops; owner replies: `addOwnerReply`
  compares an owner's profile with a user and refuses everyone;
- owners' profiles: one update, whose business name is looked up before it is
  written, without an index;
- `TransactionManager`, the graceful shutdown, the retry interceptor: nothing
  calls the first and the last, and nothing increments the counter that the
  second waits for; pricing computes without state; the confirmation queue is
  disabled;
- analytics, audit and observability: written and aggregated, never decided
  upon; filters, validation, logging, configuration; password hashing; the
  domain classes, which no service uses;
- of the web client: layout, the state of forms, toasts, charts, the image upload
  (which calls no API), the event tracker, the component library in
  `components/ui`, and `useUser`, `ReplyDialog` and `ReviewList`, which no page
  renders.

The unmapped code is mostly this: the component library, response and request
classes, documentation decorators, formatting, and the modules without a caller.

What could come next: `ReadYourWrites` for several queries at once, with an invariant
that relates each fetch to the writes it may have missed; the entries that the
administrators' changes of users leave in the activity log.
