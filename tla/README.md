# TradeConnect: TLA+ models, checks and proofs

TradeConnect is a marketplace for trade jobs: customers post jobs, providers
quote on them, the customer awards one quote, both sides exchange messages, and
administrators oversee the whole.  The backend (`src/backend`: Express,
PostgreSQL, Redis, BullMQ, Socket.IO) keeps the state; the web (`src/web`,
Next.js) and mobile (`src/mobile`, Expo) apps keep forms, screens, caches and a
session over its HTTP API.

This directory models the parts whose correctness depends on how requests,
background jobs, events, screens and failures interleave, and the places where
one thing is checked several times.  TLC checks every model on a small instance;
for those that TLAPS can reason about it proves the safety properties for any number of jobs,
providers, tokens, payloads, keys and requests.

Contents: [Parts](#parts-of-the-system), [How they run](#how-requests-interleave),
[Modules](#modules), [Runs](#runs), [Fairness](#fairness), [Proofs](#proofs),
[Divergences](#divergences), [Not modelled](#not-modelled), [Plan](#plan),
[Running](#running).

## Parts of the system

| Part | State it keeps | Operations | Interacts with | What makes it correct |
|---|---|---|---|---|
| Jobs and quotes (`job.service.ts`, `admin.service.ts` `forceJobStatus`, `job.repo.ts`, migration 003) | `jobs.status`, `expires_at`, `awarded_quote_id`, terms; `quotes.status`, one row per job and provider | create, publish, patch, submit/view/shortlist/reject/withdraw quote, award, accept, complete, cancel, force status | notifications after each write; feed cache invalidation; the status trigger | one award per job, agreeing in both tables and never replaced; the lifecycle only moves forward; notices of a job stay true |
| Refresh tokens (`jwt.service.ts`, `auth.service.ts`, migration 008) | `auth_tokens`: family, parent, used, revoked, replaced, expiry | login, rotate, logout, revoke family, revoke all | the apps' retry on 401; password reset | one successor per token, revoked is final, reuse ends the family |
| Response cache (`cache.service.ts`) | Redis strings with TTL, one Redis set of keys per tag | read through, invalidate tags | profiles, directory, feeds, reviews, verifications, admin | a finished write that refreshes a page is seen by later reads; a stale entry never outlives its TTL |
| Notification queue (`notifications.queue.ts`, `worker/`, `notification.service.ts`) | dedupe keys, BullMQ jobs, dead-letter queue, `notifications` rows | enqueue, attempt, retry, stall, dead-letter | all services; push and e-mail providers | no concurrent double send, nothing completed unsent, bounded attempts, every job settles |
| Accounts and one-time codes (`auth.service.ts`, `user.repo.ts`) | `users`, codes in Redis, `email_verify` and `password_reset` rows, sessions | register, verify e-mail, send and verify a phone code, login, forgot and reset password, change of status | tokens, rate limits | a verified phone was proved; the last code works; old sessions end |
| Rate limits (`rateLimit.middleware.ts`, `redis.ts`) | a counter per window in Redis and in PostgreSQL | increment, compare, expire | auth, job, quote and messaging routes | at most N per window, and every window ends |
| Conversations (`messaging.service.ts`, `messaging.repo.ts`, migration 004, `app.ts`, `socket.events.ts`, chat screens) | conversations, messages, unread counters; rooms; what a screen shows | open, send, delete, mark read, list, join, leave | jobs, sockets, notices | a screen catches up with its events; what it showed counts as read |
| Moderation (verifications, disputes, reviews) | rows with a status, flags and rating on the profile | submit, decide, raise, move along, review, respond, hide | jobs, profiles, cache | verified is earned; one pending or active case; the rating counts the visible reviews |
| Keyset listings (`*.repo.ts`) | none (cursors) | list | notifications, feeds, admin lists | pages neither repeat nor skip rows |
| Forms (register, post a job, quote, profile) | fields, phase, cached answers | type, submit, answer or lost answer | schemas, services, columns | what a form lets through is stored, once |
| Screens on a job (`jobs/[id]`) | react-query cache, buttons | open, read, press, answer | job handlers | a screen offers what is accepted and shows its own actions |
| Client session (`api/client.ts`, `authStore`, `login.tsx`) | access and refresh token, user, queue of calls, one refresh | call, refresh, login, logout, start | refresh tokens | one rotation per expiry, nobody waits for nothing, tokens and user agree |
| Seeds (`db/seeds`) | the rows they own | run again | every table | a second run harms nothing |
| Connection pool, uploads, audit log, readiness | a library's state, or rows nobody reads | - | - | - |

The behaviours that are hard to test, each with its place in the source and the
properties that cover it, are the `hazards` of `PROJECT.json`.

## How requests interleave

The backend is one or more Node processes plus a worker.  A handler runs without
interruption only between two `await`s, and practically every `await` is a SQL
statement or a Redis command.  These facts shape the models:

* **Check, then write.**  A handler reads a row in autocommit, checks it, and
  later writes `UPDATE ... WHERE id = $1` without repeating the check.  Between
  the two, other handlers run.  A request is therefore a process with a snapshot:
  a record (`req[r]` or `call[r]`) with the next statement, its arguments and
  what it read.
* **Transactions are few.**  `awardJob`, `rotateRefreshToken`, `register`,
  `verifyEmail` and `resetPassword` use `withTransaction` at READ COMMITTED.  Row locks make other writers of those
  rows wait, each statement sees what was committed when it began, and nothing
  written is visible until COMMIT.  Two things escape: rotation inserts the child
  token *through another connection*, so it is durable whatever becomes of the
  transaction; and a row inserted after a statement's snapshot is not seen by it.
  The rating trigger's sub-selects keep the snapshot their UPDATE began with even
  after it has waited for the row.
* **Failure.**  A handler may die between two statements: committed statements
  stay, an open transaction rolls back, notices and answers are lost.
* **The apps** know the server by answers that come late, in any order or never,
  and keep them: react-query answers with what it has, and asks again in the
  background.  An `await` of SecureStore or of `Promise.all` lets everything else
  happen in between.

## Modules

`PROJECT.json` maps each definition to its source lines.  Each component has a
module with `TypeOK`, `Init`, one action per statement or step, `Next` and the
properties; `MC*` modules give them values and compose them; `*Findings` modules
hold what the repository says and the code does not do; `*Proofs` modules hold
the theorems.

### Jobs and quotes: `JobContract`, `JobLifecycle`, `JobFindings`, `JobLifecycleProofs`

`JobContract` is what the marketplace promises of a job: private, open, engaged
with exactly one quote, done or void, closed.  `JobLifecycle` has the handlers,
statement by statement: `jobStatus`, `expirySet`, `awardedQuote` and
`quoteStatus` are the columns; `edits` counts `patchJob`'s rewrites of the terms,
`told` collects the notices to providers that the constant `Kept` names: the kinds a run
has properties of.  They are of a job (`JobNotices`: awarded, completed, cancelled) or of
a quote (`QuoteNotices`: viewed, shortlisted, rejected).  A request starts with one of
`PublishJob` ... `WithdrawQuote`, which stand for `requireJob` and the check of
its result (a failing check changes nothing and is the action's guard), and goes
on with the statements `ReadQuote`, `InsertQuote`, `WriteJob` (accepted or
refused by trigger and CHECK, `RowAccepted`), `PatchRow`, `WriteQuote`,
`CountActive`, the award transaction `LockJob`, `AwardQuote`, `RejectOthers`,
`Commit`, and `Notify`; `Fail` ends a handler anywhere.

The award's writes become visible together in `Commit`; until then `JobLocked`
and `QuoteLocked` make other writers of those rows wait.  `RejectOthers` fixes
the set of losing quotes its UPDATE sees.  Ownership checks compare immutable
ids and are not modelled: the caller is the owner.  Status `disputed` is
reached by no handler but is part of the trigger's table.
`Contract == INSTANCE JobContract WITH phase <- Phase, winner <- awardedQuote`
is the refinement mapping.

### Refresh tokens: `SessionContract`, `RefreshTokens`, `RefreshFindings`, `RefreshTokenProofs`

`SessionContract` is the promise: a login opens a session with one usable token,
a refresh replaces it, sessions end, nothing spent or ended comes back.
`RefreshTokens` has the columns of `auth_tokens` as functions, `held` for the
tokens a client received, and requests as above: `RotateRefreshToken` is the
SELECT with its three checks, `MarkUsed` the conditional UPDATE that takes the
row lock, `SignRefreshToken` the INSERT on its own connection, `Commit` the link
and COMMIT, `Answer` the response; `Snapshot` and `Revoke` are a revoking UPDATE,
split because it sees rows first and waits for locks afterwards.  `Expire` lets
time pass; parents expire before children since all live equally long.  A token
counts as *usable* when it was delivered to a client and is not marked used.

### Response cache: `CacheContract`, `TagCache`, `MCTagCache`, `CacheFindings`, `TagCacheProofs`

One action per Redis command (`Miss`, `Load`, `Set`, `AddKeyTags`, `Write`,
`Members`, `DelKeys`, `DelTag`) and `Tick` for time.  A loaded value is
abstracted to the number of writes it has seen.  A behaviour chooses at the start
whether its requests run one after another (`alone`) or race and fail.
`MCTagCache` has the real keys, tags and invalidations of the profile pages with
their directory, and of the feeds.  Not every write reaches what it changes: a
customer's rename changes the reviewers' names in the directory and invalidates
nothing, nor does `cancelJob`.  `Refreshes` is what a write changes and also reaches by
a tag; two assumptions of `MCTagCache`, which TLC evaluates, say which writes refresh
all they change (the providers' and `awardJob`) and which nothing.

`CacheContract` is what the pages count on: an atomic register for what is refreshed.
While requests follow one another, what is served is the row, or during a write the
row before it; served new, it is never served old again; and when the write is over,
the new row is what is served of the keys it refreshes, also where an earlier write had
left an old one.  What a write changes and does not refresh may lag behind.  When
requests overlap, what is served may be any version there has been, but no version that
was not written.  `Register` maps it: the contract's `due` are the keys the write at
one of the statements of `Writing` refreshes (`Due`), and what is served is `Served`:
the entry if it is live, else the row.

### Notification queue: `DeliveryContract`, `NotificationQueue`, `NotifyFindings`, `NotificationProofs`

`enqueueNotification` (`EnqueueNotification`, `Add`, `AddFails`,
`DedupeExpires`), the worker's attempt (`Take`, `InsertRow`, `Send`, `MarkSent`,
`MarkFailed`, `Complete`, `FailAttempt`), `MoveToDeadLetter` and
`DeadLetterFails`, and BullMQ as these files use it (`Retry`, `LoseLock`,
`Stall`, `Evict`, `Crash`), which is external.  A message stands for a payload:
equal payloads share dedupe key and job id.  A slot that lost its lock works on,
and what it reports in the end is ignored (`Report`, `Holds`).  `rows` counts the
rows inserted, marked sent and marked failed.  What may go wrong is the set
`faults`, chosen at the start of a behaviour from `FaultSets`: `"throw"`
(database and providers), `"refuse"` (adds to either queue), `"loseLock"`,
`"crash"`.

`DeliveryContract` is the service seen from outside: a job accepted grants
attempts, each attempt under way may be recorded as sent once or come to nothing, a
job is settled once, completed only when something was recorded, and accepted anew
only after it was forgotten; where attempts are exclusive none overlaps another.
`Delivery` maps it: the credit of a payload is what `Left` says of its job and the
slots about to insert a row, its attempts under way are the slots between the row
and its mark (`Unmarked`), and attempts are exclusive unless locks may be lost.

### Accounts: `Registration`, `Passwords`, `Limits`, composed in `MCAccounts`; `AccountFindings`, `AccountProofs`

`Registration` follows one e-mail address: `register` (one transaction, and
auto-verification in development), the verification link, and the phone code,
whose GET (`VerifyPhoneOTP`), DEL (`ForgetCode`) and UPDATE (`UpdateUser`) are
steps of their own.  `newest` remembers the code a user may count on, `proved`
the phones whose code was presented.  `Passwords` has login (check, then
`SignRefreshToken`), `forgotPassword` (`RevokeLinks`, then `InsertLink`),
`resetPassword` (check, bcrypt, `WritePassword` in a transaction, `EndSessions`
after it) and `updateUserStatus` with its four statuses: a suspension and a ban end
sessions, a deletion does not, and login refuses who is suspended or deleted, but not
who is banned; a session notes whether its login had found a ban. Its histories count
the requests that overlapped (`crowd`, a link's `readers`, a session's `missed`), so
that the properties say exactly what a race may cost. `Limits` has `ipRateLimit` (INCR
with TTL, then EXPIRE by the first request; a connection that drops, before the INCR or
before its answer, comes back or is given up) and `dbRateLimit` with its ON CONFLICT, of
which PostgreSQL cannot infer the partial index.

### Conversations: `Conversations`, `MCConversations`, `ConversationFindings`, `ConversationProofs`

One conversation and the two sides' chat screens.  On the server:
`OpenConversation` (find) and `CreateConversation` (insert, UNIQUE),
`CreateMessage` with the trigger's counter, `Emit` to the conversation's and the
users' rooms, `DeleteMessage`, `MarkAsRead`, `ListMessages`.  Between them
sockets that connect, join (a query runs before the socket is in the room), leave
and drop.  A page, and what a screen shows, is the set of its messages; the order they
are listed in is left out.  On the screen: opening, `CacheExpires`, answers received in order or
not (`inOrder`), own messages, marks on opening and after an event.  `heard` is
the history of the properties: up to which message the screen was told, and what
was deleted then.

### Moderation: `Verifications`, `Disputes`, `Reviews`, `Seeds`, composed in `MCModeration`; `ModerationFindings`, `ModerationProofs`

`Verifications` has submission (check, insert, read profile, upgrade to pending)
and decision (update row, read profile, set flags, or the look for remaining rows
and set rejected).  `Disputes` has the raise (check, insert) and the admin's
transition checked against a status read before.  `Reviews` splits a write into
its row, its trigger, the trigger's UPDATE after a wait, and COMMIT; `counted` is
the set of reviews the rating was computed from.  `Seeds` runs the five seeds
again, in one transaction, beside an application that has changed their rows: what
is set back, what the trigger refuses, who else owns an address.

### Listings: `Listings`, composed in `MCConversations`; `ConversationFindings`, `ConversationProofs`

Fifteen listings as one walk: matching rows, order, cursor condition and next cursor,
each from its query; the feed counts four times, by time, by either budget and by
distance, the last three (`Sorted`) with a key that their cursor does not hold. A page
is the set of its rows: the first in the listing's order (`IsPage`), and its cursor the
last of them. Two units of time make a millisecond, since cursors hold milliseconds and
columns microseconds. `steady` are the rows that matched all along, `walk.ends` the last
rows of pages.

### Apps: `PostJob`, `QuoteForm`, `RegisterForm`, `JobScreens`, `ProfileEditor`, `ClientSession`, composed in `MCClients`; `ScreenFindings`, `ClientProofs`

* `PostJob`: the mobile wizard with its five steps and per-step checks, and the
  web's one form, of which the browser checks what the draft button submits and not
  what "Publish Now" does; `CreateJobSchema` with minima, maxima and the day to start;
  `createJob`; answers lost, and a day that turns before the server looks.
* `QuoteForm`: both forms, `SubmitQuoteSchema`, the INTEGER columns and CHECKs, and
  the mobile app's texts that are no number.
* `RegisterForm`: both screens, `RegisterSchema` and what `register` answers.
  In all three, `Forbid` is the route, which may refuse before the schema is asked.
* `JobScreens`: what a screen has cached (with the commit it was read after),
  GETs dropped and sent anew by an action (but a query's first, which has no data to
  fall back on), buttons by the cached status, the server's conditions with the verified
  e-mail that quoting asks for, and everybody else (`Elsewhere`).
* `ProfileEditor`: what the fields show and are compared with, the PATCHes of one
  save, answers in any order, the copy kept for five minutes, and another user of
  the same app.  After a login the mobile session knows the full name alone
  (`SessionUser`).  A GET is read when it arrives, and whoever leaves the form waits
  for its PATCHes.
* `ClientSession`: calls and their 401, the mobile queue and the web's shared
  promise, one refresh, storing tokens (SecureStore), login and logout, start and
  kill.  The server's rotation is one step; `RefreshTokens` opens it up.

### Composition

Components that share rows are one module.  Components that share none would
multiply their state spaces for nothing, so `MCAccounts`, `MCConversations`,
`MCModeration`, `MCClients` and `MCLive` let a behaviour be `about` one of them, the others
standing still; a violation in any is a violation of the run.  Each but the last
EXTENDS the module whose properties are also proved and INSTANCEs the
others.  Assumptions of instanced modules are definitions, assumed by the MC
module, where TLC evaluates them.

## Runs

| Run | Instance | What it shows |
|---|---|---|
| `job_race` | 1 job, 2 providers, 2 requests, failures, 1 edit; symmetry of providers and requests | safety of the award, the notices of a job and of rejections (`Kept`), and the refinement of `JobContract` |
| `token_race` | 4 tokens, 2 families, 2 requests, failures; symmetry | single use, revocation, the refinement of `SessionContract` |
| `live` | jobs: 1 job, 1 provider, 1 edit, no notices kept; tokens: 2 tokens, 1 family; 2 requests, failures | every request ends |
| `cache` | 1 provider's page and the directory page; writes of 2 providers and a customer's rename, 2 per key; 2 requests, TTL 2; alone or racing and failing | what a write reaches by its tags is fresh after it; stale entries die; the refinement of `CacheContract` |
| `notify` | 1 payload queued up to twice, 2 callers, 2 slots, 3 attempts, 1 stall; three sets of faults | honest and bounded attempts, one sender, every job settles, failed jobs are dead-lettered; the refinement of `DeliveryContract` |
| `conversations` | conversation: 2 messages, page size 2, 1 deletion, 2 openings of one screen, 2 openers; web in order, mobile in order and not; listings: 15 of them, 3 rows at any of 4 half-millisecond times, page size 1 or 2, 1 insert or change, begun twice | screens catch up, and what they showed is read; no row repeated, and skips only within a millisecond |
| `moderation` | verifications: 2 types, 3 rows, 2 requests; disputes: 3 requests, 2 rows, 1 reopened; reviews: 2 jobs, 3 requests; seeds: every environment and order; failures; symmetry | verification is earned; pending, active and rating only off by races |
| `accounts` | registration: 2 phones, 2 codes, 1 link; passwords: 2 links, 1 session, 2 resets, 4 statuses; limits: limit 2, window 2, counts to 4; 2 requests, failures; symmetry | what outlives a reset, a suspension or a ban, and what a verified phone means |
| `clients` | texts, days to start, amounts and terms on both sides of each border, numbers that are none, 2 answers lost; 2 providers, 4 commits; 2 sessions of 3 tokens, 2 calls; 1 user, 1 edit, 2 logins; symmetry | forms, screens and session |
| `other_profile`, `optional_blank` | as `clients`, two users, one topic each | divergences, see below |

**Why the bounds are enough to be interesting.**  Jobs share no rows, so one job
shows every race on it.  Two providers give a winner and a loser; two requests
give every overlap of two handlers, and failures turn over slots so that any
number of handlers follow each other in a behaviour.  Three tokens let two
rotations of one token race, the fourth and the second family let a revocation
hit the wrong session.  Two adds of a payload reach the case where the dedupe key
has expired while the first job is waiting, running or done, and where a slot that
lost its lock reports on an evicted job's successor.  TTL 2 lets an entry age
without expiring.  A page of two messages can lose one to a deletion; two openings
let the marks, answers and leaves of the first meet the second.  Three requests
let two raises overlap with a third that has finished, and two reviews with a
recount that repairs them.  Three rows, with pages of one or two, make a page end
inside a millisecond and go on after it; the one write may hit before, at or after
the cursor.  Two codes and two phones make a late DEL remove the other's code.
Windows of two ticks let a counter be inherited, and a count of four passes the
limit twice.  Sessions do not meet each other, so one shows all that becomes of it.
Four commits let a GET be overtaken by others' changes and one's own
action.  Three tokens of a session are two refreshes, so a queue can be forgotten
by one and answered by the next.  The proofs remove the bounds where they exist.
`MaxEdits`, `MaxWrites`, `MaxAdds`, `MaxCount` and the like only keep counters
finite.

**What is assumed of the environment.** A fresh register is claimed of requests that
follow one another and do not fail: a reader that overlaps a write may store what it
loaded before. It is claimed of the keys a write refreshes, and of no other. `OneSender`
is claimed while locks are renewed: a worker too busy to renew a lock is overtaken by
another slot, which BullMQ documents and the worker does not guard against.
`FailedIsDeadLettered` is claimed when nothing but attempts fails: a crash between
BullMQ's failed mark and the `failed` event loses the event, a job failed for stalling
has attempts left so that `moveToDeadLetter` skips it, and a refused add is only logged.
`ScreenCatchesUp` is claimed of answers in order; out of order an older page replaces a
newer one. `OpenScreenIsRead` needs no order. `DuplicatesAreLost`, `DeadByAccident` and
`OldSessionsEnd` name the lost answers and broken-off requests that are to blame.

**Deadlock** is checked where a system never comes to rest (`job_race`,
`token_race`, `live`, `cache`).  Elsewhere a behaviour ends when its bound is used
up or its form is sent.

**The properties.**

* `AwardConsistent`: status past award if and only if a quote of that job is
  named, and it exists.  The two tables are written by different statements of
  different handlers; the trigger is what keeps stale writes from breaking it.
* `OneAwardedQuote`, `AwardIsFinal`: two tabs awarding two quotes, or an award
  racing a cancellation, leave one winner for good.
* `QuotingMeansQuoted`: the order of INSERT and UPDATE in `submitQuote`.
* `ReadAwardStillHolds`, `NoticesAreTrue`: handlers act on, and report, an award
  they read earlier; it is still the award, and a notice of an award, a completion or a
  cancellation is and stays true.  A notice of a quote is overtaken by the next UPDATE of
  its status, "not selected" by an award even (see Divergences); what stays of it is that
  the customer has dealt with the quote.
* `SingleUse`, `RevokedNeverRotates`: concurrent rotations, failed rotations that
  leave a child row, and revocations in between never give two working tokens or
  revive one.
* `ImplementsRegister`: when a write is over nothing it refreshes is stale (the contract's
  `End`, hence `QuietMeansFresh` of keys that all their writes refresh), whatever other
  writes had left, and while a write and its invalidation are under way the answers
  never go back.
* `StaleEntriesDie`: lost invalidations cost at most the TTL.
* `ImplementsDelivery`: late reports, stalls and evictions never settle a job twice,
  complete one unsent (the contract's `Settle`, hence `CompletedMeansSent`), begin an
  attempt nobody granted, or record one twice.
* `OneSender`, `AttemptsBounded`, `JobsSettle`, `FailedIsDeadLettered`.
* `ScreenCatchesUp`, `OpenScreenIsRead`: with two rooms, joins that are late,
  double events, deletions and overlapping GETs, a screen ends up with what the
  last event announced, and the counter at nothing it showed.
* `VerificationIsEarned`: a flag needs an approval of its type, and "verified" the
  identity flag, whatever decisions interleave.
* `PendingBounded`, `ActiveBounded`, `ResetLinksBounded`, `LinkUseBounded`: what is
  meant to be one is checked and inserted in two statements.  The bound counts the
  races: whoever does one thing at a time has one.
* `RatingIsRight`: the rating counts the visible reviews, unless a change
  overlapped another and none came after, or the provider seed ran alone.
* `NoneTwice`, `OnlySameMilliSkipped`: what is inserted, hidden or shown again between
  two pages makes no row appear twice, and loses none but the cursor's milli-neighbours;
  the feeds of `Sorted` aside.
* `PhoneIsProved`, `CodeWorksUntilUsed`, `LimitHolds`.
* `OldSessionsEnd`: a session of an old password, or of a login before the user was
  suspended or banned, is revoked, about to be, or was missed for a named reason.
* `OnlyKnownGaps`: forms, schemas and columns bound the same fields in different
  places; the gaps are listed in the property, and nothing else slips through: short
  addresses, amounts out of range, the web's long texts and days gone by, ranges upside
  down, notes of blanks or too long, terms out of range, mobile texts that are no number.
  Jobs are posted twice only if an answer was lost.
* `OwnActionShown`: a query at rest shows what the screen's own actions changed of it.
* `OnlyKnownRefusals`: an up-to-date screen offers only what the server accepts, but for
  a draft's cancellation, a withdrawn quote's buttons, a quote of one's own that the screen
  cannot read, and an e-mail that is not verified.
* `DeadByAccident`, `QueueIsServed`, `OneIdentity`, `SavedIsStored`.

Every property of a passing run comes with a mutant in `PROJECT.json`: a changed
definition, such as awards without a row lock (`NeverLocked`), no trigger
(`AnyRowAccepted`), or a limit that sets the count with its expiry
(`SetWithExpiry`), under which the property fails.  The mutated operators stand
beside the originals, marked "mutant", and are used by nothing else.

## Fairness

* Jobs and tokens: strong fairness of each request's `Proceed`.  Node runs a
  continuation whose promise has settled, and PostgreSQL queues the waiters of a
  row lock, so a statement that can run again and again is not passed over for
  ever.  Weak fairness would not do: a lock may be released and taken anew.
  Nothing is assumed of `Begin` or `Fail`.  `MCLive` asks it of the requests of
  the component the behaviour is about; the others have none.
* Cache: weak fairness of each request's next command and of time.
* Notifications: weak fairness of each worker slot, of BullMQ's backoff and stall
  timers and of the event handler.  Nothing about callers, expiry, eviction, lost
  locks or crashes: they may recur, but the stall counter of a job bounds how
  often it can be put back.

The other modules state no liveness: a screen that hears nothing, a client that
never asks again and a moderator who never decides are all behaviours of the code.

## Proofs

All are checked by TLAPS for arbitrary constants; the only assumptions are the
named ones of the modules (null values are not members of the sets they extend,
bounds are natural numbers) and those a theorem states.  Nothing is assumed finite
but the callers and slots of the notification queue, whose members `IInv` counts.

**Jobs** (`JobLifecycleProofs`).  `TypeCorrect` comes first and stands alone.  No
safety property is inductive by itself: that a notice is true depends on what the
request had read and on which statement it is at.  `IInv` therefore adds `Shape`
(which statement an operation can be at, and with which arguments), `RowsExist`
(rows acted upon exist) and `PendingNoticesAreTrue`.  The heart is
`ReadAwardStillHolds` with `AwardIsExclusive`: a handler holding an awarded quote
read it when the job named one, and no award can replace it since awards require
the job to be `quoting`, where `AwardConsistent` says none is named, and keep it
locked so that no other request moves it.  From `Invariance` follow
`AwardsAreConsistent`, `AwardIsSingle`, `QuotingIsQuoted`, `SnapshotsHold`,
`NoticesTrue`, and with one more step argument `AwardFinality`.
`ContractRefinement` shows that under `IInv` every statement is a step of
`JobContract` or leaves its variables unchanged; `RowAccepted` is what makes a
stale `WriteJob` one of the contract's moves.

**Tokens** (`RefreshTokenProofs`).  `IInv` adds to the properties `Shape`,
`DrawnIsFresh` (random ids drawn by a request are nobody else's and in no row
yet), `RowsWellFormed`, `ProgressHolds` (what a rotation read and inserted is
still so), `LocksExclude` and `SuccessorRecorded`: a *delivered* successor is the
one its parent names, the key to single use, since rolled-back rotations leave
children with the same parent that were never delivered.  `TokensAreSingleUse`,
`RevocationIsFinal` and `SessionRefinement` follow.

**Notifications** (`NotificationProofs`).  `IInv` is an accounting argument.
`AttemptsBudget` says that for each payload the rows inserted, the slots about to
insert one and the attempts its job may still be given (`Left`) never exceed the
jobs added times `MaxAttempts + MaxStalls`; taking a job moves one unit from
`Left` to a slot, inserting moves it to the rows, a report, a retry or a stall
creates none, and `Add` grants the units of one job, only when none is held under
the id.  `LocksWellFormed` ties locks, jobs and slots together: a lock belongs to
an active job and to the slot working on it, and unless locks may be lost every
busy slot holds one.  That gives `OneSender`, and it is why a late report changes
nothing.  `SentBeforeComplete` carries the recorded success from `MarkSent` to
`Complete`.  `QueueDeliversContract` shows that under `IInv` every step is one of
`DeliveryContract` or leaves its variables unchanged: taking a job keeps the credit,
inserting turns one unit of it into an attempt under way, a mark ends that attempt,
a settled job forfeits what it had left, and a crash lets attempts come to nothing.
Its exclusive attempts are `LocksWellFormed` again.

**Cache** (`TagCacheProofs`).  Nothing is assumed of what a write invalidates: what is
promised is promised of the keys it refreshes (`Refreshes`), which the real tags decide.
`FreshInv` says that the tag sets list every entry but the one being stored (`Listed`),
that a stale entry the write under way refreshes is covered by a tag it has still to
invalidate (`Promised`), and that what a request has read is still so (`Remembered`).
That last part is what fails when requests overlap.  `QuietIsNeverStale` follows for
the keys that all their writes refresh (`Kept`).
`CacheIsRegister` needs no more of behaviours in which requests follow one another
than `FreshInv` and that a single request is under way; of those in which they race,
only that no value is newer than the row (`NotAhead`).  A write changes what is
served key by key, as tags are deleted (`CatchUp`), and its end finds nothing of `Due`
left to change because each such entry was promised.

**Apps** (`ClientProofs`, of `ClientsSpec`, whose parts leave each other alone).
*Session*: `Shape` ties the calls, the queue, the refresh under way and the tokens
together.  `QueueServed` is inductive beside it; `IdentityIsOne` needs whose tokens a
login or a refresh under way will store, and `ReuseIsAccident` that the newest token
of a session is in memory, on the device, in the refresh under way, or lost.
*Screens*: `WillShow` says of what is on its way what the property says of the cache,
which is what dropping the GETs under way gives.  A query's first GET is not dropped, which
does no harm since an action that changes a query is pressed on what was read of it
(`HasRead`, `ButtonsShowWhatTheyChange`).  `OnlyKnownRefusals` needs
`CopiesAreTrue` (what was read after the last commit is the rows) and `RowsAgree`: the
screen decides by the status of the quote alone, the server by the job's too.
*Forms*: `StepsWereRight` says that a wizard past a step has checked it, and
`SentWasRight` what each app has checked when it sends; the rest is arithmetic between
the app's bounds, the schema's and the columns', for any amounts.
*Profile*: `NothingIsForgotten` says that until an error shows each submitted field has
arrived or is in a PATCH on its way, and `SendsSubmitted` that those PATCHes are of the
last save and of who is signed in.

**Accounts** (`AccountProofs`, of `AccountsSpec`, which composes the three modules).
*Registration*: `PhoneInv` adds that a stored code was sent to the phone of its key,
that a verification under way carries a proved phone, and `NothingPromised`: of a
phone whose key is about to be deleted no code is promised.
*Sessions*: `SessionInv` adds `LoginsKnown`: a login that will sign with an outdated
password, or for a user suspended or banned since, is already counted as missed, or the
revocation that follows has yet to take its snapshot (`Ending`), and will find the
session then.
*Links*: `LinkInv` is an accounting argument.  A request holds one unit of `crowd`
from `RevokeLinks` to `InsertLink`, and one of a link's `readers` from the check to
the UPDATE; revoking takes the live links away, so live links and INSERTs to come
never exceed the crowd.  It needs the finite cardinality of sets of requests, which
holds because a request at a time joins them, not because there are few.
*Limits*: `PassedAreCounted` and `FirstIsAlone` (only the request that made the
counter 1 is between INCR and EXPIRE) give `LimitHolds`.

**Moderation** (`ModerationProofs`, of `ModerationSpec`).
*Verifications*: `EarnedInv` adds that the rows handlers work on exist and
`GateWasOpen`: a handler about to write "verified" works on the identity document,
or read the identity flag, which nothing takes away.  `PendingInv` counts the
pending rows of a type with the INSERTs to come.
*Disputes*: `ActiveInv` counts the raises against the crowd alone, and rows and
raises against the crowd and the rows reopened: a raise that finds nobody active
starts a crowd anew, but the reopened remain.
*Reviews*: `RatingInv` says of every transaction whose trigger has computed the
rating, but not committed, that it counted the visible reviews and its own
(`CountIsRight`), and of two transactions that each is marked as beside the other
(`AloneOrBeside`); the exception of the property is then inductive.
*Seeds*: `SeedInv` says how far the run is: the provider seed has not begun, has
written, or the review seed has counted, and nothing else touches a rating.

**Conversations and listings** (`ConversationProofs`, of `PagesSpec`).
*Conversations*: `WillCatchUp` says of every open screen that
heard an event: a GET of an event is still to be answered, or from some answer on
(or from what is shown) everything that will replace the page is *caught up*
(`CaughtUp`), since it was read after the event.  `PageKeeps` is why reading later is
enough: no message leaves the oldest page but by being deleted.  `WillBeRead` says:
a GET, an answer or a mark of an event is under way, or at most the messages after
the last event are counted.  `OwnMessages` ties the sender's own answer, which joins
what is shown, to a message of the sender.
*Listings*: `CursorIsLast` says that every row shown stands before the cursor in the
listing's order; `CursorMovesOn` then shows that the cursor's condition admits only rows
after all of them, though it compares a truncated time.  `SteadyStays` says that a row
that matched all along was shown, is admitted by the cursor, or was skipped at some
page's end; `CursorSkips` shows that an end can only lose rows of its millisecond, and
none where times are whole milliseconds or ids are compared.  `WalkIsKept` is why
writes between pages do no harm: they move no row in the order.

**Model-checked only.**  Liveness (`JobRequestsFinish`, `TokenRequestsFinish`,
`StaleEntriesDie`, `JobsSettle`, `FailedIsDeadLettered`) is beyond the prover.  Every
other property of the passing runs is a theorem.

## Divergences

What a doc, a comment, a message or an assertion of the repository says and the
code does not do.  Two have runs; the others are stated in the `*Findings` modules
and are refuted by TLC when put in the place of a run's properties, as each module
says.

*Runs.*

* `other_profile` (`ProfileIsOwn`): the mobile app caches `myProfile` under one
  key for all users and keeps it over a logout.  The form of whoever logs in within
  five minutes starts with the other user's profile, and Save stores it.
* `optional_blank` (`OptionalMayBeBlank`): the mobile registration sends blank
  optional fields, which the schema refuses; a customer is not even shown the
  field of the business name.

*Jobs and tokens.*  `RevertTakesEffect`: `withdrawQuote` reverts a job without active
quotes to `posted`, which the trigger refuses; the request fails after the quote was
withdrawn and the job stays `quoting`.  `AwardedNotWithdrawn`: a withdrawal that
checked the quote before it was awarded overwrites `awarded`.  `CancelTakesEffect`:
a draft has no `expires_at` and cannot be cancelled, by the CHECK, though both apps
offer to.  `ForceTakesEffect`: forcing `closed` is never accepted.
`NotSelectedIsFinal`: an award that checked a quote before it was rejected sets it to
awarded, and its provider has been told "Your quote was not selected".
`LosersRejected`, `AwardsLiveQuote`, `CancelledWinnerTold`, `EditedOnlyWhileOpen`.
`ReuseRevokesFamily`: a child inserted by a rotation in progress is not in the
snapshot of the family revocation and survives it.  `ResetEndsSessions`: a login or
rotation in progress outlives a password reset.

*Cache and queue.*  `WritesInvalidate`: a customer's rename invalidates nothing, though
cached directory pages name reviewers; nor does `cancelJob`, though feeds list its job.
`EntriesAreTagged`: a tag added between SMEMBERS and DEL is lost.
`AcceptedIsQueued`: BullMQ keeps completed jobs by count, so an equal notification
is ignored although its dedupe key expired.  `SkippedOnlyIfQueued`: a failed add
leaves the dedupe key.

*Conversations.*  `HistoryIsLoaded`: the web page fills its list in `onSuccess`,
which TanStack Query 5 does not call; it stays empty until an event.
`ClosedMeansLeft`: a leave that overtakes the query of its join has no effect.
`UncountedIsSeen`: opening marks everything read, also what no page has shown.

*Moderation and listings.*  `RejectedHasNoneActive`: the look for further
verifications sees only the newest row.  `RatingIsFresh`: overlapping reviews.
`FeedNeverRepeats`, `FeedSkipsNone`: the cursor of the orders by budget and by distance
does not follow them.

*Accounts and limits.* `BannedStayOut`: login does not refuse a banned user, who is back
as soon as the ban has ended the sessions. `DeletedStayOut`: a deletion ends no
sessions. `FailsOpen`: without Redis `count` is undefined and the request is refused.
`DbLimitHolds`: ON CONFLICT cannot use the partial index, the statement always fails and
every request passes. `WindowsEnd`: a failed EXPIRE leaves a counter for ever.

*Apps.*  `PublishedMeansPosted`: `createJob` stores a draft whatever `publish` says.
`AcceptIsOffered`: the awarded provider's screen reads the quotes from a route for
owners, and so never offers to accept.  `QueuedAreAnswered`, `CallsKeepUser`: after
a failed refresh the mobile queue waits for the next one that succeeds, perhaps
another user's.  `SignedInHasTabs`: a restarted mobile app has a token and no user.
`WebRefreshWorks`: the cookie's path is the API's, where the page cannot read the
CSRF token it must repeat.  `NothingInvented`: a failed load and a save store
the form's defaults.  `NothingLeftOut`: emptied fields are dropped, and said to be saved.
`NothingIsNotSent`: the mobile session has no display name after a login, so each save
that leaves it blank sends a PATCH without fields, which is refused.
The web's job form lets through texts over their maximum and, by "Publish Now", a day gone
by; both apps let through notes of over 3000 letters, and offer a quote to a provider whose
e-mail is not verified, to be refused with a message about posting jobs: cases that
`OnlyKnownGaps` and `OnlyKnownRefusals` name.

*Read in the source, of no module's making.*  `jobs.expires_at` is enforced by no
job; `quote_count` is not maintained; `listMessages` returns the oldest page;
deleting a message leaves it counted as unread; the verification e-mail is only
logged (`notification.service.ts:166-168`); `requireActive` reads Redis keys nothing
writes, and `token:invalidate:` keys are written and never read, so the comments at
`user.repo.ts:255` and in the RBAC middleware are not true; migration 005 widens
ratings to 1..10; no screen calls `publishJob`, though the wizard says "You can
publish it from the Jobs screen."; `/quotes/my-quotes` and `/quotes/:id`, which the
apps call, have no route; the mobile logout never tells the server; a wrong password
on the web goes through a refresh and a redirect; react-query's cache is not cleared
on logout; a seed run again lifts a suspension and resets a password.

## Not modelled

* Data: addresses, texts, ranks, device and address metadata, audit rows and logs.
  Amounts, days and texts appear only as far as a check tells them apart.
* The connection pool: how many connections there are and who waits for one is up
  to `pg` and the deployment.  `withTransaction` is part of the modules using it;
  that rotation and award take a second connection while holding one is listed as a
  hazard without a property.
* `requireAuth` and `requireActive`: they read a signed token and keys nobody
  writes.  Access tokens end by time only.
* Support conversations, PII violations, voice messages and the admins in a
  conversation; reports, which nothing inserts; presence and job events of the
  sockets, and shutdown.
* Several notifications per event, opt-outs and the choice of channel; marking
  notices read beyond its effect on the listing.
* Why a route refuses (`Forbid`), and the limits of posting and quoting on the screens: they
  are `dbRateLimit`, which lets everything pass (`DbLimitHolds`).
* In `RegisterForm`, a failure after the account is committed is an answer lost.
* Public search, ranking and the radius of the feed (its order by distance is a key);
  landing pages, lists and the admin's pages, which render what the API returns.
* The expiry of a tag set (a day, against minutes for its entries), Redis eviction
  under memory pressure, wake-up order within a lock queue, PostgreSQL's deadlock
  detector (the waits never form a cycle).
* In `Seeds`: several rows of a kind, changes of the application that overlap the
  seed's transaction, dry runs and unknown names.  In `ProfileEditor`: more than one
  edit and two logins; in the passing run, a second user, who is `other_profile`'s.
* Uploads and S3, audit log, observability and readiness: pure I/O, or records
  nothing reads back.

## Plan

Every safety property and every refinement of the passing runs is a theorem.  Next
are abstract specifications for components that have only invariants: of `Passwords`,
that an account's password, status and sessions change as one that ends the sessions
in the same step, up to the logins that overlapped (`missed`); and of
`Conversations`, that a screen is a copy that lags behind and is brought up to date.

## Running

    tlc -workers 2 -config JobRace.cfg MCJobLifecycle
    tlapm JobLifecycleProofs.tla

The module of each run is in `PROJECT.json`.
