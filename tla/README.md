# saas-starter: a TLA+ verification project

TLA+ modules, TLC configurations and TLAPS proofs about the Go backend of saas-starter (`src/api`, `src/internal`,
`src/pkg`, `src/db`). Each module is translated from the source named at its head; `PROJECT.json` gives, for every
definition that models code, the lines it stands for, and lists the runs, the hazards and the theorems.

Contents: [the system](#1-the-system) · [modules and code](#2-modules-and-the-code) · [runs](#3-what-is-model-checked) ·
[bounds](#4-bounds) · [fairness](#5-fairness) · [proofs](#6-what-is-proved) · [findings](#7-findings) ·
[not modelled](#8-what-is-not-modelled) · [plan](#9-plan)

To run it, in this directory: `tlc -workers 2 -config TwoFactor.cfg MCTwoFactor` checks one run (section 3 names module
and configuration of each); `tlapm TwoFactorProofs.tla` checks one module of proofs.

## 1. The system

A multi-tenant HTTP server (gorilla/mux, pgx, Redis) with a React front end. A request passes the global middleware
(timeout, headers, sanitizing, body limit), for `/api/v1` the JWT middleware with its cache of users, then a handler,
which calls a use case and a repository. Handlers of one user run concurrently; there are no locks above the database,
and **most handlers run several statements, each in a transaction of its own**. That, and errors that are only logged,
is where the hard behaviour of this system lies.

| Component | State it keeps | Operations | Interacts with |
|---|---|---|---|
| Circuit breaker (`pkg/resilience/circuit_breaker.go`) | state, four counters, expiry, under one RWMutex | `Execute` (before, `fn`, after), `GetState`, `Reset` | every Redis command, health handlers |
| Audit outbox (`internal/platform/audit`) | rows of `audit.outbox`, `audit.events`, `audit.dead_letter`; a worker's batch | `Record`, poll, `processEntry`, `handleFailure`, `moveToDeadLetter` | business transactions, PostgreSQL |
| Sessions (`auth_handler.go`, `refresh_token_repository.go`, `blacklist.go`) | `refresh_tokens`, blacklists in Redis | login, refresh with rotation and reuse detection, logout, change of password, session endpoints | JWT middleware, Redis |
| Authorization and its cache (`middleware/jwt.go`, `pkg/cache`) | `auth:user:<id>:<org>` keys, rows of users, roles, `role_permissions` | lookup, fill, administrators' writes and the deletions they make | Redis through a breaker, timeout middleware |
| Two-factor authentication (`two_factor_handler.go`, `totp.go`) | method, secret and flag of a user, one-time codes, backup codes | setup, verify, disable, send, regenerate, second step of a login | login, e-mail |
| Login and lockout (`auth_handler.go`, `user/repository.go`) | `failed_login_attempts`, `locked_at` | look up, compare, count, lock, reset; administrators lock and unlock | request timeout, sessions, two-factor |
| Password reset (`password_reset_handler.go`, `reset_token.go`) | `password_reset_tokens` | create (a transaction), validate, change the password, mark | request timeout, e-mail |
| Request timeout (`middleware/timeout.go`) | a response writer, its mutex, two goroutines per request | run, time out, answer, recover | every handler |
| Rate limiting (`rate_limit.go`) | a counter in Redis with a time to live | exists, set, get, incr, expire, clear | Redis, login, logout |
| Retry (`resilience/retry.go`), resilient queries | a loop with a backoff | attempt, wait, give up | breaker, deadline |
| Application log, alerting | two buffers, two batches; a cooldown map | append, flush; raise, suppress | PostgreSQL, channels |
| Everything else | rows | create, read, update, search, export | PostgreSQL |

What is hard, by kind, and what would make each component right:

- **Concurrency inside the process.** The breaker is written to under a *read* lock, and results of calls that began in
  one period arrive in another. Right: thresholds are acted upon, the half-open budget holds, an open period holds, and
  open and half-open end.
- **Copies.** The outbox worker acts on a batch it read up to 500 transactions ago; the middleware admits with an entry
  up to fifteen minutes old, or filled from rows changed since. Right: nothing is lost or given up early however old a
  copy is; what is admitted was true at most a stated time ago.
- **Check in one statement, act in another.** Refresh, two-factor setup, one-time codes, backup codes, the lock of a
  login, reset tokens, the limiter's commands. Right: a code lets one request in, rotation chains go forward, a session
  stays in its login, nobody is asked for a factor they do not have; and where the code lets requests that overlap
  through, their number is bounded.
- **Two goroutines per request.** The handler goes on after the middleware has answered for it. Right: a client is
  answered once, and every request ends.
- **Partial failure.** A commit that is not acknowledged, a key that is not deleted, a token that is not stored. Right:
  the invariants hold after every such failure, and the damage has a bound.
- **Restart.** Only the outbox has work that outlives a process. Right: it is picked up.

The hazards are listed one by one, each at its line with the properties that watch it, under `hazards` in
`PROJECT.json`.

## 2. Modules and the code

| Module | What it is |
|---|---|
| `BreakerCore` | the record of a breaker and its methods as operators from record to record |
| `CircuitBreaker` | callers, readers and operators that share one breaker |
| `AbstractBreaker` | what a breaker promises, without counters, clock or locks |
| `CircuitBreakerProofs` | facts about the operators, and the theorems |
| `OutboxWorker`, `AuditDelivery`, `OutboxProofs` | the outbox and its workers; what it promises; the theorems |
| `RefreshTokens`, `Sessions`, `RefreshTokensProofs` | the sessions of a user; what rotation promises; the theorems |
| `AuthCache`, `AuthCacheProofs` | the middleware's cache and the administrators; the theorems |
| `TwoFactor`, `TwoFactorProofs` | the second factor of one user; the theorems |
| `RequestTimeout` | the timeout middleware and the two goroutines of each request |
| `Login`, `LoginProofs` | logins to one account, inside `RequestTimeout`; the theorems of both |
| `PasswordReset`, `PasswordResetProofs` | reset tokens of one user, inside `RequestTimeout`; the theorems |
| `RateLimiter`, `RateLimiterProofs` | the requests of one client and its key in Redis; the theorems |
| `MC*` | the symmetry sets of the instances |

`CircuitBreaker` is built on `BreakerCore`; `Login` and `PasswordReset` extend `RequestTimeout`, so that their handlers
can be overtaken by their deadline, go on after it, or panic, between any two statements. The other components meet only in the database and in Redis, and each
module has the statements of its neighbours that it can observe: `AuthCache` has the lockout's write of
`account_locked`, `TwoFactor` the codes a login sends, `RefreshTokens` the refusal of a locked user, and in all three a
Redis that may fail, which is what its breaker looks like from outside.

### Circuit breaker

`cb` is the struct. Time is *time left until expiry*: a tick takes one off, 0 is `expiry.Before(now)`, -1 the zero time.
`Execute` is `Admit` or `Reject` (`beforeRequest`, under the lock), `CallFn` or `CtxDone` (the look at `ctx`, without
it) and `AfterRequest`. `GetState` is two steps, because it holds the read lock while it writes: `ReadDue` finds that a
transition is due, `ReadWrite` makes it, and between them other readers run but no writer does (`WriteLock`). Counters
have a width (`CounterSize`; 2^32 in the code) and wrap. The totals and the state-change callback are left out: no
branch reads them.

### Audit outbox

`row`, `retry`, `events` and `dead` are the tables; `batch` is what each worker holds of the rows *as it read them*.
A database transaction is a step: `Deliver` (applied and acknowledged), `DeliverUnacknowledged` (applied, but `Commit`
returned an error), `ProcessFails`; then `CountRetry` or `MoveToDeadLetter`, or `HandlingFails`, which logs and goes
on. A poisonous entry (`Poison`) is one no transaction accepts. `Restart` drops a batch between any two steps. No code
of the repository starts the worker yet; the module has any number of them, as replicas would.

### Sessions

A JWT carries the user and times in whole seconds and has no id, so **the tokens of one user are the seconds they were
issued in**: two of one second are one string, with one fingerprint, whose uniqueness makes the second insert fail.
`rows` is `refresh_tokens` by fingerprint. Each handler is the sequence of its statements: a refresh is `Lookup` (or
`DetectReuse`, then `EndAll`), `Generate`, `Store` or `NotStored`, `Replace`. `NotStored` has the code's path that goes
on with a replacement id of 0, which only the foreign key refuses. With `Faults` any statement that writes may fail, and
the handler goes on, as it does. `origin` and `ended` are histories for the properties. The clock is `now`.

### Authorization and its cache

`users` and `grants` are the rows, `cache` the keys, `reader` what each request has read so far (the row in one
statement, role and permissions in others) and `todo` the keys an administrator's request has yet to delete after its
commit. Each write deletes exactly the keys the code deletes: locking deletes none, a move to another organization
deletes the key of the *new* one, a role's permissions, its name and its deletion delete the keys of the *role's*
organization (`KeysOfOrg`), a password those of the user in every organization. The tokens of the model name one
organization; `OwnRoles` are its roles. `role_id` is a bare foreign key and no update of a user looks at whose role it
is, so a user may have any role, and the keys of a user whose role is of another organization are not deleted with the
others. `Seed` is what each start of a server does: it brings the permissions of the system roles to those of the code
(`SystemRoles`: the roles that are ever called SuperAdmin or OrgsAdmin) and drops obsolete ones, and deletes no key. Failures:
Redis does not answer a lookup, a query of permissions fails halfway, a fill or a deletion does not happen. `TTL` and
`Deadline` are the life of an entry and the longest request the timeout middleware allows.

### Two-factor authentication

`user` is the row's flag, method and secret; `otps` the codes unused and not expired; `backups` the unused backup codes
with their *spelling*, since the code hashes one spelling when it stores and another when it tries. A handler begins by
reading flag and method (`Begin`), keeps what it read in `req`, and goes on statement by statement: `SetMethod`;
`Invalidate` then `Insert`; `AcceptTOTP`, `AcceptCode`, `Refuse`; `TryBackup`; `EnableTOTP`; `DisableTOTP`;
`DeleteBackups` then `CommitBackups`, which are one transaction whose DELETE sees what was committed before it. A secret,
a code and a batch of ten backup codes are values of their own: generated values do not coincide. A user types only
what was shown; whatever else is typed is refused and nothing counts it.

### Request timeout

`main` is the server's goroutine, which waits in a `select`; `work` is the handler's, which is at a place (`at`) between
two statements; `wrote` is `tw.wroteHeader`, and `sent` what reached the client before `ServeHTTP` returned. `Deadline`
ends the context, `ReturnDone` and `ReturnTimeout` are the two cases of the `select`, either of which may be taken when
both are ready. `Panic` runs the recovery, which locks `tw.mu` and, when no header has been written, calls
`tw.WriteHeader`, which locks it again: the goroutine is `"wedged"`. A handler's answer is one header and one body
(`WriteHeader`, `WriteBody`). The tables of routes are data: a deadline may pass at any moment.

`Login` and `PasswordReset` compose these actions with their own statements. `TimeoutSpec(P)` is the middleware around
*any* handler, one that goes between the places of a set P as it likes; it is there for the proofs, which show what holds
around any handler, and that those two are handlers of that form.

### Login and lockout

`count` and `locked` are the columns. `Lookup` reads the row once and decides by `locked_at`; `RightPassword` or
`WrongPassword` is the comparison; `IncrementFailedAttempts` and `LockAccount` are statements of their own whose errors
are logged (`IncrementLost`, `LockLost`), the first whether it was executed or not, and then the handler does not lock,
because the count it was to get is 0. A context that is done (`CtxDone`) lets no statement be executed. `guesses` counts
the comparisons and `lost` the losses since the count was last zeroed.

### Password reset

`live` are the tokens unused and not expired. Creating one is a transaction: `Invalidate` is its UPDATE, which sees what
was committed by then (`found`), `Commit` its INSERT and commit. Using one is `ValidateResetToken`, `UpdatePassword`,
`MarkTokenAsUsed`, three statements; an error of the last is logged and the request succeeds (`MarkLost`). `uses` and
`unmarked` count changes of the password and lost marks per token.

### Rate limiter

`count` and `life` are the key: its number (0 when there is none) and whether it has a time to live. Each check is a
sequence of commands. A command may not be executed (`PassesUncounted`, `ExpireLost`: Redis, its breaker or the context
fails, and the request is let pass), be executed without an answer (`IncrUnanswered`), or be executed and sent again by
the library (`CreateAgain`, `IncrAgain`). `EXPIRE` follows only an INCR that returned 2, so a key that INCR made, because
the one the GET saw has gone in between, gets its life from the second INCR.

## 3. What is model-checked

| Run | Module, configuration | Shows |
|---|---|---|
| `breaker_safety` | `CircuitBreaker`, `CircuitBreaker_safety.cfg` | The breaker has always acted on its counters (`ThresholdsPending`), half-open runs at most `MaxRequests` of its own calls (`ProbeBudget`), the writes under the read lock lose nothing (`RacyReadsLoseNothing`), an open period ends early only by `Reset` (`OpenHolds`), counts of a finished period open nothing (`ExpiredCountsNeverTrip`), every behaviour is one of `AbstractBreaker`, an open breaker is tried again (`OpenIsTriedAgain`), and half-open ends unless a probe was cancelled before `fn` (`HalfOpenEnds`) |
| `outbox` | `MCOutboxWorker`, `OutboxWorker.cfg` | Nothing recorded is lost (`NothingLost`), nothing is given up before `MaxRetries` failures (`GivenUpAfterMaxRetries`), counts and dead letters stay bounded by the number of workers (`CopiesBounded`), and every event is settled in the end, poisonous ones in front of it or not (`ImplementsDelivery`, with its liveness) |
| `rotation_safety` | `MCRefreshTokens`, `RefreshTokens_safety.cfg` | Two requests and any failures: chains of replacements go forward in time and end at a stored token (`ChainsForward`), never leave their login (`ChainsKeepSession`), and what is revoked stays so (`RevokedForever`) |
| `rotation_sequential` | `MCRefreshTokens`, `RefreshTokens_sequential.cfg` | One request at a time: rotation implements `Sessions`, and after a logout no earlier session makes tokens (`SessionsEnd`) |
| `rotation_fork` | `MCRefreshTokens`, `RefreshTokens_fork.cfg` | Two refreshes of one token: a live token nothing refers to; finding 1 |
| `password_sessions` | `MCRefreshTokens`, `RefreshTokens_password.cfg` | A change of password ends no session; finding 2 |
| `auth_cache` | `MCAuthCache`, `AuthCache.cfg` | Nobody is let in, or with a permission, later than `TTL + Deadline` after the rows last said so (`AccessBounded`, `GrantsBounded`); an entry becomes untrue only with its deletion under way, apart from the five causes named below (`StaleIsInFlight`); an account shut for good is shut out in the end (`ShutOutInTheEnd`) |
| `two_factor` | `MCTwoFactor`, `TwoFactor.cfg` | A one-time code lets one request in (`SpentOnce`), racing sends leave at most one code per request (`LiveBounded`), racing regenerations at most one batch of backup codes per request (`BatchesBounded`), and a user whose requests have not overlapped has the factor the next login asks for, one code per method, one batch of backup codes (`SoundAlone`) |
| `backup_codes` | `MCTwoFactor`, `TwoFactor_backup.cfg` | No stored backup code is ever accepted: finding 3 |
| `login` | `Login`, `Login.cfg` | Wrong passwords compared between two zeroings of the count are at most the limit less one, one per request in progress and one per lost statement (`GuessesBounded`); a client is answered once and whole, or cut off by a deadline or a panic (`AnsweredOnce`); a request ends unless its handler panicked before a header (`EndsOrPanicked`) |
| `password_reset` | `MCPasswordReset`, `PasswordReset.cfg` | A token changes the password no more often than requests overlap and marks are lost (`UsesBounded`); a new token ends those before it, but for those being created at the same time (`LiveBounded`) |
| `rate_limiter` | `RateLimiter`, `RateLimiter.cfg` | What passes in the life of a key is bounded in any order of commands (`LimitHolds`), and a full key ends unless the EXPIRE it needs was lost (`RefusalEnds`) |

Every passing run also has the type invariant of its module. For each property of a passing run there is a mutant, an
operator next to the one it replaces whose comment says what bug it is (`\* Mutant of ...`), under which TLC finds the
property violated.

What some of the properties do **not** say is as informative:

- `SoundAlone` speaks of users whose requests have never overlapped. With two at a time it is false, in the ways the
  hazards at `two_factor_handler.go:158`, `:326` and `totp.go:236` describe: a factor that was never verified, one whose
  secret is gone, backup codes of two batches. `SpentOnce`, `LiveBounded` and `BatchesBounded` hold regardless; the last
  bounds the third of these, and nothing bounds the first two.
- `StaleIsInFlight` excepts a lock, a move to another organization, permissions assigned to a role that the user has
  and that is of another organization, the seeding at a start of a server, and a failed deletion: those leave an entry
  stale for the rest of its life, and `AccessBounded` and `GrantsBounded` are what remains true then.
- `ImplementsSessions` and `SessionsEnd` need one request at a time (and no failure in the run); `rotation_fork` shows what two can do, and a logout
  between a refresh's check and its insert (`auth_handler.go:592`) leaves the token that is inserted alive.
- `CopiesBounded` allows as many dead letters of one event as there are workers, and they occur.
- `HalfOpenEnds` excepts a probe that was cancelled between `beforeRequest` and `fn` (`circuit_breaker.go:131` returns
  `ctx.Err()` after the call was counted and without `afterRequest`). Half-open has no expiry: after `MaxRequests` such
  calls the breaker refuses until somebody resets it. The property says that nothing else has this effect.
- `EndsOrPanicked` excepts a panic before the first header: `ReturnTimeout` wants the mutex that the recovery holds and
  waits for, so neither the handler's answer nor the 503 ever comes (`timeout.go:108`).
- `UsesBounded` is weaker than "Token can only be used once" (`password_reset_handler.go:232`) makes one expect:
  requests that have validated a token all go on, and a lost mark leaves it live until it expires.
- `GuessesBounded` says what the lock is worth while logins overlap: each that has read the row before the lock compares.
- `LimitHolds` is tight. With `n` requests at a time and a limit of `m`, `n*m + n(n-1)/2` pass in the life of a key: a
  request that found no key sets the count back to 1 whenever its SET arrives, and one that found room counts late. A SET
  that the library sends again begins one more round.

## 4. Bounds

| Run | Instance | Why it is enough |
|---|---|---|
| `breaker_safety` | 4 callers, all of whom may be cancelled, `MaxRequests` 2, `FailureThreshold` 3, `SuccessThreshold` 2, interval and timeout 2, counters below 5 | more callers than probes, so that the budget binds while late results arrive; thresholds above 1, so that counting matters; counters wrap within reach |
| `outbox` | 2 workers, 2 entries of which the older is poisonous, batches of 1, `MaxRetries` 3 | stale copies need two workers; the poisonous entry stands in front; `CopiesBounded` is reached with equality |
| `rotation_*`, `password_sessions` | 1 or 2 requests, `MaxTime` 3 or 4 seconds | a fork needs two requests and three tokens; two tokens of one second occur in each second; histories of longer chains repeat a link |
| `auth_cache` | 1 user, 2 roles, 1 permission, 1 reader, 1 administrator, `TTL` and `Deadline` 1 | keys of different users share nothing, and a fill races a write with one of each; of the two roles one is the organization's own and seeded, the other of another organization, and each can be left |
| `two_factor` | 2 requests, 1 secret, 3 codes, 3 batches | codes and batches are one more than the requests, so that `LiveBounded` and `BatchesBounded` could fail; two of each can be stored together |
| `login` | 2 requests, `MaxLoginAttempts` 2, `MaxLost` 2 | the second login can compare after the first has filled the count; each place of a handler meets each state of the middleware; `GuessesBounded` is reached with equality |
| `password_reset` | 2 requests, 3 tokens, `MaxUnmarked` 1 | a token more than `LiveBounded` allows; a token whose mark was lost is used again |
| `rate_limiter` | 4 requests, `maxAttempts` 3, `MaxResent` 2 | two requests can be about to create while two others count; `LimitHolds` is reached with equality; keys expire, are cleared and are made by INCR |

Every module is bounded by its sets of values (`Codes`, `Batches`, `Tokens`, `Entries`), by saturating histories
(`failures`, the ages of `AuthCache`), or by a bound on failures in a guard that names it (`MaxLost`, `MaxUnmarked`: no
request begins after so many losses; `MaxResent`); there is no other cut. `CHECK_DEADLOCK FALSE` stands where an instance runs out
of values (no second left, no code left, all events settled), not where the code could stop. Symmetry is used only in
runs without liveness. The safety results that are proved hold for every value of these constants.

## 5. Fairness

- `CircuitBreaker`: time passes; `fn` returns; a reader that has the lock goes on; and traffic does not dry up (a caller
  who would be let in calls). The first three are the scheduler's and the callee's timeouts; the last is needed because
  the breaker has no timer of its own: an open breaker nobody calls stays open. There is no fairness of `CtxDone` or
  `Reset`.
- `OutboxWorker`: weak fairness of a worker's loop (`Start` is a ticker loop that only the context ends), and strong
  fairness of reaching a result for a row that is reached again and again: databases fail repeatedly but not for ever,
  and a failure result counts as one. Nothing is assumed of restarts or scan failures except that they do not happen at
  every attempt.
- `AuthCache`: time passes, and a request ends (the timeout middleware cancels its context). No deletion or fill is fair.

- `Login`: deadlines pass (`context.WithTimeout`) and the server's goroutine takes the case of its `select` that the
  deadline opens. Nothing is asked of a handler: it may hang in a statement, and the request must end all the same.
- `RateLimiter`: Redis expires a key with a life, and a command ends, done or not (`ReadTimeout` of the client).

`RefreshTokens`, `TwoFactor` and `PasswordReset` are checked for safety only: their handlers owe nobody progress across
requests.

## 6. What is proved

TLAPS checks every theorem below for all values of the constants, under the `ASSUME`s of the modules (finite sets of
callers, workers and requests; positive limits; the "none" values outside the sets they stand beside). Each component
has an inductive invariant, `Init` implies it, every action preserves it (one lemma or step per action), and the
properties follow.

| Theorem | States |
|---|---|
| `CircuitBreakerProofs!Invariance`, `TypeCorrect`, `ThresholdsHold`, `ProbesBounded`, `ReadersHarmless` | `IInv` and its parts |
| `CircuitBreakerProofs!OpenPeriodHolds`, `ExpiredCountsAreGone` | the action properties `OpenHolds`, `ExpiredCountsNeverTrip` |
| `CircuitBreakerProofs!HalfOpenHasAWayOut` | half-open admits a call or runs one, or a slot was lost (hypothesis H1) |
| `CircuitBreakerProofs!Refinement` | `Spec => ImplementsAbstract`, step by step |
| `OutboxProofs!TypeCorrect`, `NoEventLost`, `NotGivenUpEarly` | types, `NothingLost`, `GivenUpAfterMaxRetries` |
| `OutboxProofs!FewCopies` | `CopiesBounded` (hypothesis H2) |
| `OutboxProofs!Refinement` | the safety part of `AuditDelivery` |
| `RefreshTokensProofs!TypeCorrect`, `ChainsGoForward`, `ChainsStay` | types, `ChainsForward`, `ChainsKeepSession` |
| `RefreshTokensProofs!RevocationIsFinal` | the action property `RevokedForever` |
| `RefreshTokensProofs!LogoutEndsSessions` | `SessionsEnd` (hypotheses H3, H4) |
| `RefreshTokensProofs!Refinement`, `OneTokenPerLogin` | `Spec => ImplementsSessions`, step by step, and one usable token per login (H3) |
| `AuthCacheProofs!TypeCorrect`, `AccessIsBounded`, `GrantsAreBounded`, `StaleOnlyInFlight` | types, `AccessBounded`, `GrantsBounded`, `StaleIsInFlight` |
| `TwoFactorProofs!TypeCorrect`, `CodesSpentOnce`, `SoundWhenAlone`, `FewCodes`, `FewBatches` | types, `SpentOnce`, `SoundAlone`, `LiveBounded`, `BatchesBounded` |
| `LoginProofs!TypeCorrect`, `OneAnswer`, `GuessesAreBounded` | types, `AnsweredOnce`, `GuessesBounded` |
| `LoginProofs!AnyHandlerAnswersOnce`, `AnyHandlerCanEnd` | `TimeoutSpec(P) => []AnsweredOnce`; past its deadline a waiting request can be answered, or its handler panicked before the header (H5) |
| `PasswordResetProofs!TypeCorrect`, `UsesAreBounded`, `FewTokens` | types, `UsesBounded`, `LiveBounded` |
| `LoginProofs!LoginIsAHandler`, `PasswordResetProofs!ResetIsAHandler` | `Spec => TimeoutSpec(Places)`: what holds around any handler holds around these |
| `RateLimiterProofs!TypeCorrect`, `LimitIsKept` | types, `LimitHolds` |
| `RateLimiterProofs!FullKeysCanEnd` | a full key has a life, or an `EXPIRE` on its way, or that was lost |

Some theorems have a hypothesis of their own, stated as their `ASSUME`:

- **H1**: `SuccessThreshold <= MaxRequests`. So it is in each configuration of `breakers.go` and in the defaults of
  `NewCircuitBreaker`. Without it half-open could use up its slots before it has seen the successes it asks for.
- **H2**: there is a worker, or `MaxRetries > 1`. The code's limit is 10; the excluded case is a server without workers
  and a limit of one, where the bound on the counts would be -1.
- **H3**: `Sequential`, one request at a time and no failing statement. It is the very setting of the run
  `rotation_sequential`, whose properties these are, and it cannot be dropped: in the instance of `rotation_fork` two
  refreshes of one token leave two usable tokens of one login.
- **H4**: `Watched # "password"`, since a change of password ends no session (the run `password_sessions`). What is
  left is logout, of any number of sessions.
- **H5**: P has the place `"end"`, where a handler's goroutine ends.

Why the invariants have to be stronger than the properties:

- **Breaker** (`IInv`). That probes are within the budget rests on what a *reader* about to write can still find
  (`RacyReadsLoseNothing`), and on the shape of the timer (`ProbesFollow`). The lemmas at the
  head of `CircuitBreakerProofs` state once what each method of the record returns.
- **Outbox** (`Fine`). A worker acts on an old `retry_count`, so "given up only after `MaxRetries`" rests on a
  counting argument: what is held is no more than what the row says (`HeldIsOld`), and what the row says plus the
  number of workers handling a failure of it is no more than the failures there were (`Covered`). `CopiesBounded` has an
  invariant of its own (`Room`): once an event is buried its row is gone, so that its dead letters and the workers that
  still hold a copy are together no more than the workers; and what the row has counted and the workers about to count
  are together within the bound, or the count is still two below the limit.
- **Sessions** (`Inv`). What a request knows is old when it uses it. What cannot change in between carries the proof: a
  row that exists goes on existing, with its origin; no row is ahead of the clock; a fingerprint that could be
  inserted is not the one being replaced (`ReqsOK`, `RowsPast`). With one request at a time, `Seq` adds that what the
  request read is still so when it writes: the token it replaces is live until it revokes it, and so is the one it
  stored. The refinement needs this at the two statements that two requests get wrong, `Store` and `Replace`.
- **Cache** (`Inv`). An age bound on entries does not survive a step by itself. `Recent` bounds what a *reading* says
  by the age of the request, and what an entry says by its age plus a deadline; `Had` carries that through the role and
  the permissions, which are read separately.
- **Two-factor** (`Inv`). `SpentOnce` rests on codes being generated once and shown only if mailed (`Known`).
  `SoundAlone` says nothing of a request between two statements; `PlaceOK` says what a request that is alone may still
  rely on at each of them, and `Alone` that nobody else is anywhere. `FewCodes` has an invariant of its own (`Room`): the
  codes of a method and the requests about to insert one are together no more than the requests, because using up
  codes makes room for every one of them. `FewBatches` has another (`BatchRoom`), since a regeneration deletes what it
  sees and commits later: for *every set* of requests about to commit, the batches none of them has seen and the batches
  they are going to store are together no more than the requests.
- **Login** (`Inv`). Each wrong password that was compared is in the count, or about to be counted, or lost; and while
  the account is not locked, a count beyond the limit has a request about to lock, or a lock that was lost (`Covered`,
  with the losses split into those of counts and those of locks). Who passed the look at the lock before it closed is
  bounded by the requests. `AnsweredOnce` rests on what may have been written at each place of a handler (`Answers`). The lemmas
  about it are stated for any set of places and used three times: by `Good(P)`, which is inductive for the middleware
  alone, by the login and by the password reset.
- **Password reset** (`Inv`). A live token has been used at most once for each request about to mark it and each mark
  that was lost; one that is not live has, besides, at most the requests that validated it before (`Used`). For
  `LiveBounded`, a map from live tokens to requests that never sends two tokens to one request: a token stands on the
  request that committed it, or on the one that will end it (`StoodFor`), and the pigeonhole does the rest.
- **Rate limiter** (`Inv`). A potential: what was counted, plus the room the present round has left (`Room`), plus a
  round for each request about to create the key (`Rounds`), never exceeds where it began, but for the rounds that SETs
  sent again begin (`Extra`). A request that leaves a round takes its own place in it along, which is why the rounds
  shrink by one each and the sum is quadratic. `FullKeysCanEnd` rests on `LifeComes`: a key that has counted to two without
  a life has its `EXPIRE` on the way, because the INCR that returned 2 sends it.

Only model-checked: liveness (`OpenIsTriedAgain`, `HalfOpenEnds`, `ShutOutInTheEnd`, `EndsOrPanicked`, `RefusalEnds`,
the temporal part of `ImplementsDelivery`), since liveness under fairness is out of the prover's reach. For three of
them the safety core is proved, that nobody is ever stuck with nothing left to happen: `HalfOpenHasAWayOut`,
`AnyHandlerCanEnd`, `FullKeysCanEnd`. Every other property of a passing run has a theorem.

## 7. Findings

Each is a run whose property TLC refutes; the quotation is what the code or a comment says of itself.

1. **Two refreshes fork a session** (`rotation_fork`). The old token is checked in one statement and revoked in
   another that does not look again. Both requests succeed, and `replaced_by_token_id`, "Reference to the new token that
   replaced this one during rotation", names only the later successor, so reuse detection cannot connect the other.
2. **A change of password ends no session** (`password_sessions`). "Blacklist all existing tokens for this user (forces
   re-login)" (`auth_handler.go:703`) writes a key that refresh never reads, and revokes no row.
3. **Backup codes are never accepted** (`backup_codes`). They are hashed as `XXXX-XXXX` when stored (`totp.go:251`,
   `:284`) and without the dash when tried (`:291`).

Known behaviours that the models have, and no line of the repository contradicts:

- `RouteTimeouts` and `ExcludedRoutes` of the timeout middleware name prefixes under `/api/`, while the router serves
  `/api/v1/`: every API request has the default timeout.
- The recovery's deadlock after a panic (`EndsOrPanicked`) and the cancelled probe (`HalfOpenEnds`), see section 3.
- A `GET` of a key that is not there is an error (`redis.Nil`) for the breaker of Redis, which counts it as a failure.
- A password reset leaves the account locked; a password that an administrator or the user changes leaves reset tokens
  live.
- Goroutines that record security events use the request's context, which is done when the handler has returned.

## 8. What is not modelled

`PROJECT.json` lists every component with the reason. In short: parts in the plan below; single statements without a
protocol (users, roles, organizations, import logs); calls to the outside (SMTP, SMS, S3, the chat model); functions of
one request or of their arguments (headers, sanitizing, validation, encryption, exports); tools, generators, the front
end and deployment files. Inside the modelled components the following is abstracted: contents of audit events and
their signatures; expiry of refresh tokens (seven days); the rows of login attempts and of security events, which no modelled step reads;
the tables of routes and their timeouts; the in-process limiter of a library (`rate_limiter.go`); the arithmetic and time window of TOTP; texts of mails;
identity of the organization beyond "the one the token names"; the role carried in a token; the names in a cached entry; `HardDeleteUser`, which no
handler calls; the clean-up command and the migrations that rename permissions, which an operator runs.

## 9. Plan

Done, in this order: the breaker, the outbox, sessions, the cache, two-factor authentication, the request timeout, login
and lockout, password reset, rate limiting, each with its proofs.

What could be added, the most important first:

1. `RetryPath`: `WithRetry` around the breaker of `BreakerCore` under a deadline. Properties: attempts are bounded;
   nothing is retried after the deadline; retries do not exceed the half-open budget. No caller of it exists yet.
2. `LogPipeline`: the two buffers and workers of the application log with a crash and the server's shutdown, and the
   cooldown of alerting. Properties: an entry is written at most once, in order within a worker; what a shutdown may
   lose is bounded by buffer and batch.
3. The two-factor races as runs of their own, with the message they contradict
   (`two_factor_handler.go:159`, "Disable it first to change method"), and the reset token that is used twice
   (`password_reset_handler.go:232`).
4. `Saga` (a compensation that fails: the comment at `saga.go:80` says others are still tried) and the migration runner.
