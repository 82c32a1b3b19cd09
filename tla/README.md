# Vyst OpenAuth: TLA+ models, checks and proofs

This directory keeps a formal model of the identity service beside its Go code:
TLA+ modules for its components, TLC configurations that check them on small
instances, and TLAPS proofs for every size. `PROJECT.json` is the machine-readable
index: components, runs, mutants, the map from definitions to source lines,
findings, hazards and theorems. Paths below are relative to the repository, and
`service/`, `postgres/`, `redis/`, `http/`, `grpc/` abbreviate
`internal/application/service/`, `internal/infrastructure/persistence/postgres/`,
`internal/infrastructure/persistence/redis/`, `internal/interfaces/http/` and
`internal/interfaces/grpc/`.

    tlc -workers 2 -config MCSignals.cfg MCSignals        # one run
    tlapm SignalsProofs.tla                               # one proof module


## 1. Inventory

The system is one API process (`cmd/identity-api`: REST, GraphQL and gRPC over the
same services), several workers (`identity-worker`, `sentinel-worker`,
`billing-worker`, `job-sync-companies`), PostgreSQL, Redis and a message broker, a
Go client library and an end-to-end verifier. Any number of API processes may run.
Nothing in the code locks a row between two statements or a key between two commands
except where a transaction or a pipeline is named below; every request is therefore a
sequence of separate steps between which the steps of other requests fall. That is the
source of most hazards.

| Component | State | Operations | Interacts with | What makes it correct |
|---|---|---|---|---|
| Outbox writers (`service/registration_service.go`, `service/company_service.go`, `postgres/transaction.go`, `messaging/outbox/publisher.go`) | business rows, `outbox_events` | begin, business rows, INSERT per event, commit, rollback | relays read the table | rows and events appear together or not at all |
| Relay (`cmd/identity-worker`, `messaging/outbox/processor.go`) | `processed_at`, batch in memory | poll, publish, mark | broker, sentinel-worker through `processed_at` | only durable events are published, each at least once, again only after a lost mark |
| Sentinel reader (`cmd/sentinel-worker`, `messaging/outbox/repository.go`) | `processed_at`, row locks | fetch with SKIP LOCKED, handle, mark | relays, risk engine | no row processed by two workers |
| Risk engine (`domain/risk`, `redis`, `cmd/sentinel-worker`) | velocity counter, `login_history` | evaluate, record, publish | sentinel reader | an alarm has a cause, a marked login was analysed |
| Kill switch (`grpc/server.go`) | `streams` map of slices of channels | register, deregister, trigger | event bus, RevokeUserSessions | the slice is exact, a killed stream ends, no double close |
| User account (`service/auth_service.go`, `service/password_service.go`, `postgres/user_repo.go`) | the `users` row | login, forgot, reset, verify, switch company | sessions, mail | no session before verification, a reset sticks, a link works once |
| Sessions (`redis/session_store.go`, `service/auth_service.go`) | session key, refresh key, user's set | create, refresh, logout, delete all, expiry | account | logout, expiry and deletion stick |
| Membership (`service/company_service.go`, `service/invitation_service.go`, `postgres/company_user_repo.go`, `redis/cached_company_user_repository.go`) | `company_users` row, cached role, invitation | join, approve, reject, add, remove, change role, invite, accept | every company-scoped check | no member without an admin's act, a stale role has a known cause, an invitation is used once |
| Second factor (`service/totp_service.go`, `postgres/totp_repo.go`, `http/handlers/auth_handler.go`, `totp_handler.go`) | `totp_secrets` row, temporary tokens | setup, verify, two-step login, backup code, disable | login | no login past a factor that is on, codes and tokens die |
| Passkeys (`service/webauthn_service.go`, `postgres/webauthn_repo.go`) | ceremony data in Redis, credentials, sign counter | begin and finish of registration and login | account | a challenge is answered once, the counter does not go back |
| Policy engine (`postgres/policy_repo.go`, `redis/policy_cache.go`) | relation tuples, cached answers | check, write, delete | API, gRPC, tenants | the recursive query computes reachability; staleness is bounded |
| Tenants and roles (`service/tenant_service.go`, `service/policy_service.go`) | `tenants`, `roles`, owner tuple | create in two statements, suspend, role CRUD | policy engine | a tenant has an owner, a role is the work of one request |
| Admission (`http/middleware/ratelimit.go`, `quota.go`, `service/apikey_service.go`, `cmd/billing-worker`) | counters and windows, keys | count, compare, expire, bill | every request | at most the limit per window, a window ends, a revoked key is refused |
| Company information (`service/company_lookup_service.go`) | `company_info_cache` | lookup, save | external provider, sync job | a cached answer does not look younger than it is |
| Companies (`service/company_service.go`, `company_sync_service.go`, `cmd/job-sync-companies`) | `companies` rows, paging offset | create, suspend, activate, paged sync | lookup | every active company is visited, a suspension sticks |
| Document verification (`service/document_service.go`, `resilience/circuit_breaker_verification.go`, `redis/cached_document_verification.go`) | breaker counts, cached answer | verify, trip, half-open | external provider | the breaker recovers, no CPF is refused without a verdict |
| CPF and CNPJ (`domain/document/cpf.go`, `domain/company/cnpj.go`) | none | validate, generate | documents, companies, verifier | the digits agree with their definition and catch a mistyped one |
| In-process events (`messaging/memory`, `service/audit_service.go`, `service/webhook_service.go`) | handler table, goroutines, `audit_logs`, `webhooks` | publish, log, list, dispatch, subscribe | GraphQL subscription | no event handled twice, an audit row for each |
| Migrations (`cmd/identity-api/main.go`, `cmd/migrate`) | `schema_migrations`, the tables | version, force, drop, up | every instance at startup | a serving instance has its tables, data is not dropped without reason |
| SDK client (`pkg/sdk/client.go`) | token pair, expiry | login, refresh if needed, logout | API | a refresh does not undo a logout |
| Verifier (`cmd/verify`) | shared context, results | run checks, retry, report | API | green means every check passed, red has a cause |

Hard behaviours, with their lines, are the `hazards` of `PROJECT.json`. The ones the
models were built around: reads and writes of a row by overlapping requests (account,
membership, second factor, tenants, passkeys, companies); pipelines that are not
transactions (sessions); a goroutine that walks a shared array without its lock (kill
switch); crashes and lost UPDATEs between publish and mark (outbox, risk); a cache
filled after it was invalidated, or with an old answer (membership, policy, company
information, documents); values read before an expiry and used after it (sessions,
passkeys); queries that return fewer columns than the update writes (account, second
factor); counters whose expiry is a command of its own (rate limit, velocity); paging
by offset over rows that leave the list (sync); a call that outlives the state it began
in (circuit breaker, SDK); several processes repairing one database (migrations); work
that nobody waits for (events, last-used times, cached answers).


## 2. Modules and how they correspond to the code

A step of a model is one SQL statement, one Redis command, one transaction
boundary or one memory access to shared data, together with the local computation
around it. A request that fails, or whose process dies, ends at any step with what
it has done so far. History variables are marked `history` in the declarations;
no guard reads them. Definitions named `X_Something` are mutants: a plausible bug
in the code that `X` models, used only to confirm that a property can fail.
Properties that a run checks together are conjunctions of named parts, defined at the
end of each module (`SessionsSound`, `StreamsSound`, ...).

**Outbox.tla, OutboxDelivery.tla.** Writers run `Begin`, `WriteBusinessRows`,
`PublishToOutbox` per event, `Commit` or `Rollback` (`RunInTransaction`).
`held` are the uncommitted rows, `table` the visible ones. A relay (`FetchBatch`,
`PublishOk`, `PublishFail`, `MarkProcessed`, `MarkFail`, `Shutdown`, `Crash`,
`Restart`) is `processBatch`: the batch is the oldest unprocessed rows, rows with
the same `created_at` in any order, a failed publication is skipped, and the mark is
a separate UPDATE. A sentinel (`FetchUnprocessed`, `RowsClose`) holds its row locks
only until the rows are closed. `OutboxDelivery` is the abstract promise: durable
together, delivered only if durable, settled only if delivered, and eventually both.
The refinement maps `durable`, `delivered`, `settled` to `data`, the events with a
publication, and `processed`.

**KillSwitch.tla.** One user's entry of `streams`: a slice header and backing
arrays in `heap`. `AppendTo` is Go's append (in place while there is capacity, else a
new array of twice the size); removal is `append(channels[:i], channels[i+1:]...)`
one word per step (`FindSelf`, `ShiftWord`, `Deregister`) under the lock. The trigger
copies the header under the read lock (`CopyHeader`) and then walks the array without
it (`SelectChannel`, `CloseChannel`); the unsynchronised read returns whatever word
is there. The doubling of capacity is the runtime's rule for small slices.

**UserAccount.tla.** One `users` row. `FullRead` and `ScanUser` are the two column
sets the repository reads, `Update` the columns it writes. Login, reset request,
reset, verification and company switch read into `mem[r]` and write `mem[r]` back.
Registration is `Init`. Expiry of tokens is `Expire`; received mail is `mail`. A company
switch is behind `middleware.Auth`, so it needs an account that has logged in
(`sessions`); `LoginRefused` is a login with a wrong password or without an active status.

**Session.tla.** One user's sessions. `Create` and `DeleteByUserID` queue commands in
`pipe[p]`, which `PipeExec` runs one at a time; `RefreshToken` and `Logout` read the
refresh key, then the session, and a logout writes its copy back with
`time.Until(ExpiresAt)` (no time to live once that is not positive). Logout answers
success for every error of its lookup: when a key is gone (`RefreshKeyMissing`,
`LogoutFindsNothing`) and also when Redis did not answer (`LogoutLookupFails`), which
`gone` books under a reason of its own. Keys expire some time after `ExpiresAt`.

**Membership.tla.** One company. A request looks up the caller's role and, where the
code does, the target's (`RoleCached`, `RoleFromDatabase`, `FillRole`), writes one row
and deletes the cached role, whose failure is ignored. Invitations are created,
accepted (`RedeemInvitation`, then `SaveInvitation` as a statement of its own) and
expire. `CreateCompany` is `Init`.

**SecondFactor.tla.** One user. `row` is the `totp_secrets` row; a request that will
write keeps the `copy` it read. Setup inserts or updates, an update writes `enabled`
and the codes and leaves `secret` alone, as `TOTPRepository.Update` does. Login checks
`IsEnabled`, hands out a temporary token or a session; the second step is GET, DEL,
then the code. TOTP codes are named by the secret they come from.

**Admission.tla.** One client address and one tenant. The limiter is `CountRequest`
(INCR and comparison), `SetWindow` (EXPIRE, only after a count of 1), `WindowLost` and
`Tick`; a Redis error lets the request through, whether the INCR was applied
(`ReplyLost`, after which nobody sends the EXPIRE of a first count) or not. Then `ValidateAPIKey` with its late
`UpdateLastUsed`, the handlers of keys, and the quota as `ReadPlan`, `ReadUsage`,
`IncrementUsage`, which are three commands. `Billing` is the worker that reads the same
counters, `NewMonth` the change of key at the turn of the month.

**Policy.tla.** The tuples about one object and relation. `Found` is the recursive
query level by level up to `Depth`; `Reachable`, the reference, is the least fixed
point, defined without a search. An answer is stored by a goroutine (`StoreAnswer`,
`StoreFails`) at most `MaxDelay` ticks after the query, and no write invalidates it.

**Tenancy.tla.** `CreateTenant` and `AssignOwner` are two statements, `AbandonJob` a
failure in between; suspension and role updates read a row and write it back.

**Passkeys.tla.** `BeginRegistration` and `BeginLogin` store a fresh challenge under one
key per user and kind; `GetSession` and `DeleteSession` are the GET and the DEL of
finishing; `FinishLogin` computes the new sign count from the row it read, and
`UpdateCredential` writes it. The authenticator signs with growing counts and the browser
may repeat an answer.

**Migrations.tla.** Instances run `runMigrations` statement by statement: version, check
of a table, drop and repair of an apparent drift, `Up` under the advisory lock with
dirty flag, SQL and clean flag as separate steps, and the recovery of dirty versions by
`Force`. Any instance may crash at any step; `cmd/migrate` writes the same row without
the lock. A migration is a number, and its tables are there or not. golang-migrate's Drop
removes tables only: `left` are the migrations whose types or functions survive it, and
`Blocks` says which SQL fails on them (`CREATE TYPE invitation_status` on itself, the
first definition of `get_user_by_email_secure` on a later one of another type).

**CompanyLookup.tla, CompanySync.tla.** The first is one CNPJ: cached row with an age,
provider, save that may come late and over a newer row. The provider answers
(`ProviderAnswers`), and the answer is stamped when its body has been decoded
(`FetchCompanyInfo`), at most the HTTP client's timeout (`ReadTimeout`) later; the
registry and other lookups move in between. The second is the table and the
job that pages over it by `offset` while it suspends companies, so that the list shrinks
under it; it sees of a lookup only its answer or an error. A page is given by what the
query asks for: the rows with at least `offset` and fewer than `offset + Limit` listed
rows before them in the order of creation (`Ahead`), in that order.

**Documents.tla.** One CPF through cache, circuit breaker, provider and decision.
`breaker` is the library's state with this code's settings, and `req[p].counted` says
whether a call belongs to the breaker's current generation: a call that returns late
must not count. `CallCancelled` is a client that goes away: a failure to the breaker while
the provider is up.

**CheckDigits.tla.** `ExpectedDigit` and the validators as the code computes them, against the
defining congruence; a number is formed (or generated, as the verifier does) and one of
its digits mistyped.

**RiskSentinel.tla.** The batch of `processEvents`, then per event INCR, EXPIRE, the
comparison, the last row of `login_history`, the insertion and the mark, each of which
may fail singly or be cut by a crash. A login whose payload does not unmarshal is marked
without analysis (`SkipMalformed`), and the relay of the outbox marks rows of the same
table (`RelayMarks`).

**EventFanout.tla.** One type of event with all its subscribers. `Publish` copies the
handler table and starts a goroutine for each handler; the audit handler has a context
of its own, the webhook handler the request's (`ListByEvent` needs the request to be
open, and may return any part of the list without an error), and each dispatch is one
POST.

**SdkClient.tla.** Goroutines that share one client: the expiry is read under the lock,
the call is made without it, and the answer is stored whatever happened in between.

**Verifier.tla.** The runners and every check by what it needs of the shared context,
what request it makes and what answer it accepts, against the API as it answers when it
works, one operator per handler (`RegisterStatus`, `LoginStatus`, ...).

**Proof modules** extend the modules they are about: `SignalsProofs` (Outbox, KillSwitch),
`AccountsProofs` (UserAccount, Session), `SecondFactorProofs`, `MembershipProofs`,
`AdmissionProofs`, `VerifierProofs`, `PlatformProofs` (Policy, Tenancy, Passkeys, Migrations,
CheckDigits) and `ServicesProofs` (CompanyLookup, CompanySync, Documents, RiskSentinel, EventFanout,
SdkClient).

**MC modules** give values, and `MCCompany`, `MCSignals`, `MCAccounts`, `MCLogin`,
`MCPlatform` and `MCServices` put several components into one run: components that
share no variable take their steps while the others are in their initial states, so the
state space is the sum of theirs. What does interact is inside one module: writers,
relays and sentinels in `Outbox`; limiter, keys, quota and billing in `Admission`; cache,
breaker and provider in `Documents`; the instances and the command in `Migrations`; bus
and subscribers in `EventFanout`; table, cache and invitations in `Membership`.


## 3. Runs

| Run | Instance | Checks |
|---|---|---|
| `company` | Outbox: registration (two events) and company creation (one), a relay with batch 2, a sentinel with batch 1, one lost UPDATE per event, one crash per worker. Membership: creator and one user, two requests, one invitation | `NothingUncommittedSeen`, `RepublishNeedsLoss`, `MembersWereGranted`, `StaleRoleExplained`, `InvitationUsedOnce` |
| `signals` | Outbox: a relay with batch 2, one event refused for ever. KillSwitch: three streams, one trigger. Fairness | `StreamsSound`, `DeliverySpec` (refinement with liveness), `KilledStreamsEnd` |
| `outbox_skip_locked` | two sentinels | violated: `NoSharedProcessing` |
| `kill_missed` | three streams, one trigger | violated: `AllTerminated` |
| `accounts` | UserAccount: two requests, two passwords, three tokens. Session: two calls, two sessions, one DeleteByUserID, any failing lookups | `SessionImpliesVerified`, `PasswordSticks`, `ResetTokenUsedOnce`, `SessionsSound` |
| `account_status` | one request | violated: `StatusDocumented` |
| `session_rotation` | one call, one session | violated: `RefreshTokenRotates` |
| `login` | SecondFactor: two requests, two setups, one temporary token. Verifier: one or two goroutines, one retry, two failing requests. Policy: a user and two groups, two checks, depth 3 | `FactorRequired`, `BackupCodeDies`, `EnabledWasVerified`, `TempTokenUsedOnce`, `VerdictSound`, `ChecksSound`, `StaleBounded` |
| `second_factor_setup` | one request, two setups | violated: `ShownIsStored` |
| `admission` | two requests, one key, limit 1, window 2, quotas 0 and 1, fairness | `LimitsSound`, `RevokedKeyRefused`, `AdmissionProgress` |
| `platform` | Tenancy: two tenants, a role, two requests. Passkeys: two requests, one key, two challenges, three signatures. Migrations: two instances, three versions, the last of which a type that Drop leaves blocks, one fault | `TenantsSound`, `ChallengesSound`, `CountFallsOnlyStale`, `ServingSound`, `DataLossExplained`, `StartupSucceeds` |
| `services` | two lookups, answers read for one tick; three companies, pages of two, one job; two verifications, two probe calls; digits 0 and 7; two logins, malformed or not, with one fault and the relay beside; one event, two hooks, one subscription; two goroutines with two logins | `InfoSound`, `SyncSound`, `SuspensionSticks`, `SyncEnds`, `BreakerSound`, `NoFalseRejection`, `BreakerRecovers`, `DigitsSound`, `MarksSound`, `AlarmExplained`, `FanoutSound`, `ClientSound` |

Every property of a passing run has a mutant in `PROJECT.json` that breaks it.
Deadlock is checked everywhere. In `KillSwitch` a finished instance stutters in
`Quiet`, because goroutines end; the other systems never stop.

**Why these bounds.** The races in the code are between two requests: each holds one
stale copy, and the damage is done by one write over another, so two requests meet
every pair, and a request may start again after it ended. `MaxTokens = 3` is the
registration token and two resets, so a second link can follow a used one.
`CodesPerSetup = 1` and `MaxSetups = 2` let a code be used, replaced and deleted; the
same properties also held with two codes per setup. Three streams are needed for a
slice that grows from capacity 1 to 2 to 4 and for a removal that shifts a live channel
past the walk; with more streams a removal and a walk can overtake each other several
times, which is why what a walk misses is proved for any number of them. A batch of two with one refused event is the smallest in which a refused
row shares the batch with a good one; with as many refused rows as the batch holds the
queue really starves (hazard `processor.go:83`), and `DeliverySpec` is therefore checked
below that. `MaxLost`, `MaxCrash` and `MaxFaults` cap failures, `MaxDeletes = 1` the
deletions: two overlapping calls of `DeleteByUserID` can leave a session that no set
lists. `Targets` keeps the creator a caller, and `InvitedRoles` invites for the stronger
role. Two groups with depth 3 are one group fewer than the depth, the boundary of
`CheckExact`; every set of tuples over them is an initial point of some behaviour,
cycles included. A limit of 1 with two requests has one at, one above it, and a quota of
1 with two in flight overshoots by exactly what `OvershootBounded` allows. Three
companies in pages of two make the second page start where a suspension shifted it.
`MaxRequests = 2` with two verifications fills the half-open breaker with running
calls, and counts up to 5 reach the trip at three failures. `Low = 1`, `CompaniesAt = 2`,
`LastVersion = 3` keep the order of the real 2, 20 and last version; the blocked
migration is the last one, as `invitation_status` is created after version 20.
`FreshFor = ReadTimeout = 1` lets an answer that took as long as the client allows look
fresh beside a younger one. On two goroutines
the verifier runs the checks of `Sampled` only: the ones that write the shared company id,
and two readers of it.

**Properties with an exception.** The code does not isolate overlapping requests, so
several properties say exactly when they hold: `PasswordSticks` and
`ResetTokenUsedOnce` as long as no two requests on the account overlapped;
`StaleRoleExplained`, `BackupCodeDies`, `EnabledWasVerified`, `TempTokenUsedOnce`,
`InvitationUsedOnce`, `ReplayExplained`, `CountFallsOnlyStale`, `OwnerlessExplained`,
`AlarmExplained`, `MarkedWereAnalysed`, `MissedHookExplained`, `DataLossExplained` and
`FailureExplained` up to the overlaps, lost commands and unreadable rows they name;
`AgeHonest` up to the client's timeout; `WindowEnds` and `LockoutEnds` up to an EXPIRE
that was lost or, its INCR's reply being lost, never sent; `LogoutSticks` except for a
logout whose lookup failed; `DeletedStayDeleted` for the first deletion;
`StartupSucceeds` unless instances keep dropping a database that can no longer be
migrated in one pass. The exception is charged at the step where it
happens and only to the row, code or token it concerns; everything else must still hold,
and a bug that needs no such overlap violates the property. `ExpirySticks`, `SessionImpliesVerified`, `AtomicOutbox`, `OnlyDurablePublished`,
`ActiveWereGranted`, `RevokedKeyRefused`, `NoFalseRejection`, `AuditComplete` up to a
failed INSERT, and `LogoutClears` have none; `FactorRequired` only spares a request
during which the factor was off at some moment or the database did not answer.

**Fairness.** *Relay*: its ticker fires for ever and a supervisor restarts the process:
weak fairness of fetching, working and `Restart`. A broker or a database that is tried
again and again succeeds at last: strong fairness of `PublishOk` per accepted event and
of `MarkProcessed`; without it no retry loop delivers anything. Writers are not fair.
*Kill switch*: runnable goroutines run (weak); each stream takes the lock once and for a
bounded time, so a waiter gets it. Clients and triggers are not fair. *Admission*: time
passes, a request that arrived goes on, the billing ticker fires (weak), and the
worker's reads and writes, retried every round, succeed at last (strong). *Sync job*: a
run takes its next step (weak); it may fail at any time. *Documents*: time passes,
keys expire, requests go on and keep coming; that the provider stays up and that clients
stop going away (a cancelled context is a failure to the breaker) is only in the
hypothesis of `BreakerRecovers`. *Migrations*: a process that exits is started again and goes on
(weak, per instance).


## 4. Findings

Five statements of the repository disagree with what the code does; each is a run
that ends in a violation, quoted in `PROJECT.json`.

1. `outbox_skip_locked`: the comment of `FetchUnprocessed` says that SKIP LOCKED keeps
   workers apart, but the statement runs outside a transaction and its locks end
   before the rows are handled.
2. `kill_missed`: "terminates all active session streams" does not hold when a
   stream leaves while the trigger walks the array: a live channel is shifted to an
   index already passed. `MissedWereBehind` says who can be missed: only streams that
   registered after one that left during the walk. How many is not bounded by how many
   left: with six streams one removal that the walk overtakes makes it miss two.
3. `account_status`: `scanUser` does not read `status` and `Update` writes it, so a
   reset or a company switch stores an empty status, and the account cannot log in. The
   run's trace is one reset.
4. `session_rotation`: the README announces refresh token rotation; the code that
   would do it is commented out.
5. `second_factor_setup`: a second setup shows a new secret and stores the old one.

Observed while modelling; the models do what the code does here, and no run is
spent on it:

- *Streams.* Two triggers for one user can both find a channel open and close it twice,
  which panics; `NoPanic` is checked for one trigger. A stream validates its token before
  it registers, so a trigger in between does not see it.
- *Outbox.* A sentinel marks rows the relay has not published (`SettledWasPublished` is
  stated for relays alone). No writer puts the `UserLoggedIn` events it waits for into
  the table.
- *Sessions.* Logout answers 200 when Redis did not answer its lookup, and the refresh
  token goes on working. From the second `DeleteByUserID` on a session can survive: the
  first one's DEL of the user's set forgets a login that came after its SMEMBERS.
- *Account.* `LoginWithUser` writes the whole entity back and can undo a reset that
  overlapped it. `RevokeUserSessions` closes streams and leaves the stored sessions alone.
  `active_company_id` is in no SELECT and no UPDATE, so a company switch reaches neither
  the row nor a token. An error of `IsEnabled` during login is treated as "no second
  factor". Nothing revokes an access token before it expires.
- *Companies.* The last admin of a company can be removed. `SuspendCompany` and
  `ActivateCompany` have no handler. A pending status lets the sync job lift a suspension
  that fell between its read and its write. A name search without a cached row answers
  with an error of the server.
- *Company information.* `LastFetchedAt` is the time when the body was decoded, so of two
  overlapping lookups the one with the older answer can leave the row that looks fresher.
- *Admission.* An INCR that is applied and whose reply is lost opens a window without an
  expiry. The quota middleware is mounted on no route. `expires_at` of a key is
  stored and never compared. Revocation does not ask whose key it is.
- *Tenants.* The comment at `SuspendTenant` asks for a super admin, and the handler does
  not look. `CheckPermission` slices the first five bytes of a user id of any length.
- *Migrations.* Two instances that start on an empty database can take each other's
  unfinished first migration for drift and drop the database, repeatedly: only "some
  instance comes up" holds. After such a drop the type `invitation_status` is still there,
  so migration 20241210000001 fails on every rerun until a restart forces its version,
  and instances that keep meeting each other's half-done migrations may never get that
  far. A dirty version that is forced is never applied. A failed drop
  at version 0 serves anyway.
- *Risk.* A login whose payload does not unmarshal is marked without analysis, and a login
  the relay marks first is never analysed. The velocity rule counts the time of the analysis, not of the login; the kill
  signal publishes a map that the Redis client cannot marshal.
- *Events.* The webhook list is read with the context of the request, which has usually
  ended; a read that breaks off in the middle is taken for the whole list, as `rows.Err`
  is not looked at. The `companyUserAdded` subscription asserts another Go type than the one that is
  published, so it delivers nothing.
- *Documents.* A refused CPF is not recorded. A client that goes away counts as a failure
  of the provider and can open the breaker.
- *SDK.* The client decodes `access_token` where the server sends `token`, and an answer
  to a refresh, which has no refresh token, overwrites the one it had.
- *Verifier.* Parallel company checks share the company id without synchronisation; a
  registration whose answer is lost can never pass on retry.


## 5. Proofs

TLAPS checks every theorem to its last leaf, for all values of the constants that
satisfy the named assumptions. The assumptions are the types of the constants
(`BoundAssumption`, `AccountAssumption`, `SessionAssumption`, `SecondFactorAssumption`,
`MembershipAssumption`, `LookupAssumption`, `SdkAssumption`, `SyncAssumption`,
`RiskAssumption`, `PasskeyAssumption`), with positive limits, windows and lifetimes where
the code has constants that are (`AdmissionAssumption`, `PolicyAssumption`,
`DocumentsAssumption`) and finitely many requests where they are counted; that the free
quota is not the larger one; the order of the three versions (`MigrationsAssumption`);
that every event is written by exactly one transaction (`WritesAssumption`), that a
process is a relay or a sentinel (`WorkerAssumption`), that a subscription is none of the
bus's own handlers (`ViewersAssumption`), and that the name for "none" is not a stream, a
key or an instance. TLC evaluates them in every run.

**Outbox.** `TypeCorrect`, `UncommittedUnseen` (the conjunction of `AtomicOutbox` and
`OnlyDurablePublished`) and `RepublishCorrect` hold with any relays and sentinels;
`SettledCorrect` and `ImplementsDelivery` assume `Sentinels = {}`, as sentinels mark
without publishing. None of the properties is inductive alone:

- `AtomicOutbox` speaks of visible rows, but whether a commit makes the right rows
  visible depends on what the open transaction holds: `WriterInv` says that it holds
  exactly the rows of the statements executed, and that `data` is the set of committed
  transactions.
- `OnlyDurablePublished` needs `RowsInv`: what a worker holds, marks or has published is
  visible. Together with `AtomicOutbox` a visible row is of a committed transaction.
- `RepublishNeedsLoss` needs to know why a relay will not publish again. `LossInv` splits
  the count: a relay has published an event once more than it lost marks only if it is
  just about to mark it, or the row is marked and not still ahead in its batch (`Owed`).
  `LoopInv` adds that a batch has no duplicates and the position is within it.
- `SettledWasPublished` needs `MarkInv`: a relay at the mark has published its row.
- `ImplementsDelivery` shows that every step is a commit, a first publication, a first
  mark, or leaves the three abstract variables unchanged. It covers the safety part
  `ASafety`; the fairness part is TLC's.

**Kill switch.** `WalkCorrect` and `RevokedCountCorrect`, for any streams and any
overlapping triggers, and `StreamsCorrect` for one trigger (two may close a channel twice). `SliceExact` speaks of
the moments without the lock; inside the critical section one word of the slice is a
duplicate or the leaving stream itself, so `SliceInv` is about the slice without that
`Hole`, which `ShiftWord` moves to the right. `ArrayInv` keeps slice and hole inside the
array, and a stream that has not registered without one, so that an append that
reallocates writes no array a walk is on. For the walk `PlaceInv` looks at the targets
before the first that left (`Clean`): they are where they were when the header was copied,
inside the slice and to the left of the hole, so neither an append in place nor a removal
writes over them, and `PassedInv` says that those the loop has passed are closed. A
stronger looking claim, at most one miss for each stream that left, had passed TLC with
three streams; the attempt to prove it showed that it is false from six on, and TLC
confirms it there. `NoPanic` needs `OneInv`: a lone trigger closes what it
found open. `CountExact` sums a function over the triggers: `SumsExist` and `OneMore`, by
induction on the size of a set, say that the fold is defined on every finite one and that
one more from one trigger is one more in the sum, whatever order the fold takes.

**User account.** `TypeCorrect`, `VerifiedCorrect`, `PasswordCorrect` and `ResetCorrect`.
The last two are about histories without overlap: `AloneInv` says that then at most one
request runs, that the copy it holds is not stale and carries no spent token, and
`TokenInv` that what a request or the row holds was issued. A stale copy could bring back an
active status, so `VerifiedInv` carries "active implies verified" to every copy in memory
and to requests about to create a session, and says that no token but the registration's
ever enters the verification column (a reset token cannot verify an address).

**Sessions.** `SessionsCorrect`: for any number of calls, sessions and deletions, what was
logged out or has expired gives no token afterwards, and neither does what the first
`DeleteByUserID` removed (`DeletedStayDeleted` is about the first: its DEL of the user's
set takes the entry of a session created after its SMEMBERS along, and a second deletion
would not find that session). A logout whose lookup failed is acknowledged too, and is the
one exception. That a session has ended does not say that nobody brings it back:
`CallInv` says what each call still has to write (a Logout only a revoked copy),
`CreatorInv` and `PipeInv` that only the login that makes a session sets its keys, and
`EndedInv` that an ended session's token was handed out, so this login is over.
`DeleteInv` follows a session a deletion owes through its list, its pipeline, to its end.

**Second factor.** `TypeCorrect`, `FactorCorrect`, `EnabledCorrect`, `TempCorrect`,
`BackupCorrect`. For the last, `RetiredInv` says that a retired code without an excuse that is
still in the row or a copy is about to be removed by the request that used it, and
`FreshInv` that a setup in progress has codes no earlier one had, so that none brings an
old one back.
`FactorInv` relates the moment a request began to the row as it is now; `EnabledInv` says
that every copy yet to be written back is of an accounted secret and will hit a row of
the same secret, no row, or one recorded as crossed; `TempInv` says that a used token
still in Redis has a request about to delete it.

**Membership.** `MembersCorrect`, `StaleRolesCorrect` and `InvitationsCorrect`, for any
people, overlapping requests and invitations. `GrantInv`: a request that is past the check
of its caller found it to be an admin, and an invitation, or a request that redeems one,
is for a user an admin invited. `HeldInv`, `SoleInv`, `SpentInv` and `RecordInv` follow an
invitation: before its first use one request holds it, after it nobody does who could use
it again, and it is accepted or its request is about to save it. `FoundInv` (what is about
to be cached came from the database) is all that `StaleRoleExplained` lacks to be
inductive.

**Admission.** `LimitsCorrect` and `RevokedCorrect`. `WindowInv`: at most one request is
about to set the expiry, and then the counter is positive and has none, although INCR and
EXPIRE are two commands and either may be lost (`ReplyLostStep`); `CountInv` that every admission of the window is in the counter. `QuotaInv` counts the requests that found the quota
not reached and have yet to increment: the counter and they together stay within the
bound. `KeyInv`: no row of a revoked key is in the table, and a request that began late
never reaches the handler.

**Policy, tenants.** `StaleCorrect`: `AgeInv` bounds, for every answer on its way to Redis,
how long ago it agreed with the tuples by its own age, so that storing it late adds at most
the delay. `ChecksCorrect` is about the query itself, for any tuples over finitely many
groups (`PolicyAssumption`). That the levels of the recursion exist is an induction on the
depth (`LeastNat`, `SetInduction`: the hypothesis is a set, not an operator); every level
holds only reachable groups (`FoundIsReachable`); a group that is found first at some level
needs a new one at every level before it, so with fewer groups than levels the last one
adds nothing (`LateGroups`), and what is found is closed under the tuples
(`FoundIsClosed`). `TenantsCorrect`: `JobInv` says that a request between its statements works on a
tenant or role that is there.

**Passkeys.** `ChallengesCorrect`, and `CountCorrect` for the action property. `OnceInv`
follows a challenge: it is with the request that will store it, in Redis, with the one
request that read it, or spent; `CeremonyInv` that what a request holds belongs together
and that no stored or pending count is one the key has not shown.

**Migrations.** `ServingCorrect`, and `DataLossCorrect` for the action property, for any
instances that start, crash and repair each other's work. `PlaceOK` says what an instance
knows at its place and still holds although others have written since it looked; all of it
is in terms of `Covered`, which only grows: tables up to a version are there, were forced
over, or everything was dropped.

**Company information.** `InfoCorrect`: for any callers, any lifetime and any timeout of the
client up to it, nothing in the cache or in a caller's hands looks younger than what it
says by more than that timeout. The invariant carries the age from the provider's answer,
through the time its body takes to arrive (`ReadOK`), the stamp and every late save.

**Companies.** `SyncCorrect`, and `SuspensionCorrect` for the action property, for any
number of companies, any page size and any overlapping jobs. `MissedInv` counts the
companies listed all along that a run has not seen and whose position lies before the
offset it has reached, or will reach with the page in its hands (`Bound`). Reading a page
adds none; a suspension moves every later company one position to the left, so at most
one crosses the offset; a creation or activation only moves companies to the right.

**Documents.** `BreakerCorrect` and `RejectionCorrect`: `BreakerOK` relates the breaker's
counts to the number of its calls that are still running, which is what a late call of an
older generation must not disturb; `VerdictInv` says that whoever holds "irregular" had it
from the provider.

**Risk engine.** `MarksCorrect`: `BatchOK` ties the row about to be marked to the analysis
of this very login or to a payload that does not unmarshal, across batches, failed marks,
crashes and marks of the relay. `AlarmCorrect` is about the
steps that raise an alarm. `CounterBacked`: as long as no login was analysed twice, the
counter stands for as many distinct logins counted since its key was created.
`BatchInOrder` and `HistoryInOrder`: batches take the logins in the order of their times,
so the history holds nothing later than a login analysed for the first time, and the time
of the analysis, which the rule uses, cannot make two distant logins look close.

**Check digits.** `DigitsCorrect`, for every base and every single mistyped digit.
`SumsExist` and `SumUnfolds` (induction on the length) justify the recursive sum,
`SumShifts` says what one changed digit does to it: the weight times the difference of the
digits, which 11 does not divide (`NoMultiple`), and `SharedDigit` that two remainders
give the same check digit only if that is 0.

**Events.** `FanoutCorrect`: `TaskInv` says which goroutines of an event can exist before
and after it is published, `LogInv` and `HookInv` that a row or a request stands for a
goroutine that is done, and that a hook that was active once is not "new" again.

**SDK client.** `ClientCorrect`: `FreshTokens` adds that a login waiting for its answer has a
token no other login, no Logout and not the client has seen, so an answer that comes
after a Logout cannot bring back what was taken away.

**Verifier.** `VerdictCorrect`: for any `-parallelism` and `-retries`, any failing requests
and any bound on the checks of a parallel run that keeps the login (`VerifierAssumption`;
a green run without it would say nothing of the groups only a token registers). A verdict
is decided long before it is read, so the invariant follows a check from the queue to its
result. `QueueInv`: checks start in the order of registration and, on one goroutine, after
all before them are over; `RegisteredInv`: every check waits, runs, has a result or was
left out, where the REST, company and document groups are left out exactly when there is
no token. `AttemptInv` counts: an attempt that ended without success met a failing request
or is excused. What is missing from the context is an excuse only because of what ran
before: without a token the login failed (`NoToken`), and it fails on a known and active
address only for its own requests (`SignupInv`, `LoginInv`); without a company id the
login failed, the creation met a failing request, or several goroutines ran (`NoCompany`). `CreatedInv` follows the
created company's id into the context, which the list check may not overwrite. What the
runner registers is a concatenation filtered by a recursive function; `Considers` and
`Registers` give its order and its members.

**Only model-checked.** Liveness and fairness (`DeliverySpec`'s liveness,
`KilledStreamsEnd`, `AdmissionProgress`, `StartupSucceeds`, `BreakerRecovers`, `SyncEnds`)
are outside the prover's reach.

## 6. Plan

The order followed what the system exists for: first events and revocation, then
everything a login rests on, then access to companies, then the surroundings. All
modules of the plan are written, every safety property of the runs is proved, and the
liveness properties stay with TLC. What could follow: naming the sessions that a second
`DeleteByUserID` misses, and the mounting of the revocation middleware, if the server gets
one.

## 7. What is not modelled

- Cryptography, hashing, token signatures, random generation: a token or a code is a
  name, and different ones differ.
- Wall-clock times: an expiry is an event that may happen at any moment after which the
  value counts as expired, or a number of ticks; a TOTP code's 30-second window is left
  out.
- Access tokens: a token is a function of the user row and the time, and nothing revokes
  one (the revocation and company guard middlewares are not mounted), so there is no state
  to model beside the account's.
- HTTP and GraphQL decoding, logging, metrics, tracing, configuration, captcha, mail and
  SMS delivery: one call with an answer or an error, and no state of the system's own.
- Generated code (`graphql/generated.go`, `identity.pb.go`, `api/rest/docs.go`), which is
  a third of the lines, mocks and the example application.
- Formatting, masking and JSON of CPF and CNPJ; the durations and reports of the verifier.
- An error in the middle of reading a result set (`rows.Err` is not checked in
  `processBatch`) is a shorter batch.
- go-redis's own repetition of a command whose connection broke: for the limiter it is a
  lost reply followed by one more request, both of which are in the model.
- The cached list of a user's companies, which follows the protocol of the cached role,
  and the `viewer` role, which passes the checks of `member` in the modelled requests.
- A composition of account and sessions would only show that a reset ends no session:
  the two components share no state.
