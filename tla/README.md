# Verification of OpsWarden

OpsWarden keeps credentials (encrypted, versioned), assets and an audit trail for
teams and for software agents. It is one Go process on one SQLite database, with a
web client, an HTTP API for people and an MCP server for agents. This directory
holds TLA+ models of it, the TLC runs that check them on small instances, and
TLAPS proofs of theorems that hold for every instance. `PROJECT.json` is the
index: components, runs, the lines of code each definition stands for, mutants,
findings, hazards and theorems.

## 1. Inventory

| component | code | state | operations | how it interacts |
|---|---|---|---|---|
| authorization policy | `internal/authorization` | none | two pure decisions, for a human and for an agent | every service asks it before it acts |
| credentials | `internal/credentials` | tables `credentials`, `credential_versions`, `credential_tags`, `asset_credentials`, `idempotency_records` | get, list, create, update, delete, restore, purge, purge of the expired, recorded attempts | reads Spaces, assets and sessions; create and update replace the links to assets; writes audit events in its transactions |
| identity | `internal/identity` | `users`, `user_totp`, `recovery_codes`, `sessions`; login challenges in memory | initial owner, login in two steps, resolve, re-verification, logout, roles, password reset | every human request starts here; purge reads its sessions |
| agents | `internal/agents` | agents, tokens, grants, idempotency records of people | create, issue and revoke tokens, set grants, inspect, authenticate | gives MCP and REST their agent principals |
| agent limiter | `internal/agents/limiter.go` | token buckets in memory, in two generations | reserve, commit, refund, allow, rotate | before a login, an authentication and a tool call; `Allow` before the bootstrap |
| spaces | `internal/spaces` | Spaces, memberships with versions | create, list, add, change role, remove | roles of the policy; removes sessions |
| assets | `internal/assets` | assets with versions and tags, links | get, create, update, delete, link, unlink, two listings by cursor | reads roles from spaces and the policy; links credentials |
| audit | `internal/audit` | `audit_events` | append, list by cursor, purge by retention | appended to in the transactions of the others |
| backup | `internal/backup` | `backup_runs` and a directory | run, verify, retention, two queries, reconcile at start and in each query | run by maintenance; queried by health and by people |
| maintenance | `internal/maintenance` | a ticker of 24 hours, one run at a time | start, stop, run once | purges credentials, cleans sessions and records, backs up |
| HTTP API, failure gate | `internal/httpapi` | a bounded table of failures, slots for password work | middleware, handlers | calls the services and the limiter |
| health | `internal/health` | none | a report, with a detailed query | holds the lock of the backup service, reconciles and verifies |
| MCP server | `internal/mcpserver` | none of its own | tools | authentication, limiter, services, audit |
| storage | `internal/storage` | the SQLite file | open, migrate, `WithTx` | one writer connection, a pool of readers |
| cryptobox | `internal/cryptobox` | keys | seal and open envelopes | payloads, TOTP secrets |
| offline operations | `deploy/*.py` | a stopped installation | restore, revoke, export | works on the files |
| web client | `web/` | a session and cached answers | pages | HTTP API |

**What is hard here.** A transaction has one writer and is atomic, so the danger is
outside it: values read before a transaction and used in it (updates, login),
several statements on the reader pool that see different states, retries of
requests whose answer was lost, records that expire or are cleaned up in between,
a process that dies between two commits, memory that dies with it, jobs that fail
half way, several calls of one protocol that overlap (`Start` and `Stop`, reserve
and refund), bounded tables that are full, a clock that is sampled before a lock or
set back, and times that are stored and compared as text. The `hazards` of
`PROJECT.json` list these places one by one, at their line, with the properties
that watch them.

## 2. Modules

| module | what it is |
|---|---|
| `Authorization` | the policy as operators: `DecisionForHuman`, `DecisionForAgent`, roles, scopes, label conditions |
| `AuthorizationQueries` | a caller tries one action after another; properties that compare an answer with neighbouring ones |
| `Timestamps` | times as text: the order of RFC3339Nano strings |
| `Credentials` | the credential service with idempotency, audit and nightly maintenance; extends `Authorization` |
| `CredentialStore` | the abstract specification: a credential is one atomic cell |
| `Identity` | people: passwords, login challenges, TOTP and recovery codes, sessions, system roles |
| `Backup` | runs, the directory and the disk below it, retention, reconciliation |
| `Scheduler` | `Start`, `Stop`, the loops, `RunOnce` and the status |
| `Limiter`, `FailureGate` | the limiter and the gate as operators from one state to the next |
| `LoginGuard` | how the handlers of login and re-verification use both; extends them |
| `AgentTokens` | the agent service; extends `Authorization` |
| `AgentRequests` | the requests of agents, by MCP and by REST, over that service; extends `AgentTokens` |
| `Spaces` | members, their versions and sessions; extends `Authorization` |
| `Assets` | assets, links and listings, over the members; extends `Spaces` |
| `MC*` | the instances TLC checks |
| `AuthorizationProofs`, `CredentialsProofs`, `IdentityProofs`, `SchedulerProofs`, `AssetsProofs`, `AgentRequestsProofs`, `BackupProofs`, `LoginGuardProofs` | theorems and proofs |

### Authorization

A label map is the set of its pairs, so `labelsMatch` is inclusion. Humans and
agents share one record; the fields of the other kind are empty. The actions,
roles and scopes are the constants of `policy.go`. The order of the early returns
decides which error a caller sees, and is kept: `DecisionForHuman` answers
`forbidden` only to members, everyone else gets `concealed_not_found`.

### Credentials

Each request occupies a slot of `Reqs`; `slot[r].pc` is the step it has reached
and the other fields are the local variables that survive a database access. One
step is one SQL statement on the reader pool, or one whole transaction
(`storage.WithTx`). Failures are steps of their own: an early error (before
anything was decided), a late error (the change was accepted, a write, the audit
event or the commit fails; all is undone), and the failure event in its own
transaction (`AppendFailure`, `AppendFailureError`).

| state | code |
|---|---|
| `row`, `versions` | `credentials` with tags and links; `credential_versions` |
| `idem` | `idempotency_records`, by agent, endpoint and key |
| `trail` | success events in `audit_events`, counted by kind |
| `slot` | requests in progress, lost in a `Crash` |
| `maint` | `Scheduler.RunOnce` in progress |
| `ticker` | the ticker of `Scheduler.loop`: how far its interval has come, and whether a tick waits in its channel |
| `now` | the clock; a tick is half a second |
| `execs`, `delivered` | history: changes agents made, plaintexts returned |

| action | code (`service.go` unless said otherwise) |
|---|---|
| `Begin`, `Reject` | validation and the authorization that needs no row; `RecordInvalidAttempt`, `RecordConcealedAttempt` |
| `ReadRow`, `GetTags`, `GetAudit` | `Get`: `recordByID`, `loadRelations`, authorize, the read event |
| `ReadRow`, `UpdateTags`, `UpdateReplayMiss`, `Update` | `Update`: snapshot, authorization, the agent's first transaction, the writing transaction |
| `Create`, `Delete`, `Restore`, `Purge`, `PurgeExpired` | the operations that are one transaction |
| `Replay`, `Refuse` | the transaction ends with a stored result, or with an error |
| `MaintStart`, `PurgeExpiredMaintenance`, `cleanupExpiredState`, `MaintError` | `internal/maintenance/scheduler.go` |

Maintenance never runs at `Start`: the first tick comes a whole `Interval` later
(`scheduler.go:117-131`; `docs/operations.md:353`), and a crash begins the wait anew
(`NewTicker`). A process that is restarted more often than once an interval never
purges; the model has these behaviours.

What other components own is chosen freely at the moment a transaction reads it
(`Env`): whether the Space is active, which assets are, what the session row says
to `verifyAuthoritativePurgeSession`. Payloads are opaque values: encryption
binds a payload to its credential and version and is taken to be injective.
Identifiers come from a finite set and are never given twice.

Times: `RFC3339Nano` drops a zero fraction, so as text `10:00:00.5Z` sorts before
`10:00:00Z`. `Stamp` gives the rank of a tick in the text order; `Expired` and
`CleanedUp` compare ranks where the code compares text, and `lookupIdempotency`
compares times, as the code does.

### CredentialStore

One cell per credential: state, version, content (payload and labels). Five
actions. `Credentials` implements it under the mapping `cell`, although an update
is four steps, a read may be torn and a crash may fall anywhere.

### Identity

Requests occupy slots as in `Credentials`. A step is one read on the reader pool,
one transaction, or one access to the map of challenges under its mutex.

| state | code |
|---|---|
| `user`, `totp`, `recovery`, `session` | tables `users`, `user_totp`, `recovery_codes`, `sessions` |
| `challenge` | `Service.challenges`; an entry that was taken out, or lost in a crash, is `gone` |
| `slot` | requests in progress: for a login the hash it read, the upgraded hash, the session it opened |
| `salts` | how many salts were drawn: two hashes are never equal |
| `accepted`, `opened`, `audited`, `delivered`, `owners` | history: second factors accepted, sessions by challenge, recorded logins, tokens sent, initial owners |

| action | code (`identity/service.go`, `identity/repository.go`) |
|---|---|
| `InitialOwnerCheck`, `createInitialOwner` | `CreateInitialOwner`: the check on the reader pool, then the transaction that checks again |
| `BeginLogin`, `PutChallenge` | `BeginLogin`: the row, the password, the upgraded hash; then the entry of the map |
| `consumeChallenge`, `completeLogin` | `CompleteLogin`: the entry is taken out; then the transaction |
| `LoginResolve`, `LoginRecord`, `LoginDeliver`, `LoginFails`, `LoginLogout` | the rest of the handler in `httpapi/auth_handlers.go`, which revokes the session when something fails |
| `ResolveSession`, `verifyRecentTOTP`, `LogoutAudited`, `RevokeUserSessions`, `ChangeSystemRole` | the operations that are one transaction |
| `ResetPassword`, `ForgetChallenges` | `ResetPassword`: the transaction, then the map |
| `cleanupExpiredState` | the sessions part of the nightly cleanup, for a run that started at any earlier time |
| `ProvisionUser` | no code of the service inserts a second user; the rows come from outside, as they do in its tests |

A password hash is the password, its salt and whether its parameters are old. The
codes of TOTP are a constant operator `totpCode`, which may repeat itself within
the window of three counters. A session keeps, for the properties only, how often
the password had been reset and which role its user had when it was opened.
Nothing sets `deleted_at` of a user, so users are not deleted. The clock does not
go back. `ChangeSystemRole`, `RevokeUserSessions` and `ResetPassword` are
operations of the service that no handler calls yet.

### Backup

`runMu` admits one operation at a time, so `op` is the operation that holds it and
its next step; every statement on `backup_runs` and every call on the directory is
a step, and an error, a crash, a loss of power, decay of a file and a restore of
the database may fall between any two. A name is in the directory at once and on
the disk only after the directory was synced; the bytes of a file are on the disk
only after the file was synced (`disk`, `synced`). After a loss of power any name
not yet synced may be there or not.

| action | code (`backup/service.go`) |
|---|---|
| `RunBegin`, `RunStep` | `Run`: reserve the temporary name, record the start, copy, verify, sync, link, unlink the temporary name, check, sync the directory, record the success; and what it undoes after an error |
| `Start`, `LatestBegin`, `ListRuns`, `ReconcileStep` | the reconciliation of `NewService`, `LatestSuccessful` and `ListRuns`, each of which holds `runMu`: runs left running, files retired but still there, files without a row |
| `RetainBegin`, `RetainStep` | `ApplyRetention`: verify, choose by windows, mark, remove, sync |

A file decays in one of two ways (`Rot`). It is no database any more, which
`PRAGMA integrity_check` sees; or it is still one, with other content, which only a
checksum tells (`altered`). `verifyRelative` compares checksums only if it is given
one (`service.go:1086`). Retention, `LatestSuccessful` and the reconciliation of
retired rows give it the checksum of the row (`Sound`). The reconciliation of running
rows and of files without a row has none to give (lines 745 and 927) and takes over
whatever passes the integrity check, with the checksum of what it finds (`Legible`).
A row that a run wrote itself, on the other hand, holds the checksum of the copy.

What the code leaves open, seen while modelling and allowed by the model: a file that
was altered between a crash and its reconciliation passes for a good backup from then
on, and retention may remove an older, intact one because of it; a crash
between the reservation of a temporary name and the record of the start leaves a
`.partial` file for which nobody looks; a success that reconciliation records
after the temporary name is gone is not preceded by a sync of the directory; a
read error during reconciliation turns a good backup into a failed row (`misread`).
`completed_at` is ordered as a number here and as text in the code; within one
second the two may differ.

### Scheduler

Threads are the goroutines: callers of `Start`, `Stop` and `RunOnce`, and one loop
per `Start`. `mu` protects the fields and is held for one step; `runMu` is held
for a run. `Jobs` are the five jobs in the order of the code; the first two need
the lock of the backup service and are refused while a health query holds it
(`TryLock`), as a listing of backups does; what the jobs do is in `Backup`, `Credentials`, `Identity` and
`AgentTokens`. Two things the code allows and the model shows: a second, concurrent
`Stop` returns before the loop has ended, and a `Stop` may clear the `NextRunAt`
that a concurrent `Start` announced. A loop ends when it is cancelled by `Stop`; that
it also ends with the context given to `Start` (`scheduler.go:105`) is left out:
`App.Run` calls `Stop` whenever that context ends (`app.go:172-175`).

### Limiter, FailureGate and LoginGuard

Every call of the limiter and of the gate is one critical section, so both are
written as operators on a state: `Reserve`, `Commit` and `Refund` over buckets of
two generations with one shared bucket (`Overflow`) for subjects beyond
`MaxSubjects`; `observeMode` over one window of the gate. Tokens are counted in
units so that refill is exact. `LoginGuard` runs them concurrently. A request
samples the clock before it takes the lock (`Sampled`: up to `Lag` old).

| action | code (`httpapi`) |
|---|---|
| `ReserveFor`, `AcquireWork` | the reservation of source and principal, the slot for password work |
| `Judge` | the service's verdict: a wrong guess keeps its tokens, all else gives them back |
| `Close` | `Commit` or `Refund` |
| `Observe`, `WriteAggregate`, `WriteIndividual` | the failure gate and the two audit writes, each of which may fail |

`ideal` is the reference for `NeverMoreThanIdeal`: for each operation one bucket per
subject and one for `Overflow`, which are never forgotten, charged at the key that
served the subject. The property is about buckets, not about subjects. What a subject
is admitted is covered by its own ideal bucket and the operation's shared one
together, and no better bound holds: a subject that was served from the shared bucket
while the table was full gets a full bucket of its own after a rotation
(`limiter.go:340-349`, `550-562`), as if it had spent nothing.

`RetryAfterHeader` is the header of the HTTP API, the wait rounded to the nearest
second and at least one (`middleware.go:473-476`). A client that waits just that long
may come up to half a second too soon and be refused again; `RetryAfterHonest` gives
it what the rounding may have dropped (`Dropped`). MCP rounds up (`server.go:577`),
so there the header suffices. The code computes levels and waits in floating point
(`limiter.go:360-379`), the model exactly: errors of rounding there are not covered.

Not modelled is `Allow`, which the handler of the bootstrap calls
(`auth_handlers.go:360`): one bucket, one token that is never given back, before the
password work and `CreateInitialOwner`. `Check` is called by tests only.

### AgentTokens and AgentRequests

A managing call samples the clock (`CallBegin`) and executes one transaction; its
record keeps it from being executed twice, is compared as a time and cleaned up as
text. No operation deletes an agent. A request of an agent is inspected,
reserved strictly, authenticated, audited, and served:

| action | code |
|---|---|
| `Create`, `IssueToken`, `RevokeToken`, `SetGrant`, `CallReturns` | `agents/service.go`; `CallReturns` is a replay, a refusal or a failed transaction |
| `Arrive`, the steps of `Serve` | `mcpserver/server.go` and `tools.go`; the routes open to agents in `httpapi` |
| `Drawn` | `requestTimeGuard.Next` of MCP: it fails for good once the clock has gone back |
| `SetBack` | the clock of the host is set back |

The principal of a request holds the grants of its authentication, which may be
stale for the rest of the request; that is what the code does. Of two requests
with one token the one that sampled the clock first may be refused. The commit of a
new token and its return to the caller are one step. The limiter decides freely here. Where the guard draws several times with nothing in between,
one draw stands for them.

### Spaces and Assets

A client of `Spaces` that changes something first reads it, in a request of its
own, and sends the version it saw (`seen`) with the second request, which the
middleware admits only with a live session. A member operation is one transaction
that reads the roles itself; an asset operation reads the role in one transaction
(`ResolveAuthorizationPrincipal`) and changes the asset in another, with the role
it read. `held` collects, for `ActsWithHeldRole`, the roles that the actor has had
since the request arrived. Of the credentials, `creds` has what listings and links
depend on: tags, and whether they are live, recycled or purged. Their create and
update replace the tags and the links that the request mentions, in one transaction
and with a credential event only; no event tells the links, so `TrailTellsTables`
speaks of members and assets alone. Who may write a credential is left to
`Credentials`. A listing is one reader going through pages and batches
while everything else goes on; `stable` is what it has to return.

| action | code |
|---|---|
| `CreateAudited`, `ListMembers`, `AddMemberAudited`, `ChangeRoleAudited`, `RemoveMemberAudited` | `spaces/service.go`, with `RevokeUserSessionsTx` of identity |
| `GetRow`, `GetTags` | `Get` of `assets/service.go`: row and tags in two statements |
| `Create`, `Update`, `Delete`, `LinkCredential`, `UnlinkCredential` | one transaction each, audit event included |
| `ListPage`, `ListRows`, `ListTags` | `List` and `ListCredentialMetadata`: the page is authorized, a batch is read, its tags are read and it is filtered |
| `CreateCredential`, `UpdateCredential` | `replaceTags` and `replaceAssetLinks` of `credentials/repository.go`, with the assets checked (`Linkable`) |
| `DeleteCredential`, `RestoreCredential`, `PurgeCredential` | the recycle bin keeps tags and links; the purge removes both by the cascade of the schema |
| `Login` | module `Identity`, as far as it is seen from here |

`LinkCredential` and `UnlinkCredential` are operations of the service that no route
calls; they write the link events there are. The version of a membership starts at 1 again when a member is removed and
added anew, and a change that was prepared for the old membership then applies to
the new one; `ChangeMeetsSeen` says so. Users and Spaces are never deleted.

## 3. Runs

Every run uses model values; slots are symmetric wherever no history distinguishes
them. The sets of requests are chosen per question, in the `MC` modules, so that
the conflict in question is reachable with the number of requests allowed.

| run | question | bounds |
|---|---|---|
| `policy` | do label conditions only narrow, can outsiders tell Spaces apart | 2 Spaces, 3 labels (two values of one key, one empty key), all roles, agents with up to 2 grants |
| `retry` | creates, updates and deletes retried under one key, with crashes, lost answers, expiry and the cleanup of the record | 2 slots, 3 requests, 2 identifiers, 3 versions, clock 0..2 with a retention of 2 |
| `access` | reads, updates, relabelling, deletes, restores and purges race; is what is returned audited and authorized; refinement of `CredentialStore` | 2 slots, 4 requests, 2 Spaces, 2 assets, 3 versions |
| `drain` | the recycle bin empties, if the process again and again stays up for an interval, and not too early, although jobs fail and the process restarts | 1 slot, 3 requests, clock 0..4 with a retention of 2, a ticker of 3 that goes on when the clock has reached its bound |
| `tornread` | a finding, see section 6 | as small as the counterexample |
| `factors` | logins and re-verifications race for one code, one recovery code, one challenge; the login handler fails anywhere; sessions expire and are cleaned up | 1 user, 2 slots, 5 requests, 2 challenges, 2 sessions, clock 0..2 with TOTP periods and idle times of 2 |
| `account` | resets and role changes race logins, with old and new hashes; a role changes only shortly after a TOTP code | 2 users, 2 slots, 5 requests, 1 challenge, 1 session, a login with a recovery code, clock 0..2 with a TOTP lifetime of 2 |
| `recovery` | is a reported backup safe, does retention keep a newer one that matches its checksum, do table and directory agree after a reconciliation, is every run settled | 3 runs, clock 0..1, 2 faults of any kind, both kinds of decay among them, two windows (the newest of each of two ticks, the newest of both together) |
| `lifecycle` | is the status true, does a loop leak, does `Stop` return | 2 callers, 2 starts, 2 ticks |
| `guesses` | does a bucket ever admit what it would refuse if it were never forgotten, is every failure accounted for, is `Retry-After` honest up to its rounding | 2 requests at a time, 3 in all, passwords and re-verifications of 2 sources or principals, 1 subject per table and 1 key and row per window, so that both tables overflow; clock 0..2 with lag 1, generations of 1, windows of 2; a second is 3 ticks, a token takes 1, 2 or 5, so that waits are rounded up and down |
| `agents` | tokens, grants and keys change under the requests that use them; the clock is set back | 2 managing calls and 2 requests at a time and in all, three kinds of request (a code and a change by MCP, a listing by REST), 2 tokens, clock 0..2, set back once |
| `spaces` | do owners remain, do sessions follow roles, do versions protect what a client saw, does the trail tell the tables, is a listing exact | 2 Spaces, 2 users, 2 slots, 3 requests of 11 kinds and of the writes of credentials, 4 identifiers of assets, 3 credentials of which one is yet to be made and one is of the other Space, pages of 1 with batches of 2 and scans of 3; an agent lists assets and links, a user lists links |

Why the bounds are enough: conflicts here are between two requests, a third one
makes the state they meet in (create, then two that race) and a fourth covers
what follows a restore or a purge. A clock that reaches one retention, window,
generation or lifetime meets each side of every comparison, on whole and on half
seconds: a record or session made at tick 1 ends at tick 3 and is removed, as
text, at tick 2. A login needs three requests (initial owner, both steps); two
more are a second login, or a re-verification, reset, change of role or end of
session that races it. Three versions let an update lose against an update that
itself replaced one. Two faults are an error and a crash in its cleanup, or a
crash and a loss of power before its recovery has ended. Three backups leave one
outside of both windows. A page of one with a batch of two and a scan of three
ends a page for each of the three reasons: full, exhausted, too many rows scanned.

**Fairness.**

* `drain`: `WF(Tick)`: time passes. `SF(MaintStart)`: if ticks come in again and
  again, the loop receives one sooner or later. That ticks come in is not assumed, for
  the code does not guarantee it: it is the premise of `RecycleBinDrained`
  (`[]<>ticker.full`: again and again the process stays up for an interval).
  `SF(PurgeExpiredMaintenance)` and `SF(cleanupExpiredState)`: a job that is tried
  again and again does not fail every time; weak fairness would not do, because a
  failed job or a crash disables the action, and the code has no retry other than
  the run of the next interval. Requests are not assumed fair: nobody need finish anything.
* `recovery`: `WF(Service)`: an operation that has begun goes on. `WF(Start)`: a
  process that is down is started again (a service manager does so).
  `SF(LatestBegin)`: health is queried again and again, which finds the lock free
  again and again. Faults are bounded, so they end.
* `lifecycle`: `WF` of every step of a loop, of a run and of a `Stop` under way: a
  goroutine that can go on does. Nobody need call anything.

Deadlock is checked where a crash is always possible (`Credentials`, `Identity`):
there it would only show a mistake in the model. The other systems may come to
rest: every client has been served and the bound on requests is reached.

Each property has a mutant, an operator next to the definition it changes: a
dropped condition, a wrong comparison, a missing step. TLC finds the property
violated with the mutant in place.

## 4. Proofs

The proofs hold for all values of the constants under the named assumptions of
the modules, which TLC evaluates in its runs:

* credentials: requests are well formed (`RequestsAssumption`), finitely many at a
  time (`ReqsAssumption`), the two retentions are whole seconds
  (`TimesAssumption`), null values are not values (`NullsAssumption`,
  `NoRecordAssumption`), humans have no grants (`PrincipalsAssumption`);
* identity: `RequestsAssumption`, `LifetimesAssumption` (whole seconds),
  `NullsAssumption`, `NoHashAssumption`;
* scheduler: callers are not numbers of loops (`CallersAssumption`);
* Spaces and assets: well-formed requests (`SpaceRequestsAssumption`) and an
  installation whose Spaces have owners and whose memberships and assets are at
  their first version (`InitialSpacesAssumption`, `InitialAssetsAssumption`);
  identifiers are positive numbers and finitely many and the limits of a page, a batch
  and a scan are positive (`ListingsAssumption`); writes of credentials are well formed
  and the first links are within one Space (`CredentialsAssumption`);
* agents: well-formed calls and requests (`CallsAssumption`, `WishesAssumption`);
* backup: identifiers are positive, there is a retention window, windows are not
  empty (`RunsAssumption`);
* limiter and gate: rates, windows, the durable limit and the tolerated skew are
  positive, a full bucket holds a token (`LimiterAssumption`, `GateAssumption`),
  finitely many requests at a time (`AttemptsAssumption`).

**Authorization, scheduler.**

| theorem | says | argument |
|---|---|---|
| `LabelsNarrow`, `Concealment` | `LabelsOnlyNarrow` and `OutsiderLearnsNothing` are invariants | from the type of a query, by cases of the decision |
| `TypeCorrect`, `StatusIsTruthful` of `SchedulerProofs` | `StatusTruthful` | `RunInv`: exactly the thread between `TryLock` and `Unlock` holds `runMu`, the status says so, and each job before the current one is done or has left its code. Without the last part nothing ties an empty set of codes to all jobs being done |
| `NothingLeftBehind` | `StopLeavesNothing` | `StopInv`: loops are made in order, the scheduler holds one exactly while it is started, a `Stop` has a target exactly while it is under way and clears `NextRunAt` only after its target has ended |

**Credentials.** Most of these rest on two lemmas about every step: versions of rows
and the history of executions only grow (`Forward`), and what a slot or a record
knows of a credential is backed by a row or an execution (`KnowsInv`).

| theorem | says | argument |
|---|---|---|
| `TypeCorrect` | `TypeOK`, `SlotsOK`, `RowsOK` | inductive together: a request in the middle of an operation must have the row it read (`SlotsOK`), a row in the tables must have a version and a Space (`RowsOK`), or the next step would leave the types |
| `AgentChangesOnce` | `AgentAtMostOnce` | `OnceInv`: no request or maintenance run started in the future (`TimeOK`); while a change is younger than its retention its record is still there (`RecordsCover`), so that a second change is a replay or a conflict. `AgentAtMostOnce` alone is not inductive: nothing in it says that the record is still there when the cleanup or an update's first transaction has been through. The half second that text order may lose is `LexLEBound` |
| `TrailTellsState` | `TrailMatchesState` | inductive with one strengthening, a free row has version 0 (`Matches`) |
| `ServiceImplementsStore` | `ImplementsStore`: the service refines `CredentialStore` | the initial state maps to the initial cells; a transaction that commits maps to the action of its cell, every other step, failures and crashes included, leaves the cells alone. An update commits against a snapshot of an earlier step, and is one step of the cell because the version check makes that snapshot current (`KnowsInv`: a snapshot whose version is still the row's has the row's content) |
| `UpdatesAuthorizedAtCommit` | `UpdateAuthorizedAtCommit` (action property) | the same fact: labels and Space of the decision are those of the row that the commit replaces |
| `RepliesAreExecutions` | `ReplyIsExecution` | an answer is taken from the change just made or from a record, and a record was written in the transaction of its execution |
| `PlaintextsAreAudited` | `PlaintextAudited` | a delivered plaintext and those in the hands of a request that has passed its audit are counted in the trail; a sum over the slots, therefore `ReqsAssumption` |
| `FailuresNameOnlyVisible` | `FailureNamesOnlyVisible` | a failure event names a credential only after the caller was allowed to see it; what the slot remembers of that is part of the invariant |
| `BinKeepsForRetention` | `RecycleBinRetention` (action property) | a purge by maintenance compares texts of times; `LexLEBound` gives the second by which that may be early, and a run's cutoff is not in the future (`TimeOK`) |

**Identity.**

| theorem | says | argument |
|---|---|---|
| `TypeCorrect` | `TypeOK`, `RowsOK` | with `SlotOK`: a request past a step has what the step put into its slot |
| `AnOwnerRemains` | `SystemOwnerRemains`, `InitialOwnerOnce` | `OwnerInv` adds that once an owner was created there are users, so that the check in the transaction holds off a second one |
| `FactorsUsedOnce` | `SecondFactorOnce` | `FactorInv`: every accepted factor is recorded as used (`UsedUp`): a TOTP counter lies below `last_used_counter`, which only grows, and a recovery code stays used |
| `SessionsAreCurrent` | `SessionsFollowAccount` | `TagInv`: wherever a hash of a user is found (row, slot, challenge) it stands for one and the same number of resets, because each hash has a salt of its own. So a login whose hash is still the one in the row carries the current number. The comparison of hashes, not the clearing of the map, makes the property true |
| `OneSessionPerChallenge` | `ChallengeOpensOnce` | `OnceInv`: a challenge in the hands of a login transaction is out of the map, in no other transaction, and has opened nothing yet |
| `TokensAreAudited` | `TokenAudited` | `TokenInv`: a request between the audit event and the delivery holds a session that is recorded |
| `RoleChangesNeedTOTP` | `RoleChangeNeedsTOTP` (action property) | `RecentInv`: the time of the last TOTP code in a session is that of a code that was accepted |

**Spaces and assets.**

| theorem | says | argument |
|---|---|---|
| `EverySpaceOwned` | `SpaceKeepsOwner` | with `MembersOK`: there is no member of a Space that does not exist, so a new Space is owned by its creator alone; a change or removal of an owner names another (`LeaveStep`) |
| `NoSessionOutlivesARole` | `SessionsFollowRoles` | a new membership had none before it (`JoinStep`), a changed one takes its user's sessions along (`LeaveStep`) |
| `RoleWasHeld` | `ActsWithHeldRole` | `HeldInv`: from the arrival of a request on, the role its actor has now is among those held; so is, therefore, the role that a later step reads |
| `TrailAndTablesAgree` | `TrailTellsTables` | `TrailInv`: the equations between counts of events and versions of members and of assets; every step adds to both sides or to neither, those of the credentials to neither |
| `ChangesMeetWhatWasSeen` | `ChangeMeetsSeen` (action property) | `SeenInv`: while a membership or an asset still has the version a client saw, its content is what the client saw, or it was removed and made anew meanwhile, the exception the property names |
| `ListingsAreExact` | `ListingExact` (invariant and action property) | `ListOK`: the pages before end at the cursor, the present page has come as far as `after`, the batch in hand lies beyond (`Ordered`), and nothing that was there all the time has been passed over (`Covers`): a row beyond the batch is missing only if the batch was full. `WatchInv` adds that what is expected is still visible, `LinksInv` that links stay within one Space, whoever writes them. That a table comes in its order (`InOrderIs`) needs no induction: there are as many ranks as elements and no two elements of one rank, so every rank is taken |

**Agents.**

| theorem | says | argument |
|---|---|---|
| `CreatesOncePerKey` | `CreatedOncePerKey` | `ServiceInv`: what was created under a key is remembered by a record, or the record's lifetime has elapsed on the highest clock seen. The clock may be set back, so that the present time says nothing about records that were cleaned up; the highest one does |
| `AnswersAreAudited`, `AnswersAreHonest` | `AnswerAudited`, `AnswerHonest` | `RequestsOK`: for each step of the pipeline, what a request there has been charged, recorded and granted (`Accounted`), and that its principal holds the grants of its authentication (`Truthful`) |
| `TokensMoveForward` | `TokenHistoryForward` (action property) | by cases of the actions: each writes a token only under the condition of its statement |

**Backup.**

| theorem | says | argument |
|---|---|---|
| `ReportedBackupsSurvive` | `ReportedSurvives` | `FilesInv`: name and bytes of a reported backup are on the disk, whatever a loss of power forgets; with `RunInv`: what the step of a run has already synced |
| `RetentionIsIncremental` | `IncrementalRetention` | `TablesInv`: every table, the current one and each copy inside a snapshot that a restore may bring back, keeps what the windows keep; a restored table must not make retention forget an older choice |
| `RetentionKeepsOne` | `RetentionKeepsSoundBackup` (action property) | `RetainInv`: while retention removes, a record whose file matched its checksum in this pass, which the pass does not remove and which is newer, stays (`Anchor`). Whether that checksum is the one of the copy depends on who wrote the row, see section 2 |
| `ReconciliationRestoresAgreement` | `ReconciliationAgrees` (action property) | `ReconcileInv`: after each phase of reconciliation, the rows or files already visited agree, and nothing else runs because the operation holds `runMu` |

**Limiter and gate.**

| theorem | says | argument |
|---|---|---|
| `LimiterNeverLax` | `NeverMoreThanIdeal` | `LimitInv`: from its last use on, the bucket in force never has more than the ideal bucket of its key (`Dominates`). The ideal buckets are those of the keys, the shared one among them. When a generation is dropped the bucket starts full again, so the invariant also says that a bucket of the previous generation has not been used since the present one began: its ideal counterpart is full by then. Both generations never hold one key at once; a reservation in hand was charged to the ideal limiter too, so its refund cannot lift one above the other |
| `RetryAfterIsHonest` | `RetryAfterHonest` (action property) | `ClockInv`: no time that the limiter has seen is ahead of now. So the second `Reserve` finds, for each operation, the bucket of the first one filled up by the ticks waited, moved along with its generation, or a full one, new or shared; the rounding up of the time covers the missing units (`WaitCovers`), and the header with what its rounding may drop covers the time (`PatienceCovers`) |
| `FailuresAreAccounted` | `FailuresAccounted` | `AccountInv`: failures are written, lost, counted by the gate or in the hands of a request, as an equation between sums over the kinds and the requests; a step changes each sum at one place |

**Sums.** The sums of `FailuresAccounted` are folds over finite sets. That a fold
changes by what one of its terms changes (`TotalMoves`) is proved without induction
over an operator parameter: among the counterexamples, finite sets all, one has the
least cardinality (`LeastOf`, from the well-foundedness of `<` on the naturals), and
the removal of one element gives a smaller one.

**Only model-checked.** The liveness properties `RecycleBinDrained`,
`RunningSettles` and `StopReturns`: liveness under fairness is out of TLAPS's reach,
as is `ENABLED`. No module declares a recursive operator. `InitialOwnerOnce` is proved, as
part of `AnOwnerRemains`, and has no run.

## 5. What is not modelled

* `List` of credentials (its cursor works like the one of assets, which is
  modelled), names, types and reasons; validation of payload fields; filters of
  listings other than the Space; the text of audit events; listing and purge of the
  audit trail; `ListUsage` of agents: they only read, the purge apart.
* HTTP and JSON decoding, schemas and transport of MCP, signatures of tokens.
* Cryptography: sealing is injective, hashes have no collisions.
* `storage.Open` and the migrations, which run before any service does; owners and
  permissions of files. A SQL transaction is atomic and durable (`storage.WithTx` on
  one writer connection, WAL); a reader sees the last commit at each statement.
* Wiring and flags, offline operations, the web client, release scripts: see the
  components marked `not_modelled` in `PROJECT.json`.
* `Allow` of the limiter, before the bootstrap: see section 2.
* Operations called by tests only: the unaudited variants in `spaces`, `Check` of the
  limiter.

## 6. Findings

* `tornread`: a read takes the payload in one statement and the tags in a later
  one. If an update relabels the credential in between, an agent limited to the new
  label is given the payload of the old version. For updates the version check
  of the last transaction rules this out (`UpdateAuthorizedAtCommit`).

Two more divergences from the design document
(`docs/superpowers/specs/2026-07-28-opswarden-design.md`) are part of the models and
have no run of their own. A credential deleted on a fraction of a second may be
purged up to a second before its thirty days are over
(`credentials/service.go:1142`; line 360 of the document), because the text of the
time does not sort like the time; `RecycleBinRetention` states what does hold. An
agent's second delete of the same version under a fresh key is answered with
`NOT_FOUND` (`credentials/service.go:718`), where line 361 has it succeed.

## 7. Plan

Done: the policy; credentials with their abstract specification; identity with the
handler of login; backup with crashes and losses of power; the scheduler; the
limiter, the failure gate and their use in login; agents and the pipeline of their
requests; Spaces, assets and listings; theorems about all of these, which state all
the properties of the passing runs but the three of liveness (section 4).

Next, in this order:

1. Audit retention and cursors, `List` of credentials.
2. Migrations; offline operations against `Backup`.
