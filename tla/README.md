# Verification of the Ansatz agent platform

This directory holds TLA+ models of the platform's own code, TLC configurations
that check them on small instances, and TLAPS proofs. Paths are
relative to the repository; `gateway/` stands for `services/trace-gateway/`.
Run `tlc -config MCx.cfg MCy` and `tlapm xProofs.tla` in this directory.

## The system

Clients upload OTLP trace batches to the **Trace Gateway**, which authenticates
them against the auth service, canonicalizes and redacts them, stores them in a
durable inbox, answers `accepted` or `duplicate`, and delivers them to Langfuse
in FIFO order. The rest of the repository deploys this: compose and nginx files,
and scripts that migrate storage, remediate ClickHouse and edit the proxy.

| Component | State | Operations | Talks to |
|---|---|---|---|
| Durable inbox, `gateway/internal/inbox` | five bbolt buckets (sequence, batches, fifo, receipts, quarantine), `closed`, `writeMu`; what the disk holds | Open, Accept, PeekEligible, NextRetryAt, MarkRetry, MarkDelivered, MarkQuarantined, CollectReceipts, ReplayQuarantined, ReplayAllQuarantined, Sync, Close | everything below |
| Delivery worker, `gateway/internal/delivery` | the batch in flight, the trigger channel | Run, deliverHead, wait, Trigger | inbox, upstream |
| Process, `gateway/cmd/gateway` | contexts, done channels | runGateway, superviseGateway, shutdownGateway, runReceiptGC, Send, replay-quarantine | all goroutines |
| Upload server, `gateway/internal/server` | the request | serveTrace, health | introspector, limiter, inbox, Trigger |
| Rate limiter, `windowLimiter` | table of windows | Allow | serveTrace |
| Introspection client, `gateway/internal/auth` | none | Introspect | auth service |
| Canonicalization, `gateway/internal/otlp` | none | Canonicalize | serveTrace |
| Redaction, `gateway/internal/redact` | none | attribute rewriting | Canonicalize |
| Storage guard, in `store.go` | none; reads the file's size and the free space | Check | Accept, replay |
| Storage migration, `deploy/voice-trace/scripts/migrate-storage-on-host.sh` | two copies of the data, mounts, fstab and its backup, marker files | stage, cutover, verify, retire, cleanup, rollback | the containers, the host |
| ClickHouse remediation, `scripts/remediate-clickhouse-logging.sh` | Compose file and settings on the host and in the container, backup, evidence | one run with its EXIT trap | Podman, ClickHouse |
| Reverse proxy, `scripts/configure-voice-trace-npm.sh` and `update_npm_compose.py` | Compose file, the manager's database, the generated nginx file | one run | the proxy manager |
| Deploy, bootstrap and check scripts | files, containers | one run each | the host |

What is hard about it:

- *Durability.* The database runs with `NoSync`. A commit is visible to readers
  at once; only the fsync after it makes it survive a power loss, and that fsync
  may fail with the commit still visible.
- *Concurrency.* Readers do not take `writeMu`. The worker reads the head, sends
  it for seconds and then marks it, while handlers accept, the collector
  deletes, and the supervisor closes.
- *Liveness.* A coalesced wakeup, a FIFO head that may be delayed by the
  upstream, a worker that dies on any inbox error, and a shutdown in which
  everybody waits for somebody.
- *Bookkeeping.* Five buckets that have to agree after any sequence of
  transactions, and orders (FIFO, eviction, replay) that hang on one counter.
- *Late arrival times* in the limiter; durations at the edge of 64 bits.
- *Interrupted migrations*: two copies of the data, of which mounts, fstab and
  marker files say which one is live.
- *Rollbacks that fail*: the migration's rollback goes on over what it cannot stop
  or unmount; the remediation's trap runs remote commands that may fail like those
  it undoes, and then gives a verdict.
- *Two owners*: the proxy manager writes the generated file anew from its
  database while the updater edits both.
- *A recursive walk with limits* over attributes, lists and JSON in texts, in
  Go's random map order.

## Modules

| Module | Models |
|---|---|
| `InboxStore` | the store as a value, one operator per bbolt transaction, and `Consistent`, what every committed store satisfies |
| `TraceLedger` | what an inbox promises, abstractly: payloads kept, durable and promised |
| `TraceInbox` | `BoltStore` under arbitrary callers: commit and fsync as separate steps, fsync errors, Close, reopening, kills, power losses, writeback; shown to implement `TraceLedger` |
| `StorageGuard` | `projectedAcceptanceGrowth` and `fileStorageGuard.Check`, in integers of limited width |
| `TraceGateway` | handlers, health checks, worker, collector and supervisor, composed on `TraceInbox` |
| `Admission` | `serveTrace` up to its answer and `Introspect`, against an auth service that changes and answers unreliably |
| `TokenAccounting` | `projectLogicalAccounting` and `relayUsageDetails` over a session that is uploaded in batches |
| `Redaction` | `redact.Attributes`, `withoutCanonical` and the identity attribute: what becomes of the attributes of one span, as a reader of the export finds it |
| `RetryPolicy` | `classify`, `fullJitter`, `parseRetryAfter` as functions |
| `RetrySchedule` | one batch failing again and again under the options `New` settles |
| `RateLimiter` | `windowLimiter` with delayed and reordered arrival times |
| `StorageMigration` | the phases of the migration, the services writing meanwhile, failures, interruptions, reboots |
| `ClickhouseRemediation` | the remediation, its trap, failures of both, kills and a second run |
| `ProxyUpdate` | the proxy's configuration in three places, interrupted runs, edits in the manager |
| `SetLemmas` | lemmas about finite sets, sums over them and least numbers, which several proofs share |
| `TraceInboxProofs` | theorems about the inbox, its transactions, its promises and the refinement |
| `TraceGatewayProofs` | theorems about the composed gateway |
| `AdmissionProofs`, `RateLimiterProofs` | theorems about admission and the limiter |
| `IntegerLimitsProofs` | theorems about `RetrySchedule` and `StorageGuard`, which compute at the edge of their integers |
| `CanonicalizationProofs` | theorems about `TokenAccounting` and `Redaction`, the two halves of `Canonicalize` |
| `OperatorScriptsProofs` | theorems about `StorageMigration`, `ClickhouseRemediation` and `ProxyUpdate` |
| `MCTraceInbox`, `MCTraceGateway`, `MCGatewayParts`, `MCUploadsAndScripts`, `MCStorageMigration`, `MCRemediationVerdict` | instances for TLC |

`MCGatewayParts` instantiates `Admission`, `RetrySchedule` and `StorageGuard`, and
`MCUploadsAndScripts` instantiates `RateLimiter`, `TokenAccounting`, `Redaction` and
the three scripts. The modules put together this way have no variable
in common and never interact: `part`, which no step changes, picks one for a
behaviour and the others stand still. Each part has exactly the behaviours it has
alone; nothing is claimed about them together. Their names are distinct for that
reason (`LimiterTypeOK`, `MigrationSpec`, ...).

### Durable inbox

A store is a record of the sequence counter and four maps. `db` is the committed
content and `disk` what a power loss leaves; a transaction changes `db` and
starts its caller's fsync (`writer`), `SyncDone` copies `db` to `disk` and
acknowledges, `SyncFailed` does neither, as `updateAndSync` and `Accept` do. One
caller has `writeMu` from its commit to the end of its fsync, so `CanWrite`
requires `~writer.busy`. Every caller is possible at any time, with the clock of
its choice in the past. `Kill` drops the process and keeps the page cache;
`PowerLoss` drops both; `Writeback` persists without fsync.

`owned` and `vouched` are history: what has been answered `accepted` and
`duplicate` and has not been delivered, expired or evicted since.

`Ledger` shows the inbox as a `TraceLedger`: `visible` is what `db` holds, queued
or in quarantine, `durable` what `disk` holds, `promised` is `owned`. A commit of
Accept is a `Put`, deliveries, expiry and eviction are a `Discharge`, an fsync or
a writeback is a `Flush`, a power loss is a `Crash`; retries, quarantine, replay,
duplicates and reads do not show. The ledger promises only what was answered
`accepted`: what was answered `duplicate` is the subject of a finding.

Abstractions: a payload is its digest; the storage guard (see there), a malformed
request and a cancelled context are refusals that change nothing; a power loss leaves a
whole committed state (which of them a half-written bbolt file leaves is bbolt's
matter, and with `NoSync` a real file may be worse); a failed fsync leaves
`disk` as it is, although pages may have been written (`Writeback` covers that).

### Storage guard

`CheckRecord` is the check in the transaction of Accept or replay, against the
limits the inbox was opened with: the gateway's two, which `loadRuntimeConfig`
requires to be positive, or none, as the replay command opens the inbox with
`inbox.Options{}`. The width of the integers is `MaxInt`; `Room`
is the reference in unbounded ones. Other transactions grow the file unchecked
and other programs use the file system, but not between a passed check and its
commit in the file's size: `writeMu` is held. What bbolt adds to the file is
zero, a page or all of the projected room, and bounded by what is free. Only
transactions of one record are checked: a replay of several batches checks each
against the same file size before any is committed, but it is only run by the
replay command, without limits.

### Gateway

Goroutines interleave at their calls. Each inbox write is two steps, and
`holder` says whose it is, so that a crash, a shutdown or another reader can
come between. The worker's program counter follows `Run`: peek, send, one of
three Mark calls, fsync, look (`NextRetryAt`), wait. A send returns any of
`Responses`; what it returns goes through `RetryPolicy!Classify`. An error of
the inbox ends `Run`; the goroutine around it cancels the collector, joins it
and reports. The supervisor follows `superviseGateway`: a signal drains, cancels
and joins; a failed listener cancels and joins; a lost worker drains and exits.
`Exit` and `Crash` end every goroutine where it is; `Restart` reopens the inbox.

The part of `serveTrace` before Accept decides only whether Accept is called, so
`HandlerReceive` is free to call it with any key and digest; `Admission` models
it. The replay command is not a process here, since bbolt's file lock excludes it
while the gateway runs; its transactions are in `TraceInbox`.

### Admission

A request passes `serveTrace`'s checks in their order: form, introspection,
limiter, body, Accept. `ServiceAnswer` is the moment the auth service looks the
token up and `Introspected` the moment the gateway acts on the answer; tokens
rotate and expire and sessions are revoked before, between and after. The
answer may be lost (a timeout, an error status, broken JSON), lack fields, or
carry an unknown reason; it does not contradict the service's state, and the
gateway's clock may disagree with the service's about expiry. A batch id has two
spellings, of which `validatedHeaders` keeps the lower-case one. A body is cut
off, damaged, or the one whose digest was declared; whether it canonicalizes is
open. Accept is a map update here, and may store without acknowledging.

### Token accounting

`Upload` canonicalizes the next spans as one batch; `Accounted` is
`projectLogicalAccounting` and `UsageDetails` is `relayUsageDetails`, path by
path, with the 64-bit sum as `Wrapped`. The environment ends spans: an attempt
has a bill, and reports it in one of three conventions, contradicts itself
(`Odd`), or reports nothing; a call ends after its attempts and accounts for the
last one. A usage is a partial map from paths to counts, so what is not a
non-negative integer is simply absent. Assumed of the client: the attempts of a
call follow one another, and spans are uploaded in the order they end. Redaction
runs after the projection and keeps 256 attributes of a span: `room` is what an
attempt has left below that limit, and `Accounted` cuts what is appended, with a
usage counted as one attribute.

The model also shows a limit of the code: a call that is uploaded after its last
attempt finds no attempt in its batch, and its usage reaches Langfuse nowhere.
`LastAttemptAccounted` is therefore about calls and attempts in one batch, and
about attempts with room for what is appended.

### Redaction

A value is a tree. What the patterns of redact.go tell apart is a class of text
or key: a text is plain, a private key, a bearer token or a data URL, or it parses
as JSON; a key is one of raw audio, of a credential, canonical, or ordinary. A text
with a private key in it is one of that class, also if it would parse. `Values`
and `JSONs` are what clients upload and what is in it, closed under "is in";
`Uploads` are the attributes of a span. The operators give the *set* of results
that some order of Go's maps leads to. The four recursive functions of the code
call each other one level deeper only, and end past `MaxDepth`: `Level` is what
they do at one level, given what they do `below`, and `Sanitized` the function from
levels to that.

A reader then compares. From the attributes of the span it goes down the upload
and the export alike (`Follow`): by the ways out of a node, what each costs of
the depth, and whether the walk keeps it. `ContentSurvives` says that each leaf it
comes to has its image in the export, at the same place. Or it goes down the
export alone (`Browse`), and `PrivateIsGone` says that nothing private is there to
be found. `RedactionIsExact` is both. Neither knows of the walk. Depth 12 and width
256 are constants, 3 and 2 in the run. JSON numbers become doubles, so that an
integer above `MaxExact` is rounded: the model has it (`Double`). Past the depth
the code looks at a text but does not parse it; nothing is claimed about what is
in such a text.
The rendering of nested relay payloads and model names is left out.

### Retry policy

`Wrapped` is the two's complement product of `time.Duration`; `MaxDuration` and
`Second` shrink it so that TLC meets the edge. Jitter is in percent and may be
out of range, as `Random` is an option.

### Rate limiter

Requests carry the time they arrived, and `Allow` runs up to `MaxDelay` later
(the introspection client's timeout), so `now` may be any of the last
`MaxDelay + 1` clock values, in any order. A used-up limit and a full table are two
ways to one answer, `limited`, as in the code (server.go:455-464, 184-187): a client
cannot tell them apart, and other sources may therefore cost a source its share.
`RefusedForCause` states which causes there are and that there are no others.

### Storage migration

Trees are `graphroot` (Podman's storage and its CNI state) and `service`
(release and auth data). A file is the number of the write that left it, which
doubles as its modification time for `cp -u`. `step` is the command the script
executes next; `CutoverFails` is a command that fails and sets off the ERR trap,
`Interrupt` the lost connection (and `die`, which exits without the trap), `Reboot`
remounts what fstab lists. `attached` is what the running services use on /data: it
is settled when they are started and does not follow later mounts. `direct` says
that the containers were recreated with `/data` volumes, as the runbook asks before
the legacy binds are retired. `latest` is what the services last wrote or what a
rollback restored.

A rollback, as a command or in the trap, takes the script's steps one by one, and
any of its stops and unmounts may fail, for all of them have `|| true`; whatever
happens, fstab.before is installed, and the containers that do not run are started
on what is mounted by then. `passedOver` records that fstab was restored with a
container still on /data or a bind still mounted. From then on fstab and the mounts
disagree, the next reboot moves the services to the other copy, and neither
`ServicesKeepTheirData` nor `RebootKeepsView` can be had: both make this one
exception, and `RollbackRestoresRootData` is the run that shows the case itself.

The release's own directories are copied with pruning in both phases, and the
script's state (fstab.before, the markers, the list of containers) is in the new
release's evidence directory. Where the old release has one too (`evidence`),
`PruneState` deletes that state. The model shows what follows: stage cannot write
its marker; a cutover finds no place for the new fstab, and its trap gives up
without fstab.before, with the services stopped. No data is lost by it, and no
document speaks of this case.

Assumed: a file is copied whole or not at all; the services of a tree stop and start
together; a reboot starts them. With `InOrder` the operator follows the runbook
(docs/runbooks/storage-auth-personal-traces.md:198), rolls an interrupted cutover or
rollback back before anything else, and stages again after a rollback and after a
stage that failed. The last three are assumptions the runbook does not spell out, and
they matter: without them TLC finds that a second cutover after an interrupted one
saves the *managed* fstab as `fstab.before`, so that the rollback restores the binds
and the next reboot moves the services to a stale copy.

### ClickHouse remediation

Each remote command that changes something is an action, each can fail, and a
copy can fail half-way (`"broken"`); the backup, installed files, container and
running settings are apart. The trap is the actions from `RestoreCompose` to
`Judge`, of which the two `Fails` go on as the script does. `ignored` records
that a command failed whose failure the script ignores: `podman stop ... || true`
in the rollback (line 95), and `podman cp` in the backup (line 72), where any failure
counts as "the setting was absent". After such a failure the verdict "previous
configuration is active" may be false, which is a finding (`PreviousIsActive`);
`RollbackVerdictOtherwiseTrue` is what the verdict is still worth: the files on the
host always, the container and ClickHouse without such a failure. Queries, truncation of the log tables and evidence are left out.

### Reverse proxy

`read` is what the updater holds between its steps. `Edit` is the manager: it
changes its database, writes the generated file from it and reloads nginx. The
model shows two things no document speaks of: an edit between the SELECT and the
UPDATE is overwritten, since Python's sqlite3 opens no transaction for a
SELECT, and one between reading and replacing the generated file leaves it older
than the database, until the next edit. `ProxyStaysConfigured` is what holds
despite that. A forced recreation that fails half-way leaves no container
(`RecreateFails`): the proxy then serves nobody, and its manager edits nothing,
until a later run. An edit is atomic.

## Runs

| Run | Shows | Bounds |
|---|---|---|
| `inbox` | `ImplementsLedger`, `StoresConsistent`, `AcceptedSurvivesPowerLoss`, `EvictionKeepsNewest`, `QueueOrderStable` | two batches: a pair is what every order and every index clash needs; cap 1, so one of two is evicted; three sequence numbers: two accepts and a replay |
| `inbox_one_key` | `TypeOK`, `ReceiptsOutliveRetention`, `DuplicateSurvivesPowerLoss` (no fsync errors) | one batch with two payloads, four ticks: a receipt expires and the batch is accepted afresh |
| `inbox_duplicate` | violated: `DuplicateSurvivesPowerLoss` with fsync errors | |
| `inbox_replay` | violated: `ReplayInAcceptanceOrder` | five sequence numbers: two accepts and three replays |
| `inbox_eviction` | violated: `EvictionInAcceptanceOrder` | three sequence numbers: two accepts and a replay; cap 1 |
| `gateway` | `GatewayTypeOK`, `InFlightIsHead`, `DeliveredWasReceived`, `NoLostWakeup` | two batches, one handler, one fault at any point, one answer of each class |
| `gateway_live` | `OwnedLeavesQueue`, `DeadWorkerEndsAdmission`, `ShutdownEnds` | one batch, two faults: a crash during the recovery of another |
| `parts_of_gateway`: admission | `TypeOK`, `NoFalseRevocation`, `GoodStandingIsRetried`, `StoredWasActive`, `AcknowledgedIsStored`, `OneBatchPerId` | one account (sessions do not interact), two requests: the pair that can clash on an id; two spellings, two payloads, two token generations |
| retries and the guard | `StallBounded`, `RetryAfterHonoured`, `BackoffDoubles`, `GuardExact` | every combination of 5 answers of Random, 18 headers and 20 options, 6 retries: past every ceiling. Guard: 8-bit integers, two page sizes, allocation chunks and records up to the largest integer |
| `uploads_and_scripts`: the limiter | `LimiterTypeOK`, `TableBounded`, `RateBounded`, `RefusedForCause`, `WindowsRunOut` | three sources for two windows, a window of 3 in 5 ticks: a window runs out, the next one starts, and a late request meets both |
| accounting, redaction | `TypeOK`, `ReportsShowTheBill`, `LastAttemptAccounted`, `NothingCountedTwice`, `RedactionIsExact` | one call (calls share no spans), three spans: two attempts and the call, or one attempt, the call and another part of it; batches cut anywhere; a bill with every kind of token and one with few; room for the usage only, or for usage and cost. Redaction: three nestings around a leaf and a depth of 3, so that the limit is passed; lists and objects one wider than the width of 2 |
| the scripts | `MigrationTypeOK`, `ServicesKeepTheirData`, `RebootKeepsView`, `RollbackVerdictOtherwiseTrue`, `ProxyStaysConfigured` | two files, three writes: before the staging, between it and the cutover, and on the copy. Two runs of the remediation: a second one on what a first has left. Three edits in the proxy manager: before, during and after a run |
| `migration_cleanup` | violated: `CleanupClearsOnlyCopies` with any order of phases | |
| `migration_rollback` | violated: `RollbackRestoresRootData` with the runbook's order of phases | |
| `remediation_verdict` | violated: `PreviousIsActive` | one run, on a host that has none of the settings: what is backed up as absent is absent |

Deadlock is checked in every run but the two that put parts together, where the
retry schedule ends after its last retry, the accounting when every span is
uploaded, and the remediation after its last run, and `remediation_verdict`, for the
same reason.
Keys, digests, requests, payloads and files are interchangeable and the safety runs
use that as symmetry; `gateway_live` uses none.

`RateBounded` is deliberately what a fixed window can promise: two windows meet
at a boundary, so twice the limit passes in a window's time, and delayed arrival
times shorten that time by their delay.

### What the violated runs show

1. `inbox_duplicate`: Accept commits, its fsync fails, the client gets 503 and
   uploads again; the receipt is there, so the answer is `duplicate`, without an
   fsync (store.go:212). After a power loss the batch is gone, while the runbook
   (trace-upload-continuity.md:21) lets the client drop its copy. The comment at
   store.go:210 considers only duplicates of batches that were acknowledged.
   `inbox_one_key` and the theorem `DuplicateIsDurable` show that the failed
   fsync is the only way there.
2. `inbox_replay`: replay hands out new sequence numbers, and later replays sort
   by them: a batch quarantined twice comes behind batches accepted after it. The
   comment at store.go:468 and the runbook promise the original acceptance order.
3. `migration_cleanup`: rollback leaves the `verified` and `retired` markers, and
   cleanup looks at nothing else: after stage, cutover, verify, retire and
   rollback it deletes the data that the services have just been restored to.
4. `inbox_eviction`: the same renewed numbers order the eviction. Two batches are
   accepted, the first is quarantined and replayed, both are quarantined, and
   the second is evicted. The comment at store.go:428 says "by original acceptance
   sequence". `EvictionKeepsNewest` is what holds: newest by the current number.
5. `migration_rollback`: a mount of the cutover fails, the trap's rollback cannot
   unmount what was mounted before it and goes on (`|| true`, lines 176-181), installs
   fstab.before, starts the services on /data and reports that the root file system
   data is restored (line 186). What they write from then on is lost to them at the
   next reboot.
6. `remediation_verdict`: the rollback's `podman stop` fails and is ignored (line 95).
   The old settings are put back under a running ClickHouse, which `podman start`
   leaves alone, and the script reports that the previous configuration is active
   (line 102).

## Fairness

Only `gateway_live` assumes any. Goroutines that can run do run; `writeMu` is a
`sync.Mutex`, which hands itself over in FIFO order once a waiter starves, hence
strong fairness of its takers; the collector is fair in finishing its fsync and
in stopping, not in ticking; health checks need not come; the container has
`restart: unless-stopped`, hence `Restart`; and the clock advances. Nothing is
assumed of clients, signals, crashes or answers of the upstream, with one
exception: `MaxAttempts` bounds retryable answers for one batch, so
`OwnedLeavesQueue` says that a batch leaves the queue *provided the upstream
eventually gives it an answer that is not retryable*. An upstream that is down
for ever keeps the queue for ever, by design.

## Proofs

Every theorem is for all values of the constants: any finite set of keys, any
digests, retentions, caps and bounds, any page size, width or limit. The proofs
assume what the modules' named ASSUMEs say: keys are finite, Absent is not a
value, bounds are naturals, options positive as `Open` makes them.

### Inbox

- `TypeCorrect`, `StoresStayConsistent`, `AcceptedIsDurable`: `[]TypeOK`,
  `[]StoresConsistent`, `[]AcceptedSurvivesPowerLoss`
- `DuplicateIsDurable`: `SyncMayFail = FALSE` implies `[]DuplicateSurvivesPowerLoss`
- `QueueKeepsOrder`, `ReceiptsLast`, `EvictionFollowsNumbers`: the action properties
  `QueueOrderStable`, `ReceiptsOutliveRetention`, `EvictionKeepsNewest`
- `InboxImplementsLedger`: `Spec => Ledger!Spec`; `PromisesAreKept`: the ledger keeps
  its promises; and from both, `InboxKeepsPromises`: so does the inbox

`AcceptedSurvivesPowerLoss` speaks of the disk and is not inductive: an fsync
copies `db` over `disk`, so `db` has to hold every owned payload as well, and what
the running fsync is about to acknowledge has to be in `db` already. That is
`OwnershipInv`. Its preservation by deliveries and replays needs the stores to be
consistent (a replay must not overwrite a queued batch), so the inductive
invariant is `IInv == TypeOK /\ StoresConsistent /\ OwnershipInv`.
The lemmas of `TraceInboxProofs` show of each transaction that it maps a consistent store to
a consistent one and which payloads it keeps; `CommitsAreSound` lifts that to the
actions, so that the induction step treats all eight transactions as one kind of
step (`CommitStep`) and the remaining actions one by one. `ReplayTxGood` is the
hardest of them: any set of batches gets new numbers in any order, and batches
and FIFO must stay inverse. For duplicates, `DuplicateInv` adds that between calls
nothing is unsynced, which is what a failed fsync breaks.

The action properties hold of a step of a running inbox whose store is
consistent: `StepSound` says for each transaction that a batch that
stays keeps its number and that new numbers exceed the counter, that receipts
go only if they are expired, and that collection leaves a full quarantine when it
evicts. The last rests on `Largest`: of distinct numbers, those with fewer than
n above them are exactly n, and the largest, if there are others. Its proof
takes least and largest elements from the library's theorem that strict inclusion
of finite sets is well-founded, in place of an induction.

The refinement is proved as each step of `IInv` mapping to a step of the ledger or
to none. Accept puts a key that was free; delivery, expiry and eviction discharge;
retry, quarantine and replay keep what is held, which is where `IInv` is needed;
an fsync flushes and promises what its caller is told.

### Admission

`AdmissionTypes`, `RevocationsAreTrue`, `ActiveTokensAreRetried`,
`StoredTokensWereActive`, `AcknowledgedBodiesAreStored` and `BatchIdsAreUnique` are
all its invariants. `AdmissionInv` says of each request what its
program counter entitles it to know: what it has heard was true, and stays true
because sessions end and tokens are spent for good (`Evolves`); past
introspection its token was active during the request; at Accept its body has the
declared digest. Answers are sound when they are given, and an answer once given
stays sound because of `Evolves`. What is stored has a lower-case id, which makes
ids unique.

### Gateway

- `GatewayTypeCorrect`, `InFlightStaysHead`, `DeliveredIsTrue`, `WakeupsArrive`:
  `[]` of `GatewayTypeOK`, `InFlightIsHead`, `DeliveredWasReceived`,
  `NoLostWakeup`, all the invariants of the run
- `CloseComesLast`: in a running process the inbox is closed only after the worker
  and the collector have ended
- `GatewayRunsInbox`: `GatewaySpec => Spec`, and with it `GatewayKeepsPromises`:
  the gateway inherits the theorems about the inbox, the ledger included

Each step of the gateway is shown to be a step of `TraceInbox` or none
(`GatewayStepsInbox`), so that `IInv` holds in the gateway too. On top of it,
`GatewayInv` is inductive:

- `LockInv`: `holder` is the goroutine whose program counter is at an fsync, and
  the transaction in `writer` is that goroutine's. Without it an fsync could be
  anybody's, and its end could move anybody on.
- `ShutdownInv`: how far the supervisor has come bounds what the others still do;
  the inbox is closed only after all of them have ended.
- `UploadsInv`: a handler in a call has an upload, the worker past its peek has a
  batch, and what it is about to mark as delivered was received.
- `InFlightIsHead`, whose step rests on `OthersLeaveHead`: Accept appends behind
  the head, collection does not touch the queue, and only the worker marks.
  Two facts about `FifoHead` carry that, `HeadIsFirst` and `FirstIsHead`: a queue
  has the same head as long as its least number stays (`AcceptKeepsHead`).
- `DeliveredWasReceived`, which needs `InFlightIsHead`: MarkDelivered writes
  the digest of what is queued, and the upstream received the digest of what was
  read.
- `WakeupInv`: before the worker reads the retry time it is going to wait for,
  either that time or a wakeup covers what is owed. `NoLostWakeup` alone says
  nothing of a worker that does not wait yet.

The proofs assume of handler names that none of them is `"worker"`,
`"collector"`, `"health"` or `"supervisor"`, since `holder` ranges over both;
`GatewayAssumption` states it. TLC finds `GatewayInv` invariant on the run's
instance, which was how it was found.

### Rate limiter

`LimiterTypes`, `TableStaysBounded`, `WindowsLast`, `RateIsBounded`,
`RefusalsHaveACause`: every property of the limiter. The bound of the table needs that
purging never adds windows (`SizeMonotone`), and `WindowsLast` that a late
request's purge keeps what has not run out by that request's time.

`RateBounded` counts admissions over time, which the code does not record. Its
induction says of each source (`SourceInv`, with the clock value `c`):

- what got through more than `MaxDelay` after the start of its window is counted
  in that window;
- what got through since `c - Apart + 1` is at most a limit for earlier windows
  plus the count of the current one, where `Apart` is `Window - MaxDelay`;
- without a window, it is at most a limit. That is the step which purging might
  break: a window that is over for a late request is over by now, and then what
  was let in since `c - Apart + 1` was all counted in it.

An interval of `Apart` clock values that ends now is thus below two limits, and
one that ended before does not change. The converse, that a window's count is not
more than what it let through, gives `RefusedForCause`: a window at its limit let
that much through lately, and the windows of a table that a purge leaves full belong
to sources that each got something through lately (`LiveIsLate`, `FullIsCrowded`).
The sums are the
library's fold over a set. Its recursion has no induction principle that the
provers can use; `SumExists`, `SumUnique` and the `Total` lemmas therefore argue by
the least counterexample, which exists since inclusion of finite sets is
well-founded (`LeastSet`).

### Token accounting

- `BillsAreShown`, `LastAttemptsAreAccounted`, `NothingIsCountedTwice`:
  `[]ReportsShowTheBill`, `[]LastAttemptAccounted`, `[]NothingCountedTwice`, for any
  bills, calls, attempts, spans and cuts into batches
- `CountsStayCounts`: `[]TypeOK`, if `OddCountsFit`

`AccountingAssumption` says of a bill that its tokens are few enough for an int64;
what an attempt's own report says beyond its bill (`Odd`) is arbitrary, except in the
last theorem. There a usage that contradicts itself may still not hold counts of
which five exceed the largest int64: `relayUsageDetails` adds the parts without a
check, and the sum would wrap. The clamps of `subtractTokenDetails` do the rest.

There are two halves. The first is about `UsageDetails` alone: which paths each
convention fills and which of them decides (`FirstIs`, `ChatCounts`,
`ResponsesCounts`, `MessagesCounts`), what is left of input and output
(`KindsOfReport`), that the sum over the kinds that are there is the sum of five
numbers (`PartsSum`), and so that the details show the bill (`ReportShows`).

The second is the induction. `LastAttemptAccounted` is not inductive. A span that
ends must not belong to a call that was uploaded before, or else it would be the
call's last attempt: `CallsEndLast` says that a call ends after all of its spans
and accounts for the last of them. The latest attempt in a batch is found by time
and then by place, so that times have to ascend (`EndedInOrder`): then what
`IsLatestAttempt` finds is the last one of the call among those in the batch
(`LatestIs`), and every attempt is accounted for by at most one call (`AccountingIs`).
An observation bears the number of spans uploaded before its batch
(`UploadedInv`), which decides whether call and attempt came together. Their
conjunction is `AccountingInv`. `Shown` in it says what an observation may hold
at all: what the attempt reported, what its call accounts for, or nothing; that
makes each attempt show its bill or nothing, and `TotalOrdered` sums it up. TLC
finds `AccountingInv` to hold on the instance of the run `uploads_and_scripts`.

### Redaction

- `RedactionHolds`: `[]RedactionIsExact`, for any values nested in any way, any depth
  and width, and every order of Go's maps

`Sanitized` is defined by recursion from the deepest level up. That such a function
exists is shown by `SanitizedExists`, with the least number of levels that it
could not be extended over; `Without` likewise, from the first attribute on. After
that, no proof needs a recursion: each of `CleanedAt`'s kinds of nodes is opened
once (`ArrayIs`, `ListIs`, `ObjectIs`, `ListOfAttributesIs`, `ParsedIs`).

`ReaderInv` is inductive because it follows a single step of the reader. Going down
both, what the export has at its place is what cleaning makes of the node there
(`AtNode`), or [REDACTED] (`AtCredential`); `WayKept` is that any way the walk keeps
leads to such a place again, at the depth that the four functions give it.
Browsing the export, it is at something clean: [REDACTED] or what cleaning makes of
*some* node (`IsClean`); `WayGone` is that every way out of it leads to something
clean, and not under a forbidden key. The two directions need different facts:
one that nothing before a node shifts or cuts it, the other that everything in the
export comes from somewhere. That a JSON node in a text costs the reader the same
depth as the walk (`JSONEnd`, `CleanJSON`) is where both could fail: a text
in JSON counts twice, once as a value and once as a text.

The assumptions are the shapes of OTLP and JSON values, and that the keys the
gateway itself adds are canonical. TLC finds `ReaderInv` to hold on the instance of
the run `uploads_and_scripts`.

### Retry delays and storage guard

- `StallsAreBounded`, `RetryAfterIsHonoured`: `[]StallBounded` and
  `[]RetryAfterHonoured`, for every width of a duration, option, answer and jitter
- `BackoffKeepsDoubling`: `[]BackoffDoubles`, by `BackoffStep`: the backoff starts
  from the base and doubles, until twice the delay would come to the ceiling
- `GrowthIsExact`, `GuardIsExact`: the projection is `Room`, or the largest
  integer exactly if `Room` does not fit one; `[]GuardExact`

All of them rest on a few facts about division: the code compares counts of
pages, or of seconds, against a quotient, and the claims compare products.
`WholeFit` says that these agree, so that the product of `parseRetryAfter` never
wraps. `Backoff` and `PowerOfTwo`, against which it is measured, are recursive
functions; what they are is shown up to each number of attempts by the least
counterexample (`LeastNumber` of `SetLemmas`). `BackoffDoubles` as it stands does not survive a
doubling, since its bounds double their slack of one: `Doubles` says instead that
the backoff is the doubled base exactly, or the ceiling, which is then at most one
above the doubled base.
`GuardInv` adds to `GuardExact` that a check that passed saw the size that the
file still has. The assumptions on answers and jitter are their types.

### Operators' scripts

- `MigrationTypeCorrect`: `[]MigrationTypeOK`, in whatever order the phases are run
- `RebootIsSafe`, `MigrationKeepsData`: `[]RebootKeepsView` and
  `[]ServicesKeepTheirData`, for any files and writes, assuming `InOrder`, the
  operator's order of phases (see the module above). Both properties except the time
  after a rollback that has passed over a container or a bind; what is proved is that
  there is no other exception
- `VerdictIsOtherwiseTrue`: `[]RollbackVerdictOtherwiseTrue` for any number of runs:
  the host's files without exception, the container and ClickHouse unless the run
  passed over one of the two failures
- `ProxyUpdateHolds`: `[]ProxyStaysConfigured` for any number of edits

`MigrationInv` is `TypesInv`, which needs no order of phases, and `OnCourse` as long
as nothing was passed over. `OnCourse` says that fstab always leads to what the
services last wrote, also while they are down, since a reboot may come at any time
(`FstabLeadsToData`), and to the copies they use (`AttachedAsListed`); that the staged
copy is never newer than its original (`CopyIsOlder`), without which the `cp -u` of a
cutover would keep a stale file, and equals it before fstab sends anyone there
(`CopyComplete`); and what is mounted and listed between the commands (`AtRest`),
within a cutover (`InCutover`) and within a rollback (`InRollback`). Each of these
parts is shown to survive every step by a lemma of its own.

`RemediationInv` says what each stage of a run may rely on: the backup is what the
run found unless a copy failed and was ignored (`BackupFaithful`), until
`container_mutated` is set the container is untouched, and how much the trap has
put back if nothing failed (`TrapInv`). It needs that no verdict stands while a run
is on its way: otherwise an old one could outlive the state it was about.

`ProxyInv` says that what the updater has cleaned stays clean and that what it has
read is at worst older than what it replaces. TLC finds all three invariants to
hold on the instance of the run `uploads_and_scripts`.

### Model-checked only

- Liveness (`OwnedLeavesQueue`, `DeadWorkerEndsAdmission`, `ShutdownEnds`) and
  deadlock freedom: fairness and `ENABLED` are out of the prover's reach.

## Not modelled

- Deploy, bootstrap and check scripts: straight sequences of commands that read
  or create files once, without a rollback.
- The end-to-end trace sender: a test tool without state.
- The deployment's configuration: declarative. Its restart policy is assumed
  (`Restart`).
- In modelled parts: reading the environment in `main.go`; the rendering of
  relay payloads, model names and titles in `canonicalize.go`, which
  rewrites text without state; the patterns of keys and texts in `redact.go`,
  which are classes here; encodings, logging and evidence.
- Langfuse, the auth service, bbolt, the Desktop client and the proxy manager
  are other programs and appear as an environment.

## Plan

Done: inbox with its ledger and refinement, guard, gateway, admission, token
accounting, redaction, retries, limiter, migration, remediation, proxy; proofs of
all safety properties. Left:

1. The rendering of nested relay payloads, if a property beyond its wording is
   found.
