# Balanz: a formal model of its CFDI back end

Balanz is a multi-tenant application for Mexican accounting firms. An API process
accepts fiscal documents (CFDI) as XML or ZIP, or downloads them from the tax
authority (SAT) with a credential (e.firma) that a member entrusts to it for a
short time; PostgreSQL keeps durable queues; worker processes scan, parse and
publish the documents into the months of a taxpayer; members review and close
those months. Every process may crash, stall or be replaced at any time, object
storage, Redis and Vault are not transactional with the database, and requests,
heartbeats, reconcilers and cleaners run concurrently. This directory models that
back end in TLA+, checks it with TLC on small instances, and proves the main
invariants with TLAPS for every value of the constants.

Paths are relative to the repository's sources; `api/` stands for
`apps/api/src/`. PROJECT.json maps every definition to the lines it models and
lists the hazards of the code, each at its line, with the properties that cover it.

## 1. Inventory

| Component | State | Operations | Hard behaviours | Modules |
|---|---|---|---|---|
| Ingestion job queue (`api/modules/ingestion/services/ingestion-job.repository.ts`, SQL functions of `api/database/migrations/17876906*`) | `ingestion_jobs`: status, locked_by, lease_expires_at, next_attempt_at, automatic_retry_count, counters | claimNext, heartbeat, complete, failFinal, scheduleRetry, releaseForShutdown, cancellation, reconcile | expired leases with a live execution, lost answers, cancellation against publication, two places that charge the retry budget | `IngestionJobs` |
| Fair claims (`claim_ingestion_job`) | advisory lock per organization, last_claimed_at | list tenants, lock one, recount, update, commit | snapshots taken before other claims commit; starvation | `TenantClaims` |
| Worker runner (`ingestion-worker.runner.ts`) | executions, lostLease, cancelRequested, stopping | drain, execute, heartbeat chain, shutdown, reconciliation | claim in flight at shutdown, stale flags, grace period | `IngestionJobs` |
| XML processing and publication (`cfdi-worker-persistence.service.ts`) | `ingestion_items`, `cfdis`, `stored_objects`, `incidents`, `period_cfdis` | loadAndBegin, recordCleanScan, publishRejected, publishParsed, finishItem | a zombie execution publishing; duplicate fiscal UUIDs | `IngestionJobs`, `ArchiveIngestion`, `MonthlyWorkspace` |
| Direct XML upload (`xml-upload.service.ts`, `upload-receiver-heartbeat.ts`, `ingestion-idempotency.repository.ts`) | `ingestion_uploads`, `stored_objects`, bytes in storage | intent, receiver claim and renewal, confirm, fail, createJob | receiver takeover, lost answers, bytes against rows, expiry | `DirectUpload` |
| ZIP extraction and finalization (`archive-job.processor.ts`, `zip-worker-persistence.service.ts`, `zip-extractor.ts`, migration 17876909) | items of many entries, extracted objects, counters and their dirty marker | scan, inspect, reserve, extract, publish, complete; finalization trigger; manual retry | damage found late, partial archives, interrupted extraction, items against finalization | `ArchiveIngestion` |
| Retention (`zip-cleanup.service.ts`, `claim_zip_cleanup`) | cleanup_requested_at, lifecycle_state, bytes | list, claim, delete, record | a retry admitted in between; bytes deleted and the row not | `ArchiveIngestion` |
| Sessions (`sessions.service.ts`, `session-cache.service.ts`, `authorization.service.ts`) | `auth_sessions`, Redis entries per token | resolve, switch, MFA rotation, logout, revocation, password reset | late writes to the cache, failed deletions, activity that lags | `Sessions`, `SessionSwitch` |
| e.firma custody (`api/modules/efirma`) | `efirma_sessions`, two stored objects, bytes, a single-use Vault token | prepare, claim and use, revoke, clean, sweep | Vault, storage and database cannot change together; lost answers of an unwrap | `Efirma` |
| SAT downloads (`api/modules/sat-download`) | `sat_download_jobs`, `sat_requests`, `sat_packages`, their ingestion jobs | create, authorize, claim, submit, verify, download, ingest, cancel, retry | an external call whose reply is lost, two workers, cancellation anywhere | `SatDownload` |
| Monthly workspace (`monthly.service.ts`, `monthly-reconciliation.service.ts`, migration 17876912) | `periods`, `monthly_workspaces`, decisions, confirmations, operations, closes, `cfdi_period_reconciliations` | lease, review, prepare, close, reopen; publication and reconciliation of participations | REPEATABLE READ snapshots older than the locks, arrivals during a close, resent requests | `MonthlyWorkspace` |
| Client accounts, entities, fiscal years | rows with versions | create, change, archive | single transactions under a row lock | `MonthlyWorkspace` (creation of a year) |
| Admission limits, invitations and memberships, payments, fiscal operations | counts and rows decided in one locked transaction | - | see section 5 | - |
| CFDI parser, malware scanner, e-mail, queries, configuration, health, metrics, RLS and migration scripts, web application | none shared | pure functions, reads, single-request I/O | - | - |

### How they interact

The API and the workers share only PostgreSQL, object storage, Vault and hints
through Redis. A Redis wakeup may be lost without consequence, because polling
alone drains the queue: no model assumes one. An upload becomes a job in two
transactions of one request. A worker claims jobs under a lease token, renews the
lease with a heartbeat chain, and ends each job by one fenced transition. A timer
in every worker process runs, in this order, the queue's reconciler, the ZIP
cleaner and the monthly reconciler; other timers run the custody's cleaner and the
SAT worker. A SAT job uses a custody for its calls and hands packages to the
queue as ZIP jobs. A publication inserts the participation of its document in its
month, or leaves it to the monthly reconciler; a trigger of that insertion wakes a
month that was prepared or closed.

### What makes them correct

* Queue: a row is owned exactly while it is in progress; a result is recorded
  once; completion means publication; an accepted cancellation excludes it; the
  retry budget bounds executions; every job settles.
* Claims: concurrent claims respect the slots of a tenant; no job starves.
* Direct upload: a 202 means that this very file is stored, confirmed and queued;
  decided uploads stay decided; an abandoned upload is decided in the end.
* ZIP: an archive that is damaged anywhere publishes nothing; each entry gets one
  result, and counters and status agree with them; one fiscal UUID has one source,
  which keeps its bytes; a cleaner never takes what an active job reads, and what
  it asked for ends deleted, as long as the queue's reconciler before it commits.
* Sessions: an ended session, a replaced token or an idle session is refused
  whatever Redis holds; a session in use is never closed for being idle.
* Custody: one unwrapping and one use; what a claim needs is there; no unwrapping
  after the cleanup; everything ends erased.
* SAT: nothing uncertain is asked twice; a cancellation ends the job and stops its
  packages.
* Month: what is closed is what its close kept; displaced editors change nothing; a
  request takes effect once; every published document whose original can be read
  reaches its month.

## 2. Modules

| Module | Role |
|---|---|
| `IngestionJobs`, `IngestionJobsProofs` | the queue with its workers, reconciler and cancellation; its invariants and action properties, proved |
| `DurableJobs` | abstract specification of what the queue promises, which `IngestionJobs` implements |
| `TenantClaims`, `TenantClaimsProofs` | the statements of claim_ingestion_job run by concurrent sessions; the cap, proved |
| `DirectUpload`, `DirectUploadProofs` | the requests that present one idempotency key, the upload, its bytes and its job |
| `ArchiveIngestion`, `ArchiveIngestionProofs` | ZIP jobs and their retries, counters, publication, the cleaner |
| `Sessions`, `SessionsProofs`, `SessionSwitch` | one session, its cache and its requests; the same with a history of switches |
| `Efirma`, `EfirmaProofs` | one custody from its reservation to its erasure |
| `SatDownload`, `SatDownloadProofs` | one SAT job, its workers, packages and authorizations |
| `MonthlyWorkspace`, `MonthlyWorkspaceProofs` | one month, its editors, documents and reconcilers |
| `MonthlyLedger` | abstract specification of a month, in which members and documents come one by one; `MonthlyWorkspace` implements it |
| `MC...` | values of constants and symmetry for TLC |

Where a definition is preceded by a variant with a name of its own, the variant is
a plausible mistake in that definition; substituted for it, it breaks the property
PROJECT.json pairs it with.

### IngestionJobs

One function per column that a guard reads (`status`, `owner` = locked_by,
`retries`, `attempts`), the item of the job, and for each execution (known by its
lease token) its place in `execute()` and the two flags its heartbeat writes. Time
is what its readers compare with the clock: `leaseLive` and `due`. An action is a
committed transaction, or a step of the runner between two awaits: `Claim`;
`LoadAndBegin`, `Publish`, `HandlerThrows`; `Heartbeat`; `Decide`, `Abandon`;
`Complete`, `AcknowledgeCancel`, `FailFinal`, `ScheduleRetry`,
`ReleaseForShutdown`; `CompleteThrows`, the failure of complete() inside the try
block, which becomes a retry; `GiveUp`, a transition whose query failed or a
claim whose answer never came; `Shutdown`, `Exit`, `Restart`.

Publication and cancellation are atomic because finishItem updates the item first
and the job last, cancellation updates the job alone, and both conditions are
evaluated on the locked job row (READ COMMITTED evaluates them again after a wait).

### TenantClaims

The same queue seen from claim_ingestion_job: a session lists tenants from one
snapshot, takes the advisory lock of the first it can, picks a row with a second
snapshot and commits. Nothing of it is visible before. The life of the jobs around
it is reduced to arriving, ending, being cancelled, and leases that lapse or are
renewed; the heartbeat has two steps, because it checks the lease when it locks
the row and commits later.

### DirectUpload

One idempotency key. `version` is the receiver's fence, `fresh` and `expired` what
is compared with the clock. A request goes from the intent, through waiting or
receiving (head, compare, put, stop of the lease), to confirming and creating the
job, or to recording a failure and deleting the bytes. `Refuse` ends a request
anywhere: failed transaction, closed window, admission refused, client or process
gone. Storage is the S3 adapter, whose put is conditional on the key's absence.

### ArchiveIngestion

The job of an archive and its manual retries, which share the root object. An
archive is the class of each entry (a document of the entity, invalid, infected,
unsupported) and where reading fails: nowhere, in the central directory, or in an
entry, which only extraction finds. An execution goes through load, scan,
inspection, reservation of items and objects, extraction (bytes, then their row),
the XML pipeline of each entry, and completion; it may lose its lease, be released
or throw anywhere. The finalization trigger is part of every transition to a final
status. The counters' dirty marker, its repair, orphan objects and the
reconciler's single transaction over all candidates are as in the SQL. The cleaner
lists a candidate, claims it under a second look at the references and at the locked
row, deletes the bytes and records it, and may fail between any two steps. It runs
after the queue's reconciler in the same round, and only if that one did not throw
(`ingestion-worker.runner.ts:489-490`).

### Sessions and SessionSwitch

One row of `auth_sessions`, the Redis entries of its tokens, and requests whose
every await is a step: the lookup, the confirmation of a hit in the database, the
persistence of activity (an UPDATE that one of several requests wins), the touch
(`SET XX`), the fill after a miss, the handler (switch, MFA rotation, logout,
revocation). Every Redis call may fail on its own. A clock reading that is used after
an await is kept until then: the reading that the UPDATE compares and stores is taken
before it, and may be old when the UPDATE is carried out; the entry is stamped with
another one, taken after it; `disableMfa` reads its clock before it waits for the row.
So the row may lag by more than the "at most one configured persistence interval" of the
comment at `sessions.service.ts:132-134`, by the time of a request. `MaxLatency` is how
old a request may get. Times are units of a clock; `Persist < Idle` is what the
configuration requires. `SessionSwitch` adds how long ago the organization changed.

### Efirma

The custody row with its claim, lease, accessor reference and cleanup marks, its two
objects with their rows and bytes, the wrapping token, and the authority of the
member. The preparing request, each consumer and each cleaner go step by step; a
call that acts and loses its answer is the call followed by a fault of the next
step. The clock has four instants: the token runs, it is over, the custody has
expired, 35 seconds have passed since (longer than any lease and call).

### SatDownload

The job's row, its request, its packages with the state of their ingestion jobs,
the authorization being prepared, and where each worker is in runJob with what it
has read. Each transaction checks the fence; each call to SAT has its answers; a
failed transaction, a crash and an overrun lease are faults. The other side of an
authorization is `Efirma`; here a custody is used, or refused, once. The fence and the
authentication at the start of a use (`sat-worker.ts:190-196`) lie outside the try block
that keeps the cause of a failure, and withCredential replaces their error: such a run is
not charged as a technical retry and does not act on a cancellation, which is left to a
later run.

### MonthlyWorkspace

The period row, the workspace row (version, editor and lease, what is prepared,
what the latest close kept), reviews, confirmations, stored operations and
participations. A request is a REPEATABLE READ transaction: `Begin` takes its
snapshot; `Write`, after the wait for the period's lock, reads everything else from
that snapshot and commits; `Refuse` rolls back. What PostgreSQL does at the commit
of another is modelled: if the period row has changed, a waiting transaction can
only fail (40001); if only the workspace row has, it fails when it writes it, and a
bulk that applies nothing does not write it. A worker's transaction that has
inserted a participation holds the period row until it commits, and its trigger
changes the status. The content of the month is what its snapshot() can tell apart
here: which documents, reviewed or not, and the confirmations. The reconciler claims
documents under a lease of its own, recovers the old ones, places, resolves, fails,
stops or is overtaken; it works on its claims one after the other. A document published
before the participations existed is read again from its original; where that is not
clean, too large, missing, altered or without its dates
(`monthly-reconciliation.service.ts:75-151`), the document is `unrecoverable`: every
attempt fails, the next follows five minutes later, and it never reaches its month, as
`docs/operations/CFDI_PHASE_5_RUNBOOK.md:22` says of a missing original.

`MonthlyLedger` says what the members may rely on: every write is one step over the
month as it is before it, reviews only what has arrived, counts one version and gives
its key one effect; what is closed was prepared and is all there is; a document arrives
once, undoes a preparation and marks a close. The mapping reads status, participations,
decisions, close and version from the rows; of what is prepared it sees only what can
still be closed, the row's content while the month is ready: after an arrival the code
leaves an old preparation in the row, which no close looks at.

## 3. Runs

| Run | Instance | What it shows |
|---|---|---|
| `queue` | 1 job, 2 executions, 2 processes, 1 retry, 1 crash or shutdown | agreement of status and item, retry budget, refinement of `DurableJobs`, which includes the finality of results; every job settles |
| `direct_upload` | 2 requests, 2 files, 5 versions | durability of a 202, bytes against hash, finality; an upload is decided |
| `tenant_claims` | 2 sessions, 2 tenants with 2 and 1 jobs, 1 slot, 2 disruptions | slots within the cap, no starved job |
| `zip_executions` | 1 job, 2 executions, archives of 2 entries, 1 retry, 1 release, 1 cleaner failure | damage publishes nothing, counters and results agree and stay, one source per fiscal UUID, of equal or different bytes |
| `zip_retry` | a job and its manual retry, 1 execution, archives of 2 entries, 1 cleaner failure | sources and inputs of active jobs keep their bytes; cleanups finish unless the reconciler aborts for ever |
| `sessions` | 2 requests of age 1 at most, idle 3, persist 2, lifetime 6, 1 rotation by time 1, clock to 6 | ended and idle sessions are refused, the row lags by less than the interval and the time of a request, used sessions stay open |
| `efirma` | 2 consumers, 1 reconciler, 1 fault | one unwrapping and use, material kept while it may be claimed, no unwrapping after cleanup, erasure |
| `sat_download` | 2 workers, 1 package, 3 authorizations, 1 fault | SAT is asked once, cancellations settle |
| `monthly_workspace` | 2 editors, 2 requests, 1 document, 1 reconciler, 1 key, 4 versions, 1 fault | a closed month is its cut, writes are current, one effect per key, refinement of `MonthlyLedger`, every document that can be read arrives |
| `failed_final_item`, `zip_cancellation`, `session_switch` | small instances | violations: see Findings |

### Bounds and why they are enough

* `queue`: apart from the tenant's slots, which `TenantClaims` checks, no action
  relates two jobs; the proofs hold for any set of jobs and any bound. Two tokens:
  the owner and one execution that lost the row, reused by later claims without end.
* `tenant_claims`: two claims compete for the last slot, two jobs of one tenant
  compete with the only job of another; places for jobs are reused without end.
  `MaxDisruptions` bounds lost connections, lapsed leases and cancellations of ready
  jobs: with infinitely many, each exactly between the listing and the picking of
  a claim, the tenant at the head of the list could hold the others back, since a
  claim that finds no candidate returns without trying the next tenant.
* `direct_upload`: a receiver and one that takes over; each may present the other
  file. `MaxVersion` bounds renewals only: takeovers, confirmations and failures
  move the version beyond it.
* `zip_executions` and `zip_retry`: two entries are an early and a late one, equal
  or different, damaged in either; the first instance overlaps executions of one
  job, the second overlaps a job, its retry and the cleaner, for one archive with a
  document and two that are damaged. That one UUID has one source is checked for the
  entries of one archive; the proof holds for any jobs. The inductive invariant of the
  proofs was checked on both.
* `sessions`: the clock runs past the absolute end, and twice the idle time; two
  requests are one that is late and one that acts in between. `LastRotation` leaves time for
  a rotation that carries a clock reading older than the row, and for five more units of use
  of both tokens after it. With one unit of cache time an entry lives until the clock moves,
  unless a request older than that writes it again. A rotation at any time (5.3 million
  states) and two units of cache time (10 million) were explored with the same outcome.
* `efirma`: a claim, the one that takes over after a lapsed lease, a cleaner.
* `sat_download`: three authorizations let a package be downloaded, doubted, asked for
  again and downloaded a second time. Larger instances (one package with four
  authorizations and two faults; two packages) were explored with the same outcome.
* `monthly_workspace`: four versions are a confirmation, a preparation, a close and
  what follows it, a reopening, with an arrival anywhere between. Two documents, six
  versions, and two reconcilers with two faults were explored with fewer editors, with
  the same outcome.

### Fairness

* `IngestionJobs`: the poll timer retries claims and the oldest due job comes first; the
  calls of a handler have timeouts; the reconciler timer and supervised restarts
  recur; an unrenewed lease expires; backoff elapses. Crashes and shutdowns are
  finitely many (`MaxDisruptions`); failures and cancellations are not assumed.
* `TenantClaims`: the same, with strong fairness for the end of an execution, which a
  heartbeat's row lock disables for moments: `execute()` stops the heartbeat chain
  before it records the end.
* `DirectUpload`: handlers return, 24 hours pass, the reconciler recurs. Neither
  heartbeats nor retries of the client are assumed.
* `ArchiveIngestion`: `CleanerSpec` has that executions which are running go on or end,
  and that the cleaner looks at its candidates in rounds whose reconciler commits
  (`Reconciles`), and finishes what it claimed. `CleanupFinishes` says in its statement
  that these rounds come again (`<>[]Reconciles`): without it, TLC finds a retry that was
  cancelled and cannot be reconciled, and a cleanup that waits for ever. `FairSpec` adds
  that unrenewed leases lapse, workers poll and the reconciler recurs.
* `Efirma`: the cleaner's timer, time and leases. The request and the consumers may
  stop anywhere. `SatDownload`: each worker's timer, calls with time limits, lapsing
  leases; nothing of the user.
* `MonthlyWorkspace`: publications end, each worker runs its reconciliation cycle, a
  claim that nobody works on runs out; nothing of the members.

The queue's reconciler is one transaction for all jobs and uploads, and the first step of
a round; the cleaner and the monthly reconciler follow only if it did not throw. The
finding `zip_cancellation` makes it throw on every round from then on, for as long as the
poisoned job is among its candidates. Only `ArchiveIngestion` has this failure and
states it (`Reconciles`). The fairness of the other modules takes for granted that rounds
which commit recur: `EveryJobSettles` (expired leases, lost objects), `UploadSettles`
(expiry of an abandoned upload) and `EveryDocumentArrives` hold of a system in which no
ZIP job is in that state.

### Findings

* `failed_final_item`: `docs/contracts/CFDI_INGESTION_API.md:214-216` says that
  failed_final closes the open manual_xml item in the same fenced operation. `failFinal`
  and `scheduleRetry` do; the reconciler's lease recovery
  (`1787690620000-IngestionAutomaticRetryBudget.ts:505`) does not: a job whose last
  execution stops before it records its end (it crashes, or its last query fails) ends
  failed_final with its item open for good, pending or processing.
* `zip_cancellation`: the finalization trigger of ZIP jobs is BEFORE UPDATE on the job
  row and updates the job's items; the items' own trigger marks the counters dirty by
  updating that job row when they were reconciled, and PostgreSQL rejects the outer
  update. A cancelled ZIP job with an open item and reconciled counters never settles,
  and the reconciler's transaction aborts with it on every round, which also keeps the
  ZIP cleaner and the monthly reconciler from running. The comment at
  `1787690900000-PhaseTwoZipIngestion.ts:65-66` says the trigger covers these cases.
* `session_switch`: `docs/architecture/CLIENTS_MODULE_CURRENT_STATE_AUDIT.md:158` says that
  a switch of organization replaces the cache entry. A request that read the entry before
  the switch writes it back with the old organization, each hit renews it, and the
  confirmation of a hit does not compare the organization (`sessions.service.ts:99-119`).
  How long that may last no document says of a switch; the property takes the bound that
  `docs/architecture/CLIENTS_MODULE_IMPLEMENTATION_READINESS.md:81` gives for a cache
  operation that fails after the creation of an account, "cache TTL is the maximum stale
  window".

Hazards without a property, in PROJECT.json, name what else was met: objects of an
interrupted extraction that are rejected as orphans, a SAT job whose new
authorization is passed over, and a rejected submission whose terminal result is
dropped. The SAT and ZIP steps are in the models; no document promises enough to
state a property of them.

## 4. Proofs

Assumptions: the named ASSUMEs of the modules (bounds are natural numbers, null values
are no member of the sets, documents have a UUID, `Persist < Idle`). The sets of jobs,
tokens, processes, requests, entries, packages and the rest are arbitrary. None of the
properties is inductive alone; each proof module defines an `IInv`, shows that `Init`
implies it and every action preserves it, and derives the properties.

| Module | Proved |
|---|---|
| `IngestionJobsProofs` | `TypeOK`, `OwnershipShape`, `CompletedIsPublished`, `CancelledIsUnpublished`, `ExecutionBudget`, `ResultIsFinal`, `SettlementIsFinal`; the refinement `Spec => Durable!Spec` |
| `TenantClaimsProofs` | `TypeOK`, `Orders`, `SlotsWithinCap` |
| `DirectUploadProofs` | `TypeOK`, `OneReceiver`, `ConfirmedBytesKept`, `AcceptedIsDurable`, `DecisionIsFinal` |
| `ArchiveIngestionProofs` | `TypeOK`, `DamagedPublishesNothing`, `CountersAgree`, `ResultsAreFinal`, `SourceKept`, `ActiveInputsKept`, `EvidenceKept`, `OneSourcePerUuid` |
| `SessionsProofs` | `TypeOK`, `EndedSessionsAreRefused`, `IdleSessionsClose`; `LagIsBounded` and `UsedSessionsStayOpen` if `MaxLatency < Persist` |
| `EfirmaProofs` | `TypeOK`, `CredentialUsedOnce`, `LiveMaterialKept`, `NoUnwrapAfterCleanup` |
| `SatDownloadProofs` | `TypeOK`, `SatIsAskedOnce` |
| `MonthlyWorkspaceProofs` | `TypeOK`, `ClosedIsTheCut`, `WritesAreCurrent`, `OneEffectPerKey`, `SeenBefore`, `PlacedOnce`; the refinement `Spec => Ledger!Spec` |

* Queue. `Ownership`: owner and status agree and every execution past its claim knows a
  job, so the fence identifies one. `Results`: the item agrees with the status and with
  where the owner's execution is; an owner about to complete has seen the item terminal,
  which makes `Complete` safe after a takeover. `Budget`: attempts minus releases is
  bounded by the retries charged, one more while the job runs; this ledger ties the two
  places that charge. The refinement maps status to phase and attempts minus releases to
  charged executions; each action maps to an abstract one or to a stutter.
* Claims. A claim's count is taken under the tenant's lock; until it commits, other
  sessions only lower it, and a late heartbeat renews a lease that was counted: the
  count stays an upper bound. `Orders`: the queue holds each ready job once, and the
  stamps in flight are those of the sessions about to commit, so that a rollback takes
  back its own stamp and nothing else. The lists are sequences without repetitions, and
  their helpers have lemmas of their own.
* Upload. Versions only grow and whoever passes the fence wrote the row last; bytes are
  deleted only after the failure was recorded; whatever comes after the confirmation
  carries its content.
* Archive. The invariant has the types; that an owning execution is the only one that
  changes the items of its job; that the counters are those of the items unless marked
  dirty; what an execution has read of the archive and, from it, that a damaged archive
  never comes to publication; what is reserved, stored and held; and that a cleanup, once
  asked, is never taken back and was asked while nothing referred to the object.
* Sessions. The clock and the history only grow; tokens in use were issued; a request that
  began after the end is never past the confirmation. The row's own activity may go back,
  because `disableMfa` reads its clock before it waits for the row and a slow UPDATE carries
  an old reading, but never behind a reading by more than the time of a request: so what
  entries and requests hold as persisted, the row has held within `MaxLatency` (`Held`), and
  a request that waits for its UPDATE has a reading less than an interval ahead of the row.
  The lag and that a used session stays open take the hypothesis `MaxLatency < Persist`,
  that no request takes as long as the persistence interval (300 seconds, unless configured
  otherwise): with `MaxLatency = Persist` TLC finds `LagIsBounded` violated.
* Custody. A status never goes back; cleaning comes after the end; one consumer at most is
  past the mark; the accessor is in the row before the custody can be claimed, so a
  cleaning at its end leaves no usable token.
* SAT. A request never reads unsent again once it was marked, so a submission needs no
  fence; a download needs it: the run that owns the job knows which packages wait.
* Month. `SnapshotsHold`: whoever commits a change of the period ends the other open
  transactions, and whoever changes the workspace row marks them behind; so what a
  transaction may still decide on is what the rows say now: status and decisions always,
  the workspace row if it is not behind, the participations while the month is ready,
  because an arrival would have changed the status. `KeysStored`: a key with an effect is
  stored, and the unique index knows it even where a snapshot does not. For the
  refinement, nothing that was seen leaves the month (`SeenBefore`), and a document is
  placed by the one worker that publishes it or holds its locked claim (`PlacedOnce`): a
  second arrival would undo a preparation for nothing. Each write maps to one step of the
  ledger, a change of the lease and every other step of a worker to none.

Only model-checked: liveness (`EveryJobSettles`, `UploadSettles`, `EveryJobServed`,
`CleanupFinishes`, `CustodyIsErased`, `CancelSettles`, `EveryDocumentArrives`), which is out
of the prover's reach. Every other property of a passing run is proved. `OwnershipShape`,
`CancelledIsUnpublished`, `ResultIsFinal` (which the refinement of `DurableJobs` implies),
`SettlementIsFinal`, `OneReceiver`, `EvidenceKept`, `Orders`, `SeenBefore` and `PlacedOnce`
are proved and in no run.

## 5. Not modelled

* The parser, the scanner, the ZIP reader's formats, e-mail, metrics, configuration, queries,
  migration scripts and the web application: their correctness is about text, or they share
  no state; their outcomes are failures of a handler. They are most of the repository's
  lines, which is why the map covers a small share of it.
* Admission limits: counts under the organization's lock against configured limits; a
  concurrent end of a job only makes room. Invitations, memberships, client accounts and
  fiscal operations: each operation is one transaction that locks the row it decides on,
  so two of them follow each other. Payments: one call applies a snapshot and compares
  its revision; the rest is in an external service.
* Columns that no guard reads: error codes, details, audit rows.
* `IngestionJobs`: heartbeats that straddle the expiry of a lease are atomic (`TenantClaims`
  has them in two steps). `DirectUpload`: the local storage adapter; an upload that is
  confirmed and never gets its job stays so until the key is sent again.
* `ArchiveIngestion`: the upload session of the archive, foreign documents and the
  normalized children of a document. The repair of counters is one step.
* `Sessions`: registration, login and its checks, rate limits; what AuthorizationService reads
  of other tables decides only whether a request fails.
* `Efirma`: re-authentication grants, replacement of a custody by another, the purge of
  metadata after 90 days, certificate validation and the envelope. Authority and generation are
  one value; consecutive checks are one; margins of seconds are a choice of outcome.
* `SatDownload`: the SOAP messages, the package stream, the metadata processor, the cleanup of
  package objects, the pilot's limits, error codes and backoff. A custody that is missing is
  a custody that is refused. Two defensive branches that no state reaches are left out.
* `MonthlyWorkspace`: permissions and MFA, the session's end within a write, payroll
  visibility, categories and checklist templates, reads and the overview, several months at
  once. Incidents and sources are part of the snapshot's hash; a change of theirs can only
  refuse a close, which may happen at any time. Reconciler waiting times are passed over.

What would come next: the ZIP upload session; an abstract idempotent request that
`DirectUpload` and the keyed writes of `MonthlyWorkspace` both implement.
