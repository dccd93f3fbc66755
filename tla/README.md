# Verification of the OKF platform

TLA+ models, TLC runs and machine-checked proofs for the OKF platform: users upload a text or Markdown document, a worker converts it to an
OKF bundle, and the client follows the job until the bundle can be downloaded.
Source paths below are relative to `src/backend/` unless they begin with `src/`.

## 1. The system

```
client ── POST /documents ──► API ──► MinIO (document) ──► PostgreSQL (documents, jobs)
                               │
                               └──► RabbitMQ jobs ──► worker ──► MinIO (bundle), PostgreSQL (bundles, jobs)
                                        ▲    │ deferred or retried: 30 s in the retry queue
                                        └────┘            └─► DLQ after the last retry
client ── GET /jobs, /jobs/{id}, /jobs/{id}/bundle ──► API ──► PostgreSQL, MinIO
```

| Component | Code | State | Operations | Correct when |
| --- | --- | --- | --- | --- |
| worker pipeline | `cmd/worker/main.go` | the delivery in hand, `uploadedKeys`, the connection | load, claim, defer, fetch, retry, exhaust, convert, upload, record, complete, clean up, settle | one worker per job; a message is settled only when its job has ended or its duty was passed on |
| job repository | `internal/database/job_repo.go`, `migrations/001_init.sql` | `jobs` | CreateJob, UpdateJobStatus, ClaimJobForProcessing, RequeueJob, reads | claims are exclusive, terminal states final |
| job queues | `internal/queue/rabbitmq.go` | main, retry and dead-letter queue | publish, consume, TTL, redelivery | no job loses its last message |
| bundle table, object storage | `internal/database/bundle_repo.go`, `internal/storage/minio.go` | `bundles`, objects | CreateBundle, PutObject, DeleteObject | a completed job has row and objects, a failed one neither |
| upload service | `internal/application/{document,processing}_service.go`, `internal/http/document_handler.go` | the stage of each request | CreateDocument, CreateProcessingJob | document and row go together; an accepted upload has a job and a message |
| job life cycle | `internal/domain`, `src/README.md` | the status a client sees | | only the moves of `JobLifecycle`; completed means downloadable |
| read API | `internal/http/{job,bundle,stats}_handler.go`, `stats_repo.go` | none (two reads per answer) | list, detail, download, stats | a completed answer has its bundle; owners are isolated |
| authentication | `internal/auth`, `auth_service.go`, `auth_{middleware,handler}.go`, `user_repo.go` | `users`, the tokens issued | register, login, verify | one account per address; who registered can log in; expired tokens refused |
| migrations | `internal/database/migrate.go`, `migrations/` | the schema, `schema_migrations`, the advisory lock | Migrate | each migration is applied once, in order, before anybody serves |
| conversion, segmentation | `internal/okf/{converter,markdown}.go` | none | Convert | no text lost, doubled or moved; no block of code cut |
| bundle construction, validation | `internal/okf/{bundle,validator,package,fault}.go` | the files of one bundle | BuildBundle, ApplyFault, ValidateBundle, AppendValidationLog | what the code builds is valid, what is incomplete is not |
| bootstrap | `cmd/{api,worker}/main.go`, `db.go`, `EnsureBucket` | the step of the start, pooled sessions | dial, migrate, make the bucket | every process comes to serve |
| frontend | `src/frontend/src/App.tsx` | the session, last answers, requests in flight, timers | login, upload, poll, refresh, reset, logout | a shown end is real and one's own; every job that ends comes to be shown so |

The components meet at three places: the row of a job, the messages that name
it, and the objects under its prefix. Nothing is transactional across them, so
what is hard is what happens between two calls: another worker with the same
job, a crash, a lost connection, a failing call, an elapsed lease. Two more
places are shared by processes that start (the schema and the bucket) and by the
tabs of a browser (the saved session).
`PROJECT.json` lists these hazards at their lines.

## 2. Modules

| Module | Models |
| --- | --- |
| `JobDomain` | job statuses |
| `Faults` | the environment: kinds of faults, and their number |
| `JobTable` | the `jobs` table, one operator per SQL statement |
| `JobQueue` | messages with their attempt counter, the three RabbitMQ queues |
| `BundleStore` | the `bundles` table and the bundle's objects in MinIO |
| `Worker` | the consume loop, one action per call other processes can observe; crash, lost connection, restart |
| `UploadService` | `POST /documents`, one action per call; API crash, lost connection, replayed messages |
| `Platform` | the composition, lease and TTL, fairness, all properties |
| `JobLifecycle` | the abstract specification: what a client is promised |
| `PlatformInvariants` | the inductive invariants |
| `PlatformProofs` | the theorems: claims, life cycle; messages, what is left behind |
| `MCPlatform` | instances of `Platform` for TLC |
| `ReadApi` | `GET /jobs/{id}` with its two reads, `GET /jobs`, the requests a browser has in flight |
| `DetailView` | the page `/jobs/:id`: load, timer, answers in any order |
| `Dashboard` | the main page: the upload section with its polls, the list with its refreshes, the visits that destroy the section |
| `ReadApiProofs`, `DetailViewProofs`, `DashboardProofs` | the theorems about what the pages show |
| `ApiStart`, `ApiStartProofs` | the start of API instances and workers: lock, migrations, bucket |
| `Upgrade` | the abstract specification of that start: the schema goes forward by whole migrations, the API serves with all of them |
| `Segmentation`, `SegmentationProofs` | `markdown.go` as operators on sequences of lines; how a text of any length is scanned and cut |
| `Bundles` | `bundle.go`, `fault.go`, `validator.go` as operators on the files of a bundle |
| `Conversion`, `ConversionProofs`, `MCConversion` | the worker's use of both, from the document to the packaged files |
| `Session`, `SessionProofs`, `MCSession` | accounts and tokens, and the session in the tabs of a browser |

`Platform` composes the worker, the upload service and the three stores, and
implements `JobLifecycle`. `DetailView` and `Dashboard` compose the read API and
the browser with `JobLifecycle` as their environment: a client sees nothing of
the backend but what that module says, so the pages need not be checked
against workers and queues again. `Conversion` is what `Worker` abstracts to
`verdict`: it has no state that another process sees, so the two are
separate models. `Session` has the part of the main page that depends on whose
token it holds; `Dashboard` has the rest, for one session.

Each component is a module whose operators describe its own variables;
`Worker` and `UploadService` extend the stores they call, and their actions say
what the call did and where the handler goes next. In `Worker`, `pc[w]` names
the call worker `w` is about to make. A stage ends where the code makes a call
that changes shared state or reads it; pure computation (JSON, conversion,
packaging) is merged with the read before it.

Correspondences worth knowing:

- **A failing call** takes one of two forms: it had no effect (`"db"`, `"put"`,
  `"delete"`, `"fetch"`), or it took effect and only its answer is an error
  (`"lost"`). Where both lead to the same state the action has one disjunct.
- **Ack and Nack(false, false)** are the same action `Settle`: the main queue has no
  dead-letter exchange, so the broker forgets the message either way.
  `NackRequeue` returns it. A Nack after a failed call is merged with that
  call, because a crash between the two has the same outcome.
- **A worker without connection** goes on with its delivery, as the code does: its
  database and MinIO calls work, its publications and acknowledgements reach
  nobody, and the broker has already redelivered. When it turns to its next
  message, the closed channel ends the process and the container restarts it.
  There are no publisher confirms; a publication lost with the connection also
  loses the Ack that follows it on the same channel, so it looks the same.
- **Crash** includes the restart of the container (`restart: unless-stopped`).
- **The lease**: `expired` holds the rows whose `updated_at` lies further back than
  `staleJobLease`. Any UPDATE renews it (the trigger of `001_init.sql`). For a
  job nobody works on it elapses without a fault. For a job in work it elapses
  only by a `"slow"` fault, which stands for a pipeline longer than five
  minutes (nothing renews the lease) and for a difference between the worker's
  and the database's clock.
- **Queues are bags.** Redelivery and the retry queue already reorder messages.
- **verdict** is the outcome of Convert, BuildBundle, ValidateBundle and
  PackageBundle, any of three per job, fixed in the initial state because the
  conversion is deterministic. `valid` and `valid_with_warnings` are one case.
- **bundles** is reduced to absent, invalid or valid, and objects to the set of
  keys stored. The order of the Markdown files is left open; the zip is last.
- **The moves** of `JobLifecycle` are those drawn in `src/README.md:616` and one the diagram
  leaves out: a job whose message cannot be published goes from queued to failed
  (`processing_service.go:111`, `RejectJob`).
- **Malformed messages** (bad JSON, no `jobId`) behave like a message of a job
  without a row: discarded without any other effect. A replayed message
  (`DuplicateMessage`) of an upload that created no job covers them.

In the read API and the pages:

- **The environment** is `JobLifecycle`, which `Platform` implements as long as no
  worker outlives its lease. `available` holds the jobs with a valid row.
- **`polls`** are the requests for one job in flight, in `PollSlots`. The code sends one
  every 2.5 s without waiting for the answer before, so they overlap, and
  `Receive` and `ReceivePoll` handle their answers in any order. `next` is the read
  the handler is about to make; the document's name is left out of the detail.
- **`polls[s].view`** says whose request it is: of the page of a job, of the upload
  section on the screen, or of one the user left. The last only reaches
  `onJobCreated`, because React ignores the state of a component that is gone.
- **A refresh** is two requests that the API answers in any order; `Promise.all` waits
  for both, and then the list replaces `rows`. The numbers of the metrics are left
  out, because nothing depends on them; the wait for them is not.
- **A visit to another section** refreshes: the router renders `AppRoutes` again, which
  makes a new `onLogout` and with it a new `refresh`, whose effect runs.
- **Entries of the list** are a function of the job; their order is left out.
- **Foreign** are the jobs of other users. The session and its expiry (401) are in
  `Session`; the page's own reload, which starts it anew, is left out.

In the start of the processes (`ApiStart`):

- **The advisory lock belongs to a session** of PostgreSQL, not to the process.
  `database/sql` takes any connection for each call; while one process starts, one
  call runs at a time, so it is the same connection, until that one breaks or
  reaches `connMaxLifetime` (`LoseSession`). The next call then gets a new session
  without an error and without the lock. A session whose client is gone can hold
  the lock for a while (`OrphanSession`).
- **`CREATE TABLE IF NOT EXISTS`** precedes the lock and is two steps, a lookup and an
  insertion into the catalog; so are BucketExists and MakeBucket. The loser's
  process ends (`log.Fatalf`) and its container starts it again (`Exit`).
- **A migration** is its statements and its row in one transaction. `"record"` is the
  INSERT, which waits for another session's uncommitted row of the same key
  (`RowPending`) and is refused once that is committed. `schema` lists the files in
  the order of their commits.

In the conversion:

- **A line** is its kind (blank, text, one of two fences, heading, indented heading),
  the level and kind of title of a heading, and `at`, its place in the document. What
  a line says matters to nothing else. `Trimmed` is `strings.TrimSpace` over lines,
  with its two effects on them: the first line loses its indentation, and a last
  line `# ` becomes `#`, which is no heading.
- **A title or file name** is `"plain"` or contains the syntax of a link; `LinkFound` is what
  the validator's regular expression finds of a link with such a label.
- **A file of a bundle** is its name, its lines and the links a reader finds. `Errors` and
  `Warnings` are sets of findings, because only their emptiness and content matter,
  not their order.

In the session:

- **A registration** is the one step in which the API handles it; its answer only changes
  what the form says. `welcomed` holds who was answered 201. A password is compared
  as typed, and a typed address by its normal form (`Normal`).
- **A login** is in flight before and after the API has issued its token, so two logins of
  one tab may overlap, and the second arrives in a tab that has a session.
- **`rows[t]`** is the owner of the jobs that tab `t` lists. A refresh whose Dashboard was
  unmounted (`live`) cannot change the list, but its 401 still ends the session.
- **Login and logout** change the session and unmount the Dashboard in one step. React Router
  may apply `navigate` in a transition, after the new token: then the old Dashboard is
  rendered for a moment with that token, and its rows go when the transition is
  through. `OwnRows` is about the states after it.

## 3. Runs

`MaxFaults` bounds the faults of a behaviour; everything else is unbounded but
where the table says so. The retry limit is 1 instead of the code's 3: one retry
and one exhaustion already use every branch, and further attempts repeat the same
cycle. Two workers suffice for any race on one job, since `src/docker-compose.yml`
runs two. The runs of the platform have one job: handlers touch only rows, objects
and messages of their own job, and jobs meet only in the availability of workers,
which crashes and disconnections make arbitrary anyway. Where deadlock is not
checked, the system may stop: when every upload was answered and the queues are
empty, when every process serves, when the document is packaged, when no page is
open.

| Run | Instance | Shows |
| --- | --- | --- |
| `timely_leases` | 5 faults of any kind but `"slow"` | `ClaimExclusive`, `CompletedBundleStored`, `DlqOnlyExhausted`, `RejectedNeverStored`, `TerminalStable`, refinement of `JobLifecycle` |
| `compensation` | 5 faults: connection, fetch, put, replay, failing database or connection of the API; two files | `CleanupComplete`, `ExhaustedReachesDLQ`, `UploadCompensated` |
| `liveness` | 3 faults: crash, connection, slow worker, fetch, put, delete, replay | types, `NoLostJob`, `CompletedHasRow`, `TerminalAbsorbing`, `AcceptedJobEnds`, `QueuesDrain` |
| `failed_with_bundle` | one crash | violates `FailedBundleNotValid` |
| `database_error` | one failing statement | violates `NoLostJob` |
| `detail_view` | one job and one of another user, two polls in flight, 2 lost requests | types and isolation, `ShownEndIsReal`, `CompletedOffersDownload`, `DetailSettles` |
| `dashboard_faults` | one job and one of another user, two polls, one refresh, 2 faults: database, network | types and isolation, `ShownEndsAreReal` |
| `dashboard_follows` | two jobs, two polls, no refresh, one lost request | `UploadSettles` |
| `list_forgets` | one job, two refreshes, no fault | violates `ListSettles` |
| `migrations` | two API instances, one worker, three files, any of them applied before, 3 faults | types, `SchemaInOrder`, `ServesComplete`, refinement of `Upgrade`, `EveryProcessServes` |
| `conversion` | all documents of up to 4 lines of ten kinds, those of 5 and 6 lines of fences and headings; every injected fault | the eight properties of `Conversion` |
| `session` | two tabs, two people and five ways to fill in the form, two logins in flight, one refresh per tab, two tokens, one fault | `OneAccountPerAddress`, `RegisteredCanLogin`, `OwnRows`, `ExpiredSessionEnds` |

For the pages, two polls in flight are what an answer needs to be overtaken, two
jobs are what an answer needs to come too late for its section, and a second
refresh lets a visit start one while another is under way. `dashboard_follows`
needs no refresh, because the section does not read the list.

For `migrations`, two instances are what a race needs, and three files what an
instance needs to fall behind in the middle. For `conversion`, four lines hold a
preamble, two headings and something between them, or a heading in a block of
code that is then closed; six lines of fences hold a block within a block and a
heading on either side. For `session`, two tokens are two sessions of one tab, one
of which is over, and two logins in flight are what one needs to come late.

Why faults are left out of a run: with them the property is false of the code.
Adding the fault to the run's cfg gives the counterexample.

- `ClaimExclusive`, `CompletedBundleStored`, `DlqOnlyExhausted`, `TerminalStable` and the
  refinement need workers faster than their lease. With `"slow"`, two workers end
  one job differently, because UpdateJobStatus is unconditional, although
  `src/README.md:622` calls terminal states final. `RejectedNeverStored`,
  `CompletedHasRow` and `TerminalAbsorbing` hold with `"slow"` too, which is proved
  (section 4). `CompletedHasRow` is what remains of `CompletedBundleStored` then, and
  `liveness` checks it: a worker that was overtaken may remove the objects of a completed
  job, never its row.
- `NoLostJob` needs working database calls: `database_error` shows that any
  failing one discards the only message (`Nack(false, false)`), although the
  row still says queued or processing. The recovery of abandoned jobs needs a
  message to trigger it. Under API faults a job can also lose the message it
  never had: no confirms, or a crash between CreateJob and PublishJob.
- `CleanupComplete` needs processes that do not crash (`uploadedKeys` only knows
  the objects of one delivery), do not outlive their lease, and see the true
  result of their calls. It also needs a working database: a failing
  `completed` update leaves a finished bundle behind a job in processing, and a
  replayed message may then fail it.
- `ExhaustedReachesDLQ` is false with `"slow"`: a job failed by another worker lets
  the redelivered last message be acknowledged at once. With `"db"` the message
  is dropped on the way.
- `UploadCompensated` leaves out a dying API and a failing compensation, which
  the code does not handle. It asks that document and row go together, not that a refused
  upload leaves nothing: after an error of CreateJob both stay without a job, and after a
  failed publication whose `failed` update fails too, the job stays queued.
- `CompletedOffersDownload` needs working reads: an error of the second read of
  `loadJobDetail` is only logged, and the answer is completed, terminal and
  without download.
- `DetailSettles` allows for the error page: one failing poll stops the timer of
  the page (state `'error'`) until the user presses "Reintentar". The upload
  section needs no such exception (`UploadSettles`): its timer depends on the
  last good answer only.
- The verdicts of `Conversion` are stated for file names without the syntax of a link:
  `bundle.go:88` writes the name into index.md as it is, and the validator reads it
  back as a link that leads nowhere.
- `OneUnitIsValid` leaves out a document that is one heading and nothing else: it gets
  a warning, although `validator.go:15` speaks of every short document.
- `UnitsSelfContained` compares with what the code takes for a block of code: it closes
  a block at any line that begins with the fence that opened it, be it longer or
  followed by text, so a block within a block ends early.

The violations:

- `failed_with_bundle` is the most serious: after a crash between CreateBundle and
  UpdateJobStatus, the worker that takes the job over cannot insert the row
  again, removes the objects of the bundle that *was* published, and fails the
  job. The row stays valid and points to nothing.
- `database_error`: see `NoLostJob` above.
- `list_forgets` needs no fault: a list read before an upload arrives after the
  upload's answer, removes the new row, and with no pending row the list is not
  refreshed any more until the user opens another section.

**Fairness** (`FairSpec` of `Platform`): every stage of a running worker is weakly fair, since
a handler goes on until it turns to its next message and its container
restarts. Delivery of a message is strongly fair: the queue is FIFO, and
consumers come back to it again and again. The TTL of the retry queue and the
lease of an abandoned job are weakly fair: time passes. Requests of the API
are weakly fair once begun. No fault is fair, and their number is bounded, so
the runs say what happens after the faults stop.

In the pages, timers go off, the API answers and the browser handles the
answer, each weakly fair: once begun, each of them goes on without
competition. Nothing is assumed about the user, nor about the jobs, whose
progress is the matter of the run `liveness`.

In `ApiStart` each process goes on, weakly fair; TakeLock is strongly fair, since
PostgreSQL serves the waiters for a lock in turn; the server notices lost
clients. `Recycle` is part of a process that serves, whose pool is in use:
connMaxLifetime is what releases a lock that a failed unlock left behind. In `Session` only
the interval, the answers and their handlers are fair; no login or logout, and no
token has to expire.

Every property of a passing run has a mutant of the code in `PROJECT.json`
(a dropped lease comparison, a missing status guard, a cleanup left out, ...)
under which the same run fails.

## 4. Proofs

Eight modules hold theorems. `PlatformProofs` proves for all jobs, workers, files, retry
limits, and any number of faults ("assumes" names the kinds that must not occur):

| Theorem | Assumes | Says |
| --- | --- | --- |
| `TypeCorrect` | | `[]TypeOK` |
| `RejectedBundlesNeverStored` | | `[]RejectedNeverStored` |
| `CompletedJobsHaveRow` | | `[]CompletedHasRow` |
| `TerminalJobsAbsorbing` | | `TerminalAbsorbing` |
| `ClaimsExclusive` | no `"slow"` | `[]ClaimExclusive` |
| `CompletedBundlesStored` | no `"slow"` | `[]CompletedBundleStored` |
| `TerminalJobsStable` | no `"slow"` | `TerminalStable` |
| `PlatformImplementsLifecycle` | no `"slow"` | refinement of `JobLifecycle` |
| `NoJobLost` | no `"db"`, `"lost"`, `"apiConnection"` | `[]NoLostJob` |
| `OnlyExhaustedInDLQ` | no `"slow"` | `[]DlqOnlyExhausted` |
| `ExhaustedReach` | no `"slow"`, `"db"`, `"lost"` | `[]ExhaustedReachesDLQ` |
| `FailedJobsClean` | no `"slow"`, `"crash"`, `"db"`, `"lost"`, `"delete"` | `[]CleanupComplete` |
| `UploadsCompensated` | no `"lost"`, `"delete"`, `"apiCrash"` | `[]UploadCompensated` |

For the pages, whatever the number of requests in flight and faults:

| Theorem | Assumes | Says |
| --- | --- | --- |
| `DetailViewProofs!DetailTypeCorrect` | | `[]TypeOK`, which includes that no job of others is shown |
| `DetailViewProofs!ShownEndsReal` | | `[]ShownEndIsReal` |
| `DetailViewProofs!CompletedOffers` | no `"db"` | `[]CompletedOffersDownload` |
| `DashboardProofs!DashboardTypeCorrect` | | `[]TypeOK`, which includes that no job of others is listed |
| `DashboardProofs!ShownEndsReal` | | `[]ShownEndsAreReal` |

For the rest, whatever the number of processes, migrations, tabs and faults, and for
documents of any length:

| Theorem | Assumes | Says |
| --- | --- | --- |
| `ApiStartProofs!StartTypeCorrect` | | `[]TypeOK` |
| `ApiStartProofs!MigrationsInOrder` | | `[]SchemaInOrder` |
| `ApiStartProofs!ServesWithSchema` | | `[]ServesComplete` |
| `ApiStartProofs!StartImplementsUpgrade` | | refinement of `Upgrade` |
| `ApiStartProofs!OneInstanceMigrates` | no `"session"` | `[]OneMigrates` |
| `ConversionProofs!EveryTextIsPublishable` | | `[]ConvertedIsPublishable` |
| `ConversionProofs!IndexLeads` | | `[]IndexLeadsToUnits` |
| `ConversionProofs!FaultsAreDetected` | | `[]FaultsDetected` |
| `ConversionProofs!VerdictIsStable` | | `[]VerdictStable` |
| `ConversionProofs!EveryLineIsKept` | | `[]Lossless` |
| `ConversionProofs!UnitsStandAlone` | | `[]UnitsSelfContained` |
| `ConversionProofs!TheHighestLevelDivides` | | `[]HighestLevelDivides` |
| `ConversionProofs!OneUnitDocumentIsValid` | | `[]OneUnitIsValid` |
| `SessionProofs!AccountsDistinct` | | `[]OneAccountPerAddress` |
| `SessionProofs!ConfirmedCanLogin` | | `[]RegisteredCanLogin` |
| `SessionProofs!ListsOwnRows` | | `[]OwnRows` |

`SegmentationProofs` proves of the operators themselves, for any text: `FenceShift`,
`TrimmedKeeps` and `SegmentIsCut`, which the argument below uses.

The constants' assumptions are `MaxRetries \in Nat`, `MaxFaults \in Nat`,
`NoMessage \notin JobMessage`, `ZipKey \notin Files`, `Foreign \subseteq Jobs`,
`NoJob \notin Jobs`, `StartAssumption` (the values for a free and an orphaned lock are not
processes), `TextsAssumption` (texts are sequences of lines) and `SessionAssumption` (a
normal form is its own normal form).

The argument. `PublicationInv` says what a worker's stage implies: it uploads
only a publishable bundle, and has inserted the valid row before it completes
the job. Rows are never changed or deleted, so this holds under every fault.
Exclusive claims are not inductive alone: they hold because a worker in the
pipeline keeps the row in processing with a fresh lease (`ClaimHeld`), so
nobody else can claim, requeue, complete or fail it. `KeysStored` adds that
`uploadedKeys` names stored objects and all of them once the upload is over,
which needs exclusiveness because another worker's cleanup would remove them.
`Unannounced` covers the API: a job it may still reject is known to no message
and no worker. Together they are `ClaimInv`. `StatusStep` derives from it that
a step changes at most one status, by a move of the life cycle; stability of terminal
states and the refinement follow.

The messages are followed one by one. `PendingStep` says what a step can do to a message
that will be handled: leave it so, replace it by its next attempt, move it to the
DLQ, or drop it because its job needs it no more. `NoLostJob` follows with
`AttemptsBounded` (whoever retries has retries left) and `JobMade` (an upload publishes after
`CreateJob`), and needs no timely leases. For the last attempt this is not enough: a
worker whose connection is gone holds a delivery that the broker has already given
back, and still executes `failJobToDLQ`. `LastKept` says that while the job goes on, a
copy of its last message is then pending elsewhere, since no other worker can bring the
job to its end (`ClaimExclusive`) nor retry that message; so when the first worker
marks the job failed and cannot publish, that copy reaches the DLQ. `CleanupInv`
accounts for the objects of an unfinished job: they are in `uploadedKeys` of the one worker
that holds the claim. `UploadInv` says what each stage of an upload has left.

What a page shows is older than the job, so its invariant cannot say that the two
agree. It says that an *end* carried by an answer in flight (`PollsReal`), by a
list in flight (`RefreshesReal`), or on the screen is the end of the job:
`EndsStay` shows that the job's steps keep this, because an end is never left.
`Downloads` adds that a completed job has its bundle and that an answer read its status first.
`PollsOwned` and `OwnedOnly` trace isolation back to the request: what is asked
about a job of others is answered by nothing, and the main page never asks.

The migrations are in order although the lock may be lost, so the lock cannot be the
reason (`migrate.go:12` says it is). It is the primary key of `schema_migrations`: the
files a process has yet to apply are a final part of all files that begins at
or before the first one missing in the schema (`StartInv`), so its INSERT
succeeds for that one only (`RecordStep`), and `RowPending` keeps two
transactions from inserting it both (`CommitStep`). So a commit is one step of `Upgrade`
(`MigrationStep`), an instance that comes to serve or stops is another (`ServingStep`), and
all else stutters. The lock matters to
`OneInstanceMigrates`: without lost sessions, who is between lock and unlock
holds it.

Every bundle has one shape (`BundleShape`): index.md, log.md, and file `i + 2` for unit
`i`. `UnitsAreSequence` gives it at least one unit for any text and any cut. From the
shape follow the names (`BuiltNames`), the links (`LinksOfIndex`), and that each
kind of error is empty (`BuiltHasNoError`); what a fault removes is missing
(`DroppedIsMissing`). `SameFrame` says that the errors see nothing of a file but its
name, its links and whether it is blank, so more text in log.md cannot
change them.

That nothing is lost, moved or torn is a fact about the scan for code blocks, a recursive
function, and about a list of headings that is read by counting. The induction theorems of
the library take a predicate, which the provers cannot instantiate; `InductiveSet` says
the same of a set of numbers, from the least number outside of it. With it,
`FencesExist` gives the scan its value at every line of any text, `FenceSteps` the next
from the one before, and `FenceShift` the step that matters: a piece that begins
outside of code blocks is scanned as it was in the whole. `StartsInOrder` says that the
i-th heading by count is the i-th in order, and that none is missed. Every cut
is at the first line or at a heading outside of code blocks (`StartsAreHeadings`), so each
unit is a piece of the document from its cut to the next (`SectionsArePieces`,
`SegmentIsCut`), less blank lines at its ends (`TrimmedKeeps`); and what precedes the first
heading is not blank, because the document was trimmed before. `UnitsAreLaid` says this of
what the worker holds, with the two offsets of each unit, and `NothingIsLost`,
`PiecesAreSelfContained` and `UnitsBeginAtHeadings` read the properties off it.
`ConversionInv` carries that the units are those of the document up to the verdict, from
which a document with one unit gets its own (`OneUnitIsTheDocument`, `BuiltWarnings`).

An account is distinct because every row has a normal address (`AccountsInv`). For
`OwnRows`, `SessionInv` says of every refresh of the Dashboard that is mounted that
it was sent with a token of the user of the session; a login or logout unmounts
that Dashboard, and this is what makes overlapping logins harmless.

Only model-checked: liveness, since fairness is out of the prover's reach
(`AcceptedJobEnds`, `QueuesDrain`, `DetailSettles`, `UploadSettles`, `EveryProcessServes`,
`ExpiredSessionEnds`). Every other property of a passing run is proved, among them
each of its invariants.

## 5. Not modelled, and the plan

What the code determines is modelled; next would be larger instances of the runs with
liveness, whose properties cannot be proved here.

Known of the code, stated by no property because no document promises
otherwise (section 3 and the notes of the hazards have the rest):

- A 401 that answers a refresh of an earlier session ends the one the tab has by now
  (`App.tsx:864`), and a logout in one tab removes the session another tab saved
  (`App.tsx:919`).
- Workers neither apply nor check migrations, and nothing orders them after the API.
- A registration whose answer was lost is refused (409) when it is tried again.

Left out for good: HTTP routing and formatting, logging, reading the configuration, the
password hash and token signature (libraries), the detection of a document's
format (an input of `Conversion`) and its download, the layout of the frontend, and
the statistics query, which only counts rows.
