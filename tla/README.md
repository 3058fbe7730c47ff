# A TLA+ verification of the document classifier

The repository is a document classification service. A vendor drops TIFF files
on an SFTP server, an ingest service validates and stores them and queues a job
for each, a worker classifies them with a neural network and records the
prediction, and an API lets reviewers correct predictions and administrators
manage accounts. This directory holds TLA+ models of its concurrent core, TLC
configurations that check them on small instances, and proofs, checked by TLAPS,
that every safety property the runs check holds for every instance.

Line numbers are those of the files under `backend/` unless a path says otherwise.

## 1. Inventory

| Part | State it keeps | Operations | Talks to |
|---|---|---|---|
| sftp-ingest (`sftp_ingest/`) | none but the file in hand and the listing of the poll | `run_forever`, `poll_once`, `process_remote_file`: fetch, `validate_tiff`, upload, `ensure_document_row`, `enqueue`, move | SFTP, MinIO, Postgres, Redis |
| worker (`worker/`) | the job in hand; the attempt | RQ loop, `classify_job`: get, `predict_topk`, overlay, `record_prediction` | Redis, MinIO, Postgres |
| stores | SFTP tree, buckets `documents` and `overlays`, tables `batches`, `documents`, `predictions`, `audit_log`, `users`, RQ queue and registries | | |
| user administration (`services/user_service.py`, `routers/users.py`, `routers/auth.py`) | table `users` | register, login, toggle_role, delete_user, me | Postgres, cache |
| prediction review (`services/prediction_service.py`) | table `predictions` | relabel, add_comment, rename_document, lists | Postgres, cache |
| batch queries (`services/batch_service.py`) | | list, get | Postgres, cache |
| service cache (`infra/cache.py`, `_cache_*` of the services) | Redis keys with a time to live | get, set, clear | Redis |
| request session (`api/deps.py`) | one transaction per request | commit after the handler, rollback when it raises | Postgres |
| authentication and policy (`api/auth.py`, `api/deps.py`, `infra/casbin/`) | signing key, policy table | decode a token, `require_role` | Postgres |
| scan trigger (`routers/scan.py`) | | uploads evaluation images to `incoming/` | SFTP |
| boot (`main.py`, `infra/vault.py`, `classifier/startup_checks.py`) | | refuse-to-start checks | Vault, Postgres, MinIO, Redis |
| classifier (`classifier/`) | weights | `predict_topk`, `render_overlay` | |
| migrations, frontend, scripts, compose files | | | |

What is hard to get right, and to test:

* Ingest does four remote writes to four stores without a transaction over them.
  Each may fail, with or without having had its effect, each of three is tried
  up to three times, and the process may die between any two. Correct means:
  what is queued can be classified, what is stored is not forgotten, what is
  counted is counted once, and a file leaves `incoming/` only when all is done.
* The vendor writes while ingest runs, may replace a file that is being
  processed, and may drop the same document again.
* The worker runs concurrently with ingest's retries, repeats attempts, dies,
  and overwrites what earlier runs stored. Correct means: a prediction belongs to
  the stored document, and when it does not, something is left that says so.
* Requests of the API are transactions at READ COMMITTED whose guards read
  without locks. Correct means: accounts are not duplicated, revived, or changed
  by someone whose account is gone, and administrators do not lock each other out.
* The cache is filled by readers and cleared by writers before they commit, by names
  that two places spell, and it fails in silence. Correct means: what a commit has
  outdated is not served for longer than the time to live, and nothing is cached that was not there.
* The stack comes up in an order of one-shot containers and boots that exit when
  something is missing, over a database that an older release may have migrated.
  Correct means: a serving API has its policies and its schema, and after any
  restarts "docker compose up" brings it back.

`PROJECT.json` lists every such hazard at its line, with the properties that
would catch it or the reason why none does yet.

## 2. Modules

| Module | Models |
|---|---|
| `PipelineStores` | the stores shared by ingest and worker; `EnsureForIngest` is `DocumentRepository.ensure_for_ingest` |
| `SftpIngest` | the ingest service, the vendor, crash and restart, and its properties |
| `ClassifyWorker` | the worker service and RQ's registries |
| `Pipeline` | both services interleaved over the stores, and the end-to-end properties |
| `DocumentLifecycle` | abstract: what the pipeline promises of a document (ADR-M3-02, "Move-on-Success") |
| `UserAdmin` | registration, role changes and deletions by concurrent requests |
| `PredictionReview` | relabel, comment, rename and the worker's upsert at one prediction |
| `ScanTrigger` | the API's uploads to `incoming/` beside the running ingest service (extends `SftpIngest`) |
| `ServiceCache` | the Redis cache of profiles, batches and recent predictions, against every writer of what it shows |
| `Deployment` | compose, Vault, migrations, the boots of API and worker, and an operator |
| `MCSftpIngest`, `MCScanTrigger`, `MCPipeline`, `MCUserAdmin`, `MCPredictionReview`, `MCServiceCache`, `MCCacheKinds`, `MCDeployment` | the small instances of the runs |
| `SftpIngestProofs` | the invariant of the ingest service, with its type, job, blob and count theorems, and that of the tree |
| `SftpIngestLifecycleProofs` | move-on-success, no forgotten object, and the refinement of `DocumentLifecycle` |
| `PipelineProofs` | the invariants of both services together, and the refinement with the predictions |
| `ScanTriggerProofs` | the ingest service beside the trigger, and what becomes of an upload |
| `UserAdminProofs`, `PredictionReviewProofs`, `ServiceCacheProofs`, `DeploymentProofs` | the invariant of each module and the theorems that rest on it |

### Ingest

A *content* (`File`) is one state of the bytes of one file. `loc` says where each
content is: not dropped yet, in `incoming/`, moved, or replaced by its writer.
`PathOf` gives each the path it is dropped at, and a path gives the blob key, the
batch and the document (`parse_remote_path`). Two paths may give one key (their
extensions differ) and two keys may be of one document (its UUID is spelled in
two ways), which is all `StoresAssumption` says.

`phase` is the remote call the process is about to make. Every remote call is one
action, because between two calls anything may happen; the code between two
calls touches only local variables. An action has up to three alternatives: the
call succeeds, it is refused for a reason in the state (the file is gone, the
document belongs to another batch, the name is taken), or it is a `Fault`, in
which a write may or may not have had its effect. `AttemptFailed` is tenacity's
retry with `stop_after_attempt(3)`: the attempt is repeated from its start, and
the third failure raises. `FileDone` is the `except` of `poll_once`: the exception is
logged and the next file of the listing has its turn. An exception outside of
that `except` (`ensure_buckets`, `list_incoming`, the heartbeat) ends the process:
`Stop`.

`EnsureForIngest` is one atomic step: it runs in one transaction and ingest is the
only writer of its tables. `FetchAndValidate` reads the file and validates the
bytes it read; what validation says of a content is the constant `Verdict`, whose
third value `"raises"` stands for the exceptions of PIL that `validate_tiff` does
not catch. `Move` keeps only the basename, as `_move_sync` does, and the rename fails
when the target directory has that name.

`VendorDrop` puts a content where no file is. `VendorRewrite` exchanges a content
for another at its place, wherever the file is by then: a writer may have the file
open while ingest moves it. The constant `Rewrites` is the set of contents that may be
replaced so; `IngestSafety` lets it be the content PIL raises on, which never reaches the
upload, so that the lifecycle still holds. An upload that is
still in progress when the file is listed is a rewrite.

### Scan trigger

`trigger_scan` writes each golden image to a path of two fresh UUIDs, so an upload shares
no path, name or document with another (`ScanAssumption`), and uploads of one or several requests
are independent. An upload is three steps, because ingest may poll between them: `open`
makes the file visible (`StartUpload`, a `VendorDrop` of its first bytes), the rest is written through
the open handle wherever the file is by then (`WriteUpload`, a `VendorRewrite`), and paramiko's `put`
ends with a `stat` of the path, which raises when ingest has moved the file (`ConfirmUpload`). Each
may fail, and the file is then answered as failed, whatever reached the server. `torn` is a history
variable: the paths ingest fetched before their upload was complete.

### Worker

`wphase` is the next remote call of `classify_job`. `AttemptRaises` is the `Retrying` block:
only an `OSError` (with its subclasses) starts another attempt, from the fetch; other
exceptions leave the function. `RecordPrediction` is `WorkerPredictionService`: the upsert
and the audit entry in one transaction; a connection that breaks during the
commit is a database error to the code, never an `OSError`, so a commit is not repeated.
`create_idempotent` checks that the document exists and not that it belongs to the
batch of the job; whether that matters is what `PredictionBacked` asks.

RQ is modelled from how the code uses it: `enqueue` passes no `Retry`, so a job that
raises, whose horse dies, or that a dead worker abandoned ends in the failed
registry (`JobFails`, `HorseDies`, `AbandonJob`). `registry` keeps, for each payload, the registry its
last run is in.

A prediction is kept as its provenance: the content its label was computed from
and the overlay it names. Labels and confidences are functions of the content.

### Users

A request is one transaction. Its steps end where it may see the commits of
others, or wait for a lock: authentication, the guard of the service, the read
that precedes the write, the write, the audit entry, the commit. The reads within
one guard are one step (the row of the target and the count of administrators are two
statements in the code; they read what is committed and decide nothing in between).

Locks are Postgres's: an UPDATE and a DELETE lock the row they write and wait for one
another; the foreign key of `audit_log.actor_id` makes an audit entry lock its
actor's row FOR KEY SHARE, which conflicts with a DELETE and not with an UPDATE of the
role; the unique index makes an INSERT wait for whoever inserts, updates or deletes a
row of the same email (`WritesEmail`). A cycle of waits is broken by aborting one of its members. An UPDATE of a row that is gone raises,
a DELETE of one only warns, and assigning the role a row has emits no statement,
as in SQLAlchemy. `Rollback` ends a request at any point.

`same` tells whether the id in the URL is the string that `str` gives for the actor's UUID, which is what
the guards compare; the repository parses it, so another spelling reaches the same row
(`Respelled`). A deletion of one's own row then fails at the foreign key of its own audit entry.
`overtaken` is a history variable: whether a commit since the request began took away what its checks
had found.

### Review

Rows of `predictions` do not interact, so one is modelled. A request reads it twice: the
service for its guard and the audit entry (`Begin`), the repository to change it (`LoadRow`). The
two are different statements under READ COMMITTED, because the object of the first is
garbage when the second runs and the session refers to it weakly. The unit of work sends only
the columns that differ from what it loaded (`Changed`), which is what lets a comment, a
rename and a relabel overlap; a call that changes nothing sends no UPDATE and takes no
lock. `RecordResult` is the worker's upsert, which names the columns of the result and none of the
reviewers. Of the confidence the model keeps whether it is below 0.7. `passed` is a history
variable: the calls that committed since the request read the row. A request for a
prediction that does not exist, and one `relabel` refuses, change nothing.

### Cache

A name of the cache is the sequence of its parts between colons. `get` and `set` take the name
as it is; `clear(namespace=ns)` deletes what is below `doc-classifier:ns:` (`Below`). So no clear
ever deletes anything, and the time to live is all that removes an entry; the model says so by what the
functions do, not by leaving the clears out. A copy, in the cache or in the hands of a
read, carries no value but how long ago a commit outdated it (`stale`, 0 while it is current).
A read is lookup, load and store, a change is its clears and its commit, in that order, and `Tick` is
15 seconds. `record` and `ingest` are the worker and the ingest service, whose processes
have no cache backend.

### Deployment

`starting` is the set of containers that `docker compose up` has yet to start, each once what its `depends_on`
names is there: `vault-init` needs Vault, `migrate` the database alone, the worker `vault-init` and the API both. So
`migrate` runs beside `vault-init`, before or without it. When one of the two fails, `GiveUp` starts nothing
more, and the other runs on; both run again with the next `up`. `secrets` are the paths Vault holds, which its
development server forgets when it stops; `seeded` is how far `vault-init.sh` has come, which does
not notice that, so it may end well with paths missing. Each migration is a record of what it adds
(`InitialPolicies` and `InitialActions` for 0001, `PredictionComments`, `PredictionLatency`, `DocumentName`),
and a run of alembic is one transaction: `UpgradeHead` takes any revision to the head, `DowngradeTo`
takes it to any older one unless a row of `audit_log` violates the narrower constraint it brings
back; taking 0001 back drops every table (`DropTables`). `BootVault` and `BootCasbin` are `_boot_production`: the policy adapter creates `casbin_rule`
where there is none, the enforcer loads it, and an empty policy ends the process. `Operator` counts what an operator does and what fails.

## 3. Runs

| Run | Instance | Shows |
|---|---|---|
| `IngestSafety` | 5 contents (one may be rewritten), 3 paths, 2 batches, queue 2, 4 faults | `TypeOK`, `JobBacked`, `CountMatches`, `NoOrphanBlob`, `MoveOnSuccess`, `ImplementsLifecycle` |
| `IngestLiveness` | 3 contents of the vendor and one upload of the trigger, rewrites, queue 1, 2 faults | `ScanTypeOK`, `EventuallySettled`, `EnqueuesStop`, `QueuedIsIngested` |
| `PipelineSafety` | 4 contents, 3 paths, rewrites, queue 2, 2 faults | `PipelineTypeOK`, `BlobsValidated`, `PredictionBacked`, `StalePredictionHasCause`, `OverlayMatchesPrediction`, `FinishedHasPrediction`, `AuditedOncePerRun` |
| `PipelineLiveness` | 3 contents, queue 2, 1 fault | `JobsEnd`, `DocumentsClassified`, `ImplementsFullLifecycle` |
| `UsersSafety` | 3 users (2 of one email), an empty table, 2 requests, every operation, ids respelled | `TypeOK`, `EmailUnique`, `DeletesKeepAdmin`, `ActorSurvivesCommit`, `OnlyRacingFirsts`, `RequestsEnd` |
| `ReviewSafety` | 2 transactions, 2 labels, 2 results, a comment, a color and a name, each or none | `TypeOK`, `OthersWorkKept`, `ReviewerGuard`, `CommentKeepsColor`, `AuditSaysBefore` |
| `CacheFreshness` | 2 reads, 1 change at a time, all four kinds of view, two of them in a behaviour, failing calls | `TypeOK`, `StaleBounded`, `EntriesReal`, `CacheCatchesUp` |
| `DeploymentUp` | start at every revision, 3 audited operations, 6 actions of the operator | `TypeOK`, `PolicyMirrorsCsv`, `ServesHead`, `GivenOutlivesDowngrade`, `UpServes` |

What the less obvious ones say:

* `NoOrphanBlob`: an uploaded object whose row or job is missing still has its file in
  `incoming/`. It fails for a pipeline that passes over a lost push.
* `StalePredictionHasCause`: a prediction that was not computed from the document's
  present object is never the end of the story: a file, a job, or an entry of the
  failed registry is left. It fails for a pipeline that removes duplicate jobs from the queue
  by payload.
* `AuditedOncePerRun`: the retries of a job never repeat a transaction that took effect. It
  rests on the commit error not being an `OSError`.
* `EventuallySettled` names the two ways a file is stuck for good: its basename is
  taken where it should go, or its document belongs to another batch.
* `QueuedIsIngested` excepts files that were fetched half written: those are quarantined, or
  accepted, as what they were then, although the trigger may answer "queued".
* `DeletesKeepAdmin`: deletions alone keep an administrator. The guard of `delete_user` is not what makes it
  so, since two administrators may pass it and delete each other; the foreign key of the
  audit entry is, and with it the property fails to hold (that is its mutant). With role changes an
  administrator need not remain (`FindingLastAdmin`).
* `OnlyRacingFirsts`: two first registrations that overlap both become administrators; no later
  one does.
* `RequestsEnd` is stated for clients that stop calling: with three or more requests that
  keep coming, Postgres may let others take a contended row before a waiting deletion for ever.
* `StaleBounded`: the bound is the time to live and the time a read takes from its load to its store
  (`Slow`, one tick in the run), because a slow read stores an old view with a whole time to live.
* `PolicyMirrorsCsv`: the policies the migrations seed, one part each, are those of `policy.csv`, which the
  fakes and the tests use, from whatever revision and after whatever downgrades.
* `GivenOutlivesDowngrade` holds by an accident worth keeping: the audit entry that is written with
  every comment and every name makes the constraint of the downgrade fail, and the drop of
  the column is in the same transaction. It fails when each statement commits on its own.
* `UpServes` excepts one history: every migration was taken back, the API was started and created
  `casbin_rule`, and 0001 can never create it again.
* `ReviewerGuard`, `CommentKeepsColor` and `AuditSaysBefore` say what is promised, and name the one
  way each fails: a rival that committed between the read and the write. The confidence that
  `relabel` checked may have been replaced, the text of one comment may be left with the color of
  another, and an audit entry may skip a change. None happens to requests that do not overlap.

### Bounds

`MaxFaults` bounds failed calls and crashes, `MaxQueue` the jobs that wait. The retry
limit is the code's 3. Four faults let a call exhaust its three attempts and
something else fail before or after it; three faults are one exhausted call; two
are a failed attempt and a crash. One content per role is enough for the
interactions the code has: the same path again, the same document under another
extension, the same document in another batch, an invalid file, one PIL chokes on, one
whose pixels do not decode. A queue of two lets two jobs of one document wait,
or one wait while another runs. For users, the guards look at the actor, the target
and whether there is one administrator; two requests show every pair of operations, and three users
are an actor, a target and another administrator. `Given` leaves out the role auditor, which no guard
tells from reviewer. For the cache, entries of different names do not meet, but the list and a batch
called "list" do. `MCCacheKinds` therefore lets clients ask for batches and the list in some behaviours and for
profiles and recent predictions in the others, with every change possible in each: the four entries at
once would multiply the states and show nothing that two do not. Two reads are a slow one and one that overtakes it, `Oldest` exceeds any
staleness that `StaleBounded` allows, and one change at a time is enough since changes wait
for nothing. For the deployment, six actions are a downgrade to nothing, a boot and
two restarts of something else after it. For a
prediction, a call reads, is overtaken and writes; two transactions show every pair of calls, and
any number of others may commit while the first is under way. `PROJECT.json` holds, for each property, a
plausible fault of the code under which its run fails.

### Fairness

`FairSpec` and `FairPipelineSpec` assume weak fairness of each service as a whole: an
event loop that lives makes its next call, and the RQ loop takes the next job. Nothing
is assumed of the vendor, of crashes or of operators, so a stopped service may stay
stopped, and the liveness properties say so. `UserAdmin!FairSpec` assumes weak fairness of
each request, since a handler goes on once it has its lock and Postgres detects deadlocks.
`ScanFairSpec` is fair to ingest and worker and not to uploads, which have no timeout once connected.
`ServiceCache!FairSpec` is fair to handlers and to the passing of time, `Deployment!FairSpec` to compose, to each
of its one-shot containers and to processes that boot, which wait for nobody; `UpServes` speaks of the time after the last of the
operator's actions. Faults are finite by the bound; a service that fails for ever makes no progress.

### Disagreements

| Run | What the repository says | What the code does |
|---|---|---|
| `FindingMoveStale` | `DECISIONS.md:58`: files are moved only after upload and enqueueing | moves what is at the path, which may have been replaced after the fetch (`processor.py:85`) |
| `FindingRedrop` | `DECISIONS.md:57`: idempotent move-on-success | a second drop of a processed document can never be moved, and its job is enqueued again in every poll (`sftp.py:86-87`) |
| `FindingCacheStale` | `ARCH.md:103`: the next `GET /me` after a role change is a cache miss | the namespace that is cleared does not contain the key that is stored (`user_service.py:55`, `:24`) |
| `FindingLastAdmin` | `DECISIONS.md:45-46`: the last administrator cannot be removed | two concurrent demotions remove both (`user_service.py:82-91`) |

Differences seen while modelling that no run shows:

* `tasks/member3.md:154` has a malformed drop moved to quarantine; only `UnidentifiedImageError` counts as
  malformed (`validation.py:49`), so a file on which PIL raises anything else stays in `incoming/` and is
  fetched in every poll. `Verdict` "raises" models it.
* `tasks/member1.md:136` has an abandoned job requeued after a timeout; it goes to the failed
  registry (`queue.py:28` passes no `Retry`). `AbandonJob` models it.
* A sole administrator who spells their own id otherwise passes the guard of `toggle_role`
  (`user_service.py:83`) and demotes themselves. `RefusesToggle` models it.
* `get_batch` catches `KeyError` (`batch_service.py:72`) where the repository raises `LookupError` or, for an id
  that is no UUID, `ValueError`: a batch that is not there is answered 500 and not 404.
* `SECURITY.md:41-44` expects the API to start once Vault is started again; the development server
  has lost its secrets until `vault-init` has run (`StopVault`, `StartVault`).
* `startup_checks.py:5` says that the API calls the checks; only the worker does.
* `0002_prediction_comments.py:33` calls its INSERT idempotent; `casbin_rule` has no unique constraint, so a
  repeated upgrade doubles rows, which the enforcer does not mind and the model's set does not show.

## 4. Proofs

Each proof module proves `Spec => []Inv` for an inductive `Inv`, defined at the end of its model under
"Why they hold", and derives the listed theorems from it. They hold for any sets of files,
paths, documents, users, requests and transactions, for any bounds, and under the named assumptions on
the constants alone, which say what the code guarantees of them. In each of them one lemma says what a step of
one kind does to the invariant, and a last one puts the steps of `Next` together. Every
invariant was checked by TLC on the runs' instances before it was proved.

### Ingest

`SftpIngestProofs` makes no assumption on `Rewrites`: writers may replace any file at any time.

* `TypeCorrect`: the type of `current` and `data` depends on `phase`: bytes are
  in hand exactly from the upload to the move. `NextTypeOK` has a step per action;
  `TurnType` is the fact about `FileDone`, `Stop`, `Advance` and `AttemptFailed` that all of them use.
* `JobsAreBacked` and `BlobsAreValidated`: neither is inductive, since a push adds a job and says
  nothing of the store. `IngestInv` adds what the process knows at each phase: the bytes in
  hand are validated and of the current path (`HoldsValid`), and each call before the
  present one has had its effect (`CallsDone`). The heart of the argument is that no step undoes an
  effect: a put replaces an object and never removes one (`PutObjectSafe`), and `ensure_for_ingest`
  refuses to move a document to another batch (`EnsureKeepsRows`), so a job that was backed stays so.
* `CountsMatch`: `document_count` is the cardinality of the batch's rows. `EnsureAddsDocument` is the
  fact about cardinality; a retry after a lost answer finds the row and does not count.
* `TreeInv`, which the modules below build on: no two files are at one path of `incoming/`, the bytes in
  hand are of a file that was not moved, and what is on its way to `quarantine/` was not stored. A
  content moves through the tree in four ways (`LocSteps`), and each of `DropSeen`, `RewriteSeen` and
  `MoveSeen` says what one of them leaves alone.

`SftpIngestLifecycleProofs` says which of its theorems need which files to stay. Without it
`FindingMoveStale` is a counterexample.

* `MovesOnSuccess` and `NoObjectForgotten` assume that no acceptable file is replaced
  (`\A f \in Rewrites : Verdict[f] # "ok"`). Then the bytes in hand are still at their path
  (`AcceptableStays` with `TreeInv`), so it is the stored file that moves, and a stored object without its
  row or its job has its file in `incoming/`.
* `IngestImplementsLifecycle` assumes that only files are replaced on which PIL raises. A rejected file that is
  replaced by an acceptable one before its move would be quarantined, and a moved file that is
  replaced would leave `processed/` (`SettledRightly`). Under the refinement mapping of `SftpIngest` (stored keys,
  committed rows, requested paths, moved files), an upload is `Store`, a commit is `Register`, a push is
  `Request`, a move is `Accept` or `Reject`, and every other step changes nothing the
  lifecycle sees. A put or a commit that takes effect in a call that then fails is a step too.

### Pipeline

`PipelineProofs` combines `IngestInv` with `RunInv`, what the worker knows at each call: its job was
delivered, its bytes passed validation, and from the overlay on they decode; the overlay is stored before the
prediction is recorded; nothing is audited before the one transaction at the end.

* `PredictionsAreBacked`, `OverlaysMatchPredictions`, `FinishedJobsPredicted` and `RunsAuditedOnce` are parts of
  `RunInv`. That `create_idempotent` does not check the batch is harmless because ingest never moves a document
  to another batch, and a job keeps its row (`JobBacked`).
* `StalePredictionsHaveCause` needs more, `FreshInv`: for a document whose stored object is of a file
  that has been moved, the last of its jobs in the queue is of the stored object (`LastJobKeyed`), or else the one that
  runs has read it (`LastRunKeyed`), or else it has been classified or has failed (`LastRunSettled`). It is kept because the
  queue is first in, first out, one worker takes from it, and ingest stores an object before it
  queues its job. It holds whoever replaces which file.
* `PipelineImplementsLifecycle` reuses the ingest refinement: a step of the worker is `Predict` of a document that was
  requested, or changes nothing the lifecycle sees.

### Scan trigger

`ScanTriggerProofs`: what the trigger does to the stores is what a vendor may do, or nothing (`ScanIsIngest`), so
`IngestInv` and `TreeInv` hold beside it (`StoresBackedBesideTrigger`). `UploadsSeen` says where the two contents of an
upload can be, and `WholeUnlessTorn` that ingest, unless it fetched the file too early, judges, stores and moves the
whole one. `QueuedAreKept` follows: a file that was answered as queued waits in `incoming/` or has its job. It
is the safety half of `QueuedIsIngested`, and no run checks it by itself. Fresh UUIDs are an
assumption (`ScanAssumption`).

### Users

`UserAdminProofs`, for any number of requests. `RowsHeld` is mutual exclusion: of two requests at one
row, only one has written it and is not committed. `ActorsHeld` is the key-share lock: from the audit entry to the
commit, the actor's account is there and nobody deletes it, which gives `ActorsSurvive`. `EmailsHeld` is the
unique index, which gives `EmailsAreUnique`. `ChecksHold` says that a check of the administrators that no
longer holds has made `overtaken` true, which gives `FirstsRace` and, with the actor who is an
administrator and survives, `DeletionsKeepAdmin`.

### Review

`PredictionReviewProofs`, for any number of transactions. A commit changes the row under all who have read it, and
their `passed` remembers it, so each of `GuardHolds`, `CommentsHold` and `BeforeHolds` is a fact about the row as it was read, or a
rival that has been committed. `OverlapsKeepWork` is a fact about the columns a commit sends (`CommitRow`) and needs only that
they are among those its call names (`Underway`).

### Cache

`ServiceCacheProofs`. `StaleBounded` is not inductive: `EntryAges` adds the time an entry has left to
its age, and `StoresReal` bounds the age of a copy by the time its read has taken, because a commit that outdates
it does so at the earliest when it was loaded. Nothing of the bound rests on a clear, which deletes nothing. Ages are
counted up to `Oldest`; the theorem says something where `Oldest` exceeds the bound, as in the run.

### Deployment

`DeploymentProofs`. `PoliciesSeeded` says that the policies of every migration up to the revision are there,
which a downgrade leaves and an upgrade completes; at the head they are `policy.csv` (`MigrationsMirrorCsv`).
`StartsAtHead` carries what the end of `migrate` says of the schema to the API, which waits for it (`ApiServesHead`), and `GivenAudited` ties a column that is filled to
the audit entry that makes its downgrade fail (`CommentsOutliveDowngrades`).

### Only model-checked

Every safety property and every refinement of a passing run has its theorem. What stays with TLC is liveness, since fairness
and ENABLED are out of the prover's reach: `EventuallySettled`, `EnqueuesStop`, `QueuedIsIngested`, `JobsEnd`,
`DocumentsClassified`, `RequestsEnd`, `CacheCatchesUp` and `UpServes`.

## 5. Not modelled, and the plan

Proofs that would add something: `MoveOnSuccess` and `NoOrphanBlob` beside the scan trigger and the worker, whose steps
do not disturb them; what of the lifecycle survives when acceptable files are replaced; the safety
facts under the liveness properties, as `QueuedIsKept` is for `QueuedIsIngested` (a job that is neither
queued, running nor in a registry does not exist; a request waits only for one that can go on).

Models: `validate_tiff` and `parse_remote_path` as functions against a reference definition; a label
of a reviewer against a later run of the worker, of which no document says which should win.

Left out for good: the numerics of the classifier, the rendering of overlays, the React frontend
(which holds no state the server relies on), token signatures and expiry (library calls),
logging, metrics, configuration, the fakes, and the demo and benchmark scripts.
