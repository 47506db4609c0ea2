# A TLA+ model of the customer-service assistant

The repository is a Python service (FastAPI, Celery, Redis, Qdrant) that answers
customers' messages on Instagram, Messenger and WhatsApp from documents that its
users upload.  This directory models the parts of it where several actors share
state or where a step may fail half-way, checks the models with TLC and proves
what matters most with TLAPS.  Paths below are relative to the repository.

## Inventory

| Part | State it keeps | Operations | What makes it correct |
|---|---|---|---|
| **Ingestion pipeline** `src/rag/ingestion/ingestion_pipeline.py`, `budget.py` (`_retry`, `_batched`), `clients.py` | the points of the Qdrant collection, each with the generation and document it belongs to; per run: `stored`, the batch, the attempt | `ingest_file` (validate, batch, embed, upsert, commit), `_rollback_generation` | a complete version of a document is never lost or mixed with leftovers; failed runs clean up; limits hold; runs end |
| **Orphan purge** `purge_orphaned_generations` | `seen`: what the scroll met | scroll, choose, delete | removes leftovers, never what is in flight or needed |
| **Message cache** `src/core/cache.py` | an ordered dictionary of message ids, one per channel and process | `set_if_absent`, `get` | a message is answered once, the size is bounded |
| **Outbound HTTP** `src/core/http_client.py` | a semaphore of 10, the shared client | `send_message_with_retry`, `get_message_by_mid` | bounded concurrency, bounded attempts, no lost permit |
| **Webhooks** `src/routes/{instagram,messenger,whatsapp}.py` | background tasks, one per delivery; the channel's cache | `receive_webhook`, `process_webhook_payload`, `_handle_single_event` | each message is answered, once, whatever Meta redelivers and however deliveries interleave |
| **Upload** `src/services/upload_service.py` | files in the upload directory | `submit_upload`: check, stream to disk, push a task | only whole files stay; a task that may run has its file |
| **Celery task** `src/services/tasks.py`, `src/core/celery_app.py` | the broker's queue, unacknowledged messages, retries, the result backend, the worker processes | `ingest_document`, `purge_stale_local_uploads` | every task ends; a final status is taken back only when a message is begun again; a message is executed once unless somebody died; no file stays for ever |
| **Task status** `src/routes/ingestion.py` | per stream: a subscription, its inbox, its age; Redis keys | `ingestion_status` (polling), `_sse_status_generator` | the end is not missed, what is told has happened, every stream ends |
| **Loaders** `src/rag/ingestion/loaders.py` | generators; `_RowBudget` | one per file type | row order, limits, nothing silently duplicated |
| **Retrieval and models** `src/rag/retrieval`, `src/rag/models`, `src/services/{qdrant_service,rag_chain_manager}.py` | indexes that are only read, a chat history | search, merge, generate | a search sees whole versions; merged results are distinct and ranked |
| **Signatures, configuration** `src/core/{security,validation,config,container}.py`, `main.py` | none | checks | pure functions |
| **Web page** `src/static`, `src/templates` | one flag in the page | send, render | not part of the back end's logic |

How they interact.  A user uploads a file; the API stores it and puts a task on
the Redis broker; a worker process takes the task, runs `ingest_file`, and
acknowledges it when it ends (`task_acks_late`), so that a worker that dies gives
the task back.  `ingest_file` writes to Qdrant; the sweep reads and deletes there
with no other coordination; searches read there at any time.  Meta posts webhook
deliveries, possibly twice; the API acknowledges and handles them in background
coroutines that share the channel's message cache and the HTTP semaphore.

What is hard: requests that raise although they were applied; processes that die
anywhere; runs of one document that overlap; a sweep that acts on what it read
earlier; redeliveries and retries; coroutines that interleave at every `await`.
`PROJECT.json` lists these under "hazards", at their lines.

## Modules

| Module | Role | Extends / uses |
|---|---|---|
| `DocumentVersions` | abstract specification: the complete versions of each document a reader can rely on | |
| `IngestionPipeline` | `ingest_file`, `_rollback_generation`, `_retry` in one or several worker processes, and the collection | refines `DocumentVersions` |
| `OrphanPurge` | the composition of the runs with the sweep | `IngestionPipeline` |
| `LazyClient` | the double-checked creation of a client | |
| `Loaders` | every loader, the row budget | |
| `Upload` | `submit_upload` | |
| `IngestTask` | the composition of uploads with the broker, a pool of worker processes that execute `ingest_document`, and the sweep of stale files | `Upload`; refines `TaskLifecycle` |
| `TaskLifecycle` | abstract specification: what the result backend shows of a task | |
| `TaskStatus` | polling and the SSE stream, over a result backend that changes as `TaskLifecycle` allows | `TaskLifecycle` |
| `Search` | `hybrid_search` beside the ingestion runs | `IngestionPipeline` |
| `MessageCache`, `CacheHistory` | the LRU cache; its promise over the history of its calls | |
| `HttpSend` | the semaphore and the POSTs of `send_message_with_retry` | |
| `Webhook` | the composition of the handlers with the cache and the outbound calls | `MessageCache`, `HttpSend` |
| `MCOrphanPurge`, `MCWebhook`, `MCIngestTask` | a claim of the documentation that the code does not keep; the values of constants; a symmetry | `OrphanPurge`, `Webhook`, `IngestTask` |
| `IngestionPipeline_proofs`, `OrphanPurge_proofs`, `LazyClient_proofs`, `Loaders_proofs`, `TaskStatus_proofs`, `CacheHistory_proofs` | theorems | the modules they are about, `TLAPS` |
| `IngestTask_proofs` | theorems about `Upload` and `IngestTask` | `IngestTask`, `TLAPS` |
| `Webhook_proofs` | theorems about `HttpSend` and `Webhook` | `Webhook`, `CacheHistory_proofs` |

Every action is named after what it models, and `PROJECT.json` maps every
definition to its lines.  Operators that follow a comment "Mutant of ..." are
plausible bugs: substituted for the definition they follow, they make TLC report
the property they belong to.

### IngestionPipeline

A run is one call of `ingest_file`; it owns one generation (a fresh uuid in the
code, here the number of the run, since runs are numbered as they start and
`created_at` grows with them).  `pc` says where it is:

| `pc` | Code |
|---|---|
| `pull` | the loop head `for batch in _batched(...)` |
| `embed`, `upsert` | inside the two `_retry` of the loop body |
| `rollback` | `_rollback_generation`, inside its `_retry` |
| `commit` | after the loop, inside the `_retry` of the delete |
| `done` | returned |
| `failed` | raised while `stored == 0`: nothing is rolled back |
| `rolled_back`, `rollback_failed` | raised after the rollback succeeded, or failed |
| `cleanup_failed` | raised because the delete of the commit failed |
| `crashed` | the process is gone |

`store[g]` is the set of chunk indexes of generation `g` in Qdrant: point ids
derive from generation and index, so repeating an upsert changes nothing.  A
request that raises may or may not have been applied (`RequestRaises`): this is
what a lost response or a read timeout is.  `Retry` and `GiveUp` are the two
branches of `_retry`; `Raise` is an exception that `_retry` does not absorb, and
`Crash` is a kill, also the one of the hard time limit.  A redelivered or retried
task is a further run of the same document.

### OrphanPurge

The sweep is one process beside the runs.  `PassPoints` is the scroll passing the
points of a generation; the order is free, because point ids are hashes.
`ScanFails` is the `break` after a scroll that raises: the sweep then decides on
what it has read.  Clock: `Tick` advances `now`, but never so far that an active
run is older than `HardLimit`, which is what the hard time limit does in a pool
that enforces it.  Assumption `MinAge > HardLimit` (3600 s against 720 s).

### LazyClient, Loaders

`LazyClient` has one action per statement that touches the global or the lock.
The three functions have the same shape and no state in common, so one is
modelled and all three are mapped.  `Loaders` delivers a file one element at a
time to the generator of its type; `file` is the history that the properties are
stated over, `sheet` holds the local variables of `_stream_sheet_rows` and
`_table_documents` (`started`, `blanks`, `header`, and `closed` once the rest is
not read), `pending` and `size` are `accumulated` and `current_len` of the loaders of
texts.  The definition of what the documents should be (`IsData`, `IsText`,
`RowsLeft`, `Length`) is not operational: it looks at the whole file, and at `total`,
a second history, of what the elements sum up to.

### Upload, IngestTask

A request stores under a fresh uuid, so a file is named after its request.
`upload[u]` says where the coroutine is; every `await` of it can be where it is
cancelled.  Two of them wait for a thread, which goes on without the coroutine:
`aiofiles.open` and the push.  `Open` hands the first to its thread (`u` is in
`opens`), `Create` is the thread making the file, and `Opened` the coroutine going
on; `AbandonOpen` is the cancellation in between, where `dest.unlink` may run
before the thread makes the file, which then stays, empty, with the request
`abandoned`.  `Abort` is an error or a cancellation once the file is open, and
`PushUnawaited` (the push goes on) and `PushRaises` come after it.  `Unlinked` is
`dest.unlink(missing_ok=True)`.  `ApiDies` ends all requests of the process and its
threads.

`IngestTask` adds what happens to the task.  A message is `<<u, k>>`: `k = 0` is
the one that `submit_upload` pushed, the others are retries.  It is in `queue`,
or `unacked` (delivered), and in the memory of the worker (`reserved`) or executed
(`exec[w]`); `phase[w]` says where the execution is:

| `phase` | Code |
|---|---|
| `validating` | `validate_file_reference` |
| `ingesting` | inside the `with` block, `ingest_file` and `progress_cb` |
| `broken` | in `except Exception`: an error that is not an `IngestionError` |
| `again`, `raised` | `self.retry(...)` has published the retry; the last try, or the soft time limit outside the block, has raised |
| `rejected` | `self.retry(...)` could not publish, or was not told that it had: Celery has turned the exception into `Reject(requeue=False)` |
| `done`, `failed` | returned with that status |
| `stored` | the status is in the result backend, the message not yet acknowledged |

`SoftLimit` is the soft time limit where no handler catches it: in
`validate_file_reference`, before the block, and in `except Exception`, after it.
In the block it is one of the failures of `Leave`; inside `self.retry` it is an
exception of the publication, which is `RetryRaises`.  An execution that ends
`rejected` stores no status, and its message is gone from the broker.

`Tick` advances what the configuration measures: how long a message has been
delivered (`visibility_timeout`), an execution has run (`task_time_limit`), a
retry has to wait (`countdown`), and a file has not been written (24 hours).

### TaskLifecycle, TaskStatus

`TaskLifecycle` is all that readers can rely on: a task may have several
executions, each stores `STARTED`, then perhaps `PROGRESS`, then a status, and may
vanish.  `IngestTask` implements it, so what is checked of `TaskStatus` holds of
the statuses that the broker and the pool produce.  `TaskStatus` models one stream
per task and client: `Subscribe` is what the generator does before its first look
at the result, `Fetch` the look, `TellFirst` the first payload, `CheckTime`,
`Receive` and `KeepAlive` one round of the loop, `Closed` the `finally` clause.
`unpublished` holds the statuses that were stored and have not reached the channel.
A failure that `ingest_document` returns is stored as `SUCCESS`: the statuses
`done` and `failed` in the result are these two kinds of `SUCCESS`, and
`Polled`, `InitialStatus` say what each endpoint makes of them.

### Search

A search sees what the collection holds of the user's documents at one moment,
whatever its generation: `Visible` has no condition on the run.

### MessageCache, HttpSend, Webhook

The cache is the sequence of its ids, next victim first.  `HttpSend` gives each
call a place (`send`) and keeps the FIFO queue of `asyncio.Semaphore`; `accepted`
is the moment between Meta's acceptance and the response, in which a timeout
makes a retry send a second copy and in which a customer can already answer.
Every copy that Meta accepts has an id of its own, `Out(i, k)`; customers see all
copies of a reply and may quote any of them, and echoes report all of them, but
the response that `send_auto_reply` of WhatsApp stores the id of is that of the
last copy, `SentId(i)`: the ids of copies whose response was lost stay unknown.
`Webhook` runs one job per delivered event: `Echo`, `Duplicate`, `Answer` and
`Fetch` are the paths of `_handle_single_event` up to its first `await`,
`Fetched` and `Send` what follows.  `channel` is chosen at the start: the
handlers differ in whether echoes are reported, whether a quoted message is
fetched, whether media are answered, and in what is stored after a reply.

## Runs

Passing runs, each within minutes:

| Run | Instance | What it shows |
|---|---|---|
| `pipeline` | 1 document, 1 worker process, 3 runs, files of up to 4 chunks, batches of 2, limit 3, 2 attempts | `ImplementsVersions`: ingestion implements `DocumentVersions`. `AlwaysServed`: no step takes the last complete version away. `LatestDoneIsTheOnlyOne`: no leftover of any earlier failure survives a success. `RunsTerminate`: retries, rollback and commit come to an end. `FailureResidue`, `WithinChunkLimit`, `TypeOK` |
| `purge` | 1 document, 2 processes, 2 runs, 3 ticks, grace period of 2, hard limit of 1 | `VictimsHaveSettled`: a sweep never deletes what is in flight, although it decided on old information. `SupersededAreSwept`: leftovers with a newer generation beside them go in the end |
| `tasks` | 1 upload, 2 worker processes, 1 retry allowed, 1 death, every time limit between 1 and 4 ticks | `FilesAwaitTasks`, `OnlyWholeFilesStay`: what a task finds on disk, and what ended requests leave there. `BegunOnce`: no second execution unless somebody died. `FinalStatusStays`: over deaths, redeliveries and retries, a final status is replaced only when a message of the task is begun a second time. `TasksEnd`, `FilesGo`: every task (unless a retry could not be published) and every file comes to an end. `ImplementsLifecycle`, `TaskTypeOK` |
| `status` | 1 task, 2 executions at a time, 1 client, 2 statuses on their way, an inbox of 3 | `NoEndMissed`: the subscription comes before the look. `ToldTruth`: nobody is told of an end that has not happened. `StreamsEnd`, `StatusTypeOK` |
| `lazy_client` | 3 threads, unlimited calls | `OneClient`, `ClientCallsReturn` |
| `loaders` | 6 elements, row limit 2, gap limit 2, flush at 3 | `RowsInOrder`, `TextInOrder`, `BlocksWellFormed` |
| `cache_lru` | 5 ids, room for 3 | `MostRecentlyUsed` |
| `send_live` | 4 calls, 2 permits, 2 attempts | `PermitsKept`, `CallsReturn`, `SendTypeOK`, with cancellations |
| `webhook_live` | Instagram, Messenger and WhatsApp, 2 messages, 3 deliveries, 2 POSTs for each reply, 1 permit, 1 restart | `TakenOnce`, `QuotesAreFound`, `TextsAreAnswered`, `PermitsKept`, `WebhookTypeOK` |

Runs that end in a violation, each a claim of the repository that the code does
not keep:

| Run | Claim | What happens |
|---|---|---|
| `purge_takes_served` | "the old, complete version stays live until the new, complete version is live" (`ingestion_pipeline.py:15-16`) | the sweep keeps the newest generation even if it is partial, in flight or abandoned, and deletes the complete one |
| `task_begun_again` | "Must be greater than task_time_limit to prevent duplicate execution" (`celery_app.py:46`) | 2 interchangeable uploads (with the symmetry of `MCIngestTask`), 1 process, 1 retry, the ticks of `tasks`; nobody dies: a retry is delivered at once and held for its countdown, then waits behind another task; its visibility timeout, counted from the delivery, lapses while it is executed |
| `search_sees_half` | "Readers never see a half-written document" (`ingestion_pipeline.py:15`) | a search between two batches returns chunks of a version that is half written |

**Bounds.**  Three runs of a document are what the hazards need: a version that
is complete, one that failed and left something, and one that cleans up.  Four
chunks in batches of two against a limit of three reach every boundary: a file of
one full batch, of a full and a partial one, one beyond the limit, and an empty
one.  A second attempt is enough for a request that is repeated after it was
applied; the proofs have no bound on attempts.  Two runs and one sweep suffice for
every interaction of two actors; `OrphanPurge` with one chunk per file still has
generations that are stored and in flight.  A task with one retry and one death
reaches every phase twice, in two processes at once where a redelivery overtakes
an execution; two uploads are needed only where one task waits behind another,
which is `task_begun_again`.  The ticks of `tasks` keep the order of the real
times: countdown and hard limit (720 s) below the visibility timeout (1000 s),
that below the age at which files are swept, and even the sum of countdown and hard
limit below the visibility timeout, as it is.  Two executions of a task at a time
can store their statuses in either order, and an inbox of three holds more
messages than a client reads while a task ends.  Three deliveries are a message,
its redelivery or its echo, and a message that quotes either; two POSTs for each
reply are enough for a copy whose response was lost and one whose response arrived.  Six elements hold a
header, data beyond the budget, a gap and a second sheet.  The bounds `MaxRuns`,
`MaxTime`, `MaxFile`, `MaxElements`, `Sends`, `Jobs`, `MaxRestarts`, `Uploads`,
`MaxSent`, `MaxCopies`, `MaxLosses`, `MaxActive`, `MaxPending`, `MaxInbox` exist
for TLC only; the others are parameters of the code.  Every cfg disables the
deadlock check, because all these systems may stop: bounded runs end, and threads,
users and customers need not call.

**Fairness.**

- `FairSpec`: weak fairness of each run's own steps.  A worker process executes
  its task, and each request ends or times out (30 s for Qdrant, in the client).
- `SystemFairSpec`: the sweep is scheduled again and again (the repository says
  "scheduled", but contains no scheduler for it), and from some time on it no
  longer dies and Qdrant answers it.
- `LazyFairSpec`: threads run, and constructing a client stops failing at some
  time; while it fails, a thread may lose the race for the lock for ever.
- `TaskFairSpec`: time passes; Redis returns what was not acknowledged in time
  and Celery delivers what is queued; a worker process executes what it holds, or
  is killed; the daily sweep, which the repository calls periodic without
  scheduling it, in the end removes a stale file it meets; and an upload comes to
  an end (the client sends, or its connection is cut).  Nothing is assumed of
  deaths: after the last one the rest has to recover.
- `StatusFairSpec`: the event loop runs every stream, and a stream grows old.
  Neither tasks nor the channel are assumed to do anything.
- `SendFairSpec`, `WebhookFairSpec`: the event loop runs every coroutine that can
  run; `httpx` has a timeout of 10 s, and sleeps end.  Handing a permit to the
  first waiter is part of the step that frees it.

## Proofs

All proofs hold for every value of the constants that satisfies the named
assumptions (sizes are natural numbers, batch size and attempts positive, `NoDoc`
no document, `NoThread` no thread, `MinAge > HardLimit`, a finite pool of
`Workers`, `Visibility > HardLimit`, `Jobs = Sends`, `MaxRestarts` a number).  What a
theorem assumes beyond that is written before its `=>` or as its `ASSUME`, and named
below.

- **`Inv`** (`IngestionPipeline_proofs`) is inductive whatever runs at the same
  time: `TypeOK`; `Contents`, what the collection can hold for a run given its
  `pc` and `stored`; `Counters`; and that generations not drawn yet are untouched.
  `WithinChunkLimit` and `FailureResidue` alone are not inductive: they follow
  from what is true in the middle of a batch, when the upsert has been applied and
  `stored` has not been advanced.  Theorems `TypeCorrect`, `ChunkLimitHolds`,
  `FailureResidueHolds`.
- **`SerialInv`** is inductive as long as no two runs of one document are active
  at the same time (`OneRunPerDoc`): a run that has its document to itself has
  stored at least what it counted, and later generations of that document have
  failed without a trace.  Theorems `LatestDoneHolds`, `Refinement` (each step is
  a step of `DocumentVersions` or a stutter) and `ServedHolds` are stated as
  `Spec /\ []OneRunPerDoc => ...`; `OneWorkerSerializes` discharges the premise
  for one worker process.  It is needed: with two processes TLC finds two
  overlapping runs of a document of which the first commit deletes what the second
  has stored so far, and the second commits its incomplete rest.
- **`SweepInv`** (`OrphanPurge_proofs`): an active run is at most `HardLimit` old,
  and the cutoff stays `MinAge` behind the clock, so what is older than the cutoff
  has settled, and stays settled however long the sweep takes.  Theorems
  `InFlightIsNeverSwept`, `SystemTypeCorrect`.
- **`VictimsAreOld`**: what the sweep will delete has a newer generation beside
  it, which no later run can undo; so a sweep never touches the generation a
  success left, and `SerialInv` survives it.  Theorem `LatestDoneDespiteSweep`.
- **`LazyInv`** (`LazyClient_proofs`): the lock is held by exactly the thread
  inside, and what that thread has read stays true until it leaves.  Theorem
  `OneClientHolds`.

- **`UploadInv`** (`IngestTask_proofs`): what a request has on disk, given where it
  is, and which files a thread has still to create; a request whose task was pushed,
  or may yet be, has its whole file, and one that was abandoned while its file was
  opened has at most an empty one.  Theorems
  `UploadTypeCorrect`, `OnlyWholeFilesStayHolds`.
- **`TaskInv`** (`IngestTask_proofs`): messages belong to tasks that were pushed; a
  task that is being executed has a status; a task without a status has its file,
  or the file has become 24 hours old.  The last part is what a step of the sweep
  could break, and the second what lets `Leave` remove a file.  Theorems
  `TaskTypeCorrect`, `FilesAwaitTasksHolds`.
- **`TasksImplementLifecycle`** (`IngestTask_proofs`): the number of executions of
  a task is the size of a set of processes, so beginning, ending and dying are
  steps of `TaskLifecycle` and everything else is a stutter of it.  For any finite
  pool.
- **`StatusInv`** (`TaskStatus_proofs`): every end that is stored, waiting to be
  published, in an inbox, seen or told has happened; and while a stream listens, an
  end that is stored is waiting to be published or in its inbox.  The second half
  holds for a stream that has subscribed and looked, before it knows whether it
  will have to wait, which is why subscribing first suffices.  Theorems
  `StatusTypeCorrect`, `NoEndMissedHolds`, `ToldTruthHolds`.
- **`BegunInv`** (`IngestTask_proofs`): a message that no time limit has yet taken
  from its execution is executed by one process at a time, and the executions of a
  task are no more than its messages and the deaths account for.  What is not true
  without help is that an execution ends within the visibility timeout: for the first
  message of a task it is, because a process takes a message only when it can start
  it; a retry is delivered early and held.  So `BegunOnceHolds` assumes
  `RetriesStartInTime`: what a retry has been held for, and the hard limit, are
  together less than the visibility timeout (280 s are left of 1000).
  `task_begun_again` shows that the code does not see to that.
- **`FinalInv`** (`IngestTask_proofs`) follows each task as long as none of its
  messages has been begun twice (`Once`): what has still to be executed, or may still
  store a final status, is then one message at most (`Live`), and none once the status
  is final (`Settles`).  A retry is that message from its publication on; it is not
  begun before its countdown, and by then the status `RETRY` is stored, which is why
  `FinalStatusStaysHolds` assumes `Countdown > 0` (5 s at least in the code).  The
  theorem needs nothing of when retries start, and holds whatever dies, lapses or
  cannot be published.
- `BegunOnceWithinCapacity` gives a load for which the premise of `BegunOnceHolds`
  is true: as long as there are never more messages than processes
  (`NotOverloaded`), a process is free whenever a countdown ends, `HeldInv` shows
  that a retry then starts at once, and 1000 s are more than 60 and 720 together.
  There `BegunOnce` holds, and with `FinalInv` the theorem also shows
  `FinalUntilDeath`: before the first death a final status is the last one.
- **`SendInv`** (`Webhook_proofs`): `PermitsKept` with the counts of each call,
  and that the holders are finite, so that there may be any number of calls.  The
  queue is without repetitions: taking out the first waiter, or any that is
  cancelled, leaves exactly the others.  Theorems `SendTypeCorrect`,
  `PermitsKeptHolds`.
- **`HistoryInv`** (`CacheHistory_proofs`): `used` holds every id once, in the order
  of their last uses, and the cache is its end: element by element, the last
  `MaxSize` of it, or all of it.  An id that is moved to the end leaves the order of the others;
  the victim of an insertion is the one whose last use is the oldest.  Theorem
  `MostRecentlyUsedHolds`.
- **`WebhookInv`** (`Webhook_proofs`) is `SendInv` with the jobs that own the calls,
  and the cache without repetitions and within its bound.  `MemoryInv` ties jobs to
  the cache: a message that was taken since the last restart, or an id that a
  reply has stored since, is in it, and a message in it has been taken at most once
  more often than there were restarts.  It needs a cache that never evicts, which
  `Room` says: no more ids than `MaxSize` (7000 on Instagram and Messenger, 15000 on
  WhatsApp).  With fewer places a
  redelivery that comes late enough is answered again, as an LRU cache must.
  Theorems `WebhookTypeCorrect`, `WebhookPermitsKept`; with `Room`, `TakenOnceHolds`,
  `QuotesAreFoundHolds`.
- **`LoadersInv`** (`Loaders_proofs`): for tables, the local variables say of the rows
  so far what the definition of a data row asks (`header`: there was a header in this
  sheet; `started` and `blanks`: data, and the blank rows since; `closed`: a gap, unless
  the budget is spent), and what is left of the budget and the documents make up
  `MaxRows`.  For texts, `current_len` is the length of the paragraphs from the first
  that is pending, nothing but blank paragraphs follows the last, and the blocks hold
  the positions of all texts in order; the lemmas `BlockGrows` and `BlockBegun` say so
  of any sequence of blocks.  Sums are differences of the history `total`, so nothing
  has to be shown of a recursive sum.  Theorems `RowsInOrderHolds`,
  `TextInOrderHolds`, `BlocksWellFormedHolds`.

Only model-checked: all liveness properties (the prover has no fairness, and
nothing of `ENABLED`) and the violations.  The state invariants and the
refinements of the passing runs are all theorems, some of them under a premise:
`OneRunPerDoc`, which the one worker of `pipeline` ensures; `Room`, which the
constants of `webhook_live` satisfy; `RetriesStartInTime`, which `tasks` does not need, having
one upload; and a countdown, which `tasks` has.

## What the results depend on

- The README of the repository starts the worker with `-P solo`.  One process
  makes the runs of a document serial, but Celery does not enforce time limits in
  that pool: a run can then outlive both the grace period of the sweep and the
  visibility timeout of the broker, and `VictimsHaveSettled` is not guaranteed.
  With a pool that enforces them, and several processes, runs can overlap, and
  `AlwaysServed` is not.
- `created_at` is taken from the clock of the worker; the models assume that it
  orders runs as they started.
- Celery and its Redis transport are external.  They are taken to do what
  `celery_app.py` configures (`task_acks_late`, `task_reject_on_worker_lost`, a
  prefetch of one message per process, a pool that enforces time limits); a retry
  counts its visibility timeout from its delivery and not against the prefetch
  limit; and no time that counts passes between publishing a retry and storing the
  status `RETRY`.  Redis takes every acknowledgement and every status, and applies a
  publication at most once.  A publication may fail all the same, applied or not,
  since it has a connection of its own.
- redis-py returns from `subscribe` when the request is sent; Redis is taken to have
  processed it before the second look at the result.
- The run `pipeline` has one worker process, because `AlwaysServed` and the
  properties that go with it hold of serial runs only: it says nothing of two runs
  of one document at the same time, of which the divergences below speak.
- `tasks.py` imports `STORED_NAME_RE`, which `validation.py` does not define, and
  uses `guaranteed_file_cleanup`, which nothing defines: as the repository stands,
  a worker cannot load it.  The first is taken to match the names that
  `submit_upload` makes, the second to try to remove the file however the block
  ends, or to leave it.
- Nothing under `src/` publishes on the channel `task_status:{id}` that the stream
  listens to.  The publisher is external: every status is taken to be published
  after it was stored and in that order, at any later time.  The status endpoints
  read results from the database of `CELERY_BROKER_URL` (`ingestion.py:43`), Celery
  writes them to that of `CELERY_RESULT_BACKEND`; the two are taken to be the same,
  which the defaults (0 and 1) do not make them.  Their router is not mounted in
  `main.py`.
- `FilesAwaitTasks` and the sweep assume that the clocks of the API and the worker
  agree to within the 24 hours.
- `TakenOnce` and `QuotesAreFound` assume a cache with room for all ids of the
  behaviour, and one API process: each process has caches of its own.

## Divergences met while reading, without a run

- A first upsert that is applied but reported as failed leaves its batch: `stored`
  is still 0 and the rollback is skipped (`ingestion_pipeline.py:318`), although
  lines 17-20 say that a failed run leaves nothing.  `FailureResidue` states what
  holds.
- Two overlapping runs of a document can leave an incomplete version as the only
  one (`ingestion_pipeline.py:340`), although lines 15-16 say that the old one
  stays; the proofs assume serial runs.
- The Instagram handler never replies: `srg.answer` (`instagram.py:32`) does not
  exist.  `TextsAreAnswered` excludes that channel.
- The leftover of a crashed first upload is the newest generation of its document
  and is never swept (`ingestion_pipeline.py:464`), although lines 21-25 and
  README.md:108 say that the sweep handles it.
- Documents beyond the first `max_docs` can be skipped by every sweep
  (`:406`), although "the next scheduled run picks up where this one left off".
- A PDF is refused by the zip check (`loaders.py:482`), so none is ever ingested;
  the other lines of `_pdf_loader` are not modelled.
- `retries` of `send_message_with_retry` counts the first POST too
  (`http_client.py:35` against `:22`), and the sleep between POSTs is a constant
  second where README.md:100 says "exponential backoff".
- `MessageCache` has no lock: two threads can both be told that an id is new
  (`cache.py:13`), although README.md:123 calls it thread-safe and
  `tests/unit/test_cache.py:181` expects one success.  On one event loop, where
  it is used, calls are atomic.
- On WhatsApp the id of a reply is stored when its call returns
  (`whatsapp.py:46`), so a quick customer can quote a reply the cache does not
  know yet.  If a POST that was accepted is repeated, because its response was lost
  (`http_client.py:35`), the customer has two copies of the reply, and only the id of
  the last is stored: a quote of the first is never found.  `QuotesAreFound` states
  what does hold.
- The docstrings say "Zero thread offloading" (`upload_service.py:50`) and "Zero
  threads allocated" (`:123`), but aiofiles opens the file in a thread: a request
  that is cancelled meanwhile unlinks a file (`:88`) that the thread may still
  create.  An empty file stays until the daily sweep.
- An error that is to be retried, with "Redis down" as the example (`tasks.py:224`),
  is retried by publishing to the same Redis (`:237`).  When that raises, Celery
  rejects the message without requeueing it and stores no status: the task stays
  `STARTED` or `PROGRESS` for ever.  `TasksEnd` excludes exactly this.
- A final status can be taken back: a task whose worker dies before the
  acknowledgement, or whose visibility timeout lapses (`task_begun_again`, with nobody
  dead), is executed again, may find its file removed (`tasks.py:190`), and reports
  as failed what was ingested.  `FinalStatusStays` says that nothing else does so.
- A retry needs the file again: if the cleanup of the failed try removes it
  (`tasks.py:182` promises "Guaranteed Cleanup"), every retry ends as "failed".
- A file that waits in the queue for more than 24 hours is swept although its task
  is still to run (`tasks.py:258`).
- A stream that is 15 minutes old tells its client "failed" (`ingestion.py:246`)
  of a task that may be at work; `ToldTruth` excludes exactly this.
- A result that has expired is reported as "queued" by polling and by a new stream.
- The status `RETRY` is "retrying" for a client that polls and "queued" in the first
  event of a stream (`ingestion.py:179` against `:223`).
- `_combine_retrieved_docs` returns `k_chunks` documents
  (`retrieval_pipeline.py:158`), its docstring says `k_chunks*2`.

## Not modelled

- Cryptographic checks, configuration, the web page: no state.
- Generation of text and embedding vectors: numeric code of libraries.  One chat
  session is shared by all customers (`cloud_model.py:12` says so); what it keeps
  is the library's.
- Extraction of text from file formats: libraries.
- The merge of two rankings in `retrieval_pipeline.py` is a pure function of a few
  lines with unit tests of its own; the indexes it reads do not change while the
  service runs.
- Tokens, rate limits and the layout of events in the status endpoints.

## Plan

1. Done: `IngestionPipeline` with `DocumentVersions`; `OrphanPurge`; their proofs.
2. Done: `MessageCache`, `HttpSend` with its proof, `Webhook`; `LazyClient` with
   its proof; `Loaders`.
3. Done: `Upload`, `IngestTask`, `TaskLifecycle`, `TaskStatus`, the refinement that
   joins them, and their proofs; `Search`.
4. Done: proofs about `CacheHistory`, `Webhook`, `Loaders`, and of `BegunOnce` and
   `FinalStatusStays`.
5. Left: what a sweep leaves of `ImplementsVersions` and `AlwaysServed`, which need a
   premise about the generations that are newer than the last complete one.
