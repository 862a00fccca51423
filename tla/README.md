# Xtract: the verification project

TLA+ models of Xtract (FastAPI backend, React frontend): what happens to an
extraction job between the upload of its files and the download of its workbook,
and to what the browser shows while its handlers and their answers overlap.

    JobPipeline.tla          one job: upload, batch run, retries, crashes, recovery sweep
    JobLifecycle.tla         the abstract job: what the pipeline promises its user
    MCJobPipeline.tla        the instances TLC checks, one per .cfg
    JobPipeline_proofs.tla   its types, and what keeps runs apart, for every instance
    JobVerdict_proofs.tla    its verdicts, counters, workbook and sweep; JobLifecycle
    QuotaManager.tla         reservations of Gemini calls by many callers at once
    RateLimiter.tla          the abstract limiter they implement
    GeminiExtract.tla        the extraction of a page: its reservation and its retries
    GeminiExtract_proofs.tla theorems about QuotaManager, and GeminiExtract on top of it
    JobStream.tla            how the end of a run reaches the Processing page
    JobStream_proofs.tla     theorems about JobStream
    BlueprintBuilder.tla     the blueprint editor and the endpoints that keep its fields
    BlueprintBuilder_proofs.tla  theorems about BlueprintBuilder
    Catalog.tla              projects, their blueprints, the upload page, and deletion
    Catalog_proofs.tla       theorems about Catalog
    Session.tla              who is signed in, and which job is in progress, in one tab
    Session_proofs.tla       theorems about Session
    Review.tla               the result pages, corrections and the usage pages
    Review_proofs.tla        theorems about Review

Run `tlc -config X.cfg M` with `M` the module `PROJECT.json` names for the run,
and `tlapm M_proofs.tla`.

## The system

Paths are below `src/Backend/app` unless they say otherwise.

| Component | State it keeps | Operations | What makes it correct |
|---|---|---|---|
| upload endpoint, `api/routes_upload.py` | the uploaded files, a new row of `jobs` | `POST /upload` | a job exists only with its files, its blueprint and a task that works on it |
| batch and retry processor, `core/batch_processor.py` | `job_pages`, `extraction_results`, the counters and status of `jobs`; in memory the page tasks, a semaphore, the results | `run_batch_processor`, `run_retry_processor`, `_extract_one_page`, `_finalize_job` | every page ends done with data or failed; the job ends; status, counters, rows and workbook agree |
| retry endpoint, `api/routes_jobs.py` | resets page rows, takes the job's status | `POST /jobs/{id}/retry` | only failed pages are redone, by one run at a time |
| startup recovery, `core/startup_recovery.py` | flips page rows, ends jobs | `recover_interrupted_jobs`, once before serving | what a crash orphaned becomes retryable or terminal, what is alive is left alone |
| workbook and Storage, `excel/excel_builder.py`, `core/storage.py` | one object per job in the bucket, `excel_path` | build, upload, download | the workbook on offer holds what is done |
| database, `database.py` | tables, foreign keys, `db_retry` | sessions | cascades keep references valid; a repeated handler has one effect |
| job store and stream, `core/job_store.py`, `api/routes_status.py` | one queue and snapshot per job, in memory | push, stream, poll | every client learns the terminal status once it is reached |
| quota manager, `core/quota_manager.py` | window rows per model | reserve, usage, cleanup | no window admits more than its cap; a refused call reserves nothing |
| Gemini client, `core/gemini_client.py` | none across calls | extract, generate fields | the ladder of waits ends, an error is told from an empty answer |
| file cleaner, `core/file_cleaner.py` | none | hourly removals | nothing a run still needs disappears (it may: see below) |
| projects, `api/routes_projects.py` | `projects` | CRUD; a deletion takes blueprints along and nulls references | no dangling references |
| blueprints, `api/routes_blueprints.py` | `blueprints`, `blueprint_fields` | CRUD, fields, order, archive or delete, generate, test | a row is one field; what has results is kept; a job's blueprint is its project's |
| results, `api/routes_results.py` | `extraction_results.data` | list, read, correct | what is shown is what is stored |
| accounts, `api/routes_auth.py`, `core/auth.py` | `users`; tokens are signed, not stored | sign-up, login, profile | the tab shows the account of its token |
| observability, `core/observability.py`, `api/routes_observability.py` | `llm_calls` rows | log, page through, aggregate | a list answers the query on the screen |
| blueprint editor, `src/Frontend/src/pages/BlueprintBuilder.jsx` | the rows on the screen, flags of its buttons | load, save, save all, delete, move, generate, test | screen and fields agree; no button stays disabled |
| project and upload pages, `pages/ProjectsList.jsx`, `ProjectDetail.jsx`, `ProjectForm.jsx`, `Upload.jsx` | lists, forms, choices | list, create, edit, delete, upload | lists agree with the server; a save changes what was edited |
| shell, `App.jsx`, `context/AuthContext.jsx`, `Sidebar.jsx`, `Login.jsx`, `Signup.jsx`, `Profile.jsx`, `Dashboard.jsx` | token, user and active job in `localStorage`; page and ids | navigate, sign in and out, resume | the way back to a running job is kept |
| result and usage pages, `ResultsList.jsx`, `ResultDetail.jsx`, `Observability.jsx` | what was loaded, a draft | load, page, sort, edit, save, cancel | late answers show nothing wrong |
| Processing page, `src/Frontend/src/pages/Processing.jsx` | stage and status of a job in the browser | follow, poll, retry | shows the terminal status; offers a retry only then |

**Interaction.** `POST /upload` commits the job row and starts
`run_batch_processor` as a background task of the same process. The task writes
the page rows, starts one coroutine per page behind a semaphore, and ends with
`_finalize_job`. `POST /retry` resets the failed rows and starts
`run_retry_processor`, which shares `_extract_one_page` and `_finalize_job`. The
two share no lock: `jobs.status` is the only thing that tells one run of another.
The database is remote (Supabase behind PgBouncer), so every transaction may
fail; the uploads are files on the instance's disk, which the cleaner removes
after some hours. When the process dies its tasks die with it, and the next
process sweeps before it serves.

**What is hard.** A page goes through three transactions (result, row, counter)
any of which may raise or be the last before a crash. The exception handler
makes the same three writes and may raise as well. The retry endpoint checks
and sets the status in different statements. The sweep has to tell a dead run
from a live one by the age of rows. Deleting a project or expiring the uploads
changes what a running task relies on. In the browser every handler awaits its
requests while the user goes on: answers arrive late, twice or never, to a page that
was left or a session that has ended. `PROJECT.json` lists each of these at its
line, with the properties that watch it.

## JobPipeline

One job, its pages, one batch run and up to `MaxRetries` requests to `/retry`,
each with the run it starts. The backend is a single asyncio process, so code
between two awaits is atomic; each database transaction is one action.

| State | In the code |
|---|---|
| `jobStatus` `totalPages` `completedPages` `failedPages` `excelReady` | the row of `jobs`; `excelReady` is `excel_path IS NOT NULL` |
| `jobFresh`, `fresh` | `created_at`, and `updated_at` of the pages, younger than `STARTUP_RECOVERY_STALE_MINUTES` |
| `blueprint` | the blueprint exists (deleting it nulls `jobs.blueprint_id`) |
| `row` | `job_pages.status` |
| `doneRows`, `failedRows` | how many `extraction_results` rows of each status a page has |
| `stored` | the object in the bucket, as the pages in it; one key per job, upserted |
| `onDisk` | the uploaded files |
| `up`, `runPc`, `runPages`, `task`, `failures`, `workbook` | the process: where each run and each page's coroutine is, and their locals |
| `known` | `job_store` has an entry for the job |
| `early` | history: a retry was accepted while the job was `queued`, and no sweep has settled it since |
| `faults`, `crashes` | how much of the bounds is used |

A run's `runPc` names the await it is at, a coroutine's `task` likewise; `save`,
`mark` and `inc` are the three writes of a page, for data, for an answer of
`None` (both in the `try`) and for an exception (in the handler). Where a write
raises, the action goes where the code goes: to the handler, out of the
coroutine to `asyncio.gather`, or out of the background task, which ends it.

Abstractions: a page is a file of its own (a PDF's pages share one, which only
makes files disappear together); what Gemini answers is data, `None` or an
exception; building the workbook may fail or read every page with a `done` row;
an upload to Storage may fail before or after the object is replaced; texts of
errors, `completed_at`, the job store's events and the log are left out. The
reads a request makes before it changes anything are one action when no await of
another actor between them could matter.

### Surroundings

`Crash` kills the process at any await. `Restart` is `lifespan`: the sweep, then
serving. `Age` makes every timestamp older than the cutoff; time that passes
partly is covered by pages written after it. `DeleteProject` stands for any way
the blueprint goes (the project's cascade, `DELETE /blueprints`).
`CleanupUploads` removes any of the uploads. A retry comes from any client, or,
with `OneTab`, from one open Processing page, which disables its button while its
request is out. The endpoint refuses `processing` and nothing else, so what matters
is when the page offers the button (`ShownClosed`): when the job has ended, or when
the page guesses that it has. After a restart `job_store` has no entry for the job,
so `/stream` says `processing_complete` at once (routes_status.py:83), and with a
failed page the page shows `completed_with_errors`, although the job may still be
`queued` in the database.

### The properties

Types: `TypeOK`. Safety: `DoneHasResult`, `DoneMeansAllDone`, `OneRunAtATime`,
`LiveMeansActive`, `CountersExact`, `TerminalMeansSettled`, `ConcurrencyBounded`,
`ExcelCoversDone`, `DataOnce`. Steps: `DonePagesUntouched`, `SweepRescuesStale`.
Refinement: `KeepsPromise`. Liveness: `JobEventuallyTerminal`. Each is stated in
words above its definition.

`JobLifecycle` is the job as its user sees it: pages are delivered while it is
active and never taken back, "done" means all of them, and a closed job opens
again only from `completed_with_errors` or `error`, with a page left to deliver. The
mapping reads `queued` and `processing` as active and the delivered pages off the rows.
A retry of a job that is still `queued` is a stutter: its user sees an active job.

`CountersExact` and `TerminalMeansSettled` leave such a job out (`early`): the retry takes
the pages that failed and no others, so a page that the crash left `queued` or
`processing` is still so when the run ends the job, and a later retry does not look at
it. Without the exception both fail in `PipelineCrash`. The other properties hold
for it as well.

### The runs

| Run | Instance | Result |
|---|---|---|
| `PipelineCrash` | 3 pages, semaphore of 2, 2 retries, 2 crashes, one tab | passes: exclusion, concurrency, counters, settled rows, the sweep, `KeepsPromise` |
| `PipelineFaults` | 2 pages, 2 retries, 2 faults, deletion and expiry, one tab | passes: types, data before marks, "done" is complete, the workbook covers what is done |
| `PipelineLive` | 2 pages, semaphore of 1, 1 retry, any client, expiry | passes: every active job ends |
| `RetryTwice` | 2 pages, 2 retries, any client | `DonePagesUntouched` fails |
| `StaleExcel` | 1 page, 1 retry, 1 crash | `ExcelCoversDone` fails |
| `DoubleSave` | 2 pages, 1 retry, 1 crash | `DataOnce` fails |

The three failures are disagreements between the code and its own comments;
`PROJECT.json` quotes both sides under `findings`. Two more are one change of a
constant away. `JobEventuallyTerminal` fails with 2 pages, 1 retry and 1 crash: a
restart sooner than the cutoff leaves the job active, and the sweep runs once.
`TerminalMeansSettled` fails with 2 pages, 1 retry and `MayDeleteProject`: every
insert of a result is then refused by its foreign key, the handler's too, and the
retry ends with a row left at `processing`.

Bounds. Three pages with a semaphore of two give a page that waits, one that
extracts and one that has ended at the same time. Two crashes reach a crash of a
retry that followed a swept crash; two retries reach a retry of what a retry
left. Two faults make a write and its handler fail. `Page` is symmetric, and
declared so in the safety runs only. The crash and fault runs are separate
because each alone reaches several hundred thousand states. Deadlock is not
checked: a job that has ended with its bounds used up may stop for good.

What the passing runs assume matters. `OneRunAtATime` and the properties that
rest on it hold for one open Processing page; with any client they fail, as
`RetryTwice` shows (the batch run keeps the status `queued`, which the 409 check
lets through as well). `DoneMeansAllDone` is checked for calls that fail before
they commit: with `AmbiguousCommits` a counter may be incremented by a call that
raised, the handler then counts the page again as failed, and a later retry can
call the job done with a failed page.

Fairness. `WF` of every run's step: asyncio resumes each ready coroutine, and
calls to Gemini, the database and Storage time out. `WF` of `Restart`: the
platform restarts a dead process. Nothing is assumed of requests, crashes, the
clock, the cleaner or the owner.

## QuotaManager and GeminiExtract

`QuotaManager` is `check_and_reserve` of one model, called by any number of
pages at once (of one run, of several, and of the blueprint's test call).

| State | In the code |
|---|---|
| `rows`, `count` | the rows of `gemini_quota` and their `request_count`; a row is a kind of window and a minute or a day |
| `lock` | the row locks `SELECT ... FOR UPDATE` holds until the transaction ends |
| `pc`, `key`, `seen`, `tries` | where a caller is and its locals: `_window_keys` as the minute they were made in, the counts it read, the rounds of its loop |
| `clock` | UTC, in minutes |
| `granted` | history: what each window has admitted |

A round of the loop makes the keys (`WindowKeys`), inserts the rows
(`EnsureRows`), locks and reads them (`LockAndRead`), and updates and commits
(`Reserve`) or leaves the transaction (`TurnAway`: refused for the day, or asleep
until the next minute). Any of the statements may raise, the last one also after
its commit (`StatementRaises`). The rows and the caps are read under keys that may
be a minute old by then, and the clock goes on meanwhile.

Abstractions. Both locks of a transaction are taken in one step; where PostgreSQL
takes them one by one and two transactions deadlock, it ends one, which is
`StatementRaises`. Inserted rows are seen before the commit; they count nothing.
Where the code says "Transaction rolls back", its `return` leaves
`session.begin()` normally and commits the inserted rows, as the model does. The
cleanup goes by `updated_at`, the model by the minute in the row's key, which is
no later. A reservation under way lasts at most `Stall` minutes: connecting and
each statement time out after 10 s, and `CleanupAge` is 120 minutes.

`GeminiExtract` is `extract_with_blueprint`: one reservation, then rounds of
preparing the contents and calling Gemini. Each failure moves one of three
counters (`attempt`, `consecutive_503`, `consecutive_429`) and sleeps, gives up
with `None`, or raises. What a failure is depends on the text of an exception, so
each kind may come at any call. The extraction of a page is a caller of
`QuotaManager`; the composition is the two side by side, `Reserved` the only
step that reads the other's state.

`RateLimiter` is the promise: an admission charges several windows and no limited
window goes beyond its cap. `LimitsRate` is the refinement, with `granted` and
with the cap of the day only where it is enabled. `CountsCoverGrants` relates the
table to it, `LadderBounded` bounds the calls of a page by `MAX_RETRIES + 5 + 4 -
2`, `ExtractionEnds` is liveness: neither waiting for a minute nor a ladder goes
on for ever.

| Run | Instance | Result |
|---|---|---|
| `Gemini` | 2 pages, 1 call a minute and 2 a day of two minutes, 2 rounds, one failing statement, cleanup after 2 minutes, ladders of 2 | passes: `LimitsRate`, `CountsCoverGrants`, `LadderBounded`, `ExtractionEnds`, types |

Bounds. Two pages at a cap of one are both turned away, wait and refused for the
day; a day of two minutes turns within a wait. `FreeMinutes` is what passes while
nobody waits, and reaches the cleanup of rows in use; `LastMinute` is large
enough for every wait after that (a wait takes one minute and each page has at
most `MaxTries` of them), so a page never stops for want of a next minute.
Fairness: each coroutine's step, each lock served, calls and sleeps that end
(the HTTP timeout is set on every call), and the clock.

Seen on the way. `CallsReserved`, that a call of Gemini has a reservation, fails for a
single page: only its first call has one. The message of the 429 ladder says "after 4 backoff waits"; the
loop waits three times and never uses the fourth entry of `_429_BACKOFFS` (the
503 ladder has five attempts and four waits). `generate_fields` calls Gemini with
no reservation at all. A file that stays in another state than ACTIVE is left on
the Files API.

## JobStream

One job's entry in the job store, its queues, the streams that read them, `/status`
and one Processing page. A run is reduced to what the page can hear of: it
starts, may fail a page, and ends, which it first commits and then tells the store.

| State | In the code |
|---|---|
| `status`, `failed` | `jobs.status`, and `failed_pages > 0` |
| `store`, `gen`, `queue` | the entry's status in `job_store`; a retry replaces the queue, so there is one per run and `gen` is the present one |
| `run`, `late`, `deleting`, `request` | what is between two awaits: the background task, its commit not yet told to the store, the two steps of `delete_job`, the retry request |
| `conn` | each stream on the server: asked for, looking in the database, waiting on a queue, answered; it may outlive its `EventSource` |
| `es`, `polling`, `rerun`, `timer` | `esRef`, the poll's interval, a new `sseRevision` whose effects have not run, the timeout of `onerror` |
| `shown`, `finished`, `waiting`, `answers` | `jobStatus`, `finishedRef`, `retryLoading`, answers of `/status` under way |

`store` is changed between awaits without one, so `job_store.delete`, `create` and
`update` of a retry are one step (`StoreReset`). Events of the stages, counters of
the entry and the texts are left out. `failed` follows the run's own count; how
counters and rows may differ is the matter of `JobPipeline`.

`PageSettles` (liveness): once the job has ended or its row is gone, an open page
shows an end or leaves, although streams break, a stream whose client has gone may
take the event (`StreamEvent`), a crash empties the store and `delete_job` removes
the entry: the poll covers all of it. `NotEarly` (steps): an event ends the page
only when no run works, which rests on a retry resetting the store before its
answer makes the page open a stream.

| Run | Instance | Result |
|---|---|---|
| `Stream` | 2 streams, 1 retry, 1 crash, 1 reload, 1 answer under way, `Patient`, `Eager` | passes: `PageSettles`, `NotEarly`, types |

Bounds. A second stream is what can take the first one's event; one retry gives two
queues; the crash and the reload reach the streams of a job the process does not
know. Two assumptions make `NotEarly` true, and with either of them FALSE the same
instance refutes it in under twenty steps. `Patient`: the user asks for a
retry once the run has told the store, and does not reload before the answer.
Without it the poll shows the end between the commit and
`job_store.update` (`_finalize_job`), the retry replaces the entry, and the old
run's end then arrives in the new queue. `Eager`: React runs a revision's effects
before the page handles anything else. Without it a poll can finish the page
between the timeout of `onerror` and the effects, which leaves a stream open on a
finished page and its event to the page of the next run.

`GuessCorrected`, that a status guessed from the event gives way to the one the poll
reads, fails with one stream and nothing else: `finish` clears the poll, although
Processing.jsx:142 says that the poll corrects the guess.

Fairness: the process's ready coroutines and requests, the restart, React's effects
and the timeout weakly. `Poll` and its answer strongly: a stream that breaks for
ever takes turns with them, but each new pair of effects polls at once and three
seconds pass before the next.

## The pages of the browser

Four modules model a browser tab with the endpoints it calls. They share a form. A
handler is cut at its awaits: an action sends the request with what the handler
captured, `Serve` lets the server answer it, and a `Continue` or `Deliver` action does
what the handler does then. In between anything else may happen. A request is a record
with the handler it belongs to and how far it is; one whose page was left is kept, since
what it does besides setting that page's state (navigate, `localStorage`, further
requests) still happens. JavaScript runs a handler to its next await without a break,
so each of these actions is atomic; on the server a transaction is.

In all four, `WF` of the server's answers and of the handlers that have one: requests
time out or are answered, and the browser runs what is ready. Nothing is assumed of the
user, nor of requests that fail. Deadlock is not checked: a user may stop.

### BlueprintBuilder

| State | In the code |
|---|---|
| `server`, `stored`, `exists` | the rows of `blueprint_fields` with their `sort_order`, the columns of the blueprint, whether it is there |
| `fields`, `shownMeta` | the page's `fields` (`_tempId` as `key`, `id`, the texts as one value) and `blueprint` |
| `savingMeta`, `generating`, `testing`, `rowBusy`, `savingAll` | the flags of the buttons |
| `handler` | the asynchronous handlers under way, with the rows they have still to send |
| `nextTemp` | the module's `tempId`, which outlives the page |

`saveAllUnsaved` and the loop of `handleGenerate` send one row after the other and go on
after a failure; the model keeps the rest of the loop in `todo`. The answer to a save
replaces the row by its temporary id, so what was typed meanwhile goes, and a row deleted
meanwhile stays deleted. `Unheard` is a request that took effect and whose answer is lost,
or which `db_retry` has carried out twice. `reorder_fields` is never reached: the route
`PATCH .../fields/{field_id}` is declared before `.../fields/reorder` and takes its
requests, which end with an error, so every move fails and `moveRow` loads again; the
order is what the `sort_order` of single saves makes it.

A `filter` over rows is `At`, the rows at the positions that satisfy its condition, in
their order: what it returns is then a fact about positions, which the proofs need, and
not an induction. `gap` is set by what leaves a hole in the orders: a deletion, rows lost
unsaved with the page, and a generated row that is not complete, which is not saved and
which a page that was left does not show either.

A row can be stored twice. Save and then Save all or Test, or Save while the rows of a
prompt are being saved, send one row in two requests: each looks at `id` when it starts,
and none looks at the others' flags. `Patient` keeps such requests apart, and no property
speaks of them.

### Catalog

| State | In the code |
|---|---|
| `projects`, `blueprints`, `jobs` | the rows, with what refers to what |
| `page`, `projectId`, `blueprintId` | App's state; `NextProject` and `NextBlueprint` are the rules of `navigate` for an option not given |
| `view` | the state of the page that is mounted |
| `requests` | what is under way |

`page = "blank"` is React unmounting the tree: a 404 of a project deleted meanwhile is
parsed like a list of blueprints and cannot be drawn. `ListAgrees` says that this needs a
failure or a change left behind. `CountResults` and `delete_blueprint` are the two
statements of one endpoint, `CheckUpload` and `upload_files` the two transactions of
another; a running job may save its first result in between (`SaveResult`). Such a
result loses its blueprint, although the docstring at routes_blueprints.py:110 says that
a blueprint with results is archived: nothing holds the count until the delete.

### Session

| State | In the code |
|---|---|
| `token`, `user` | the state of `AuthProvider` and its two entries of `localStorage`, which are written together |
| `key` | `billscan_active_job_id`, with `activeJobId` of App |
| `page`, `jobId`, `authPage` | App's state |
| `profiles`, `owners`, `expired`, `jobs` | the server: accounts, whose each token is, expired tokens, jobs |

A tab opens with the key of a job or without, as `localStorage` was left. `apiFetch`
reads the token when it sends, so an answer belongs to the session that asked, and a 401
clears whatever session there is (`Unauthorized`). `crossed` records that requests of two
sessions, forms or jobs overlapped; the properties are about all other behaviours, and
what happens in these is said below. `processing_complete` is the event of the stream;
how it gets there is the matter of `JobStream`. A job that runs is `interrupted` by a
`Restart` until startup recovery ends it, and of such a job the stream says at once that it
is over (`Streamed`), so its page removes the key. A page that has finished may retry its job
(`handleInlineRetry`, `retry_job`, `Retried`): a job that had ended runs again, and the page
watches it again and affirms its key. If the server takes the retry while an answer that
says "ended" is under way, that answer finishes the page again and removes the key of the
job that runs; `crossed` records this (`StaleNews`).

### Review

| State | In the code |
|---|---|
| `stored`, `gone` | `extraction_results.data` as a version, deleted jobs |
| `view` | the loaded result, the draft, whether checkboxes show the draft while not editing, range, order, job |
| `tables` | the four loaders of `Observability`: page, size, loading, the query whose answer is shown |
| `requests` | with `live`, the `cancelled` flag of the effect's run |

`usePaged` resets its page in an effect of its own, so a change of range first asks with
the old offset and then again; the model sends both.

| Run | Instance | Result |
|---|---|---|
| `Builder` | 2 rows, 2 handlers at a time, 3 operations, 3 fields, a page opened twice, 1 fault, `Patient` | passes: `ScreenAgrees`, `OrderKept`, `BusyEnds`, `GeneratedKept`, types |
| `Catalog` | 3 projects and blueprints, 1 upload, 5 operations, 1 fault | passes: `JobOfItsProject`, `ListAgrees`, `WaitEnds`, types |
| `Session` | 2 accounts, sessions and jobs, 3 operations, 1 fault | passes: `UserAgrees`, `KeyKept`, `WatchEnds`, types |
| `Review` | 2 jobs, 2 versions, 3 operations, 2 cancelled requests, 1 event | passes: `ShownAsAsked`, `DetailAgrees`, `LoadEnds`, types |

Bounds. Every hazard of these pages is two overlapping handlers, or a handler and a
page that was left: three operations are two that overlap and one more that shows the
result; `Catalog` needs five to open a page, start something, leave, come back and look;
`Session` has three, as its tab may open with the key of a job: to sign in, to upload,
retry or delete, and to leave or do the same once more. Two rows have an
order, two accounts can be confused, and the third project or blueprint is the one that
is created. One fault is a request that fails while the others do not. `MaxStray` only
limits how many cancelled requests of `Observability` wait; two can be overtaken in
either order. Typing is not counted as an operation.

What the passing runs assume matters, and each assumption is a constant or a history
variable that shows what happens without it.

- `Patient` in `Builder`: the user leaves alone what a request is under way for. With
  `FALSE`, `ScreenAgrees` fails: a row deleted while its insert is under way stays stored,
  and a row sent by two buttons is two fields, of which the page shows one.
- `unsure`: an answer was lost after the request took effect. A row then is on the server
  and still without `id` on the page, and the next save inserts it again.
- `astray`: a request failed, a change outlived its page or the answers of two choices
  crossed. After a failed load (ProjectForm.jsx:23) the form shows empty fields, and a save
  clears what it did not show; the upload page shows the blueprints of another project.
  `JobOfItsProject` holds all the same, as the endpoint compares.
- `crossed` in `Session`: a 401 of a session that ended signs out the present one; a
  saved profile answered after the logout stores a user without a token; an upload
  answered late moves the user to its job from anywhere, and a late poll of an old job
  removes the key of the new one, so the job is lost from the sidebar, which App.jsx:32
  wants to prevent. A late poll of a job that was retried meanwhile does the same.
- `DetailAgrees` is about the result a page of `Review` keeps, not about its boxes, which
  show the draft: the inputs are not disabled during a save (ResultDetail.jsx:86-112), and
  what is typed then is shown after it and not stored.
- `JobDetail` of the usage pages shows its spinner for ever when its one request fails
  (Observability.jsx:257, :283); `LoadEnds` names this exception.

Seen on the way. A correction changes `extraction_results.data` and nothing else: the
stored workbook keeps what was extracted, and nothing rebuilds it. An archived blueprint
is "kept around read-only" by the docstring at routes_blueprints.py:109; its fields can
still be edited and an upload still accepts it. A logout leaves the key of the active job
to the next account, whose poll is answered by a 404 and removes it.

## What is proved

`JobPipeline_proofs.tla` proves, for every set of pages and every bound, from the
assumptions on the constants alone:

- `TypeCorrect`: `Spec => []TypeOK`. The invariant is cut into parts by who
  writes them together (`JobType`, `PageType`, ...), with one lemma for each
  operator the actions are built from.
- `DoneHasResultAlways`: `Spec => []DoneHasResult`. It is not inductive: a
  coroutine about to mark its page must have saved it. `ResultInv` adds that
  every coroutine at `markDone` has a row with data, which holds with crashes,
  faults and overlapping runs since no action removes a result.
- `OneRunAtATimeAlways` and `LiveMeansActiveAlways`: with `OneTab`,
  `Spec => [](OneRunAtATime /\ LiveMeansActive)`. `Exclusive` strengthens it: of all runs at
  most one does not rest, a request in flight means a status that is not `processing`, and a
  working run means an active status and an entry in `job_store`. That entry is why the page
  does not take a live job for a closed one, and the request is what makes it inductive.
- `ConcurrencyBoundedAlways`: with `OneTab`, `Spec => []ConcurrencyBounded`.
  `SlotInv` bounds each run by its semaphore and says that slots are held only
  while gathering; `Exclusive` then puts all slots in one run, and an injection
  into its pages counts them.

`JobVerdict_proofs.tla` goes on from there. `Shape` is what is known with one open
Processing page: types, exclusion, `RowsBegun` (no run is where it needs rows before
there are any), and where each coroutine can be for the place its run is at and the row
its page has. On it rest, for every number of pages, runs and crashes:

- `SweepRescuesStaleAlways`: `Spec => SweepRescuesStale`, with no assumption at all; it
  needs `RowsBegun` only.
- `DoneMeansAllDoneAlways`: with `OneTab` and `NoneLost` (no call that raises has
  committed). A run's verdict goes by numbers, so `DoneInv` says that `completed_pages`
  never runs ahead of the rows that are done and have no coroutine at work, and that a run
  which counted no failure has them all done. A lost acknowledgement breaks the first
  part, and with it the property, as said above.
- `KeepsPromiseAlways`: with `OneTab` and `MaxFaults = 0`, `Spec => KeepsPromise`. Each
  step maps to a delivery, a closing, an opening or a stutter of `JobLifecycle`.
  `CleanInv` says that a coroutine which has not marked its page works on one that is not
  done. The jobs a page retries too early after a crash are among those this is proved for. With faults the handler may mark a page failed that was done before, which takes
  a delivered page back.
- `CountersExactAlways` and `TerminalMeansSettledAlways`: with `OneTab`, `MaxFaults = 0`
  and no deletion of the project. `CountInv` counts rows whose coroutine has ended, so
  that it holds between the write of a row and its increment, and says of every page
  still to be settled that a run has it in hand (`InHand`), unless the job waits for a
  sweep or was retried before one (`early`). The assumptions are those the counterexamples above ask for: a failed increment
  is not repeated, and without its blueprint's project no result can be inserted.
- `ExcelCoversDoneAlways`: with `OneTab` and `MaxCrashes = 0`, calls failing before or
  after their commit. `ExcelInv` says that a workbook on its way to the bucket holds
  every page that is done, and the bucket holds it once the run is about to commit. With a
  crash it fails (`StaleExcel`).

`GeminiExtract_proofs.tla` proves of the quota manager, for every set of callers, caps and
times:

- `QuotaTypes`: `QSpec => []QTypeOK`.
- `CountsCoverGrantsAlways`: `QSpec => []CountsCoverGrants`. Taken alone it is not
  inductive: a row that was removed comes back with no count. `QInv` adds that what
  is missing from the table is too old (`GoneIsOld`) for any reservation under way
  (`NotStalled`), where `Stall <= CleanupAge` is needed.
- `LimitsRateAlways`: `QSpec => LimitsRate`. A caller past its lock holds both rows
  (`LocksHeld`, `ReadsFresh`), so what it read is still what is there; `Reserve`
  then maps to an admission and every other step to a stutter.

Of extractions it proves, for every limit, that they leave the quota to its own steps
(`QuotaOfExtraction`), hence `ExtractionLimitsRate`; and `ExtractTypes` and
`LadderBoundedAlways`. The latter's invariant says that until the loop ends each
counter is below its limit and calls are at most one ahead of the counters.

`BlueprintBuilder_proofs.tla` proves `TypeCorrect`, `Spec => []TypeOK`, for every user; it
needs to know what each kind of handler carries (`HandlerOK`: a deletion has one row, which
has an id; a save begins with a row that is complete) and that the rows a prompt may still
bring have room (`RoomOK`). With `Patient`, and for any number of rows, fields, handlers at
a time, prompts, visits and requests that fail, four layers stand on each other:

- `Turns`: which handlers can be under way together, and on which page. A load or a move
  excludes all but the test, a change of the columns another one, a prompt another prompt;
  while a page loads nothing else is under way.
- `Sole`, until an answer is lost: no two rows of the page have one key or one id
  (`FieldsSole`), no two handlers are at work on one row (`ApartFrom`), and a row without an
  id was not stored, unless the answer that says so is on its way (`Freed`, `Inserted`).
- `ScreenAlwaysAgrees`: `Spec => []ScreenAgrees`. The property is about states with nothing
  under way, so `Agree` accounts for the difference meanwhile: a field is stored if and
  only if the page lists it and no deletion of it was carried out (`Leaving`), or the
  answer that brings it is on its way (`Arriving`). That a field arrives once needs `Sole`.
- `OrderAlwaysKept`: `Spec => []OrderKept`. `OrderKept` is not inductive, since `addRow` and
  the prompts take the next order from the length of a list. `Orders` says, until a hole
  is made or a request fails, that the rows are numbered without one (`Rising`), so is the
  store when the page is not there to be looked at (`StoredOrders`), saved rows have the
  order that is stored (`Held`), and what a handler of a page that was left has still to
  store follows what is stored (`OffOrder`). The invariant was
  checked by TLC before it was proved.

The last of them corrected the model. The proof of the step that appends generated rows
fails when the page was left and one of the rows is not complete: it is dropped, and the
orders of the rest have a hole, into which the next `addRow` of the new page counts. TLC
shows it with three rows and two visits, more than `Builder` has. The code does the same,
as after a deletion, so it belongs to the cases `gap` stands for.

`Catalog_proofs.tla` proves, for any number of projects, blueprints, uploads,
operations and failed requests:

- `JobOfItsProjectAlways`: `Spec => []JobOfItsProject`. An upload is checked in one
  transaction and inserted in another, so `CheckedMatch` says of every upload in between
  that its blueprint, as long as it exists, is of its project; `Known`, that rows refer to
  rows that exist, makes that survive deletions and new rows. What the user does and what
  pages do with answers comes down to one fact, `Tame`: they change no row and make no
  request a checked one.
- `TypeCorrect`: `Spec => []TypeOK`, with `Types` saying besides that App, the pages and
  the requests name rows that were created.
- `ListAgreesAlways`: `Spec => []ListAgrees`. `Tidy` says, until something went astray, what each page and each request under way is
  good for: of a kind there is one (`OneOfEach`), it belongs to the page that is mounted
  (`Here`), its answer is still what the server has (`Accurate`), and nothing is changed
  from a page before it has loaded (`LoadsFirst`). A list is compared with the server only
  when nothing is under way, so none of this can be left out.

`Session_proofs.tla` proves, for any number of accounts, sessions, jobs and operations:

- `TypeCorrect`: `Spec => []TypeOK`.
- `UserAgreesAlways`: `Spec => []UserAgrees`. `Agree` says, until requests cross, that
  there is at most one save and one sign-in, a save is of the session that is signed in, a
  sign-in happens only when none is, and an answer under way carries the user its token
  belongs to. `UserAgrees` alone is about states with nothing under way.
- `KeyKeptAlways`: `Spec => KeyKept`. A job that had ended may run again, so what an answer
  under way says of it may have become false. `Told` says that until something crosses it
  has not: every answer that says a job has ended (`News`) is of a job that does not run.
  `retry_job` is the one step that sets a job running which ran not, and there either no
  such answer is under way or `crossed` is set.

`JobStream_proofs.tla` proves, for any number of streams, retries, crashes and reloads,
`TypeCorrect` and, with `Patient` and `Eager`, `NotEarlyAlways`: `Spec => NotEarly`. Its
invariant `Early` says that a run at work has an empty queue of its own (`RunSilent`), as
have the retries to come (`Ahead`), and that a page which waits for a retry's answer reads
no stream (`PageQuiet`).

`Review_proofs.tla` proves, for any number of operations and of requests that are
overtaken or lost:

- `ShownAsAskedAlways`: `Spec => []ShownAsAsked`. A list can be right now and still have a
  request under way that will make it wrong, so `LiveAsks` says of every request that was
  not cancelled that it asks what its list would ask now: whatever changes the query
  cancels the request in the same step. What an answer brings is then what is on the
  screen, and all other steps reduce to `Tame`: no request runs that did not before.
- `TypeCorrect`: `Spec => []TypeOK`. A request for a result names a job (`Sound`), since a
  list of results leads to the job it was read for.
- `DetailAgreesAlways`: `Spec => []DetailAgrees`. The data on the page
  differs from what is stored while a save is answered, so `DetailInv` says that there is
  at most one save, that an answered one is what is stored whatever the draft is by then, and
  that the page's own request is answered with what is still stored when it arrives. TLC
  checked it on the run's instance before it was proved.

The assumptions are constants of the models, not facts about the code: they say when a
property holds, and the section of each module says what happens without them.

Reasoning for every instance also corrected the models. Some `CASE`s of `Catalog` and
`Session` had arms that overlap; TLC takes the first that is true, TLA+ leaves the choice
open, and the provers rightly refused to know it. They are written with `IF` now, in the
order of the code.

Every safety property of a passing run, invariant or action property, and each refinement
is stated by a theorem. Only model-checked are the eight liveness properties, which the
proof system's back ends do not cover (`WF` and `ENABLED`): `JobEventuallyTerminal`,
`ExtractionEnds`, `PageSettles`, `BusyEnds`, `GeneratedKept`, `WaitEnds`, `WatchEnds` and
`LoadEnds`. The three findings are violations and stay with TLC as well.

## Plan

1. A second process over the rows of `JobPipeline`: the sweep of one against the run of
   the other, and `delete_job` under a run.
2. The Files API of the Gemini client, and the events that narrate a stage.

## Not modelled

Prompts and the parsing of answers beyond their outcome; the Files API; prices, usage
rows and aggregation in SQL; cells of the workbook and the download; passwords, the
limiter of sign-ins; configuration and request models; charts, icons, badges, toasts and
page layout; a second tab on the same `localStorage`.
