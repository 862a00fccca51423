----------------------------- MODULE JobPipeline -----------------------------
(***************************************************************************)
(* One extraction job of Xtract, from the upload request to its terminal   *)
(* status: the batch processor, the /retry endpoint with the retry         *)
(* processor it starts, the startup recovery sweep, and the two events of  *)
(* the surroundings that reach into a running job (a project deleted, the  *)
(* uploaded files expired).                                                *)
(*                                                                         *)
(* The backend is one asyncio process: code between two awaits runs alone, *)
(* so every action is the code from one await to the next and every write  *)
(* to the database, a transaction of its own in the code, is one action.   *)
(*                                                                         *)
(* A page is a row of job_pages.  Here every page is an uploaded file of   *)
(* its own; in a PDF of several pages the rows share a file.  What Gemini  *)
(* answers, the text of errors and the events pushed to the browser are    *)
(* left out.                                                               *)
(***************************************************************************)
EXTENDS Integers, FiniteSets

CONSTANTS
  Page,              \* the pages of the job
  MaxConcurrent,     \* MAX_CONCURRENT_EXTRACTIONS, the size of a run's semaphore
  MaxRetries,        \* bound: requests to /retry
  MaxFaults,         \* bound: database calls that raise
  MaxCrashes,        \* bound: crashes of the process
  AmbiguousCommits,  \* may a call raise after the database has committed it?
  OneTab,            \* does every /retry come from one open Processing page?
  MayDeleteProject,  \* may the owner delete the project while the job exists?
  MayExpireUploads   \* may the cleaner remove the uploads while the job exists?

ASSUME PageAssumption == IsFiniteSet(Page) /\ Page # {}
ASSUME BoundAssumption ==
  /\ MaxConcurrent \in Nat \ {0}
  /\ MaxRetries \in Nat
  /\ MaxFaults \in Nat
  /\ MaxCrashes \in Nat
ASSUME SwitchAssumption ==
  /\ AmbiguousCommits \in BOOLEAN
  /\ OneTab \in BOOLEAN
  /\ MayDeleteProject \in BOOLEAN
  /\ MayExpireUploads \in BOOLEAN

Batch == 0                  \* run_batch_processor, started by the upload
Retry == 1 .. MaxRetries    \* a request to /retry and its run_retry_processor
Run   == {Batch} \cup Retry

VARIABLES
  \* the row of the jobs table
  jobStatus, totalPages, completedPages, failedPages,
  excelReady,   \* excel_path is not null
  jobFresh,     \* created_at is younger than the sweep's cutoff
  blueprint,    \* the job's blueprint exists; its id is in the row
  \* the other tables, the Storage bucket and the upload directory
  row,          \* job_pages.status, "absent" before the row exists
  fresh,        \* the pages whose updated_at is younger than the cutoff
  doneRows,     \* extraction_results rows of a page with status "done"
  failedRows,   \* and with status "failed"
  stored,       \* the stored workbook, as the set of its pages: {} or {pages}
  onDisk,       \* the pages whose uploaded file exists
  \* the memory of the process
  up,           \* the process serves
  known,        \* job_store has an entry for the job
  runPc,        \* where each run is
  runPages,     \* the pages a run works on
  task,         \* where a run's coroutine of each page is
  failures,     \* page_failures of _finalize_job
  workbook,     \* the pages in the workbook a run has built
  \* history, read by properties only: a retry was accepted while the job was
  \* still "queued", and no sweep has reconciled the job since
  early,
  \* the bounds' bookkeeping
  faults, crashes

jobRow  == <<jobStatus, totalPages, completedPages, failedPages, excelReady>>
given   == <<jobFresh, blueprint>>
pages   == <<row, fresh>>
results == <<doneRows, failedRows>>
files   == <<stored, onDisk>>
locals  == <<runPages, failures, workbook>>
memo    == <<known, early>>
vars    == <<jobRow, given, pages, results, files,
             up, memo, runPc, locals, task, faults, crashes>>

ActiveStatus   == {"queued", "processing"}
TerminalStatus == {"done", "completed_with_errors", "error"}

JobStatus == {"none"} \cup ActiveStatus \cup TerminalStatus
RowStatus == {"absent", "done", "failed"} \cup ActiveStatus

\* "checked" and "selected" are inside the /retry request, the rest in the
\* background task; "over" is a run that returned, raised or died.
Resting == {"idle", "over"}
Request == {"checked", "selected"}
Working == {"load", "reject", "flatten", "init", "source", "gather", "collect",
            "build", "upload", "commit", "commitNoExcel"}
RunPc   == Resting \cup Request \cup Working

\* The coroutine of a page, the await it is at: "save", "mark" and "inc" are
\* its three writes, for data, for an answer of None, for an exception.
\* "remark" and "recount" are the two writes of a page given up by its run.
HoldsSlot == {"extract", "saveDone", "markDone", "incDone",
              "saveNone", "markNone", "incNone",
              "saveError", "markError", "incError"}
Finished  == {"ok", "failed", "escaped"}
TaskPc    == {"none", "splitFail", "find", "remark", "recount", "wait"}
               \cup HoldsSlot \cup Finished

Count(status) == Cardinality({p \in Page : row[p] = status})

Init ==
  /\ jobStatus = "none"
  /\ totalPages = 0 /\ completedPages = 0 /\ failedPages = 0
  /\ excelReady = FALSE
  /\ jobFresh = FALSE
  /\ blueprint = TRUE
  /\ row = [p \in Page |-> "absent"]
  /\ fresh = {}
  /\ doneRows = [p \in Page |-> 0]
  /\ failedRows = [p \in Page |-> 0]
  /\ stored = {}
  /\ onDisk = {}
  /\ up = TRUE
  /\ known = FALSE
  /\ early = FALSE
  /\ runPc = [r \in Run |-> "idle"]
  /\ runPages = [r \in Run |-> {}]
  /\ task = [r \in Run |-> [p \in Page |-> "none"]]
  /\ failures = [r \in Run |-> 0]
  /\ workbook = [r \in Run |-> {}]
  /\ faults = 0
  /\ crashes = 0

-----------------------------------------------------------------------------
(* A call of the database: it succeeds, it raises and nothing is written,  *)
(* or the connection is lost after the commit ("lost").                    *)

Outcome ==
  {"ok"} \cup (IF faults < MaxFaults
               THEN {"fault"} \cup (IF AmbiguousCommits THEN {"lost"} ELSE {})
               ELSE {})

Applied(o) == o \in {"ok", "lost"}
Raised(o)  == o # "ok"
Charge(o)  == faults' = IF o \in {"fault", "lost"} THEN faults + 1 ELSE faults

\* extraction_results.blueprint_id is a foreign key and the id was read when
\* the run began: with the blueprint deleted every insert is rejected.
SaveOutcome == IF blueprint THEN Outcome ELSE {"rejected"}

SetPageStatus(p, status, o) ==
  /\ row'   = IF Applied(o) THEN [row EXCEPT ![p] = status] ELSE row
  /\ fresh' = IF Applied(o) THEN fresh \cup {p} ELSE fresh

\* Mutant: the sign /retry uses on failed_pages.
MutIncrementCompleted(o) ==
  /\ completedPages' = IF Applied(o) THEN completedPages - 1 ELSE completedPages
  /\ UNCHANGED <<jobStatus, totalPages, failedPages, excelReady>>

IncrementCompleted(o) ==
  /\ completedPages' = IF Applied(o) THEN completedPages + 1 ELSE completedPages
  /\ UNCHANGED <<jobStatus, totalPages, failedPages, excelReady>>

IncrementFailed(o) ==
  /\ failedPages' = IF Applied(o) THEN failedPages + 1 ELSE failedPages
  /\ UNCHANGED <<jobStatus, totalPages, completedPages, excelReady>>

SaveDoneResult(p, o) ==
  /\ doneRows' = IF Applied(o) THEN [doneRows EXCEPT ![p] = @ + 1] ELSE doneRows
  /\ UNCHANGED failedRows

SaveFailedResult(p, o) ==
  /\ failedRows' = IF Applied(o) THEN [failedRows EXCEPT ![p] = @ + 1] ELSE failedRows
  /\ UNCHANGED doneRows

-----------------------------------------------------------------------------
(* Moving a run and its tasks.  A run that ends drops its locals.          *)

At(r, pc) == up /\ runPc[r] = pc

Goto(r, pc) ==
  /\ runPc' = [runPc EXCEPT ![r] = pc]
  /\ UNCHANGED <<up, crashes>>

KeepLocals == UNCHANGED <<locals, task>>

EndRun(r) ==
  /\ Goto(r, "over")
  /\ runPages' = [runPages EXCEPT ![r] = {}]
  /\ task'     = [task EXCEPT ![r] = [p \in Page |-> "none"]]
  /\ failures' = [failures EXCEPT ![r] = 0]
  /\ workbook' = [workbook EXCEPT ![r] = {}]

\* A task moves on, or an exception takes it elsewhere.
MoveTask(r, p, pc) ==
  /\ task' = [task EXCEPT ![r][p] = pc]
  /\ UNCHANGED <<up, runPc, locals, crashes>>

Surroundings == <<given, files, memo>>

-----------------------------------------------------------------------------
(* The upload and the first steps of run_batch_processor.                  *)

Upload ==
  /\ up /\ jobStatus = "none" /\ blueprint
  /\ jobStatus' = "queued"
  /\ jobFresh' = TRUE
  /\ onDisk' = Page
  /\ known' = TRUE
  /\ Goto(Batch, "load")
  /\ KeepLocals
  /\ UNCHANGED <<totalPages, completedPages, failedPages, excelReady, blueprint,
                 pages, results, stored, early, faults>>

\* Reads the job and its blueprint.  Without one a batch rejects the job and
\* a retry returns as it is.
LoadBlueprint(r) == \E o \in Outcome :
  /\ At(r, "load")
  /\ Charge(o)
  /\ IF Raised(o) \/ (~blueprint /\ r # Batch)
     THEN EndRun(r)
     ELSE /\ Goto(r, IF ~blueprint THEN "reject"
                     ELSE IF r = Batch THEN "flatten" ELSE "source")
          /\ task' = [task EXCEPT ![r] =
                        [p \in Page |-> IF p \in runPages[r] THEN "find" ELSE "none"]]
          /\ UNCHANGED locals
  /\ UNCHANGED <<jobRow, Surroundings, pages, results>>

RejectJob == \E o \in Outcome :
  /\ At(Batch, "reject")
  /\ Charge(o)
  /\ jobStatus' = IF Applied(o) THEN "error" ELSE jobStatus
  /\ EndRun(Batch)
  /\ UNCHANGED <<totalPages, completedPages, failedPages, excelReady,
                 Surroundings, pages, results>>

\* Every file is split up front; one that is gone or unreadable becomes a
\* page that has failed already.
FlattenToPageTasks == \E bad \in SUBSET Page :
  /\ At(Batch, "flatten")
  /\ Page \ onDisk \subseteq bad
  /\ Goto(Batch, "init")
  /\ runPages' = [runPages EXCEPT ![Batch] = Page]
  /\ task' = [task EXCEPT ![Batch] =
                [p \in Page |-> IF p \in bad THEN "splitFail" ELSE "wait"]]
  /\ UNCHANGED <<failures, workbook, jobRow, Surroundings, pages, results, faults>>

\* The failed files' results are saved one by one, before the page rows.
SaveFailedFile(p) == \E o \in SaveOutcome :
  /\ At(Batch, "init")
  /\ task[Batch][p] = "splitFail"
  /\ Charge(o)
  /\ SaveFailedResult(p, o)
  /\ IF Raised(o) THEN EndRun(Batch) ELSE MoveTask(Batch, p, "failed")
  /\ UNCHANGED <<jobRow, Surroundings, pages>>

InitJobPages == \E o \in Outcome :
  LET bad == {p \in Page : task[Batch][p] = "failed"} IN
  /\ At(Batch, "init")
  /\ \A p \in Page : task[Batch][p] \in {"failed", "wait"}
  /\ Charge(o)
  /\ IF Applied(o)
     THEN /\ row' = [p \in Page |-> IF p \in bad THEN "failed" ELSE "queued"]
          /\ fresh' = Page
          /\ totalPages' = Cardinality(Page)
          /\ failedPages' = Cardinality(bad)
     ELSE UNCHANGED <<pages, totalPages, failedPages>>
  /\ IF Raised(o) THEN EndRun(Batch) ELSE Goto(Batch, "gather") /\ KeepLocals
  /\ UNCHANGED <<jobStatus, completedPages, excelReady, Surroundings, results>>

-----------------------------------------------------------------------------
(* _extract_one_page.  The semaphore belongs to the run.  An exception in  *)
(* the try block goes to the handler; one raised by the first write or by  *)
(* the handler escapes to asyncio.gather.                                  *)

\* Mutants: one slot too many; a slot that is never released.
MutSlotFree(r) == Cardinality({p \in Page : task[r][p] \in HoldsSlot}) <= MaxConcurrent
MutSlotKept(r) == Cardinality({p \in runPages[r] : task[r][p] # "wait"}) < MaxConcurrent

SlotFree(r) == Cardinality({p \in Page : task[r][p] \in HoldsSlot}) < MaxConcurrent

StartPage(r, p) == \E o \in Outcome :
  /\ At(r, "gather") /\ task[r][p] = "wait" /\ SlotFree(r)
  /\ Charge(o)
  /\ SetPageStatus(p, "processing", o)
  /\ MoveTask(r, p, IF Raised(o) THEN "escaped" ELSE "extract")
  /\ UNCHANGED <<jobRow, Surroundings, results>>

\* Mutant: the page is marked before its result is saved.
MutExtractPage(r, p) == \E answer \in {"markDone", "saveNone", "saveError"} :
  /\ At(r, "gather") /\ task[r][p] = "extract"
  /\ MoveTask(r, p, answer)
  /\ UNCHANGED <<jobRow, Surroundings, pages, results, faults>>

\* extract_with_blueprint returns data, returns None or raises.
ExtractPage(r, p) == \E answer \in {"saveDone", "saveNone", "saveError"} :
  /\ At(r, "gather") /\ task[r][p] = "extract"
  /\ MoveTask(r, p, answer)
  /\ UNCHANGED <<jobRow, Surroundings, pages, results, faults>>

SaveDone(r, p) == \E o \in SaveOutcome :
  /\ At(r, "gather") /\ task[r][p] = "saveDone"
  /\ Charge(o)
  /\ SaveDoneResult(p, o)
  /\ MoveTask(r, p, IF Raised(o) THEN "saveError" ELSE "markDone")
  /\ UNCHANGED <<jobRow, Surroundings, pages>>

MarkDone(r, p) == \E o \in Outcome :
  /\ At(r, "gather") /\ task[r][p] = "markDone"
  /\ Charge(o)
  /\ SetPageStatus(p, "done", o)
  /\ MoveTask(r, p, IF Raised(o) THEN "saveError" ELSE "incDone")
  /\ UNCHANGED <<jobRow, Surroundings, results>>

CountDone(r, p) == \E o \in Outcome :
  /\ At(r, "gather") /\ task[r][p] = "incDone"
  /\ Charge(o)
  /\ IncrementCompleted(o)
  /\ MoveTask(r, p, IF Raised(o) THEN "saveError" ELSE "ok")
  /\ UNCHANGED <<Surroundings, pages, results>>

\* The same three writes for a failed page, in the try block after an answer
\* of None and in the handler after an exception.
SaveFailed(r, p) == \E o \in SaveOutcome :
  /\ At(r, "gather") /\ task[r][p] \in {"saveNone", "saveError"}
  /\ Charge(o)
  /\ SaveFailedResult(p, o)
  /\ MoveTask(r, p, IF task[r][p] = "saveNone"
                    THEN IF Raised(o) THEN "saveError" ELSE "markNone"
                    ELSE IF Raised(o) THEN "escaped" ELSE "markError")
  /\ UNCHANGED <<jobRow, Surroundings, pages>>

MarkFailed(r, p) == \E o \in Outcome :
  /\ At(r, "gather") /\ task[r][p] \in {"markNone", "markError"}
  /\ Charge(o)
  /\ SetPageStatus(p, "failed", o)
  /\ MoveTask(r, p, IF task[r][p] = "markNone"
                    THEN IF Raised(o) THEN "saveError" ELSE "incNone"
                    ELSE IF Raised(o) THEN "escaped" ELSE "incError")
  /\ UNCHANGED <<jobRow, Surroundings, results>>

CountFailed(r, p) == \E o \in Outcome :
  /\ At(r, "gather") /\ task[r][p] \in {"incNone", "incError"}
  /\ Charge(o)
  /\ IncrementFailed(o)
  /\ MoveTask(r, p, IF ~Raised(o) THEN "failed"
                    ELSE IF task[r][p] = "incNone" THEN "saveError" ELSE "escaped")
  /\ UNCHANGED <<Surroundings, pages, results>>

GatherReturns(r) ==
  /\ At(r, "gather")
  /\ \A p \in Page : task[r][p] \in Finished \cup {"none"}
  /\ Goto(r, "collect")
  /\ KeepLocals
  /\ UNCHANGED <<jobRow, Surroundings, pages, results, faults>>

-----------------------------------------------------------------------------
(* Pages a run gives up: a retry whose source file is gone or unreadable,  *)
(* and the coroutines whose exception escaped.  A batch marks the row of   *)
(* an escaped page and counts it, a retry only counts it.                  *)

GivingUp(r) == \E p \in Page : task[r][p] \in {"remark", "recount"}

FindSource(r, p) ==
  /\ At(r, "source") /\ task[r][p] = "find" /\ ~GivingUp(r)
  /\ \/ p \in onDisk /\ MoveTask(r, p, "wait")
     \/ MoveTask(r, p, "remark")
  /\ UNCHANGED <<jobRow, Surroundings, pages, results, faults>>

SourcesRead(r) ==
  /\ At(r, "source")
  /\ \A p \in runPages[r] : task[r][p] \in {"wait", "failed"}
  /\ Goto(r, "gather")
  /\ KeepLocals
  /\ UNCHANGED <<jobRow, Surroundings, pages, results, faults>>

TakeEscaped(r, p) ==
  /\ At(r, "collect") /\ task[r][p] = "escaped" /\ ~GivingUp(r)
  /\ MoveTask(r, p, IF r = Batch THEN "remark" ELSE "recount")
  /\ UNCHANGED <<jobRow, Surroundings, pages, results, faults>>

Remark(r, p) == \E o \in Outcome :
  /\ up /\ task[r][p] = "remark"
  /\ Charge(o)
  /\ SetPageStatus(p, "failed", o)
  /\ IF Raised(o) THEN EndRun(r) ELSE MoveTask(r, p, "recount")
  /\ UNCHANGED <<jobRow, Surroundings, results>>

Recount(r, p) == \E o \in Outcome :
  /\ up /\ task[r][p] = "recount"
  /\ Charge(o)
  /\ IncrementFailed(o)
  /\ IF Raised(o) THEN EndRun(r) ELSE MoveTask(r, p, "failed")
  /\ UNCHANGED <<Surroundings, pages, results>>

\* total - done: a batch counts its own results, a retry reads the counters
\* of the whole job back.
CountResults(r) == \E o \in (IF r = Batch THEN {"ok"} ELSE Outcome) :
  /\ At(r, "collect")
  /\ \A p \in runPages[r] : task[r][p] \in {"ok", "failed"}
  /\ Charge(o)
  /\ IF Raised(o)
     THEN EndRun(r)
     ELSE /\ failures' = [failures EXCEPT ![r] =
               IF r = Batch
               THEN Cardinality(Page) - Cardinality({p \in Page : task[r][p] = "ok"})
               ELSE totalPages - completedPages]
          /\ Goto(r, "build")
          /\ UNCHANGED <<runPages, workbook, task>>
  /\ UNCHANGED <<jobRow, Surroundings, pages, results>>

-----------------------------------------------------------------------------
(* _finalize_job.  Whatever fails while the workbook is built or uploaded  *)
(* is caught: the job ends completed_with_errors and excel_path is null.   *)

BuildExcel(r) ==
  /\ At(r, "build")
  /\ \/ /\ workbook' = [workbook EXCEPT ![r] = {p \in Page : doneRows[p] > 0}]
        /\ Goto(r, "upload")
     \/ /\ Goto(r, "commitNoExcel")
        /\ UNCHANGED workbook
  /\ UNCHANGED <<runPages, failures, task, jobRow, Surroundings, pages, results, faults>>

UploadExcel(r) == \E put \in BOOLEAN, acknowledged \in BOOLEAN :
  /\ At(r, "upload")
  /\ acknowledged => put
  /\ stored' = IF put THEN {workbook[r]} ELSE stored
  /\ Goto(r, IF acknowledged THEN "commit" ELSE "commitNoExcel")
  /\ KeepLocals
  /\ UNCHANGED <<jobRow, given, onDisk, memo, pages, results, faults>>

\* Mutants: the verdict forgets the failed pages; the old excel_path survives a
\* failed build.
MutFinalStatus(r) == IF runPc[r] = "commitNoExcel" THEN "completed_with_errors" ELSE "done"
MutFinalExcel(r)  == excelReady \/ runPc[r] = "commit"

FinalStatus(r) == IF failures[r] > 0 \/ runPc[r] = "commitNoExcel"
                  THEN "completed_with_errors" ELSE "done"
FinalExcel(r)  == runPc[r] = "commit"

FinalizeJob(r) == \E o \in Outcome :
  /\ up /\ runPc[r] \in {"commit", "commitNoExcel"}
  /\ Charge(o)
  /\ jobStatus'  = IF Applied(o) THEN FinalStatus(r) ELSE jobStatus
  /\ excelReady' = IF Applied(o) THEN FinalExcel(r) ELSE excelReady
  /\ EndRun(r)
  /\ UNCHANGED <<totalPages, completedPages, failedPages, Surroundings, pages, results>>

-----------------------------------------------------------------------------
(* POST /jobs/{id}/retry: the status is read, then the failed pages, then  *)
(* both are written in one transaction at READ COMMITTED.  The endpoint    *)
(* refuses "processing" and nothing else.  The Processing page offers the  *)
(* button on the status it shows, and not while its own request is out.    *)
(* That status is one the job has reached, or a guess: of a job its        *)
(* process does not know, one a crash left queued for instance, /stream    *)
(* says processing_complete, and the page shows completed_with_errors if   *)
(* any page has failed.  Any other client may send what it likes.          *)

ShownClosed == jobStatus \in TerminalStatus \/ (~known /\ failedPages > 0)

CheckRetry(r) ==
  /\ up /\ jobStatus \notin {"none", "processing"}
  /\ runPc[r] = "idle" /\ \A q \in Retry : q < r => runPc[q] # "idle"
  /\ OneTab => ShownClosed /\ \A q \in Retry : runPc[q] \notin Request
  /\ Goto(r, "checked")
  /\ KeepLocals
  /\ UNCHANGED <<jobRow, Surroundings, pages, results, faults>>

\* With nothing failed, or with a file expired, the request answers and ends.
SelectFailedPages(r) ==
  LET failed == {p \in Page : row[p] = "failed"} IN
  /\ At(r, "checked")
  /\ IF failed = {} \/ ~(failed \subseteq onDisk)
     THEN EndRun(r)
     ELSE /\ Goto(r, "selected")
          /\ runPages' = [runPages EXCEPT ![r] = failed]
          /\ UNCHANGED <<failures, workbook, task>>
  /\ UNCHANGED <<jobRow, Surroundings, pages, results, faults>>

\* Mutants: every page is reset; the decrement is forgotten; the status is not
\* taken.
MutResetPages == Page
MutFailedAfterReset(r) == failedPages
MutRetryStatus == jobStatus

ResetPages == {p \in Page : row[p] = "failed"}
FailedAfterReset(r) == failedPages - Cardinality(runPages[r])
RetryStatus == "processing"

CommitRetry(r) == \E o \in Outcome :
  /\ At(r, "selected")
  /\ Charge(o)
  /\ IF Applied(o)
     THEN /\ row' = [p \in Page |-> IF p \in ResetPages THEN "queued" ELSE row[p]]
          /\ fresh' = fresh \cup ResetPages
          /\ failedPages' = FailedAfterReset(r)
          /\ jobStatus' = RetryStatus
     ELSE UNCHANGED <<pages, failedPages, jobStatus>>
  /\ early' = (early \/ (Applied(o) /\ jobStatus = "queued"))
  /\ known' = (known \/ ~Raised(o))
  /\ IF Raised(o) THEN EndRun(r) ELSE Goto(r, "load") /\ KeepLocals
  /\ UNCHANGED <<totalPages, completedPages, excelReady, given, files, results>>

-----------------------------------------------------------------------------
(* The process dies; another one starts and sweeps before it serves.       *)

Crash ==
  /\ up /\ crashes < MaxCrashes
  /\ up' = FALSE
  /\ known' = FALSE
  /\ crashes' = crashes + 1
  /\ runPc' = [r \in Run |-> IF runPc[r] = "idle" THEN "idle" ELSE "over"]
  /\ runPages' = [r \in Run |-> {}]
  /\ task' = [r \in Run |-> [p \in Page |-> "none"]]
  /\ failures' = [r \in Run |-> 0]
  /\ workbook' = [r \in Run |-> {}]
  /\ UNCHANGED <<jobRow, given, pages, results, files, early, faults>>

\* recover_interrupted_jobs, one transaction.
Orphans == IF jobStatus \in ActiveStatus
           THEN {p \in Page : row[p] \in ActiveStatus /\ p \notin fresh}
           ELSE {}

SweptRow == [p \in Page |-> IF p \in Orphans THEN "failed" ELSE row[p]]

NeverStarted ==
  /\ jobStatus = "queued" /\ ~jobFresh
  /\ \A p \in Page : row[p] = "absent"

\* Mutants: only a job with a flipped page is reconciled; a page that is still
\* active does not hold the job back.
MutReconcileFlipped ==
  /\ jobStatus \in ActiveStatus
  /\ \A p \in Page : SweptRow[p] \in {"done", "failed"}
  /\ Orphans # {}

MutReconcileActive ==
  /\ jobStatus \in ActiveStatus
  /\ \A p \in Page : SweptRow[p] # "absent"
  /\ Orphans # {} \/ fresh = {}

Reconciled ==
  /\ jobStatus \in ActiveStatus
  /\ \A p \in Page : SweptRow[p] \in {"done", "failed"}
  /\ Orphans # {} \/ fresh = {}

Verdict(done, failed) ==
  IF done = 0 THEN "error"
  ELSE IF failed > 0 THEN "completed_with_errors"
  ELSE IF ~excelReady THEN "error" ELSE "done"

Recover ==
  LET done   == Cardinality({p \in Page : SweptRow[p] = "done"})
      failed == Cardinality({p \in Page : SweptRow[p] = "failed"})
  IN
  /\ row' = SweptRow
  /\ fresh' = fresh \cup Orphans
  /\ jobStatus' = IF NeverStarted THEN "error"
                  ELSE IF Reconciled THEN Verdict(done, failed) ELSE jobStatus
  /\ completedPages' = IF Reconciled THEN done ELSE completedPages
  /\ failedPages' = IF Reconciled THEN failed ELSE failedPages
  /\ early' = (early /\ ~Reconciled)
  /\ UNCHANGED <<totalPages, excelReady, given, results, files>>

Restart ==
  /\ ~up
  /\ up' = TRUE
  /\ Recover
  /\ UNCHANGED <<known, runPc, locals, task, faults, crashes>>

\* STARTUP_RECOVERY_STALE_MINUTES pass; only a sweep still to come can tell.
Age ==
  /\ fresh # {} \/ jobFresh
  /\ ~up \/ crashes < MaxCrashes
  /\ fresh' = {} /\ jobFresh' = FALSE
  /\ UNCHANGED <<jobRow, blueprint, row, results, files,
                 up, memo, runPc, locals, task, faults, crashes>>

\* Deleting the project deletes its blueprints and nulls the job's ids.
DeleteProject ==
  /\ MayDeleteProject /\ up /\ blueprint
  /\ blueprint' = FALSE
  /\ UNCHANGED <<jobRow, jobFresh, pages, results, files,
                 up, memo, runPc, locals, task, faults, crashes>>

CleanupUploads ==
  /\ MayExpireUploads /\ up
  /\ \E gone \in SUBSET onDisk : gone # {} /\ onDisk' = onDisk \ gone
  /\ UNCHANGED <<jobRow, given, pages, results, stored,
                 up, memo, runPc, locals, task, faults, crashes>>

-----------------------------------------------------------------------------
PageStep(r, p) ==
  \/ StartPage(r, p) \/ ExtractPage(r, p)
  \/ SaveDone(r, p) \/ MarkDone(r, p) \/ CountDone(r, p)
  \/ SaveFailed(r, p) \/ MarkFailed(r, p) \/ CountFailed(r, p)
  \/ FindSource(r, p) \/ TakeEscaped(r, p) \/ Remark(r, p) \/ Recount(r, p)

RunStep(r) ==
  \/ LoadBlueprint(r) \/ GatherReturns(r) \/ SourcesRead(r) \/ CountResults(r)
  \/ BuildExcel(r) \/ UploadExcel(r) \/ FinalizeJob(r)
  \/ \E p \in Page : PageStep(r, p)

BatchStep == RejectJob \/ FlattenToPageTasks \/ InitJobPages
               \/ \E p \in Page : SaveFailedFile(p)

RetryRequest(r) == SelectFailedPages(r) \/ CommitRetry(r)

Next ==
  \/ Upload \/ BatchStep
  \/ \E r \in Run : RunStep(r)
  \/ \E r \in Retry : CheckRetry(r) \/ RetryRequest(r)
  \/ Crash \/ Restart \/ Age \/ DeleteProject \/ CleanupUploads

Spec == Init /\ [][Next]_vars

\* asyncio resumes every ready coroutine, every call to Gemini, the database
\* and Storage has a timeout, and the platform restarts a dead process.
Fairness ==
  /\ WF_vars(BatchStep)
  /\ \A r \in Run : WF_vars(RunStep(r))
  /\ \A r \in Retry : WF_vars(RetryRequest(r))
  /\ WF_vars(Restart)

FairSpec == Spec /\ Fairness

-----------------------------------------------------------------------------
(* Properties.                                                             *)

TypeOK ==
  /\ jobStatus \in JobStatus
  /\ totalPages \in Nat /\ completedPages \in Nat /\ failedPages \in Int
  /\ excelReady \in BOOLEAN /\ jobFresh \in BOOLEAN /\ blueprint \in BOOLEAN
  /\ row \in [Page -> RowStatus]
  /\ fresh \subseteq Page
  /\ doneRows \in [Page -> Nat] /\ failedRows \in [Page -> Nat]
  /\ stored \subseteq SUBSET Page
  /\ onDisk \subseteq Page
  /\ up \in BOOLEAN /\ known \in BOOLEAN /\ early \in BOOLEAN
  /\ runPc \in [Run -> RunPc]
  /\ runPages \in [Run -> SUBSET Page]
  /\ task \in [Run -> [Page -> TaskPc]]
  /\ failures \in [Run -> Int]
  /\ workbook \in [Run -> SUBSET Page]
  /\ faults \in Nat /\ crashes \in Nat

\* A page is called done only when its data is in extraction_results, whatever
\* fails, crashes or overlaps (_extract_one_page saves before it marks).
DoneHasResult == \A p \in Page : row[p] = "done" => doneRows[p] > 0

\* A job is called done only when every page is (_finalize_job goes by counters
\* and by its own results, never by the page rows).
DoneMeansAllDone == jobStatus = "done" => \A p \in Page : row[p] = "done"

\* The status column is the only lock a job has: two runs never work on it at
\* once (retry_job refuses a job that is processing).
Live(r) == runPc[r] \in Working
OneRunAtATime == \A q, r \in Run : Live(q) /\ Live(r) => q = r

\* A retry holds the job open: while a run works the status says so, and no
\* reader of the row takes the job for finished.
LiveMeansActive == \A r \in Run : Live(r) => jobStatus \in ActiveStatus

\* Once the job has a terminal status, the counters the pages show are those of
\* the page rows, which they are incremented apart from; but for a job retried
\* before a sweep had settled what a crash left of it (early).
CountersExact ==
  jobStatus \in TerminalStatus /\ (\E p \in Page : row[p] # "absent") /\ ~early =>
    completedPages = Count("done") /\ failedPages = Count("failed")

\* Once the job has a terminal status, no page row is left queued or processing,
\* where no retry would ever find it; but for a job retried too early, as above.
TerminalMeansSettled ==
  jobStatus \in TerminalStatus /\ ~early => \A p \in Page : row[p] \notin ActiveStatus

\* No more pages are in extraction at once than the instance is sized for, over
\* all runs (every run has a semaphore of its own).
ConcurrencyBounded ==
  Cardinality({e \in Run \X Page : task[e[1]][e[2]] \in HoldsSlot}) <= MaxConcurrent

\* The workbook offered for download holds every page that is done.
ExcelCoversDone ==
  jobStatus \in {"done", "completed_with_errors"} /\ excelReady =>
    \E book \in stored : \A p \in Page : row[p] = "done" => p \in book

\* A page's data is saved once, so the workbook, which lists every result row of
\* the job, shows it once (_save_result: the rows match job_pages 1:1).
DataOnce == \A p \in Page : doneRows[p] <= 1

\* No step takes a page back once it is done.
DonePagesUntouched ==
  [][\A p \in Page : row[p] = "done" => row'[p] = "done"]_vars

\* A restart that finds nothing of the job younger than the cutoff leaves it in
\* a terminal status, whichever await the process died in.
SweepRescuesStale ==
  [][~up /\ up' /\ jobStatus \in ActiveStatus /\ fresh = {} /\ ~jobFresh
       => jobStatus' \in TerminalStatus]_vars

\* A submitted or retried job reaches a terminal status.
JobEventuallyTerminal == jobStatus \in ActiveStatus ~> jobStatus \in TerminalStatus

\* The pipeline keeps what JobLifecycle promises.
Lifecycle == INSTANCE JobLifecycle WITH
  status    <- IF jobStatus \in ActiveStatus THEN "active" ELSE jobStatus,
  delivered <- {p \in Page : row[p] = "done"}
KeepsPromise == Lifecycle!Spec

=============================================================================
