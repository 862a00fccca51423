--------------------------- MODULE JobVerdict_proofs ---------------------------
(***************************************************************************)
(* What the status of a job says of its pages, its counters and its        *)
(* workbook, and the promise of JobLifecycle: proofs, on top of the types  *)
(* and of the exclusion of runs that JobPipeline_proofs establishes.       *)
(***************************************************************************)
EXTENDS JobPipeline_proofs

\* The tuples of variables the UNCHANGED conjuncts name.
USE DEF jobRow, given, pages, results, files, memo, locals, Surroundings

-----------------------------------------------------------------------------
(* The rows of job_pages are created all at once, before any page is       *)
(* worked on: without this the sweep could not tell a job that never       *)
(* started from one that was interrupted.                                  *)

Absent  == \A p \in Page : row[p] = "absent"
Present == \A p \in Page : row[p] # "absent"

\* Where a run can be only once there are rows.
Begun(r) ==
  {"selected", "source", "gather", "collect", "build", "upload", "commit", "commitNoExcel"}
    \cup (IF r = Batch THEN {} ELSE {"load"})

RowsBegun ==
  /\ Absent \/ (Present /\ totalPages = Cardinality(Page))
  /\ jobStatus = "processing" => Present
  /\ \A r \in Run : runPc[r] \in Begun(r) => Present
  /\ \A r \in Run, p \in Page : task[r][p] = "remark" => Present

\* A step that creates no rows, and takes no run where rows are needed.
NoneCreated ==
  /\ \A p \in Page : row'[p] = "absent" <=> row[p] = "absent"
  /\ totalPages' = totalPages
  /\ jobStatus' = "processing" => jobStatus = "processing" \/ Present
  /\ \A r \in Run : runPc'[r] \in Begun(r) => runPc[r] \in Begun(r) \/ Present
  /\ \A r \in Run, p \in Page : task'[r][p] = "remark" => task[r][p] = "remark" \/ Present

LEMMA NoneCreatedKeeps == ASSUME RowsBegun, NoneCreated PROVE RowsBegun'
<1>1. Absent' <=> Absent
  BY DEF NoneCreated, Absent
<1>2. Present' <=> Present
  BY DEF NoneCreated, Present
<1> QED
  BY <1>1, <1>2 DEF RowsBegun, NoneCreated, Begun

LEMMA EndRunBegun ==
  ASSUME Types, NEW r \in Run, EndRun(r)
  PROVE  /\ \A q \in Run : runPc'[q] \in Begun(q) => runPc[q] \in Begun(q)
         /\ \A q \in Run, p \in Page : task'[q][p] = "remark" => task[q][p] = "remark"
<1>1. \A q \in Run : "over" \notin Begun(q)
  BY DEF Begun
<1> QED
  BY <1>1 DEF EndRun, Goto, Types, MemoryType

LEMMA GotoBegun ==
  ASSUME Types, NEW r \in Run, NEW pc, Goto(r, pc), pc \in Begun(r) => runPc[r] \in Begun(r) \/ Present
  PROVE  \A q \in Run : runPc'[q] \in Begun(q) => runPc[q] \in Begun(q) \/ Present
  BY DEF Goto, Types, MemoryType

LEMMA MoveTaskBegun ==
  ASSUME Types, NEW r \in Run, NEW p \in Page, NEW pc, MoveTask(r, p, pc),
         pc = "remark" => Present
  PROVE  /\ \A q \in Run : runPc'[q] \in Begun(q) => runPc[q] \in Begun(q)
         /\ \A q \in Run, s \in Page : task'[q][s] = "remark" => task[q][s] = "remark" \/ Present
  BY DEF MoveTask, Types, MemoryType

LEMMA SetPageStatusBegun ==
  ASSUME Types, NEW p \in Page, NEW status, NEW o, SetPageStatus(p, status, o),
         row[p] # "absent", status # "absent"
  PROVE  \A s \in Page : row'[s] = "absent" <=> row[s] = "absent"
  BY DEF SetPageStatus, Types, PageType

LEMMA PageStepBegun ==
  ASSUME Types, RowsBegun, NEW r \in Run, NEW p \in Page, PageStep(r, p)
  PROVE  RowsBegun'
<1> SUFFICES NoneCreated
  BY NoneCreatedKeeps
<1>1. runPc[r] \in {"gather", "source", "collect"} \/ task[r][p] = "remark" => Present
  BY DEF RowsBegun, Begun
<1>2. CASE StartPage(r, p)
  BY <1>1, <1>2, MoveTaskBegun, SetPageStatusBegun DEF StartPage, At, NoneCreated, Present
<1>8. CASE MarkDone(r, p)
  BY <1>1, <1>8, MoveTaskBegun, SetPageStatusBegun DEF MarkDone, At, NoneCreated, Present
<1>9. CASE MarkFailed(r, p)
  BY <1>1, <1>9, MoveTaskBegun, SetPageStatusBegun DEF MarkFailed, At, NoneCreated, Present
<1>3. CASE ExtractPage(r, p) \/ SaveDone(r, p) \/ SaveFailed(r, p)
  BY <1>3, MoveTaskBegun DEF ExtractPage, SaveDone, SaveFailed, NoneCreated
<1>4. CASE CountDone(r, p) \/ CountFailed(r, p)
  BY <1>4, MoveTaskBegun
     DEF CountDone, CountFailed, IncrementCompleted, IncrementFailed, NoneCreated
<1>5. CASE FindSource(r, p) \/ TakeEscaped(r, p)
  BY <1>1, <1>5, MoveTaskBegun DEF FindSource, TakeEscaped, At, NoneCreated
<1>6. CASE Remark(r, p)
  BY <1>1, <1>6, MoveTaskBegun, EndRunBegun, SetPageStatusBegun DEF Remark, NoneCreated, Present
<1>7. CASE Recount(r, p)
  BY <1>7, MoveTaskBegun, EndRunBegun DEF Recount, IncrementFailed, NoneCreated
<1> QED
  BY <1>2, <1>3, <1>4, <1>5, <1>6, <1>7, <1>8, <1>9 DEF PageStep

LEMMA RunStepBegun ==
  ASSUME Types, RowsBegun, NEW r \in Run, RunStep(r)
  PROVE  RowsBegun'
<1>1. CASE LoadBlueprint(r)
  <2>1. CASE EndRun(r)
    BY <1>1, <2>1, EndRunBegun, NoneCreatedKeeps DEF LoadBlueprint, NoneCreated
  <2>2. CASE ~EndRun(r)
    <3>2. Goto(r, IF ~blueprint THEN "reject" ELSE IF r = Batch THEN "flatten" ELSE "source")
      BY <1>1, <2>2 DEF LoadBlueprint
    <3>3. \A q \in Run : runPc'[q] \in Begun(q) => runPc[q] \in Begun(q) \/ Present
      BY <1>1, <3>2, GotoBegun DEF LoadBlueprint, At, Begun
    <3>4. \A q \in Run, p \in Page : task'[q][p] = "remark" => task[q][p] = "remark"
      BY <1>1, <2>2 DEF LoadBlueprint, Types, MemoryType
    <3> QED
      BY <1>1, <3>3, <3>4, NoneCreatedKeeps DEF LoadBlueprint, NoneCreated
  <2> QED
    BY <2>1, <2>2
<1>2. CASE GatherReturns(r) \/ SourcesRead(r)
  BY <1>2, GotoBegun, NoneCreatedKeeps
     DEF GatherReturns, SourcesRead, At, KeepLocals, Begun, NoneCreated
<1>3. CASE CountResults(r)
  BY <1>3, EndRunBegun, GotoBegun, NoneCreatedKeeps DEF CountResults, At, Begun, NoneCreated
<1>4. CASE BuildExcel(r) \/ UploadExcel(r)
  BY <1>4, GotoBegun, NoneCreatedKeeps
     DEF BuildExcel, UploadExcel, At, KeepLocals, Begun, NoneCreated
<1>5. CASE FinalizeJob(r)
  <2>1. jobStatus' = jobStatus \/ jobStatus' # "processing"
    BY <1>5 DEF FinalizeJob, FinalStatus
  <2> QED
    BY <1>5, <2>1, EndRunBegun, NoneCreatedKeeps DEF FinalizeJob, NoneCreated
<1>6. CASE \E p \in Page : PageStep(r, p)
  BY <1>6, PageStepBegun
<1> QED
  BY <1>1, <1>2, <1>3, <1>4, <1>5, <1>6 DEF RunStep

LEMMA BatchStepBegun == ASSUME Types, RowsBegun, BatchStep PROVE RowsBegun'
<1>run. Batch \in Run
  BY DEF Run
<1>1. CASE RejectJob
  BY <1>1, <1>run, EndRunBegun, NoneCreatedKeeps DEF RejectJob, NoneCreated
<1>2. CASE FlattenToPageTasks
  <2>1. \A q \in Run, p \in Page : task'[q][p] = "remark" => task[q][p] = "remark"
    BY <1>2, <1>run DEF FlattenToPageTasks, Types, MemoryType
  <2> QED
    BY <1>2, <2>1, <1>run, GotoBegun, NoneCreatedKeeps DEF FlattenToPageTasks, Begun, NoneCreated
<1>3. CASE InitJobPages
  <2> DEFINE bad == {p \in Page : task[Batch][p] = "failed"}
  <2>1. PICK o \in Outcome : InitJobPages!(o)
    BY <1>3 DEF InitJobPages
  <2>2. CASE Applied(o)
    <3>1. Present' /\ totalPages' = Cardinality(Page)
      BY <2>1, <2>2 DEF Present
    <3> QED
      BY <3>1 DEF RowsBegun
  <2>3. CASE ~Applied(o)
    <3>1. EndRun(Batch) /\ UNCHANGED <<pages, totalPages, jobStatus>>
      BY <2>1, <2>3 DEF Applied, Raised
    <3> QED
      BY <3>1, <1>run, EndRunBegun, NoneCreatedKeeps DEF NoneCreated
  <2> QED
    BY <2>2, <2>3
<1>4. CASE \E p \in Page : SaveFailedFile(p)
  BY <1>4, <1>run, EndRunBegun, MoveTaskBegun, NoneCreatedKeeps DEF SaveFailedFile, NoneCreated
<1> QED
  BY <1>1, <1>2, <1>3, <1>4 DEF BatchStep

LEMMA RetryBegun ==
  ASSUME Types, RowsBegun, NEW r \in Retry, CheckRetry(r) \/ RetryRequest(r)
  PROVE  RowsBegun'
<1> SUFFICES NoneCreated
  BY NoneCreatedKeeps
<1>run. r \in Run
  BY DEF Run
<1>1. CASE CheckRetry(r)
  BY <1>1, <1>run, GotoBegun DEF CheckRetry, KeepLocals, Begun, Retry, Batch, NoneCreated
<1>2. CASE SelectFailedPages(r)
  <2>1. CASE EndRun(r)
    BY <1>2, <2>1, <1>run, EndRunBegun DEF SelectFailedPages, NoneCreated
  <2>2. CASE ~EndRun(r)
    <3>1. Present
      BY <1>2, <2>2 DEF SelectFailedPages, RowsBegun, Absent
    <3> QED
      BY <1>2, <2>2, <3>1, <1>run, GotoBegun DEF SelectFailedPages, NoneCreated
  <2> QED
    BY <2>1, <2>2
<1>3. CASE CommitRetry(r)
  <2>1. PICK o \in Outcome : CommitRetry(r)!(o)
    BY <1>3 DEF CommitRetry
  <2>2. Present
    BY <2>1, <1>run DEF At, RowsBegun, Begun
  <2>3. \A p \in Page : row'[p] = "absent" <=> row[p] = "absent"
    BY <2>1, <2>2 DEF Present, ResetPages
  <2>4. /\ \A q \in Run : runPc'[q] \in Begun(q) => runPc[q] \in Begun(q) \/ Present
        /\ \A q \in Run, p \in Page : task'[q][p] = "remark" => task[q][p] = "remark"
    BY <2>1, <2>2, <1>run, EndRunBegun, GotoBegun DEF KeepLocals
  <2> QED
    BY <2>1, <2>2, <2>3, <2>4 DEF NoneCreated
<1> QED
  BY <1>1, <1>2, <1>3 DEF RetryRequest

LEMMA SurroundingBegun ==
  ASSUME Types, RowsBegun, Upload \/ Crash \/ Restart \/ Age \/ DeleteProject \/ CleanupUploads
  PROVE  RowsBegun'
<1> SUFFICES NoneCreated
  BY NoneCreatedKeeps
<1>1. CASE Upload
  BY <1>1, GotoBegun DEF Upload, KeepLocals, Run, Begun, NoneCreated
<1>2. CASE Crash
  BY <1>2 DEF Crash, Begun, NoneCreated
<1>3. CASE Restart
  <2>1. \A p \in Page : row'[p] = "absent" <=> row[p] = "absent"
    BY <1>3 DEF Restart, Recover, SweptRow, Orphans, ActiveStatus
  <2>2. jobStatus' = "processing" => jobStatus = "processing"
    BY <1>3 DEF Restart, Recover, Verdict
  <2> QED
    BY <1>3, <2>1, <2>2 DEF Restart, Recover, NoneCreated
<1>4. CASE Age \/ DeleteProject \/ CleanupUploads
  BY <1>4 DEF Age, DeleteProject, CleanupUploads, NoneCreated
<1> QED
  BY <1>1, <1>2, <1>3, <1>4

LEMMA InitBegun == Init => RowsBegun
  BY DEF Init, RowsBegun, Absent, Begun

LEMMA NextBegun == Types /\ RowsBegun /\ [Next]_vars => RowsBegun'
<1> SUFFICES ASSUME Types, RowsBegun, [Next]_vars PROVE RowsBegun'
  OBVIOUS
<1>1. CASE UNCHANGED vars
  BY <1>1, NoneCreatedKeeps DEF vars, NoneCreated
<1>2. CASE Next
  BY <1>2, RunStepBegun, BatchStepBegun, RetryBegun, SurroundingBegun DEF Next
<1> QED
  BY <1>1, <1>2

LEMMA AlwaysBegun == Spec => [](Types /\ RowsBegun)
<1>1. Spec => []Types
  BY InitTypes, NextTypes, PTL DEF Spec
<1>2. Spec => []RowsBegun
  BY <1>1, InitBegun, NextBegun, PTL DEF Spec
<1> QED
  BY <1>1, <1>2, PTL

\* What the sweep does to a job nothing of which is young.
LEMMA SweptEnds ==
  ASSUME Types, RowsBegun, Recover, jobStatus \in ActiveStatus, fresh = {}, ~jobFresh
  PROVE  jobStatus' \in TerminalStatus
<1> DEFINE done   == Cardinality({p \in Page : SweptRow[p] = "done"})
           failed == Cardinality({p \in Page : SweptRow[p] = "failed"})
<1>1. Verdict(done, failed) \in TerminalStatus /\ "error" \in TerminalStatus
  BY DEF Verdict, TerminalStatus
<1>2. CASE Present
  <2>1. \A p \in Page : row[p] \in {"done", "failed"} \cup ActiveStatus
    BY <1>2 DEF Present, Types, PageType, RowStatus
  <2>2. Reconciled
    BY <2>1 DEF Reconciled, SweptRow, Orphans
  <2> QED
    BY <1>1, <2>2 DEF Recover
<1>3. CASE ~Present
  <2>1. Absent /\ jobStatus = "queued"
    BY <1>3 DEF RowsBegun, ActiveStatus
  <2> QED
    BY <1>1, <2>1 DEF Recover, NeverStarted, Absent
<1> QED
  BY <1>2, <1>3

\* A restart that finds nothing of the job younger than the cutoff ends the job, whichever
\* await the process died in, for any number of pages, runs, faults and crashes
\* (recover_interrupted_jobs).
THEOREM SweepRescuesStaleAlways == Spec => SweepRescuesStale
<1>1. Types /\ RowsBegun /\ [Next]_vars =>
        (~up /\ up' /\ jobStatus \in ActiveStatus /\ fresh = {} /\ ~jobFresh
           => jobStatus' \in TerminalStatus)
  <2> SUFFICES ASSUME Types, RowsBegun, [Next]_vars, ~up, up', jobStatus \in ActiveStatus,
                      fresh = {}, ~jobFresh
               PROVE  jobStatus' \in TerminalStatus
    OBVIOUS
  <2>1. ~BatchStep
    BY DEF BatchStep, RejectJob, FlattenToPageTasks, InitJobPages, SaveFailedFile, At
  <2>2. \A r \in Run, p \in Page : ~PageStep(r, p)
    BY DEF PageStep, StartPage, ExtractPage, SaveDone, MarkDone, CountDone, SaveFailed,
           MarkFailed, CountFailed, FindSource, TakeEscaped, Remark, Recount, At
  <2>3. \A r \in Run : ~RunStep(r)
    BY <2>2 DEF RunStep, LoadBlueprint, GatherReturns, SourcesRead, CountResults, BuildExcel,
                UploadExcel, FinalizeJob, At
  <2>4. \A r \in Retry : ~CheckRetry(r) /\ ~RetryRequest(r)
    BY DEF CheckRetry, RetryRequest, SelectFailedPages, CommitRetry, At
  <2>5. ~Upload /\ ~Crash /\ ~Age /\ ~DeleteProject /\ ~CleanupUploads /\ ~UNCHANGED vars
    BY DEF Upload, Crash, Age, DeleteProject, CleanupUploads, vars
  <2>6. Restart
    BY <2>1, <2>3, <2>4, <2>5 DEF Next
  <2> QED
    BY <2>6, SweptEnds DEF Restart
<1> QED
  BY <1>1, AlwaysBegun, PTL DEF Spec, SweepRescuesStale

-----------------------------------------------------------------------------
(* Where a run is bounds where its coroutines are.                         *)

Untried == {"idle", "over", "checked", "selected", "load", "reject", "flatten"}
Paging  == {"source", "gather", "collect"}
Counted == {"build", "upload", "commit", "commitNoExcel"}
Settled == {"none", "ok", "failed"}

TaskShape ==
  \A r \in Run :
    /\ runPc[r] \in Untried /\ r = Batch => runPages[r] = {}
    /\ runPc[r] \in Untried => \A p \in Page : task[r][p] = "none"
    /\ runPc[r] = "init" => \A p \in Page : task[r][p] \in {"splitFail", "failed", "wait"}
    /\ runPc[r] \in Counted => \A p \in Page : task[r][p] \in Settled
    /\ \A p \in Page : task[r][p] # "none" => p \in runPages[r]

LEMMA PcsAre == RunPc = Untried \cup {"init"} \cup Paging \cup Counted
  BY DEF RunPc, Resting, Request, Working, Untried, Paging, Counted

\* What is common to the steps of a page: an unsettled coroutine of a run that works on
\* pages moves on, or takes its run down, and no other row changes.
LEMMA PageStepIs ==
  ASSUME Types, TaskShape, NEW r \in Run, NEW p \in Page, PageStep(r, p)
  PROVE  /\ runPc[r] \in Paging /\ task[r][p] \notin Settled
         /\ UNCHANGED <<jobStatus, totalPages, excelReady, given, files, memo>>
         /\ row' \in [Page -> RowStatus] /\ \A s \in Page : s # p => row'[s] = row[s]
         /\ \/ EndRun(r)
            \/ \E pc \in TaskPc : pc \notin {"none", "splitFail", "find"} /\ MoveTask(r, p, pc)
<1>pc. /\ {"extract", "escaped", "saveDone", "saveNone", "saveError", "markDone", "incDone",
           "ok", "markNone", "markError", "incNone", "incError", "failed", "wait", "remark",
           "recount"} \subseteq TaskPc \ {"none", "splitFail", "find"}
       /\ {"find", "escaped", "remark", "recount", "wait"} \cup HoldsSlot \subseteq TaskPc \ Settled
  BY DEF TaskPc, HoldsSlot, Finished, Settled
<1>st. {"processing", "done", "failed"} \subseteq RowStatus
  BY DEF RowStatus, ActiveStatus
<1>ty. row \in [Page -> RowStatus] /\ runPc[r] \in RunPc
  BY DEF Types, PageType, MemoryType
<1>1. CASE StartPage(r, p) \/ MarkDone(r, p)
  BY <1>1, <1>pc, <1>st, <1>ty DEF StartPage, MarkDone, At, Paging, SetPageStatus, HoldsSlot
<1>2. CASE MarkFailed(r, p)
  BY <1>2, <1>pc, <1>st, <1>ty DEF MarkFailed, At, Paging, SetPageStatus, HoldsSlot
<1>3. CASE ExtractPage(r, p) \/ SaveDone(r, p) \/ SaveFailed(r, p)
  BY <1>3, <1>pc, <1>ty DEF ExtractPage, SaveDone, SaveFailed, At, Paging, HoldsSlot
<1>4. CASE CountDone(r, p) \/ CountFailed(r, p)
  BY <1>4, <1>pc, <1>ty
     DEF CountDone, CountFailed, IncrementCompleted, IncrementFailed, At, Paging, HoldsSlot
<1>5. CASE FindSource(r, p) \/ TakeEscaped(r, p)
  BY <1>5, <1>pc, <1>ty DEF FindSource, TakeEscaped, At, Paging
<1>6. CASE Remark(r, p) \/ Recount(r, p)
  <2>1. task[r][p] \in {"remark", "recount"}
    BY <1>6 DEF Remark, Recount
  <2>2. runPc[r] \in Paging
    BY <2>1, <1>ty, PcsAre DEF TaskShape, Settled
  <2> QED
    BY <1>6, <2>1, <2>2, <1>pc, <1>st, <1>ty DEF Remark, Recount, SetPageStatus, IncrementFailed
<1> QED
  BY <1>1, <1>2, <1>3, <1>4, <1>5, <1>6 DEF PageStep

LEMMA EndRunShape ==
  ASSUME Types, TaskShape, NEW r \in Run, EndRun(r)
  PROVE  TaskShape'
<1>1. "over" \in Untried /\ "over" \notin Counted /\ "over" # "init"
  BY DEF Untried, Counted
<1> QED
  BY <1>1 DEF TaskShape, EndRun, Goto, Types, MemoryType

\* A run moves on to a place where its tasks may be where they are.
LEMMA GotoShape ==
  ASSUME Types, TaskShape, NEW r \in Run, NEW pc, Goto(r, pc), UNCHANGED <<task, runPages>>,
         \/ pc \in Paging
         \/ pc \in Untried /\ runPc[r] \in Untried
         \/ pc \in Counted /\ \A p \in Page : task[r][p] \in Settled
  PROVE  TaskShape'
<1>1. Paging \cap (Untried \cup Counted \cup {"init"}) = {} /\ "init" \notin Untried \cup Counted
        /\ Untried \cap Counted = {}
  BY DEF Paging, Untried, Counted
<1> QED
  BY <1>1 DEF TaskShape, Goto, Types, MemoryType

LEMMA MoveTaskShape ==
  ASSUME Types, TaskShape, NEW r \in Run, NEW p \in Page, NEW pc, MoveTask(r, p, pc),
         task[r][p] # "none",
         runPc[r] \in Paging \/ (runPc[r] = "init" /\ pc \in {"splitFail", "failed", "wait"})
  PROVE  TaskShape'
<1>1. Paging \cap (Untried \cup Counted \cup {"init"}) = {} /\ "init" \notin Untried \cup Counted
  BY DEF Paging, Untried, Counted
<1> QED
  BY <1>1 DEF TaskShape, MoveTask, Types, MemoryType

LEMMA RunStepShape ==
  ASSUME Types, TaskShape, NEW r \in Run, RunStep(r)
  PROVE  TaskShape'
<1>1. CASE LoadBlueprint(r)
  <2>1. CASE EndRun(r)
    BY <2>1, EndRunShape
  <2>2. CASE ~EndRun(r)
    <3>1. /\ runPc' = [runPc EXCEPT ![r] = IF ~blueprint THEN "reject"
                                           ELSE IF r = Batch THEN "flatten" ELSE "source"]
          /\ task' = [task EXCEPT ![r] =
                        [p \in Page |-> IF p \in runPages[r] THEN "find" ELSE "none"]]
          /\ runPages' = runPages /\ (runPc'[r] \in Untried => r = Batch)
      BY <1>1, <2>2 DEF LoadBlueprint, Goto, Untried, Types, MemoryType
    <3>2. runPc[r] = "load" /\ (r = Batch => runPages[r] = {})
      BY <1>1 DEF LoadBlueprint, At, TaskShape, Untried
    <3>3. /\ {"reject", "flatten"} \cap (Counted \cup {"init"}) = {}
          /\ "source" \notin Untried \cup Counted \cup {"init"}
      BY DEF Untried, Counted
    <3>4. CASE r = Batch
      <4>1. task'[r] = [p \in Page |-> "none"] /\ runPc'[r] \in {"reject", "flatten"}
        BY <3>1, <3>2, <3>4 DEF Types, MemoryType
      <4>2. \A q \in Run : q # r => task'[q] = task[q] /\ runPc'[q] = runPc[q]
        BY <3>1 DEF Types, MemoryType
      <4> QED
        BY <3>1, <3>2, <3>3, <4>1, <4>2 DEF TaskShape
    <3>5. CASE r # Batch
      <4>1. /\ \A p \in Page : task'[r][p] # "none" => p \in runPages[r]
            /\ runPc'[r] = "source"
        BY <1>1, <2>2, <3>1, <3>5 DEF LoadBlueprint, Types, MemoryType
      <4>2. \A q \in Run : q # r => task'[q] = task[q] /\ runPc'[q] = runPc[q]
        BY <3>1 DEF Types, MemoryType
      <4> QED
        BY <3>1, <3>3, <3>5, <4>1, <4>2 DEF TaskShape
    <3> QED
      BY <3>4, <3>5
  <2> QED
    BY <2>1, <2>2
<1>2. CASE GatherReturns(r) \/ SourcesRead(r)
  BY <1>2, GotoShape DEF GatherReturns, SourcesRead, KeepLocals, Paging
<1>3. CASE CountResults(r)
  <2>1. CASE EndRun(r)
    BY <2>1, EndRunShape
  <2>2. CASE ~EndRun(r)
    <3>1. \A p \in Page : task[r][p] \in Settled
      BY <1>3 DEF CountResults, TaskShape, Settled
    <3> QED
      BY <1>3, <2>2, <3>1, GotoShape DEF CountResults, Counted
  <2> QED
    BY <2>1, <2>2
<1>4. CASE BuildExcel(r) \/ UploadExcel(r)
  <2>1. \A p \in Page : task[r][p] \in Settled
    BY <1>4 DEF BuildExcel, UploadExcel, At, TaskShape, Counted
  <2> QED
    BY <1>4, <2>1, GotoShape DEF BuildExcel, UploadExcel, KeepLocals, Counted
<1>5. CASE FinalizeJob(r)
  BY <1>5, EndRunShape DEF FinalizeJob
<1>6. ASSUME NEW p \in Page, PageStep(r, p) PROVE TaskShape'
  <2>1. task[r][p] # "none" /\ runPc[r] \in Paging
    BY <1>6, PageStepIs DEF Settled
  <2>2. CASE EndRun(r)
    BY <2>2, EndRunShape
  <2>3. CASE ~EndRun(r)
    <3>1. PICK pc \in TaskPc : MoveTask(r, p, pc)
      BY <1>6, <2>3, PageStepIs
    <3> QED
      BY <2>1, <3>1, MoveTaskShape
  <2> QED
    BY <2>2, <2>3
<1> QED
  BY <1>1, <1>2, <1>3, <1>4, <1>5, <1>6 DEF RunStep

LEMMA BatchStepShape == ASSUME Types, TaskShape, BatchStep PROVE TaskShape'
<1>run. Batch \in Run
  BY DEF Run
<1>1. CASE RejectJob
  BY <1>1, <1>run, EndRunShape DEF RejectJob
<1>2. CASE FlattenToPageTasks
  <2>1. PICK bad \in SUBSET Page : FlattenToPageTasks!(bad)
    BY <1>2 DEF FlattenToPageTasks
  <2>2. /\ \A p \in Page : task'[Batch][p] \in {"splitFail", "wait"}
        /\ runPc'[Batch] = "init" /\ runPages'[Batch] = Page
        /\ \A q \in Run : q # Batch =>
             task'[q] = task[q] /\ runPc'[q] = runPc[q] /\ runPages'[q] = runPages[q]
    BY <2>1, <1>run DEF Goto, Types, MemoryType
  <2>3. "init" \notin Untried \cup Counted
    BY DEF Untried, Counted
  <2> QED
    BY <2>2, <2>3 DEF TaskShape
<1>3. CASE InitJobPages
  BY <1>3, <1>run, EndRunShape, GotoShape DEF InitJobPages, KeepLocals, Paging
<1>4. ASSUME NEW p \in Page, SaveFailedFile(p) PROVE TaskShape'
  BY <1>4, <1>run, EndRunShape, MoveTaskShape DEF SaveFailedFile, At
<1> QED
  BY <1>1, <1>2, <1>3, <1>4 DEF BatchStep

LEMMA RetryShape ==
  ASSUME Types, TaskShape, NEW r \in Retry, CheckRetry(r) \/ RetryRequest(r)
  PROVE  TaskShape'
<1>run. r \in Run /\ r # Batch
  BY DEF Run, Retry, Batch
<1>1. CASE CheckRetry(r)
  BY <1>1, <1>run, GotoShape DEF CheckRetry, KeepLocals, Untried
<1>2. CASE SelectFailedPages(r)
  <2>1. CASE EndRun(r)
    BY <2>1, <1>run, EndRunShape
  <2>2. CASE ~EndRun(r)
    <3>1. /\ runPc[r] = "checked" /\ runPc' = [runPc EXCEPT ![r] = "selected"]
          /\ task' = task /\ \A q \in Run : q # r => runPages'[q] = runPages[q]
      BY <1>2, <2>2, <1>run DEF SelectFailedPages, At, Goto, Types, MemoryType
    <3>2. {"checked", "selected"} \subseteq Untried /\ "selected" \notin Counted
      BY DEF Untried, Counted
    <3> QED
      BY <3>1, <3>2, <1>run DEF TaskShape, Types, MemoryType
  <2> QED
    BY <2>1, <2>2
<1>3. CASE CommitRetry(r)
  BY <1>3, <1>run, EndRunShape, GotoShape DEF CommitRetry, At, KeepLocals, Untried
<1> QED
  BY <1>1, <1>2, <1>3 DEF RetryRequest

LEMMA SurroundingShape ==
  ASSUME Types, TaskShape, Upload \/ Crash \/ Restart \/ Age \/ DeleteProject \/ CleanupUploads,
         Upload => runPc[Batch] \in Untried
  PROVE  TaskShape'
<1>1. CASE Upload
  BY <1>1, GotoShape DEF Upload, KeepLocals, Run, Untried
<1>2. CASE Crash
  BY <1>2 DEF Crash, TaskShape, Untried, Counted
<1>3. CASE Restart \/ Age \/ DeleteProject \/ CleanupUploads
  BY <1>3 DEF Restart, Age, DeleteProject, CleanupUploads, TaskShape
<1> QED
  BY <1>1, <1>2, <1>3

LEMMA InitShape == Init => TaskShape
  BY DEF Init, TaskShape, Counted

LEMMA NextShape == Types /\ Exclusive /\ TaskShape /\ [Next]_vars => TaskShape'
<1> SUFFICES ASSUME Types, Exclusive, TaskShape, [Next]_vars PROVE TaskShape'
  OBVIOUS
<1>1. CASE UNCHANGED vars
  BY <1>1 DEF vars, TaskShape
<1>2. Upload => runPc[Batch] \in Untried
  <2>1. Upload => runPc[Batch] \in Resting
    BY PcsDisjoint DEF Upload, Exclusive, ActiveStatus, Run, Types, MemoryType
  <2> QED
    BY <2>1 DEF Resting, Untried
<1>3. CASE Next
  BY <1>2, <1>3, RunStepShape, BatchStepShape, RetryShape, SurroundingShape DEF Next
<1> QED
  BY <1>1, <1>3

-----------------------------------------------------------------------------
(* Where a run is also says which rows there are: none until the batch has *)
(* created them, and a retry resets the very pages it selected, since      *)
(* nothing changes a row between its two transactions.                     *)

Early == {"load", "reject", "flatten", "init"}

RowShape ==
  /\ jobStatus = "none" => Absent
  /\ runPc[Batch] \in Early => Absent
  /\ \A r \in Retry :
       /\ runPc[r] \notin {"reject", "flatten", "init"}
       /\ runPc[r] = "selected" =>
            runPages[r] # {} /\ runPages[r] = {p \in Page : row[p] = "failed"}
       /\ runPc[r] = "load" => \A p \in runPages[r] : row[p] = "queued"

\* Where RowShape says nothing of a run.
Elsewhere == {"idle", "over", "checked"} \cup Paging \cup Counted

LEMMA ElsewhereIs ==
  /\ Elsewhere \cap ({"selected"} \cup Early) = {}
  /\ Resting \subseteq Elsewhere /\ Resting \cap Working = {}
  /\ Paging \cup Counted \cup Early = Working
  BY DEF Elsewhere, Early, Resting, Working, Paging, Counted

LEMMA ElsewhereKeeps ==
  ASSUME jobStatus' # "none", \A r \in Run : runPc'[r] \in Elsewhere
  PROVE  RowShape'
  BY ElsewhereIs DEF RowShape, Run, Early

LEMMA SameRowsKeep ==
  ASSUME RowShape, UNCHANGED row, jobStatus' = "none" => jobStatus = "none",
         \A r \in Run : \/ runPc'[r] = runPc[r] /\ runPages'[r] = runPages[r]
                        \/ runPc'[r] \in Elsewhere
  PROVE  RowShape'
<1>1. Absent' <=> Absent
  BY DEF Absent
<1>2. \A r \in Run : runPc'[r] \in {"selected"} \cup Early =>
        runPc'[r] = runPc[r] /\ runPages'[r] = runPages[r]
  BY ElsewhereIs
<1>3. Batch \in Run /\ Retry \subseteq Run
  BY DEF Run
<1> QED
  BY <1>1, <1>2, <1>3 DEF RowShape, Early

\* While a run works the others rest, and the job is active.
LEMMA Alone ==
  ASSUME Types, Exclusive, NEW r \in Run, runPc[r] \in Working
  PROVE  /\ \A q \in Run : q # r => runPc[q] \in Resting
         /\ jobStatus \in ActiveStatus /\ up
  BY PcsDisjoint DEF Exclusive, Types, MemoryType

LEMMA EndRunRows ==
  ASSUME Types, NEW r \in Run, EndRun(r)
  PROVE  \A q \in Run : \/ runPc'[q] = runPc[q] /\ runPages'[q] = runPages[q]
                        \/ runPc'[q] \in Elsewhere
  BY DEF EndRun, Goto, Types, MemoryType, Elsewhere

LEMMA GotoRows ==
  ASSUME Types, NEW r \in Run, NEW pc \in Elsewhere, Goto(r, pc),
         \A q \in Run : q # r => runPages'[q] = runPages[q]
  PROVE  \A q \in Run : \/ runPc'[q] = runPc[q] /\ runPages'[q] = runPages[q]
                        \/ runPc'[q] \in Elsewhere
  BY DEF Goto, Types, MemoryType

LEMMA RunStepRows ==
  ASSUME Types, Exclusive, TaskShape, RowShape, NEW r \in Run, RunStep(r)
  PROVE  RowShape'
<1>1. CASE LoadBlueprint(r)
  <2>1. CASE EndRun(r)
    BY <1>1, <2>1, EndRunRows, SameRowsKeep DEF LoadBlueprint
  <2>2. CASE ~EndRun(r)
    <3>1. /\ runPc[r] = "load" /\ UNCHANGED <<row, jobStatus, runPages>>
          /\ runPc' = [runPc EXCEPT ![r] = IF ~blueprint THEN "reject"
                                           ELSE IF r = Batch THEN "flatten" ELSE "source"]
      BY <1>1, <2>2 DEF LoadBlueprint, At, Goto
    <3>2. CASE r = Batch
      <4>1. Absent /\ runPc'[Batch] \in Early /\ \A q \in Retry : runPc'[q] = runPc[q]
        BY <3>1, <3>2 DEF RowShape, Early, Types, MemoryType, Run, Retry, Batch
      <4> QED
        BY <3>1, <4>1 DEF RowShape, Absent
    <3>3. CASE r # Batch
      <4>1. runPc' = [runPc EXCEPT ![r] = "source"]
        BY <1>1, <2>2, <3>1, <3>3 DEF LoadBlueprint
      <4>2. \A q \in Run : runPc'[q] = runPc[q] \/ runPc'[q] \in Elsewhere
        BY <4>1 DEF Types, MemoryType, Elsewhere, Paging
      <4> QED
        BY <3>1, <4>2, SameRowsKeep
    <3> QED
      BY <3>2, <3>3
  <2> QED
    BY <2>1, <2>2
<1>2. CASE GatherReturns(r) \/ SourcesRead(r) \/ BuildExcel(r) \/ UploadExcel(r)
  <2>1. {"collect", "gather", "upload", "commit", "commitNoExcel"} \subseteq Elsewhere
    BY DEF Elsewhere, Paging, Counted
  <2> QED
    BY <1>2, <2>1, GotoRows, SameRowsKeep
       DEF GatherReturns, SourcesRead, BuildExcel, UploadExcel, KeepLocals
<1>3. CASE CountResults(r)
  <2>1. "build" \in Elsewhere
    BY DEF Elsewhere, Counted
  <2> QED
    BY <1>3, <2>1, EndRunRows, GotoRows, SameRowsKeep DEF CountResults
<1>4. CASE FinalizeJob(r)
  <2>1. jobStatus' # "none" \/ jobStatus' = jobStatus
    BY <1>4 DEF FinalizeJob, FinalStatus
  <2> QED
    BY <1>4, <2>1, EndRunRows, SameRowsKeep DEF FinalizeJob
<1>5. ASSUME NEW p \in Page, PageStep(r, p) PROVE RowShape'
  <2>1. runPc[r] \in Working /\ runPc[r] \in Elsewhere /\ jobStatus' = jobStatus
    BY <1>5, PageStepIs, ElsewhereIs DEF Elsewhere
  <2>2. jobStatus' # "none" /\ \A q \in Run : runPc[q] \in Elsewhere
    BY <2>1, Alone, ElsewhereIs DEF ActiveStatus
  <2>3. runPc' = runPc \/ EndRun(r)
    BY <1>5, PageStepIs DEF MoveTask
  <2>4. \A q \in Run : runPc'[q] \in Elsewhere
    BY <2>2, <2>3, EndRunRows
  <2> QED
    BY <2>2, <2>4, ElsewhereKeeps
<1> QED
  BY <1>1, <1>2, <1>3, <1>4, <1>5 DEF RunStep

LEMMA BatchStepRows ==
  ASSUME Types, Exclusive, TaskShape, RowShape, BatchStep
  PROVE  RowShape'
<1>run. Batch \in Run /\ Retry \subseteq Run /\ Batch \notin Retry
  BY DEF Run, Retry, Batch
<1>1. CASE RejectJob
  <2>1. jobStatus' # "none" \/ jobStatus' = jobStatus
    BY <1>1 DEF RejectJob
  <2> QED
    BY <1>1, <2>1, <1>run, EndRunRows, SameRowsKeep DEF RejectJob
<1>2. CASE FlattenToPageTasks
  <2>1. Absent
    BY <1>2 DEF FlattenToPageTasks, At, RowShape, Early
  <2>2. /\ UNCHANGED <<row, jobStatus>>
        /\ \A q \in Retry : runPc'[q] = runPc[q] /\ runPages'[q] = runPages[q]
    BY <1>2, <1>run DEF FlattenToPageTasks, Goto, Types, MemoryType
  <2> QED
    BY <2>1, <2>2 DEF RowShape, Absent
<1>3. CASE InitJobPages
  <2>1. runPc[Batch] \in Working /\ jobStatus' = jobStatus
    BY <1>3 DEF InitJobPages, At, Working
  <2>2. jobStatus' # "none" /\ \A q \in Run : q # Batch => runPc[q] \in Elsewhere
    BY <2>1, <1>run, Alone, ElsewhereIs DEF ActiveStatus
  <2>3. runPc' = [runPc EXCEPT ![Batch] = "gather"] \/ runPc' = [runPc EXCEPT ![Batch] = "over"]
    BY <1>3 DEF InitJobPages, EndRun, Goto
  <2>4. {"gather", "over"} \subseteq Elsewhere
    BY DEF Elsewhere, Paging
  <2>5. \A q \in Run : runPc'[q] \in Elsewhere
    BY <2>2, <2>3, <2>4 DEF Types, MemoryType
  <2> QED
    BY <2>2, <2>5, ElsewhereKeeps
<1>4. CASE \E p \in Page : SaveFailedFile(p)
  BY <1>4, <1>run, EndRunRows, SameRowsKeep DEF SaveFailedFile, MoveTask
<1> QED
  BY <1>1, <1>2, <1>3, <1>4 DEF BatchStep

LEMMA RetryRows ==
  ASSUME Types, Exclusive, RowShape, NEW r \in Retry, CheckRetry(r) \/ RetryRequest(r)
  PROVE  RowShape'
<1>run. Batch \in Run /\ Retry \subseteq Run /\ Batch \notin Retry /\ r \in Run
  BY DEF Run, Retry, Batch
<1>1. CASE CheckRetry(r)
  BY <1>1, <1>run, GotoRows, SameRowsKeep DEF CheckRetry, KeepLocals, Elsewhere
<1>2. CASE SelectFailedPages(r)
  <2>1. CASE EndRun(r)
    BY <1>2, <2>1, <1>run, EndRunRows, SameRowsKeep DEF SelectFailedPages
  <2>2. CASE ~EndRun(r)
    <3> DEFINE failed == {p \in Page : row[p] = "failed"}
    <3>1. /\ runPc' = [runPc EXCEPT ![r] = "selected"] /\ failed # {}
          /\ runPages' = [runPages EXCEPT ![r] = failed] /\ UNCHANGED <<row, jobStatus>>
      BY <1>2, <2>2 DEF SelectFailedPages, Goto
    <3>2. /\ runPc'[r] = "selected" /\ runPages'[r] = failed /\ runPc'[Batch] = runPc[Batch]
          /\ \A q \in Retry : q # r => runPc'[q] = runPc[q] /\ runPages'[q] = runPages[q]
      BY <3>1, <1>run DEF Types, MemoryType
    <3> QED
      BY <3>1, <3>2 DEF RowShape, Absent
  <2> QED
    BY <2>1, <2>2
<1>3. CASE CommitRetry(r)
  <2>1. PICK o \in Outcome : CommitRetry(r)!(o)
    BY <1>3 DEF CommitRetry
  <2>2. runPc[r] = "selected" /\ jobStatus # "none"
          /\ \A q \in Run : q # r => runPc[q] \in Resting
    BY <2>1, <1>run DEF At, Exclusive, Request, Resting
  <2>3. jobStatus' # "none"
    BY <2>1, <2>2 DEF RetryStatus
  <2>4. CASE Raised(o)
    <3>1. EndRun(r)
      BY <2>1, <2>4
    <3>2. \A q \in Run : runPc'[q] \in Elsewhere
      BY <2>2, <3>1, ElsewhereIs DEF EndRun, Goto, Types, MemoryType, Elsewhere
    <3> QED
      BY <2>3, <3>2, ElsewhereKeeps
  <2>5. CASE ~Raised(o)
    <3>1. /\ runPc' = [runPc EXCEPT ![r] = "load"] /\ runPages' = runPages
          /\ row' = [p \in Page |-> IF p \in ResetPages THEN "queued" ELSE row[p]]
      BY <2>1, <2>5 DEF Raised, Applied, Goto, KeepLocals
    <3>2. \A p \in runPages[r] : row'[p] = "queued"
      BY <2>2, <3>1 DEF RowShape, ResetPages
    <3>3. /\ runPc'[r] = "load" /\ runPc'[Batch] \in Elsewhere
          /\ \A q \in Retry : q # r => runPc'[q] \in Elsewhere
      BY <2>2, <3>1, <1>run, ElsewhereIs DEF Types, MemoryType
    <3> QED
      BY <2>3, <3>1, <3>2, <3>3, ElsewhereIs DEF RowShape, Early
  <2> QED
    BY <2>4, <2>5
<1> QED
  BY <1>1, <1>2, <1>3 DEF RetryRequest

LEMMA SurroundingRows ==
  ASSUME Types, Exclusive, RowShape,
         Upload \/ Crash \/ Restart \/ Age \/ DeleteProject \/ CleanupUploads
  PROVE  RowShape'
<1>run. Batch \in Run /\ Retry \subseteq Run /\ Batch \notin Retry
  BY DEF Run, Retry, Batch
<1>1. CASE Upload
  <2>1. /\ Absent /\ UNCHANGED <<row, runPages>> /\ jobStatus' = "queued"
        /\ \A q \in Retry : runPc'[q] = runPc[q]
    BY <1>1, <1>run DEF Upload, RowShape, Goto, KeepLocals, Types, MemoryType
  <2> QED
    BY <2>1 DEF RowShape, Absent
<1>2. CASE Crash
  <2>1. \A q \in Run : runPc'[q] \in Elsewhere
    BY <1>2 DEF Crash, Elsewhere
  <2> QED
    BY <1>2, <2>1, SameRowsKeep DEF Crash
<1>3. CASE Restart
  <2>1. \A q \in Run : runPc'[q] \in Elsewhere
    BY <1>3, ElsewhereIs DEF Restart, Exclusive
  <2>2. jobStatus = "none" => UNCHANGED <<row, jobStatus>>
    BY <1>3 DEF Restart, Recover, SweptRow, Orphans, Reconciled, NeverStarted, ActiveStatus,
       Types, PageType
  <2>3. jobStatus # "none" => jobStatus' # "none"
    BY <1>3 DEF Restart, Recover, Verdict
  <2> QED
    BY <2>1, <2>2, <2>3, ElsewhereKeeps, SameRowsKeep
<1>4. CASE Age \/ DeleteProject \/ CleanupUploads
  BY <1>4, SameRowsKeep DEF Age, DeleteProject, CleanupUploads
<1> QED
  BY <1>1, <1>2, <1>3, <1>4

LEMMA InitRows == Init => RowShape
  BY DEF Init, RowShape, Absent, Early, Run, Retry, Batch

LEMMA NextRows == Types /\ Exclusive /\ TaskShape /\ RowShape /\ [Next]_vars => RowShape'
<1> SUFFICES ASSUME Types, Exclusive, TaskShape, RowShape, [Next]_vars PROVE RowShape'
  OBVIOUS
<1>1. CASE UNCHANGED vars
  BY <1>1, SameRowsKeep DEF vars
<1>2. CASE Next
  BY <1>2, RunStepRows, BatchStepRows, RetryRows, SurroundingRows DEF Next
<1> QED
  BY <1>1, <1>2

\* All that is known of rows, runs and coroutines with one open Processing page.
Shape == Types /\ Exclusive /\ RowsBegun /\ TaskShape /\ RowShape

LEMMA ShapeAlways == ASSUME OneTab PROVE Spec => []Shape
<1>1. Types /\ Exclusive /\ [Next]_vars => Exclusive'
  BY NextExclusive
<1>2. Init => Shape
  BY InitTypes, InitExclusive, InitBegun, InitShape, InitRows DEF Shape
<1>3. Shape /\ [Next]_vars => Shape'
  BY <1>1, NextTypes, NextBegun, NextShape, NextRows DEF Shape
<1> QED
  BY <1>2, <1>3, PTL DEF Spec

-----------------------------------------------------------------------------
(* A job called done.  The verdict of a run goes by numbers: a batch counts *)
(* its own results, a retry subtracts the counter of the whole job.  Both   *)
(* are safe because the counter never runs ahead of the rows that are done  *)
(* and have no coroutine at work, which a commit whose acknowledgement is   *)
(* lost would break.                                                        *)

NoneLost == AmbiguousCommits => MaxFaults = 0

Still(p)  == \A r \in Run : task[r][p] \in Settled
DoneStill == {p \in Page : row[p] = "done" /\ Still(p)}
AllDone   == \A p \in Page : row[p] = "done"

DoneInv ==
  /\ completedPages <= Cardinality(DoneStill)
  /\ \A r \in Run, p \in Page : task[r][p] \in {"incDone", "ok"} => row[p] = "done"
  /\ \A r \in Run : runPc[r] \in Counted /\ failures[r] <= 0 => AllDone
  /\ DoneMeansAllDone

LEMMA OutcomesApply ==
  ASSUME NoneLost, Types, NEW o \in Outcome
  PROVE  Raised(o) <=> ~Applied(o)
  BY BoundAssumption DEF NoneLost, Outcome, Raised, Applied, Types

LEMMA DoneStillFinite ==
  /\ IsFiniteSet(DoneStill) /\ Cardinality(DoneStill) \in Nat
  /\ Cardinality(DoneStill) <= Cardinality(Page)
  BY PageAssumption, FS_Subset, FS_CardinalityType DEF DoneStill

\* A part as numerous as the whole is the whole.
LEMMA FullSet ==
  ASSUME NEW S \in SUBSET Page, Cardinality(S) >= Cardinality(Page)
  PROVE  S = Page
<1>1. IsFiniteSet(S) /\ Cardinality(S) \in Nat /\ Cardinality(Page) \in Nat
        /\ Cardinality(S) <= Cardinality(Page)
        /\ (Cardinality(S) = Cardinality(Page) => S = Page)
  BY PageAssumption, FS_Subset, FS_CardinalityType
<1> QED
  BY <1>1

LEMMA DoneStillGrows ==
  ASSUME Types, Types', DoneInv, completedPages' = completedPages, DoneStill \subseteq DoneStill'
  PROVE  completedPages' <= Cardinality(DoneStill')
<1>1. IsFiniteSet(DoneStill') /\ Cardinality(DoneStill') \in Nat
  BY PageAssumption, FS_Subset, FS_CardinalityType DEF DoneStill
<1>2. Cardinality(DoneStill) <= Cardinality(DoneStill') /\ Cardinality(DoneStill) \in Nat
  BY <1>1, FS_Subset, FS_CardinalityType
<1> QED
  BY <1>1, <1>2 DEF DoneInv, Types, JobType

\* The runs that rest have no coroutines.
LEMMA OthersIdle ==
  ASSUME Shape, NEW r \in Run, runPc[r] \in Working
  PROVE  \A q \in Run : q # r => \A p \in Page : task[q][p] = "none"
<1>1. Resting \subseteq Untried
  BY DEF Resting, Untried
<1> QED
  BY <1>1, Alone DEF Shape, TaskShape

\* What no step changes but those of a page, of the verdict and of the sweep.
DoneQuiet ==
  /\ completedPages' = completedPages
  /\ \A p \in Page : row[p] = "done" => row'[p] = "done"
  /\ \A r \in Run, p \in Page :
       \/ task'[r][p] \in {"none", "failed"}
       \/ task'[r][p] = task[r][p]
       \/ task'[r][p] \notin {"incDone", "ok"} /\ row[p] # "done"
  /\ \A r \in Run : runPc'[r] \in Counted => runPc[r] \in Counted /\ failures'[r] = failures[r]
  /\ jobStatus' = "done" => jobStatus = "done"

LEMMA DoneQuietKeeps ==
  ASSUME Types, Types', DoneInv, DoneQuiet
  PROVE  DoneInv'
<1>1. DoneStill \subseteq DoneStill'
  BY DEF DoneStill, Still, DoneQuiet, Settled
<1>2. completedPages' <= Cardinality(DoneStill')
  BY <1>1, DoneStillGrows DEF DoneQuiet
<1>3. AllDone => AllDone'
  BY DEF AllDone, DoneQuiet
<1> QED
  BY <1>2, <1>3 DEF DoneInv, DoneQuiet, DoneMeansAllDone, AllDone

LEMMA EndRunDone ==
  ASSUME Types, NEW r \in Run, EndRun(r)
  PROVE  /\ \A q \in Run, p \in Page : task'[q][p] = "none" \/ task'[q][p] = task[q][p]
         /\ \A q \in Run : runPc'[q] \in Counted =>
              runPc[q] \in Counted /\ failures'[q] = failures[q]
  BY DEF EndRun, Goto, Types, MemoryType, Counted

LEMMA PageStepDone ==
  ASSUME NoneLost, Shape, Types', DoneInv, NEW r \in Run, NEW p \in Page, PageStep(r, p)
  PROVE  DoneInv'
<1>1. /\ runPc[r] \in Paging /\ task[r][p] \notin Settled
      /\ jobStatus' = jobStatus
      /\ \A s \in Page : s # p => row'[s] = row[s]
      /\ EndRun(r) \/ \E pc \in TaskPc : MoveTask(r, p, pc)
  BY PageStepIs DEF Shape
<1>2. runPc[r] \in Working /\ jobStatus # "done"
  BY <1>1, ElsewhereIs, Alone DEF Shape, ActiveStatus
<1>3. \A q \in Run : runPc'[q] \notin Counted
  <2>1. \A q \in Run : runPc[q] \notin Counted
    BY <1>1, <1>2, Alone DEF Shape, Counted, Resting, Paging
  <2> QED
    BY <1>1, <2>1, EndRunDone DEF Shape, MoveTask
<1>4. \A q \in Run, s \in Page : q # r \/ s # p => task'[q][s] \in {"none", task[q][s]}
  BY <1>1, EndRunDone DEF Shape, MoveTask, Types, MemoryType
<1>5. DoneStill \subseteq DoneStill' /\ p \notin DoneStill
  BY <1>1, <1>4 DEF DoneStill, Still, Settled
<1>6. \A q \in Run : q # r => task'[q][p] = "none"
  BY <1>2, <1>4, OthersIdle
<1>7. task'[r][p] = "incDone" => row'[p] = "done"
  <2>1. CASE MarkDone(r, p)
    <3>1. PICK o \in Outcome : MarkDone(r, p)!(o)
      BY <2>1 DEF MarkDone
    <3> QED
      BY <3>1, OutcomesApply DEF Shape, SetPageStatus, MoveTask, Types, MemoryType, PageType
  <2>2. CASE ~MarkDone(r, p)
    <3>1. EndRun(r) \/ \E pc : pc # "incDone" /\ MoveTask(r, p, pc)
      BY <2>2
         DEF PageStep, StartPage, ExtractPage, SaveDone, CountDone, SaveFailed, MarkFailed,
             CountFailed, FindSource, TakeEscaped, Remark, Recount
    <3>2. task'[r][p] # "incDone"
      BY <3>1 DEF EndRun, MoveTask, Shape, Types, MemoryType
    <3> QED
      BY <3>2
  <2> QED
    BY <2>1, <2>2
<1>8. CASE CountDone(r, p)
  <2>1. PICK o \in Outcome : CountDone(r, p)!(o)
    BY <1>8 DEF CountDone
  <2>2. row' = row /\ row[p] = "done"
    BY <2>1 DEF DoneInv
  <2>3. completedPages' <= Cardinality(DoneStill')
    <3>1. CASE Raised(o)
      BY <2>1, <3>1, <1>5, OutcomesApply, DoneStillGrows DEF IncrementCompleted, Shape
    <3>2. CASE ~Raised(o)
      <4>1. completedPages' = completedPages + 1 /\ task'[r][p] = "ok"
        BY <2>1, <3>2, OutcomesApply
           DEF IncrementCompleted, MoveTask, Shape, Types, MemoryType
      <4>2. DoneStill \cup {p} \subseteq DoneStill'
        BY <1>5, <1>6, <2>2, <4>1 DEF DoneStill, Still, Settled
      <4>3. Cardinality(DoneStill \cup {p}) = Cardinality(DoneStill) + 1
              /\ IsFiniteSet(DoneStill') /\ Cardinality(DoneStill) \in Nat
        BY <1>5, PageAssumption, DoneStillFinite, FS_AddElement, FS_Subset DEF DoneStill
      <4>4. Cardinality(DoneStill \cup {p}) <= Cardinality(DoneStill')
              /\ Cardinality(DoneStill') \in Nat
        BY <4>2, <4>3, FS_Subset, FS_CardinalityType
      <4> QED
        BY <4>1, <4>3, <4>4 DEF DoneInv, Shape, Types, JobType
    <3> QED
      BY <3>1, <3>2
  <2>4. \A q \in Run, s \in Page : task'[q][s] \in {"incDone", "ok"} => row'[s] = "done"
    BY <1>4, <2>2 DEF DoneInv
  <2> QED
    BY <1>1, <1>2, <1>3, <2>3, <2>4 DEF DoneInv, DoneMeansAllDone
<1>9. CASE ~CountDone(r, p)
  <2>1. completedPages' = completedPages
    BY <1>9 DEF PageStep, StartPage, ExtractPage, SaveDone, MarkDone, SaveFailed, MarkFailed,
                CountFailed, FindSource, TakeEscaped, Remark, Recount, IncrementFailed
  <2>2. task'[r][p] # "ok"
    <3>1. EndRun(r) \/ \E pc : pc # "ok" /\ MoveTask(r, p, pc)
      BY <1>9
         DEF PageStep, StartPage, ExtractPage, SaveDone, MarkDone, SaveFailed, MarkFailed,
             CountFailed, FindSource, TakeEscaped, Remark, Recount
    <3> QED
      BY <3>1 DEF EndRun, MoveTask, Shape, Types, MemoryType
  <2>3. \A q \in Run, s \in Page : task'[q][s] \in {"incDone", "ok"} => row'[s] = "done"
    BY <1>1, <1>4, <1>6, <1>7, <2>2 DEF DoneInv
  <2>4. completedPages' <= Cardinality(DoneStill')
    BY <2>1, <1>5, DoneStillGrows DEF Shape
  <2> QED
    BY <1>1, <1>2, <1>3, <2>3, <2>4 DEF DoneInv, DoneMeansAllDone
<1> QED
  BY <1>8, <1>9

\* What a run that counts finds: no failure is left only if every page is done.
LEMMA CountTells ==
  ASSUME Shape, DoneInv, NEW r \in Run, runPc[r] = "collect",
         \A p \in Page : task[r][p] \in Settled
  PROVE  /\ r = Batch /\ Cardinality(Page) - Cardinality({p \in Page : task[r][p] = "ok"}) <= 0
              => AllDone
         /\ r # Batch /\ totalPages - completedPages <= 0 => AllDone
<1>num. Cardinality(Page) \in Nat
  BY CountsAreNat
<1>1. ASSUME Cardinality(Page) - Cardinality({p \in Page : task[r][p] = "ok"}) <= 0
      PROVE  AllDone
  <2> DEFINE good == {p \in Page : task[r][p] = "ok"}
  <2>1. Cardinality(good) \in Nat
    BY CountsAreNat
  <2>2. good = Page
    BY <1>1, <1>num, <2>1, FullSet
  <2> QED
    BY <2>2 DEF DoneInv, AllDone
<1>2. ASSUME totalPages - completedPages <= 0 PROVE AllDone
  <2>1. totalPages = Cardinality(Page) /\ completedPages \in Nat
    BY PageAssumption DEF Shape, RowsBegun, Begun, Present, Absent, Types, JobType
  <2>2. Cardinality(DoneStill) >= Cardinality(Page)
    BY <1>2, <1>num, <2>1, DoneStillFinite DEF DoneInv
  <2>3. DoneStill = Page
    BY <2>2, FullSet DEF DoneStill
  <2> QED
    BY <2>3 DEF DoneStill, AllDone
<1> QED
  BY <1>1, <1>2

LEMMA RunStepDone ==
  ASSUME NoneLost, Shape, Types', DoneInv, NEW r \in Run, RunStep(r)
  PROVE  DoneInv'
<1>ty. Types /\ TaskShape
  BY DEF Shape
<1>1. CASE LoadBlueprint(r)
  <2>1. CASE EndRun(r)
    BY <1>1, <1>ty, <2>1, EndRunDone, DoneQuietKeeps DEF LoadBlueprint, DoneQuiet
  <2>2. CASE ~EndRun(r)
    <3>1. /\ runPc[r] = "load" /\ UNCHANGED <<row, jobStatus, completedPages, failures>>
          /\ task' = [task EXCEPT ![r] =
                        [p \in Page |-> IF p \in runPages[r] THEN "find" ELSE "none"]]
          /\ \A q \in Run : runPc'[q] \in Counted => runPc[q] \in Counted
      BY <1>1, <1>ty, <2>2 DEF LoadBlueprint, At, Goto, Counted, Types, MemoryType
    <3>2. \A p \in runPages[r] : row[p] # "done"
      <4>1. CASE r = Batch
        BY <3>1, <4>1, <1>ty DEF TaskShape, Untried
      <4>2. CASE r # Batch
        BY <3>1, <4>2 DEF Shape, RowShape, Run, Retry, Batch
      <4> QED
        BY <4>1, <4>2
    <3>3. \A q \in Run, p \in Page :
            \/ task'[q][p] \in {"none", task[q][p]}
            \/ task'[q][p] = "find" /\ row[p] # "done"
      BY <3>1, <3>2, <1>ty DEF Types, MemoryType
    <3> QED
      BY <3>1, <3>3, <1>ty, DoneQuietKeeps DEF DoneQuiet
  <2> QED
    BY <2>1, <2>2
<1>2. CASE GatherReturns(r) \/ SourcesRead(r)
  <2>1. \A q \in Run : runPc'[q] \in Counted => runPc[q] \in Counted
    BY <1>2, <1>ty DEF GatherReturns, SourcesRead, Goto, Counted, Types, MemoryType
  <2> QED
    BY <1>2, <2>1, <1>ty, DoneQuietKeeps DEF GatherReturns, SourcesRead, KeepLocals, DoneQuiet
<1>3. CASE CountResults(r)
  <2>1. CASE EndRun(r)
    BY <1>3, <1>ty, <2>1, EndRunDone, DoneQuietKeeps DEF CountResults, DoneQuiet
  <2>2. CASE ~EndRun(r)
    <3> DEFINE count == IF r = Batch
                        THEN Cardinality(Page) - Cardinality({p \in Page : task[r][p] = "ok"})
                        ELSE totalPages - completedPages
    <3>1. /\ runPc[r] = "collect" /\ UNCHANGED <<row, jobStatus, completedPages, task>>
          /\ failures' = [failures EXCEPT ![r] = count]
          /\ runPc' = [runPc EXCEPT ![r] = "build"]
      BY <1>3, <2>2 DEF CountResults, At, Goto
    <3>2. \A p \in Page : task[r][p] \in Settled
      BY <1>3, <2>2, <1>ty DEF CountResults, TaskShape, Settled
    <3>3. failures'[r] <= 0 => AllDone
      BY <3>1, <3>2, <1>ty, CountTells DEF Types, MemoryType
    <3>4. \A q \in Run : q # r => runPc'[q] = runPc[q] /\ failures'[q] = failures[q]
      BY <3>1, <1>ty DEF Types, MemoryType
    <3> QED
      BY <3>1, <3>3, <3>4 DEF DoneInv, DoneMeansAllDone, AllDone, DoneStill, Still
  <2> QED
    BY <2>1, <2>2
<1>4. CASE BuildExcel(r) \/ UploadExcel(r)
  <2>1. \A q \in Run : runPc'[q] \in Counted => runPc[q] \in Counted
    BY <1>4, <1>ty DEF BuildExcel, UploadExcel, At, Goto, Counted, Types, MemoryType
  <2> QED
    BY <1>4, <2>1, <1>ty, DoneQuietKeeps DEF BuildExcel, UploadExcel, KeepLocals, DoneQuiet
<1>5. CASE FinalizeJob(r)
  <2>1. PICK o \in Outcome : FinalizeJob(r)!(o)
    BY <1>5 DEF FinalizeJob
  <2>2. jobStatus' = "done" => AllDone
    <3>1. FinalStatus(r) = "done" => failures[r] <= 0
      BY <1>ty DEF FinalStatus, Types, MemoryType
    <3> QED
      BY <2>1, <3>1 DEF DoneInv, DoneMeansAllDone, AllDone, Counted
  <2>3. DoneStill \subseteq DoneStill' /\ AllDone' = AllDone
    BY <2>1, <1>ty, EndRunDone DEF DoneStill, Still, Settled, AllDone
  <2>4. completedPages' <= Cardinality(DoneStill')
    BY <2>1, <2>3, <1>ty, DoneStillGrows
  <2> QED
    BY <2>1, <2>2, <2>3, <2>4, <1>ty, EndRunDone DEF DoneInv, DoneMeansAllDone, AllDone
<1>6. CASE \E p \in Page : PageStep(r, p)
  BY <1>6, PageStepDone
<1> QED
  BY <1>1, <1>2, <1>3, <1>4, <1>5, <1>6 DEF RunStep

LEMMA BatchStepDone ==
  ASSUME Shape, Types', DoneInv, BatchStep
  PROVE  DoneInv'
<1>run. Batch \in Run
  BY DEF Run
<1>ty. Types /\ TaskShape
  BY DEF Shape
<1>abs. runPc[Batch] \in Early => \A p \in Page : row[p] # "done"
  BY DEF Shape, RowShape, Absent
<1>1. CASE RejectJob
  BY <1>1, <1>run, <1>ty, EndRunDone, DoneQuietKeeps DEF RejectJob, DoneQuiet
<1>2. CASE FlattenToPageTasks
  <2>1. /\ \A p \in Page : task'[Batch][p] \in {"splitFail", "wait"} /\ row[p] # "done"
        /\ \A q \in Run : q # Batch => task'[q] = task[q]
        /\ \A q \in Run : runPc'[q] \in Counted => runPc[q] \in Counted
        /\ UNCHANGED <<row, jobStatus, completedPages, failures>>
    BY <1>2, <1>run, <1>ty, <1>abs
       DEF FlattenToPageTasks, At, Goto, Early, Counted, Types, MemoryType
  <2> QED
    BY <2>1, <1>ty, DoneQuietKeeps DEF DoneQuiet
<1>3. CASE InitJobPages
  <2>1. \A p \in Page : row[p] # "done"
    BY <1>3, <1>abs DEF InitJobPages, At, Early
  <2>2. /\ \A q \in Run, p \in Page : task'[q][p] = "none" \/ task'[q][p] = task[q][p]
        /\ \A q \in Run : runPc'[q] \in Counted =>
             runPc[q] \in Counted /\ failures'[q] = failures[q]
    BY <1>3, <1>run, <1>ty, EndRunDone
       DEF InitJobPages, Goto, KeepLocals, Counted, Types, MemoryType
  <2> QED
    BY <1>3, <2>1, <2>2, <1>ty, DoneQuietKeeps DEF InitJobPages, DoneQuiet
<1>4. ASSUME NEW p \in Page, SaveFailedFile(p) PROVE DoneInv'
  <2>1. UNCHANGED <<row, jobStatus, completedPages>>
    BY <1>4 DEF SaveFailedFile
  <2>2. CASE EndRun(Batch)
    BY <2>1, <2>2, <1>run, <1>ty, EndRunDone, DoneQuietKeeps DEF DoneQuiet
  <2>3. CASE ~EndRun(Batch)
    BY <1>4, <2>1, <2>3, <1>run, <1>ty, DoneQuietKeeps
       DEF SaveFailedFile, MoveTask, DoneQuiet, Types, MemoryType
  <2> QED
    BY <2>2, <2>3
<1> QED
  BY <1>1, <1>2, <1>3, <1>4 DEF BatchStep

LEMMA RetryDone ==
  ASSUME Shape, Types', DoneInv, NEW r \in Retry, CheckRetry(r) \/ RetryRequest(r)
  PROVE  DoneInv'
<1>run. r \in Run
  BY DEF Run
<1>ty. Types
  BY DEF Shape
<1>pcs. \A q \in Run : runPc'[q] \in Counted => runPc[q] \in Counted /\ failures'[q] = failures[q]
  BY <1>run, <1>ty, EndRunDone
     DEF CheckRetry, RetryRequest, SelectFailedPages, CommitRetry, KeepLocals, Goto, Counted,
         Types, MemoryType
<1>tasks. \A q \in Run, p \in Page : task'[q][p] = "none" \/ task'[q][p] = task[q][p]
  BY <1>run, <1>ty, EndRunDone DEF CheckRetry, RetryRequest, SelectFailedPages, CommitRetry, KeepLocals
<1>rows. \A p \in Page : row[p] = "done" => row'[p] = "done"
  BY DEF CheckRetry, RetryRequest, SelectFailedPages, CommitRetry, ResetPages
<1>job. completedPages' = completedPages /\ (jobStatus' = "done" => jobStatus = "done")
  BY DEF CheckRetry, RetryRequest, SelectFailedPages, CommitRetry, RetryStatus
<1> QED
  BY <1>pcs, <1>tasks, <1>rows, <1>job, <1>ty, DoneQuietKeeps DEF DoneQuiet

\* The sweep counts the rows again, and calls a job done only when each is.
LEMMA RecoverDone ==
  ASSUME Shape, Types', DoneInv, Restart
  PROVE  DoneInv'
<1> DEFINE done   == {p \in Page : SweptRow[p] = "done"}
           failed == {p \in Page : SweptRow[p] = "failed"}
<1>1. /\ \A q \in Run, p \in Page : task[q][p] = "none"
      /\ \A q \in Run : runPc[q] \notin Counted
  BY DEF Restart, Shape, Exclusive, TaskShape, Resting, Untried, Counted
<1>2. \A p \in Page : row'[p] = "done" <=> row[p] = "done"
  BY DEF Restart, Recover, SweptRow, Orphans, ActiveStatus
<1>3. UNCHANGED <<runPc, task, failures>>
  BY DEF Restart
<1>4. DoneStill' = done /\ DoneStill' = DoneStill
  BY <1>1, <1>2, <1>3 DEF DoneStill, Still, Settled, Restart, Recover
<1>5. completedPages' <= Cardinality(DoneStill')
  <2>1. Cardinality(done) <= Cardinality(done)
    BY CountsAreNat
  <2> QED
    BY <1>4, <2>1 DEF Restart, Recover, DoneInv
<1>6. DoneMeansAllDone'
  <2> SUFFICES ASSUME jobStatus' = "done" PROVE AllDone'
    BY DEF DoneMeansAllDone, AllDone
  <2>1. CASE Reconciled
    <3>1. ~NeverStarted /\ Verdict(Cardinality(done), Cardinality(failed)) = "done"
      BY <2>1 DEF Restart, Recover, NeverStarted
    <3>2. Cardinality(failed) = 0
      BY <3>1, CountsAreNat DEF Verdict
    <3>3. failed = {}
      BY <3>2, PageAssumption, FS_Subset, FS_EmptySet
    <3> QED
      BY <2>1, <3>3 DEF Reconciled, AllDone, Restart, Recover
  <2>2. CASE ~Reconciled
    BY <1>2, <2>2 DEF Restart, Recover, DoneInv, DoneMeansAllDone, AllDone
  <2> QED
    BY <2>1, <2>2
<1> QED
  BY <1>1, <1>3, <1>5, <1>6 DEF DoneInv

LEMMA SurroundingDone ==
  ASSUME Shape, Types', DoneInv,
         Upload \/ Crash \/ Restart \/ Age \/ DeleteProject \/ CleanupUploads
  PROVE  DoneInv'
<1>ty. Types
  BY DEF Shape
<1>1. CASE Upload
  <2>1. \A q \in Run : runPc'[q] \in Counted => runPc[q] \in Counted
    BY <1>1, <1>ty DEF Upload, Goto, Counted, Types, MemoryType
  <2> QED
    BY <1>1, <2>1, <1>ty, DoneQuietKeeps DEF Upload, KeepLocals, DoneQuiet
<1>2. CASE Crash
  <2>1. \A q \in Run : runPc'[q] \notin Counted
    BY <1>2 DEF Crash, Counted
  <2>2. \A q \in Run, p \in Page : task'[q][p] = "none"
    BY <1>2 DEF Crash
  <2> QED
    BY <1>2, <2>1, <2>2, <1>ty, DoneQuietKeeps DEF Crash, DoneQuiet
<1>3. CASE Restart
  BY <1>3, RecoverDone
<1>4. CASE Age \/ DeleteProject \/ CleanupUploads
  BY <1>4, <1>ty, DoneQuietKeeps DEF Age, DeleteProject, CleanupUploads, DoneQuiet
<1> QED
  BY <1>1, <1>2, <1>3, <1>4

LEMMA InitDone == Init => DoneInv
<1> SUFFICES ASSUME Init PROVE DoneInv
  OBVIOUS
<1>1. completedPages = 0 /\ \A r \in Run : runPc[r] \notin Counted
  BY DEF Init, Counted
<1> QED
  BY <1>1, DoneStillFinite DEF Init, DoneInv, DoneMeansAllDone

LEMMA NextDone ==
  ASSUME NoneLost
  PROVE  Shape /\ Shape' /\ DoneInv /\ [Next]_vars => DoneInv'
<1> SUFFICES ASSUME Shape, Shape', DoneInv, [Next]_vars PROVE DoneInv'
  OBVIOUS
<1>ty. Types /\ Types'
  BY DEF Shape
<1>1. CASE UNCHANGED vars
  BY <1>1, <1>ty, DoneQuietKeeps DEF vars, DoneQuiet
<1>2. CASE Next
  BY <1>2, <1>ty, RunStepDone, BatchStepDone, RetryDone, SurroundingDone DEF Next
<1> QED
  BY <1>1, <1>2

\* With one open Processing page and no commit whose acknowledgement is lost, a job called
\* done has all its pages done, however many calls fail, processes die, retries run and
\* uploads or projects vanish under it (_finalize_job and recover_interrupted_jobs).
THEOREM DoneMeansAllDoneAlways ==
  ASSUME OneTab, NoneLost
  PROVE  Spec => []DoneMeansAllDone
<1>1. Shape /\ Shape' /\ DoneInv /\ [Next]_vars => DoneInv'
  BY NextDone
<1>2. Spec => []Shape
  BY ShapeAlways
<1>3. Spec => []DoneInv
  BY <1>1, <1>2, InitDone, PTL DEF Spec
<1>4. DoneInv => DoneMeansAllDone
  BY DEF DoneInv
<1> QED
  BY <1>3, <1>4, PTL

-----------------------------------------------------------------------------
(* The steps of a page when no call of the database raises.  A coroutine   *)
(* is then pending until it marks its row, and counts next.                *)

Pending == {"find", "wait", "extract", "saveDone", "saveNone", "saveError",
            "markDone", "markNone", "markError", "remark"}
Failing == {"incNone", "incError", "recount"}
NotYet  == Pending \cup Failing \cup {"escaped", "splitFail"}

LEMMA PlacesAre ==
  /\ TaskPc = NotYet \cup {"incDone"} \cup Settled
  /\ NotYet \cap (Settled \cup {"incDone"}) = {}
  /\ Pending \cap (Failing \cup {"escaped", "splitFail"}) = {}
  BY DEF TaskPc, HoldsSlot, Finished, NotYet, Pending, Failing, Settled

LEMMA OnlyOk == ASSUME MaxFaults = 0, Types PROVE Outcome = {"ok"}
  BY DEF Outcome, Types

\* The coroutine goes on: its row can only become "processing", and without a rejected
\* insert it stays pending.
GoesOn(r, p) ==
  /\ \E pc \in NotYet : /\ MoveTask(r, p, pc)
                        /\ blueprint /\ task[r][p] \in Pending => pc \in Pending
  /\ task[r][p] \in Pending \cup {"escaped"}
  /\ row' = row \/ row' = [row EXCEPT ![p] = "processing"]
  /\ UNCHANGED <<completedPages, failedPages>>

MarksDone(r, p) ==
  /\ task[r][p] = "markDone" /\ MoveTask(r, p, "incDone")
  /\ row' = [row EXCEPT ![p] = "done"]
  /\ UNCHANGED <<completedPages, failedPages>>

MarksFailed(r, p) ==
  /\ task[r][p] \in {"markNone", "markError", "remark"}
  /\ \E pc \in Failing : MoveTask(r, p, pc)
  /\ row' = [row EXCEPT ![p] = "failed"]
  /\ UNCHANGED <<completedPages, failedPages>>

CountsDone(r, p) ==
  /\ task[r][p] = "incDone" /\ MoveTask(r, p, "ok")
  /\ completedPages' = completedPages + 1
  /\ UNCHANGED <<row, failedPages>>

CountsFailed(r, p) ==
  /\ task[r][p] \in Failing /\ MoveTask(r, p, "failed")
  /\ failedPages' = failedPages + 1
  /\ UNCHANGED <<row, completedPages>>

LEMMA CleanPageStep ==
  ASSUME MaxFaults = 0, Types, NEW r \in Run, NEW p \in Page, PageStep(r, p)
  PROVE  \/ GoesOn(r, p) \/ MarksDone(r, p) \/ MarksFailed(r, p)
         \/ CountsDone(r, p) \/ CountsFailed(r, p)
<1>ok. \A o \in Outcome : Applied(o) /\ ~Raised(o)
  BY OnlyOk DEF Applied, Raised
<1>save. blueprint => \A o \in SaveOutcome : ~Raised(o)
  BY <1>ok DEF SaveOutcome
<1>1. CASE StartPage(r, p)
  BY <1>1, <1>ok DEF StartPage, SetPageStatus, GoesOn, Pending, NotYet
<1>2. CASE ExtractPage(r, p)
  BY <1>2 DEF ExtractPage, GoesOn, Pending, NotYet
<1>3. CASE SaveDone(r, p)
  BY <1>3, <1>save DEF SaveDone, GoesOn, Pending, NotYet
<1>4. CASE MarkDone(r, p)
  BY <1>4, <1>ok DEF MarkDone, SetPageStatus, MarksDone
<1>5. CASE CountDone(r, p)
  BY <1>5, <1>ok DEF CountDone, IncrementCompleted, CountsDone
<1>6. CASE SaveFailed(r, p)
  BY <1>6, <1>save DEF SaveFailed, GoesOn, Pending, NotYet
<1>7. CASE MarkFailed(r, p)
  BY <1>7, <1>ok DEF MarkFailed, SetPageStatus, MarksFailed, Failing
<1>8. CASE CountFailed(r, p)
  BY <1>8, <1>ok DEF CountFailed, IncrementFailed, CountsFailed, Failing
<1>9. CASE FindSource(r, p)
  BY <1>9 DEF FindSource, GoesOn, Pending, NotYet
<1>10. CASE TakeEscaped(r, p)
  BY <1>10 DEF TakeEscaped, GoesOn, Pending, Failing, NotYet
<1>11. CASE Remark(r, p)
  BY <1>11, <1>ok DEF Remark, SetPageStatus, MarksFailed, Failing
<1>12. CASE Recount(r, p)
  BY <1>12, <1>ok DEF Recount, IncrementFailed, CountsFailed, Failing
<1> QED
  BY <1>1, <1>2, <1>3, <1>4, <1>5, <1>6, <1>7, <1>8, <1>9, <1>10, <1>11, <1>12 DEF PageStep

-----------------------------------------------------------------------------
(* The promise of JobLifecycle.  Without a call that raises, a page is     *)
(* never taken back: a coroutine that has not marked its page yet works on *)
(* a page that is not done, so what it writes takes nothing away.          *)

CleanInv == \A r \in Run, p \in Page : task[r][p] \in NotYet => row[p] # "done"

Delivered == {p \in Page : row[p] = "done"}

\* A step that neither closes nor opens the job, and delivers nothing.
Stays ==
  /\ \A p \in Page : row'[p] = "done" <=> row[p] = "done"
  /\ jobStatus' = jobStatus

\* A step that takes no coroutine to a page that is done.
CleanTasks ==
  \A r \in Run, p \in Page :
    task'[r][p] \in NotYet => task[r][p] \in NotYet \/ row[p] # "done"

LEMMA StaysClean ==
  ASSUME CleanInv, CleanTasks, \A p \in Page : row'[p] = "done" => row[p] = "done"
  PROVE  CleanInv'
  BY DEF CleanInv, CleanTasks

LEMMA StaysStutters ==
  ASSUME Stays
  PROVE  [Lifecycle!Next]_(Lifecycle!vars)
  BY DEF Stays, Lifecycle!vars

LEMMA EndRunClean ==
  ASSUME Types, NEW r \in Run, EndRun(r)
  PROVE  CleanTasks
<1>1. "none" \notin NotYet
  BY PlacesAre DEF Settled
<1> QED
  BY <1>1, EndRunDone DEF CleanTasks

LEMMA PageStepPromise ==
  ASSUME MaxFaults = 0, Shape, CleanInv, NEW r \in Run, NEW p \in Page, PageStep(r, p)
  PROVE  CleanInv' /\ [Lifecycle!Next]_(Lifecycle!vars)
<1>1. /\ runPc[r] \in Working /\ jobStatus' = jobStatus /\ jobStatus \in ActiveStatus
      /\ \A q \in Run : q # r => task[q][p] = "none"
  BY PageStepIs, ElsewhereIs, OthersIdle, Alone DEF Shape
<1>2. row \in [Page -> RowStatus] /\ task \in [Run -> [Page -> TaskPc]]
  BY DEF Shape, Types, PageType, MemoryType
<1>pl. "none" \notin NotYet /\ "ok" \notin NotYet /\ "failed" \notin NotYet /\ "incDone" \notin NotYet
         /\ Pending \subseteq NotYet /\ "escaped" \in NotYet
  BY PlacesAre DEF Settled, NotYet
<1>3. CASE GoesOn(r, p) \/ MarksFailed(r, p)
  <2>1. row[p] # "done"
    BY <1>3, <1>pl DEF CleanInv, GoesOn, MarksFailed, Pending
  <2>2. Stays
    BY <1>1, <1>2, <1>3, <2>1 DEF GoesOn, MarksFailed, Stays
  <2>3. CleanTasks
    BY <1>2, <1>3, <2>1 DEF GoesOn, MarksFailed, MoveTask, CleanTasks
  <2> QED
    BY <2>2, <2>3, StaysClean, StaysStutters DEF Stays
<1>4. CASE MarksDone(r, p)
  <2>1. row[p] # "done"
    BY <1>4, <1>pl DEF CleanInv, MarksDone, Pending
  <2>2. Delivered' = Delivered \cup {p}
    BY <1>2, <1>4 DEF MarksDone, Delivered
  <2>3. Lifecycle!Deliver(p)
    BY <1>1, <2>1, <2>2 DEF Lifecycle!Deliver, Delivered
  <2>4. CleanInv'
    BY <1>1, <1>2, <1>4, <1>pl DEF CleanInv, MarksDone, MoveTask
  <2> QED
    BY <2>3, <2>4 DEF Lifecycle!Next
<1>5. CASE CountsDone(r, p) \/ CountsFailed(r, p)
  <2>1. Stays /\ CleanTasks
    BY <1>1, <1>2, <1>5, <1>pl DEF CountsDone, CountsFailed, MoveTask, Stays, CleanTasks
  <2> QED
    BY <2>1, StaysClean, StaysStutters DEF Stays
<1> QED
  BY <1>3, <1>4, <1>5, CleanPageStep DEF Shape

\* A step that gives the job its verdict.
LEMMA Closes ==
  ASSUME Types, DoneMeansAllDone', jobStatus \in ActiveStatus, jobStatus' \in TerminalStatus,
         \A p \in Page : row'[p] = "done" <=> row[p] = "done"
  PROVE  [Lifecycle!Next]_(Lifecycle!vars)
<1>1. Delivered' = Delivered
  BY DEF Delivered
<1>2. jobStatus' = "done" => Delivered = Page
  BY DEF DoneMeansAllDone, Delivered
<1>3. jobStatus' \in Lifecycle!Verdict /\ jobStatus' \notin ActiveStatus
  BY DEF Lifecycle!Verdict, TerminalStatus, ActiveStatus
<1>4. Lifecycle!Close(jobStatus')
  BY <1>1, <1>2, <1>3 DEF Lifecycle!Close, Delivered
<1> QED
  BY <1>3, <1>4 DEF Lifecycle!Next

LEMMA RunStepPromise ==
  ASSUME MaxFaults = 0, Shape, CleanInv, DoneMeansAllDone', NEW r \in Run, RunStep(r)
  PROVE  CleanInv' /\ [Lifecycle!Next]_(Lifecycle!vars)
<1>ty. Types /\ TaskShape
  BY DEF Shape
<1>1. CASE LoadBlueprint(r)
  <2>1. Stays
    BY <1>1 DEF LoadBlueprint, Stays
  <2>2. CASE EndRun(r)
    BY <2>1, <2>2, <1>ty, EndRunClean, StaysClean, StaysStutters DEF Stays
  <2>3. CASE ~EndRun(r)
    <3>1. /\ runPc[r] = "load"
          /\ task' = [task EXCEPT ![r] =
                        [p \in Page |-> IF p \in runPages[r] THEN "find" ELSE "none"]]
      BY <1>1, <2>3 DEF LoadBlueprint, At
    <3>2. \A p \in runPages[r] : row[p] # "done"
      <4>1. CASE r = Batch
        BY <3>1, <4>1, <1>ty DEF TaskShape, Untried
      <4>2. CASE r # Batch
        BY <3>1, <4>2 DEF Shape, RowShape, Run, Retry, Batch
      <4> QED
        BY <4>1, <4>2
    <3>3. "none" \notin NotYet
      BY PlacesAre DEF Settled
    <3>4. CleanTasks
      BY <3>1, <3>2, <3>3, <1>ty DEF CleanTasks, Types, MemoryType
    <3> QED
      BY <2>1, <3>4, StaysClean, StaysStutters DEF Stays
  <2> QED
    BY <2>2, <2>3
<1>2. CASE GatherReturns(r) \/ SourcesRead(r) \/ BuildExcel(r) \/ UploadExcel(r)
  <2>1. Stays /\ task' = task
    BY <1>2 DEF GatherReturns, SourcesRead, BuildExcel, UploadExcel, KeepLocals, Stays
  <2> QED
    BY <2>1, StaysClean, StaysStutters DEF Stays, CleanTasks
<1>3. CASE CountResults(r)
  <2>1. Stays /\ (task' = task \/ EndRun(r))
    BY <1>3 DEF CountResults, Stays
  <2>2. CleanTasks
    BY <2>1, <1>ty, EndRunClean DEF CleanTasks
  <2> QED
    BY <2>1, <2>2, StaysClean, StaysStutters DEF Stays
<1>4. CASE FinalizeJob(r)
  <2>1. /\ EndRun(r) /\ \A p \in Page : row'[p] = "done" <=> row[p] = "done"
        /\ runPc[r] \in Working
        /\ jobStatus' = jobStatus \/ jobStatus' \in TerminalStatus
    BY <1>4 DEF FinalizeJob, FinalStatus, TerminalStatus, Working
  <2>2. CleanInv'
    BY <2>1, <1>ty, EndRunClean, StaysClean
  <2> QED
    BY <2>1, <2>2, <1>ty, Alone, Closes, StaysStutters DEF Stays, Shape
<1>5. CASE \E p \in Page : PageStep(r, p)
  BY <1>5, PageStepPromise
<1> QED
  BY <1>1, <1>2, <1>3, <1>4, <1>5 DEF RunStep

LEMMA BatchStepPromise ==
  ASSUME MaxFaults = 0, Shape, CleanInv, DoneMeansAllDone', BatchStep
  PROVE  CleanInv' /\ [Lifecycle!Next]_(Lifecycle!vars)
<1>run. Batch \in Run
  BY DEF Run
<1>ty. Types
  BY DEF Shape
<1>abs. runPc[Batch] \in Early => \A p \in Page : row[p] # "done"
  BY DEF Shape, RowShape, Absent
<1>1. CASE RejectJob
  <2>1. /\ EndRun(Batch) /\ \A p \in Page : row'[p] = "done" <=> row[p] = "done"
        /\ runPc[Batch] \in Working
        /\ jobStatus' = jobStatus \/ jobStatus' \in TerminalStatus
    BY <1>1 DEF RejectJob, At, TerminalStatus, Working
  <2>2. CleanInv'
    BY <2>1, <1>run, <1>ty, EndRunClean, StaysClean
  <2> QED
    BY <2>1, <2>2, <1>run, <1>ty, Alone, Closes, StaysStutters DEF Stays, Shape
<1>2. CASE FlattenToPageTasks
  <2>1. Stays /\ \A p \in Page : row[p] # "done"
    BY <1>2, <1>abs DEF FlattenToPageTasks, At, Early, Stays
  <2> QED
    BY <2>1, StaysClean, StaysStutters DEF Stays, CleanTasks
<1>3. CASE InitJobPages
  <2>1. \A p \in Page : row[p] # "done" /\ row'[p] # "done"
    BY <1>3, <1>abs DEF InitJobPages, At, Early
  <2>2. Stays
    BY <1>3, <2>1 DEF InitJobPages, Stays
  <2> QED
    BY <2>1, <2>2, StaysStutters DEF CleanInv
<1>4. ASSUME NEW p \in Page, SaveFailedFile(p)
      PROVE  CleanInv' /\ [Lifecycle!Next]_(Lifecycle!vars)
  <2>1. Stays /\ \A s \in Page : row[s] # "done"
    BY <1>4, <1>abs DEF SaveFailedFile, At, Early, Stays
  <2> QED
    BY <2>1, StaysClean, StaysStutters DEF Stays, CleanTasks
<1> QED
  BY <1>1, <1>2, <1>3, <1>4 DEF BatchStep

LEMMA RetryPromise ==
  ASSUME MaxFaults = 0, Shape, CleanInv, DoneMeansAllDone, NEW r \in Retry, CheckRetry(r) \/ RetryRequest(r)
  PROVE  CleanInv' /\ [Lifecycle!Next]_(Lifecycle!vars)
<1>run. r \in Run
  BY DEF Run
<1>ty. Types
  BY DEF Shape
<1>rows. \A p \in Page : row'[p] = "done" <=> row[p] = "done"
  BY DEF CheckRetry, RetryRequest, SelectFailedPages, CommitRetry, ResetPages
<1>tasks. CleanInv'
  <2>1. task' = task \/ EndRun(r)
    BY DEF CheckRetry, RetryRequest, SelectFailedPages, CommitRetry, KeepLocals
  <2>2. CleanTasks
    BY <2>1, <1>run, <1>ty, EndRunClean DEF CleanTasks
  <2> QED
    BY <1>rows, <2>2, StaysClean
<1>1. CASE CheckRetry(r) \/ SelectFailedPages(r)
  BY <1>1, <1>rows, <1>tasks, StaysStutters DEF CheckRetry, SelectFailedPages, Stays
<1>2. CASE CommitRetry(r)
  <2>1. /\ runPc[r] = "selected" /\ jobStatus' \in {jobStatus, "processing"}
    BY <1>2 DEF CommitRetry, At, RetryStatus
  <2>2. jobStatus \notin {"none", "processing"} /\ jobStatus \in JobStatus
    BY <2>1, <1>run, <1>ty DEF Shape, Exclusive, Request, Resting, Types, JobType
  <2>3. \E p \in Page : row[p] # "done"
    BY <2>1, <1>ty DEF Shape, RowShape, Types, MemoryType
  <2>4. CASE jobStatus' = jobStatus
    BY <2>4, <1>rows, <1>tasks, StaysStutters DEF Stays
  <2>5. CASE jobStatus' = "processing" /\ jobStatus = "queued"
    BY <2>5, <1>rows, <1>tasks DEF Lifecycle!vars, ActiveStatus
  <2>6. CASE jobStatus' = "processing" /\ jobStatus # "queued"
    <3>1. jobStatus \in {"completed_with_errors", "error"}
      BY <2>2, <2>3, <2>6 DEF JobStatus, ActiveStatus, TerminalStatus, DoneMeansAllDone
    <3>2. Lifecycle!Reopen
      BY <2>3, <2>6, <3>1, <1>rows DEF Lifecycle!Reopen, ActiveStatus
    <3> QED
      BY <3>2, <1>tasks DEF Lifecycle!Next
  <2> QED
    BY <2>1, <2>4, <2>5, <2>6
<1> QED
  BY <1>1, <1>2 DEF RetryRequest

LEMMA SurroundingPromise ==
  ASSUME Shape, CleanInv, DoneMeansAllDone',
         Upload \/ Crash \/ Restart \/ Age \/ DeleteProject \/ CleanupUploads
  PROVE  CleanInv' /\ [Lifecycle!Next]_(Lifecycle!vars)
<1>none. "none" \notin NotYet
  BY PlacesAre DEF Settled
<1>1. CASE Upload
  <2>1. /\ jobStatus = "none" /\ jobStatus' = "queued" /\ task' = task /\ row' = row
    BY <1>1 DEF Upload, KeepLocals
  <2>2. CleanInv'
    BY <2>1 DEF CleanInv
  <2>3. Lifecycle!Submit
    BY <2>1 DEF Lifecycle!Submit, ActiveStatus
  <2> QED
    BY <2>2, <2>3 DEF Lifecycle!Next
<1>2. CASE Crash
  <2>1. Stays /\ CleanTasks
    BY <1>2, <1>none DEF Crash, Stays, CleanTasks
  <2> QED
    BY <2>1, StaysClean, StaysStutters DEF Stays
<1>3. CASE Restart
  <2>1. \A p \in Page : row'[p] = "done" <=> row[p] = "done"
    BY <1>3 DEF Restart, Recover, SweptRow, Orphans, ActiveStatus
  <2>2. CleanInv'
    BY <1>3, <2>1 DEF Restart, CleanInv
  <2>3. \/ jobStatus' = jobStatus
        \/ jobStatus \in ActiveStatus /\ jobStatus' \in TerminalStatus
    BY <1>3 DEF Restart, Recover, Verdict, NeverStarted, Reconciled, TerminalStatus, ActiveStatus
  <2> QED
    BY <2>1, <2>2, <2>3, Closes, StaysStutters DEF Stays, Shape
<1>4. CASE Age \/ DeleteProject \/ CleanupUploads
  <2>1. Stays /\ CleanTasks
    BY <1>4 DEF Age, DeleteProject, CleanupUploads, Stays, CleanTasks
  <2> QED
    BY <2>1, StaysClean, StaysStutters DEF Stays
<1> QED
  BY <1>1, <1>2, <1>3, <1>4

LEMMA NextPromise ==
  ASSUME MaxFaults = 0
  PROVE  Shape /\ CleanInv /\ DoneMeansAllDone /\ DoneMeansAllDone' /\ [Next]_vars
           => CleanInv' /\ [Lifecycle!Next]_(Lifecycle!vars)
<1> SUFFICES ASSUME Shape, CleanInv, DoneMeansAllDone, DoneMeansAllDone', [Next]_vars
             PROVE  CleanInv' /\ [Lifecycle!Next]_(Lifecycle!vars)
  OBVIOUS
<1>1. CASE UNCHANGED vars
  <2>1. Stays /\ CleanTasks
    BY <1>1 DEF vars, Stays, CleanTasks
  <2> QED
    BY <2>1, StaysClean, StaysStutters DEF Stays
<1>2. CASE Next
  BY <1>2, RunStepPromise, BatchStepPromise, RetryPromise, SurroundingPromise DEF Next
<1> QED
  BY <1>1, <1>2

\* With one open Processing page and no call that raises, the pipeline keeps the promise of
\* JobLifecycle: whatever dies, expires or is deleted under it, and however often it is
\* retried, pages are delivered only while the job is active and never taken back, "done" is
\* said only when all are delivered, and only an incomplete job opens again.
THEOREM KeepsPromiseAlways ==
  ASSUME OneTab, MaxFaults = 0
  PROVE  Spec => KeepsPromise
<1>1. NoneLost
  BY DEF NoneLost
<1>2. Spec => [](Shape /\ DoneMeansAllDone)
  BY <1>1, ShapeAlways, DoneMeansAllDoneAlways, PTL
<1>3. Init => CleanInv
  BY DEF Init, CleanInv
<1>4. Shape /\ CleanInv /\ DoneMeansAllDone /\ DoneMeansAllDone' /\ [Next]_vars
        => CleanInv' /\ [Lifecycle!Next]_(Lifecycle!vars)
  BY NextPromise
<1>5. Init => Lifecycle!Init
  BY DEF Init, Lifecycle!Init, ActiveStatus
<1> QED
  BY <1>2, <1>3, <1>4, <1>5, PTL DEF Spec, KeepsPromise, Lifecycle!Spec

-----------------------------------------------------------------------------
(* The counters of a job.  They are incremented apart from the rows, so    *)
(* they are exact only over the pages no coroutine is at work on; a sweep  *)
(* that ends a job counts again.  Until then a job whose run died is out   *)
(* of every run's reach, unless a retry comes early, of which nothing is   *)
(* claimed.                                                                *)

FailedStill == {p \in Page : row[p] = "failed" /\ Still(p)}

\* A page that is still to be settled has a run that will.
InHand(p) ==
  \E r \in Run : \/ runPc[r] \in Working /\ task[r][p] \in Pending
                 \/ runPc[r] = "load" /\ p \in runPages[r]

Attended == jobStatus \in ActiveStatus => \E r \in Run : runPc[r] \in Working

Counting ==
  ~early =>
    /\ completedPages = Cardinality(DoneStill)
    /\ failedPages = Cardinality(FailedStill)
    /\ \A p \in Page : row[p] \in ActiveStatus => InHand(p)

TaskTells ==
  \A r \in Run, p \in Page :
    /\ task[r][p] = "incDone" => row[p] = "done"
    /\ task[r][p] \in Failing => row[p] = "failed"
    /\ task[r][p] # "escaped"
    /\ task[r][p] = "failed" /\ runPc[r] # "init" => row[p] = "failed"

CountInv ==
  /\ blueprint
  /\ Absent => completedPages = 0 /\ failedPages = 0
  /\ TaskTells
  /\ Attended => Counting

\* Before there are rows nothing is still, and nothing is to be settled.
LEMMA AbsentCounting ==
  ASSUME Absent, completedPages = 0, failedPages = 0
  PROVE  Counting
<1>1. DoneStill = {} /\ FailedStill = {}
  BY DEF Absent, DoneStill, FailedStill
<1> QED
  BY <1>1, FS_EmptySet DEF Absent, Counting, ActiveStatus

LEMMA PageStepCount ==
  ASSUME MaxFaults = 0, Shape, Types', CountInv, NEW r \in Run, NEW p \in Page, PageStep(r, p)
  PROVE  CountInv'
<1>1. /\ runPc[r] \in Working /\ runPc[r] \in Paging /\ jobStatus' = jobStatus
      /\ runPc[r] \in Begun(r) /\ blueprint' = blueprint /\ early' = early
      /\ \A q \in Run : q # r => \A s \in Page : task[q][s] = "none"
  BY PageStepIs, ElsewhereIs, OthersIdle DEF Shape, Paging, Begun
<1>2. /\ row \in [Page -> RowStatus] /\ task \in [Run -> [Page -> TaskPc]]
      /\ completedPages \in Nat /\ failedPages \in Int
  BY DEF Shape, Types, JobType, PageType, MemoryType
<1>3. Counting
  BY <1>1 DEF CountInv, Attended
<1>4. PICK pc : /\ MoveTask(r, p, pc)
                /\ GoesOn(r, p) \/ MarksDone(r, p) \/ MarksFailed(r, p)
                     \/ CountsDone(r, p) \/ CountsFailed(r, p)
  BY CleanPageStep DEF Shape, GoesOn, MarksDone, MarksFailed, CountsDone, CountsFailed
<1>5. /\ runPc' = runPc /\ runPages' = runPages /\ task'[r][p] = pc
      /\ \A q \in Run, s \in Page : q # r \/ s # p => task'[q][s] = task[q][s]
  BY <1>2, <1>4 DEF MoveTask
<1>6. \A s \in Page : s # p => row'[s] = row[s]
  BY <1>2, <1>4 DEF GoesOn, MarksDone, MarksFailed, CountsDone, CountsFailed
<1>7. ~Absent'
  BY PageStepBegun, <1>1, <1>5, PageAssumption DEF Shape, RowsBegun, Absent, Present
<1>8. \A s \in Page : s # p => (Still(s)' <=> Still(s)) /\ (InHand(s) => InHand(s)')
  BY <1>5 DEF Still, InHand
<1>9. task[r][p] \notin Settled /\ ~Still(p)
  BY PageStepIs DEF Shape, Still
<1>fin. /\ IsFiniteSet(DoneStill) /\ IsFiniteSet(FailedStill)
  BY PageAssumption, FS_Subset DEF DoneStill, FailedStill
<1>pl. /\ Pending \cap (Settled \cup Failing \cup {"incDone", "escaped"}) = {}
       /\ Failing \cap (Settled \cup {"incDone", "escaped"}) = {}
       /\ "incDone" \notin Settled /\ "escaped" \notin Settled
       /\ "ok" \in Settled \ {"failed"} /\ "failed" \in Settled
  BY DEF Pending, Settled, Failing
<1>others. ASSUME NEW q \in Run, NEW s \in Page, q # r \/ s # p
           PROVE  /\ task'[q][s] = "incDone" => row'[s] = "done"
                  /\ task'[q][s] \in Failing => row'[s] = "failed"
                  /\ task'[q][s] # "escaped"
                  /\ task'[q][s] = "failed" /\ runPc'[q] # "init" => row'[s] = "failed"
  <2>1. CASE q # r
    BY <1>1, <1>5, <2>1, <1>pl DEF Settled
  <2>2. CASE s # p
    BY <1>5, <1>6, <2>2 DEF CountInv, TaskTells
  <2> QED
    BY <1>others, <2>1, <2>2
<1>10. ASSUME UNCHANGED <<completedPages, failedPages>>, pc \notin Settled,
              row'[p] \in ActiveStatus => pc \in Pending,
              pc = "incDone" => row'[p] = "done", pc \in Failing => row'[p] = "failed",
              pc # "escaped"
       PROVE  CountInv'
  <2>1. ~Still(p)'
    BY <1>5, <1>10 DEF Still
  <2>2. DoneStill' = DoneStill /\ FailedStill' = FailedStill
    BY <1>6, <1>8, <1>9, <2>1 DEF DoneStill, FailedStill
  <2>3. row'[p] \in ActiveStatus => InHand(p)'
    BY <1>1, <1>5, <1>10 DEF InHand
  <2>4. ~early => \A s \in Page : row'[s] \in ActiveStatus => InHand(s)'
    BY <1>3, <1>6, <1>8, <2>3 DEF Counting
  <2>5. Counting'
    BY <1>1, <1>3, <1>10, <2>2, <2>4 DEF Counting
  <2>6. TaskTells'
    BY <1>others, <1>5, <1>10, <1>pl DEF TaskTells
  <2> QED
    BY <1>1, <1>7, <2>5, <2>6 DEF CountInv
<1>11. CASE GoesOn(r, p)
  <2>1. task[r][p] \in Pending /\ pc \in Pending
    BY <1>4, <1>5, <1>11, <1>2 DEF CountInv, TaskTells, GoesOn, MoveTask
  <2> QED
    BY <1>10, <1>11, <2>1, <1>pl DEF GoesOn
<1>12. CASE MarksDone(r, p)
  <2>1. pc = "incDone" /\ row'[p] = "done"
    BY <1>2, <1>5, <1>12 DEF MarksDone, MoveTask
  <2> QED
    BY <1>10, <1>12, <2>1, <1>pl DEF MarksDone, ActiveStatus
<1>13. CASE MarksFailed(r, p)
  <2>1. pc \in Failing /\ row'[p] = "failed"
    BY <1>2, <1>5, <1>13 DEF MarksFailed, MoveTask
  <2> QED
    BY <1>10, <1>13, <2>1, <1>pl DEF MarksFailed, ActiveStatus
<1>14. CASE CountsDone(r, p) \/ CountsFailed(r, p)
  <2>1. pc \in {"ok", "failed"} /\ Still(p)'
    BY <1>1, <1>2, <1>5, <1>14 DEF CountsDone, CountsFailed, MoveTask, Still, Settled
  <2>2. row' = row
    BY <1>14 DEF CountsDone, CountsFailed
  <2>3. /\ CountsDone(r, p) => row[p] = "done" /\ pc = "ok"
        /\ CountsFailed(r, p) => row[p] = "failed" /\ pc = "failed"
    BY <1>2, <1>5, <1>14 DEF CountsDone, CountsFailed, MoveTask, CountInv, TaskTells
  <2>4. TaskTells'
    BY <1>others, <1>5, <2>1, <2>2, <2>3, <1>14, <1>pl DEF TaskTells
  <2>5. ~early => \A s \in Page : row'[s] \in ActiveStatus => InHand(s)'
    BY <1>3, <1>8, <2>2, <2>3, <1>14 DEF Counting, ActiveStatus
  <2>6. CASE CountsDone(r, p)
    <3>1. DoneStill' = DoneStill \cup {p} /\ p \notin DoneStill /\ FailedStill' = FailedStill
      BY <1>8, <1>9, <2>1, <2>2, <2>3, <2>6 DEF DoneStill, FailedStill
    <3>2. Cardinality(DoneStill') = Cardinality(DoneStill) + 1
      BY <3>1, <1>fin, FS_AddElement
    <3> QED
      BY <1>1, <1>3, <1>7, <2>4, <2>5, <2>6, <3>1, <3>2 DEF CountInv, Counting, CountsDone
  <2>7. CASE CountsFailed(r, p)
    <3>1. FailedStill' = FailedStill \cup {p} /\ p \notin FailedStill /\ DoneStill' = DoneStill
      BY <1>8, <1>9, <2>1, <2>2, <2>3, <2>7 DEF DoneStill, FailedStill
    <3>2. Cardinality(FailedStill') = Cardinality(FailedStill) + 1
      BY <3>1, <1>fin, FS_AddElement
    <3> QED
      BY <1>1, <1>3, <1>7, <2>4, <2>5, <2>7, <3>1, <3>2 DEF CountInv, Counting, CountsFailed
  <2> QED
    BY <1>14, <2>6, <2>7
<1> QED
  BY <1>4, <1>11, <1>12, <1>13, <1>14

\* What the steps of a run do between its pages.
CountQuiet ==
  /\ UNCHANGED <<blueprint, early, row, completedPages, failedPages>>
  /\ Attended' => Attended
  /\ \A r \in Run, p \in Page :
       \/ task'[r][p] \in {"none", "find"}
       \/ task'[r][p] = task[r][p] /\ (runPc[r] = "init" => runPc'[r] = "init")
  /\ \A p \in Page : row[p] \in {"done", "failed"} => (Still(p)' <=> Still(p))
  /\ \A p \in Page : row[p] \in ActiveStatus /\ InHand(p) => InHand(p)'

LEMMA CountQuietKeeps ==
  ASSUME CountInv, CountQuiet
  PROVE  CountInv'
<1>1. DoneStill' = DoneStill /\ FailedStill' = FailedStill
  BY DEF CountQuiet, DoneStill, FailedStill
<1>2. TaskTells'
  BY DEF CountInv, CountQuiet, TaskTells, Failing
<1>3. Attended' => Counting'
  BY <1>1 DEF CountInv, CountQuiet, Counting
<1> QED
  BY <1>2, <1>3 DEF CountInv, CountQuiet, Absent

\* As long as there are no rows there is nothing to count.
LEMMA AbsentKeeps ==
  ASSUME CountInv, Absent, UNCHANGED <<blueprint, row, completedPages, failedPages>>, TaskTells'
  PROVE  CountInv'
<1>1. Absent'
  BY DEF Absent
<1>2. DoneStill' = {} /\ FailedStill' = {}
  BY <1>1 DEF Absent, DoneStill, FailedStill
<1>3. Counting'
  BY <1>1, <1>2, FS_EmptySet DEF Absent, Counting, ActiveStatus, CountInv
<1> QED
  BY <1>3 DEF CountInv, Absent

LEMMA RunStepCount ==
  ASSUME MaxFaults = 0, Shape, Types', CountInv, NEW r \in Run, RunStep(r)
  PROVE  CountInv'
<1>ty. Types /\ TaskShape
  BY DEF Shape
<1>ok. \A o \in Outcome : ~Raised(o)
  BY <1>ty, OnlyOk DEF Raised
<1>pl. /\ Pending \cap Settled = {} /\ "load" \notin Counted
       /\ {"load", "reject", "flatten", "source", "gather", "collect", "build", "upload",
           "commit", "commitNoExcel"} \subseteq Working
  BY DEF Pending, Settled, Counted, Working
<1>1. CASE LoadBlueprint(r)
  <2>1. PICK o \in Outcome : LoadBlueprint(r)!(o)
    BY <1>1 DEF LoadBlueprint
  <2>2. /\ runPc[r] = "load" /\ UNCHANGED <<blueprint, early, row, completedPages, failedPages, runPages>>
        /\ Goto(r, IF r = Batch THEN "flatten" ELSE "source")
        /\ task' = [task EXCEPT ![r] =
                      [p \in Page |-> IF p \in runPages[r] THEN "find" ELSE "none"]]
    BY <2>1, <1>ok DEF At, CountInv
  <2>3. /\ \A q \in Run : q # r => task'[q] = task[q] /\ runPc'[q] = runPc[q]
        /\ \A p \in Page : task'[r][p] = IF p \in runPages[r] THEN "find" ELSE "none"
        /\ runPc'[r] \in {"flatten", "source"}
    BY <2>2, <1>ty DEF Goto, Types, MemoryType
  <2>4. \A p \in Page : task[r][p] = "none"
    BY <2>2, <1>ty DEF TaskShape, Untried
  <2>5. Attended
    BY <2>2, <1>pl DEF Attended
  <2>6. \A p \in Page : row[p] \in {"done", "failed"} => (Still(p)' <=> Still(p))
    <3>1. \A p \in runPages[r] : row[p] = "queued"
      <4>1. CASE r = Batch
        BY <2>2, <4>1, <1>ty DEF TaskShape, Untried
      <4>2. CASE r # Batch
        BY <2>2, <4>2 DEF Shape, RowShape, Run, Retry, Batch
      <4> QED
        BY <4>1, <4>2
    <3> QED
      BY <2>3, <2>4, <3>1 DEF Still
  <2>7. \A p \in Page : InHand(p) => InHand(p)'
    <3> SUFFICES ASSUME NEW p \in Page, InHand(p) PROVE InHand(p)'
      OBVIOUS
    <3>1. PICK q \in Run : \/ runPc[q] \in Working /\ task[q][p] \in Pending
                           \/ runPc[q] = "load" /\ p \in runPages[q]
      BY DEF InHand
    <3>2. CASE q = r
      <4>1. p \in runPages[r]
        BY <2>4, <3>1, <3>2 DEF Pending
      <4>2. task'[r][p] \in Pending /\ runPc'[r] \in Working
        BY <2>3, <4>1, <1>pl DEF Pending
      <4> QED
        BY <4>2 DEF InHand
    <3>3. CASE q # r
      BY <2>2, <2>3, <3>1, <3>3 DEF InHand
    <3> QED
      BY <3>2, <3>3
  <2> QED
    BY <2>2, <2>3, <2>5, <2>6, <2>7, CountQuietKeeps DEF CountQuiet
<1>2. CASE GatherReturns(r) \/ SourcesRead(r) \/ CountResults(r) \/ BuildExcel(r) \/ UploadExcel(r)
  <2>1. PICK pc : /\ Goto(r, pc) /\ pc \in {"collect", "gather", "build", "upload", "commit",
                                            "commitNoExcel"}
                  /\ runPc[r] \in {"gather", "source", "collect", "build", "upload"}
                  /\ UNCHANGED <<task, runPages, blueprint, early, row, completedPages, failedPages>>
    <3>1. CASE GatherReturns(r) \/ SourcesRead(r)
      BY <3>1 DEF GatherReturns, SourcesRead, At, KeepLocals
    <3>2. CASE CountResults(r)
      <4>1. PICK o \in (IF r = Batch THEN {"ok"} ELSE Outcome) : CountResults(r)!(o)
        BY <3>2 DEF CountResults
      <4>2. ~Raised(o)
        BY <4>1, <1>ok DEF Raised
      <4> QED
        BY <4>1, <4>2 DEF At
    <3>3. CASE BuildExcel(r)
      BY <3>3 DEF BuildExcel, At
    <3>4. CASE UploadExcel(r)
      BY <3>4 DEF UploadExcel, At, KeepLocals
    <3> QED
      BY <1>2, <3>1, <3>2, <3>3, <3>4
  <2>2. runPc' = [runPc EXCEPT ![r] = pc] /\ pc \in Working /\ runPc[r] \in Working \ {"init", "load"}
    BY <2>1 DEF Goto, Working
  <2>3. /\ \A q \in Run : runPc[q] \in Working => runPc'[q] \in Working
        /\ \A q \in Run : runPc[q] \in {"load", "init"} => runPc'[q] = runPc[q]
    BY <2>2, <1>ty DEF Types, MemoryType
  <2>4. Attended /\ \A p \in Page : (InHand(p) => InHand(p)') /\ (Still(p)' <=> Still(p))
    BY <2>1, <2>2, <2>3 DEF Attended, InHand, Still
  <2> QED
    BY <2>1, <2>3, <2>4, CountQuietKeeps DEF CountQuiet
<1>3. CASE FinalizeJob(r)
  <2>1. /\ runPc[r] \in Counted /\ runPc[r] \in Working /\ EndRun(r)
        /\ UNCHANGED <<blueprint, early, row, completedPages, failedPages>>
    BY <1>3, <1>pl DEF FinalizeJob, Counted
  <2>2. Attended
    BY <2>1 DEF Attended
  <2>3. \A q \in Run : q # r => (\A p \in Page : task[q][p] = "none") /\ runPc[q] \notin Working
    BY <2>1, <1>ty, OthersIdle, Alone, ElsewhereIs DEF Shape
  <2>4. \A p \in Page : task[r][p] \in Settled
    BY <2>1, <1>ty DEF TaskShape
  <2>5. \A p \in Page : ~InHand(p)
    BY <2>1, <2>3, <2>4, <1>pl DEF InHand
  <2>6. \A q \in Run, p \in Page : task'[q][p] = "none"
    BY <2>1, <2>3, <1>ty DEF EndRun, Types, MemoryType
  <2>7. \A p \in Page : Still(p) /\ Still(p)'
    BY <2>3, <2>4, <2>6 DEF Still, Settled
  <2> QED
    BY <2>1, <2>2, <2>5, <2>6, <2>7, CountQuietKeeps DEF CountQuiet
<1>4. CASE \E p \in Page : PageStep(r, p)
  BY <1>4, PageStepCount
<1> QED
  BY <1>1, <1>2, <1>3, <1>4 DEF RunStep

LEMMA BatchStepCount ==
  ASSUME MaxFaults = 0, Shape, Shape', CountInv, BatchStep
  PROVE  CountInv'
<1>run. Batch \in Run
  BY DEF Run
<1>ty. Types /\ TaskShape
  BY DEF Shape
<1>ok. (\A o \in Outcome : Applied(o) /\ ~Raised(o)) /\ (\A o \in SaveOutcome : ~Raised(o))
  BY <1>ty, OnlyOk DEF Applied, Raised, SaveOutcome, CountInv
<1>abs. runPc[Batch] \in Early => Absent
  BY DEF Shape, RowShape
<1>none. "none" \notin Failing
  BY DEF Failing
<1>1. CASE RejectJob
  <2>1. Absent /\ EndRun(Batch) /\ UNCHANGED <<blueprint, row, completedPages, failedPages>>
    BY <1>1, <1>abs DEF RejectJob, At, Early
  <2>2. \A q \in Run, p \in Page : task'[q][p] = "none" \/
          (task'[q][p] = task[q][p] /\ runPc'[q] = runPc[q])
    BY <2>1, <1>run, <1>ty DEF EndRun, Goto, Types, MemoryType
  <2>3. TaskTells'
    BY <2>1, <2>2, <1>none DEF CountInv, TaskTells
  <2> QED
    BY <2>1, <2>3, AbsentKeeps
<1>2. CASE FlattenToPageTasks
  <2>1. Absent /\ UNCHANGED <<blueprint, row, completedPages, failedPages>>
    BY <1>2, <1>abs DEF FlattenToPageTasks, At, Early
  <2>2. /\ \A p \in Page : task'[Batch][p] \in {"splitFail", "wait"}
        /\ \A q \in Run : q # Batch => task'[q] = task[q] /\ runPc'[q] = runPc[q]
    BY <1>2, <1>run, <1>ty DEF FlattenToPageTasks, Goto, Types, MemoryType
  <2>3. TaskTells'
    BY <2>1, <2>2 DEF CountInv, TaskTells, Failing
  <2> QED
    BY <2>1, <2>3, AbsentKeeps
<1>3. CASE InitJobPages
  <2> DEFINE bad == {p \in Page : task[Batch][p] = "failed"}
  <2>1. /\ runPc[Batch] = "init" /\ blueprint' = blueprint
        /\ \A p \in Page : task[Batch][p] \in {"failed", "wait"}
        /\ row' = [p \in Page |-> IF p \in bad THEN "failed" ELSE "queued"]
        /\ completedPages' = completedPages /\ failedPages' = Cardinality(bad)
        /\ runPc' = [runPc EXCEPT ![Batch] = "gather"] /\ task' = task
    BY <1>3, <1>ok DEF InitJobPages, At, Goto, KeepLocals
  <2>2. completedPages = 0
    BY <2>1, <1>abs DEF CountInv, Early
  <2>3. \A q \in Run : q # Batch => \A p \in Page : task[q][p] = "none"
    BY <2>1, <1>run, OthersIdle DEF Working
  <2>4. DoneStill' = {} /\ FailedStill' = bad
    BY <2>1, <2>3, <1>run DEF DoneStill, FailedStill, Still, Settled
  <2>5. \A p \in Page : row'[p] \in ActiveStatus => InHand(p)'
    BY <2>1, <1>run, <1>ty DEF ActiveStatus, InHand, Working, Pending, Types, MemoryType
  <2>6. Counting'
    BY <2>1, <2>2, <2>4, <2>5, FS_EmptySet DEF Counting
  <2>7. TaskTells'
    BY <2>1, <2>3, <1>run, <1>none DEF TaskTells, Failing
  <2>8. ~Absent'
    BY <2>1, PageAssumption DEF Absent
  <2> QED
    BY <2>1, <2>6, <2>7, <2>8 DEF CountInv
<1>4. ASSUME NEW p \in Page, SaveFailedFile(p) PROVE CountInv'
  <2>1. /\ Absent /\ UNCHANGED <<blueprint, row, completedPages, failedPages>>
        /\ runPc[Batch] = "init" /\ MoveTask(Batch, p, "failed")
    BY <1>4, <1>abs, <1>ok DEF SaveFailedFile, At, Early
  <2>2. TaskTells'
    BY <2>1, <1>run, <1>ty DEF CountInv, TaskTells, MoveTask, Failing, Types, MemoryType
  <2> QED
    BY <2>1, <2>2, AbsentKeeps
<1> QED
  BY <1>1, <1>2, <1>3, <1>4 DEF BatchStep

LEMMA RetryCount ==
  ASSUME MaxFaults = 0, Shape, CountInv, NEW r \in Retry, CheckRetry(r) \/ RetryRequest(r)
  PROVE  CountInv'
<1>run. r \in Run
  BY DEF Run
<1>ty. Types /\ TaskShape
  BY DEF Shape
<1>pl. /\ {"idle", "checked", "selected"} \cap (Working \cup {"init", "load"}) = {}
       /\ {"checked", "selected"} \subseteq Request /\ Request \subseteq RunPc
       /\ {"checked", "selected"} \subseteq Untried
  BY DEF Working, Request, RunPc, Untried
<1>1. CASE CheckRetry(r) \/ SelectFailedPages(r)
  <2>1. PICK pc \in {"checked", "selected", "over"} :
          runPc' = [runPc EXCEPT ![r] = pc] /\ runPc[r] \in {"idle", "checked"}
    BY <1>1 DEF CheckRetry, SelectFailedPages, EndRun, Goto, At
  <2>a. UNCHANGED <<jobStatus, blueprint, early, row, completedPages, failedPages>>
    BY <1>1 DEF CheckRetry, SelectFailedPages
  <2>b. \/ UNCHANGED <<runPages, task>>
        \/ UNCHANGED task /\ \E S : runPages' = [runPages EXCEPT ![r] = S]
        \/ EndRun(r)
    BY <1>1 DEF CheckRetry, SelectFailedPages, KeepLocals
  <2>2. /\ \A q \in Run : q # r => runPages'[q] = runPages[q]
        /\ \A q \in Run, p \in Page : task'[q][p] \in {"none", task[q][p]}
        /\ \A q \in Run : q # r => task'[q] = task[q]
        /\ UNCHANGED <<jobStatus, blueprint, early, row, completedPages, failedPages>>
    BY <2>a, <2>b, <1>run, <1>ty DEF EndRun, Types, MemoryType
  <2>3. /\ \A q \in Run : runPc'[q] \in Working => q # r /\ runPc[q] \in Working
        /\ \A q \in Run : runPc[q] \in Working \cup {"init", "load"} => q # r /\ runPc'[q] = runPc[q]
    BY <2>1, <1>run, <1>ty, <1>pl DEF Types, MemoryType, Working
  <2>4. \A p \in Page : task[r][p] = "none"
    BY <2>1, <1>run, <1>ty DEF TaskShape, Untried
  <2>5. \A p \in Page : (Still(p)' <=> Still(p))
    BY <2>2, <2>4, <1>run DEF Still, Settled
  <2>6. Attended' => Attended
    BY <2>2, <2>3 DEF Attended
  <2>7. \A p \in Page : InHand(p) => InHand(p)'
    BY <2>2, <2>3 DEF InHand
  <2> QED
    BY <2>2, <2>3, <2>5, <2>6, <2>7, CountQuietKeeps DEF CountQuiet
<1>2. CASE CommitRetry(r)
  <2>1. /\ runPc[r] = "selected" /\ UNCHANGED <<blueprint, completedPages, task, runPages>>
        /\ row' = [p \in Page |-> IF p \in ResetPages THEN "queued" ELSE row[p]]
        /\ failedPages' = failedPages - Cardinality(runPages[r])
        /\ runPc' = [runPc EXCEPT ![r] = "load"]
    BY <1>2, <1>ty, OnlyOk
       DEF CommitRetry, At, Goto, KeepLocals, Raised, Applied, FailedAfterReset
  <2>2. \A q \in Run : runPc[q] \notin Working
    BY <2>1, <1>run, <1>pl DEF Shape, Exclusive, Resting, Working
  <2>4. \A q \in Run, p \in Page : task[q][p] = "none"
    <3>1. \A q \in Run : runPc[q] \in Untried
      BY <2>1, <1>run, <1>pl DEF Shape, Exclusive, Resting, Untried
    <3> QED
      BY <3>1, <1>ty DEF TaskShape
  <2>5. runPages[r] = ResetPages /\ FailedStill = ResetPages
    BY <2>1, <2>4 DEF Shape, RowShape, ResetPages, FailedStill, Still, Settled
  <2>11. ASSUME ~early' PROVE Counting'
    <3>1. ~early /\ jobStatus # "queued"
      BY <1>2, <2>11, <1>ty, OnlyOk DEF CommitRetry, Applied
    <3>2. jobStatus \notin ActiveStatus
      BY <2>1, <3>1, <1>run, <1>pl DEF Shape, Exclusive, Resting, ActiveStatus
    <3>3. Counting
      BY <3>2 DEF CountInv, Attended
    <3>6. Cardinality(ResetPages) \in Nat
      BY CountsAreNat DEF ResetPages
    <3>7. failedPages' = 0
      BY <2>1, <2>5, <3>1, <3>3, <3>6 DEF Counting
    <3>8. FailedStill' = {} /\ DoneStill' = DoneStill
      BY <2>1 DEF FailedStill, DoneStill, ResetPages, Still
    <3>9. \A p \in Page : row[p] \notin ActiveStatus
      BY <2>2, <2>4, <3>1, <3>3 DEF Counting, InHand, Pending, Working
    <3>10. \A p \in Page : row'[p] \in ActiveStatus => InHand(p)'
      BY <2>1, <2>5, <3>9, <1>run, <1>ty DEF InHand, Types, MemoryType
    <3> QED
      BY <2>1, <3>1, <3>3, <3>7, <3>8, <3>10, FS_EmptySet DEF Counting
  <2>12. TaskTells'
    BY <2>1, <2>4 DEF TaskTells, Failing
  <2>13. ~Absent'
    BY <2>1, PageAssumption, <1>run, <1>ty DEF Absent, Shape, RowShape, ResetPages, Types, MemoryType
  <2> QED
    BY <2>1, <2>11, <2>12, <2>13 DEF CountInv, Counting
<1> QED
  BY <1>1, <1>2 DEF RetryRequest

\* The sweep ends a job only when it has counted its rows.
LEMMA RecoverCount ==
  ASSUME Shape, CountInv, Restart
  PROVE  CountInv'
<1> DEFINE done   == {p \in Page : SweptRow[p] = "done"}
           failed == {p \in Page : SweptRow[p] = "failed"}
<1>ty. Types /\ TaskShape
  BY DEF Shape
<1>1. /\ \A q \in Run, p \in Page : task[q][p] = "none"
      /\ \A q \in Run : runPc[q] \notin Working
  BY DEF Restart, Shape, Exclusive, TaskShape, Resting, Untried, Working
<1>2. row' = SweptRow /\ UNCHANGED <<runPc, task, blueprint>>
  BY DEF Restart, Recover
<1>3. TaskTells'
  BY <1>1, <1>2 DEF TaskTells, Failing
<1>4. DoneStill' = done /\ FailedStill' = failed
  BY <1>1, <1>2 DEF DoneStill, FailedStill, Still, Settled
<1>5. CASE Reconciled
  <2>1. completedPages' = Cardinality(done) /\ failedPages' = Cardinality(failed)
    BY <1>5 DEF Restart, Recover
  <2>2. \A p \in Page : row'[p] \in {"done", "failed"}
    BY <1>2, <1>5 DEF Reconciled
  <2> QED
    BY <1>2, <1>3, <1>4, <2>1, <2>2, PageAssumption DEF CountInv, Counting, Absent, ActiveStatus
<1>6. CASE ~Reconciled
  <2>1. UNCHANGED <<completedPages, failedPages, early>>
    BY <1>6, <1>ty DEF Restart, Recover, Types, GivenType
  <2>2. Absent' <=> Absent
    BY <1>2 DEF Absent, SweptRow, Orphans, ActiveStatus
  <2>3. CASE jobStatus \in ActiveStatus
    <3>1. CASE NeverStarted
      <4>1. Absent /\ row' = row
        BY <3>1, <1>2, <1>ty DEF NeverStarted, Absent, SweptRow, Orphans, ActiveStatus, Types, PageType
      <4> QED
        BY <4>1, <1>2, <1>3, <2>1, AbsentKeeps
    <3>2. CASE ~NeverStarted
      <4>1. jobStatus' \in ActiveStatus
        BY <1>6, <2>3, <3>2 DEF Restart, Recover
      <4>2. ~Attended'
        BY <1>1, <1>2, <4>1 DEF Attended
      <4> QED
        BY <1>2, <1>3, <2>1, <2>2, <4>2 DEF CountInv
    <3> QED
      BY <3>1, <3>2
  <2>4. CASE jobStatus \notin ActiveStatus
    <3>1. row' = row
      BY <1>2, <2>4, <1>ty DEF SweptRow, Orphans, Types, PageType
    <3>2. Attended /\ \A p \in Page : ~InHand(p)
      BY <1>1, <2>4 DEF Attended, InHand, Working
    <3>3. \A p \in Page : Still(p)' <=> Still(p)
      BY <1>2 DEF Still
    <3> QED
      BY <1>1, <1>2, <2>1, <3>1, <3>2, <3>3, CountQuietKeeps DEF CountQuiet
  <2> QED
    BY <2>3, <2>4
<1> QED
  BY <1>5, <1>6

LEMMA SurroundingCount ==
  ASSUME ~MayDeleteProject, Shape, CountInv,
         Upload \/ Crash \/ Restart \/ Age \/ DeleteProject \/ CleanupUploads
  PROVE  CountInv'
<1>ty. Types /\ TaskShape
  BY DEF Shape
<1>1. CASE Upload
  <2>1. /\ Absent /\ UNCHANGED <<blueprint, row, completedPages, failedPages, task>>
        /\ runPc' = [runPc EXCEPT ![Batch] = "load"] /\ jobStatus = "none"
    BY <1>1 DEF Upload, Goto, KeepLocals, Shape, RowShape
  <2>2. \A q \in Run : runPc[q] # "init"
    BY <2>1 DEF Shape, Exclusive, Resting, Working, ActiveStatus
  <2>3. TaskTells'
    BY <2>1, <2>2, <1>ty DEF CountInv, TaskTells, Types, MemoryType
  <2> QED
    BY <2>1, <2>3, AbsentKeeps
<1>2. CASE Crash
  <2>1. /\ \A q \in Run, p \in Page : task'[q][p] = "none"
        /\ \A q \in Run : runPc'[q] \notin Working
        /\ UNCHANGED <<jobStatus, blueprint, early, row, completedPages, failedPages>>
    BY <1>2 DEF Crash, Working
  <2>2. TaskTells'
    BY <2>1 DEF TaskTells, Failing
  <2>3. CASE jobStatus \in ActiveStatus
    <3>1. ~Attended'
      BY <2>1, <2>3 DEF Attended
    <3> QED
      BY <2>1, <2>2, <3>1 DEF CountInv, Absent
  <2>4. CASE jobStatus \notin ActiveStatus
    <3>1. Attended /\ \A q \in Run : runPc[q] \notin Working
      BY <2>4 DEF Attended, Shape, Exclusive, Resting, Working
    <3>2. \A q \in Run, p \in Page : task[q][p] = "none"
      <4>1. \A q \in Run : runPc[q] \in Untried
        BY <3>1, <1>ty, ElsewhereIs, PcsAre DEF Types, MemoryType, Early
      <4> QED
        BY <4>1, <1>ty DEF TaskShape
    <3>3. \A p \in Page : (Still(p)' <=> Still(p)) /\ ~InHand(p)
      BY <2>1, <3>1, <3>2 DEF Still, InHand, Settled, Working
    <3> QED
      BY <2>1, <3>1, <3>3, CountQuietKeeps DEF CountQuiet
  <2> QED
    BY <2>3, <2>4
<1>3. CASE Restart
  BY <1>3, RecoverCount
<1>4. CASE Age \/ CleanupUploads
  <2>1. UNCHANGED <<jobStatus, blueprint, early, row, completedPages, failedPages, runPc, runPages,
                   task>>
    BY <1>4 DEF Age, CleanupUploads
  <2> QED
    BY <2>1, CountQuietKeeps DEF CountQuiet, Attended, Still, InHand
<1> QED
  BY <1>1, <1>2, <1>3, <1>4 DEF DeleteProject

LEMMA NextCount ==
  ASSUME MaxFaults = 0, ~MayDeleteProject
  PROVE  Shape /\ Shape' /\ CountInv /\ [Next]_vars => CountInv'
<1> SUFFICES ASSUME Shape, Shape', CountInv, [Next]_vars PROVE CountInv'
  OBVIOUS
<1>ty. Types'
  BY DEF Shape
<1>1. CASE UNCHANGED vars
  <2>1. UNCHANGED <<jobStatus, blueprint, early, row, completedPages, failedPages, runPc, runPages,
                   task>>
    BY <1>1 DEF vars
  <2> QED
    BY <2>1, CountQuietKeeps DEF CountQuiet, Attended, Still, InHand
<1>2. CASE Next
  BY <1>2, <1>ty, RunStepCount, BatchStepCount, RetryCount, SurroundingCount DEF Next
<1> QED
  BY <1>1, <1>2

LEMMA InitCount == Init => CountInv
<1> SUFFICES ASSUME Init PROVE CountInv
  OBVIOUS
<1>1. Absent /\ completedPages = 0 /\ failedPages = 0
  BY DEF Init, Absent
<1> QED
  BY <1>1, AbsentCounting DEF Init, CountInv, TaskTells, Failing

LEMMA CountAlways ==
  ASSUME OneTab, MaxFaults = 0, ~MayDeleteProject
  PROVE  Spec => [](Shape /\ CountInv)
<1>1. Shape /\ Shape' /\ CountInv /\ [Next]_vars => CountInv'
  BY NextCount
<1> QED
  BY <1>1, InitCount, ShapeAlways, PTL DEF Spec

\* A job that is over has no run, so every page is still.
LEMMA OverIsStill ==
  ASSUME Shape, CountInv, jobStatus \in TerminalStatus
  PROVE  /\ Counting
         /\ \A p \in Page : Still(p) /\ ~InHand(p)
<1>1. jobStatus \notin ActiveStatus
  BY DEF ActiveStatus, TerminalStatus
<1>2. Counting
  BY <1>1 DEF CountInv, Attended
<1>3. \A r \in Run : runPc[r] \notin Working
  BY <1>1 DEF Shape, Exclusive, Resting, Working
<1>4. \A r \in Run : runPc[r] \in Untried
  BY <1>3, ElsewhereIs, PcsAre DEF Shape, Types, MemoryType, Early
<1>5. \A r \in Run, p \in Page : task[r][p] = "none"
  BY <1>4 DEF Shape, TaskShape
<1> QED
  BY <1>2, <1>3, <1>5 DEF Still, InHand, Settled, Working

\* With one open Processing page, no call that raises and no project deleted, the counters
\* of a job that is over are those of its rows, whatever died and was swept or retried on
\* the way (_increment_job_counter, /retry, the sweep), unless it was retried in the state
\* a crash left it in, which the page can do before a sweep has settled it.
THEOREM CountersExactAlways ==
  ASSUME OneTab, MaxFaults = 0, ~MayDeleteProject
  PROVE  Spec => []CountersExact
<1>1. Shape /\ CountInv => CountersExact
  <2> SUFFICES ASSUME Shape, CountInv, jobStatus \in TerminalStatus, ~early
               PROVE  completedPages = Count("done") /\ failedPages = Count("failed")
    BY DEF CountersExact
  <2>1. DoneStill = {p \in Page : row[p] = "done"} /\ FailedStill = {p \in Page : row[p] = "failed"}
    BY OverIsStill DEF DoneStill, FailedStill
  <2> QED
    BY <2>1, OverIsStill DEF Counting, Count
<1> QED
  BY <1>1, CountAlways, PTL

\* Under the same assumptions a job that is over leaves no page queued or processing, where
\* no retry would find it (_finalize_job, recover_interrupted_jobs), again unless it was
\* retried before a sweep had settled it.
THEOREM TerminalMeansSettledAlways ==
  ASSUME OneTab, MaxFaults = 0, ~MayDeleteProject
  PROVE  Spec => []TerminalMeansSettled
<1>1. Shape /\ CountInv => TerminalMeansSettled
  BY OverIsStill DEF TerminalMeansSettled, Counting
<1> QED
  BY <1>1, CountAlways, PTL

-----------------------------------------------------------------------------
(* The workbook.  As long as the process lives, what is offered was built  *)
(* after the last page was done: a run builds it from the result rows, and *)
(* every other run rests until the status offers it.  Calls may raise, and *)
(* acknowledgements be lost.                                               *)

Holds(book) == \A p \in Page : row[p] = "done" => p \in book

ExcelInv ==
  /\ up
  /\ ExcelCoversDone
  /\ \A r \in Run :
       /\ runPc[r] \in {"upload", "commit"} => Holds(workbook[r])
       /\ runPc[r] = "commit" => stored = {workbook[r]}

\* A step that takes nothing from what is offered and promises nothing new.
ExcelQuiet ==
  /\ up' = up /\ stored' = stored
  /\ \A p \in Page : row'[p] = "done" => row[p] = "done"
  /\ \/ jobStatus' = jobStatus /\ excelReady' = excelReady
     \/ jobStatus' \notin {"done", "completed_with_errors"}
  /\ \A r \in Run : runPc'[r] \in {"upload", "commit"} =>
       runPc'[r] = runPc[r] /\ workbook'[r] = workbook[r]

LEMMA ExcelQuietKeeps == ASSUME ExcelInv, ExcelQuiet PROVE ExcelInv'
<1>1. \A book : Holds(book) => Holds(book)'
  BY DEF Holds, ExcelQuiet
<1>2. ExcelCoversDone'
  BY DEF ExcelInv, ExcelQuiet, ExcelCoversDone
<1>3. \A r \in Run : /\ runPc'[r] \in {"upload", "commit"} => Holds(workbook[r])'
                     /\ runPc'[r] = "commit" => stored' = {workbook'[r]}
  BY DEF ExcelInv, ExcelQuiet, Holds
<1> QED
  BY <1>2, <1>3 DEF ExcelInv, ExcelQuiet

\* A step of the only run at work, which neither has a workbook afterwards nor ends the job.
LEMMA NoBookKeeps ==
  ASSUME Types, Exclusive, ExcelInv, NEW r \in Run, runPc[r] \in Working, up' = up,
         jobStatus' = jobStatus, runPc'[r] \notin {"upload", "commit"},
         \A q \in Run : q # r => runPc'[q] = runPc[q]
  PROVE  ExcelInv'
<1>1. jobStatus' \notin {"done", "completed_with_errors"}
  BY Alone DEF ActiveStatus
<1>2. \A q \in Run : runPc'[q] \notin {"upload", "commit"}
  BY Alone DEF Resting
<1> QED
  BY <1>1, <1>2 DEF ExcelInv, ExcelCoversDone

LEMMA EndRunBook ==
  ASSUME Types, NEW r \in Run, EndRun(r)
  PROVE  /\ up' = up /\ runPc'[r] = "over"
         /\ \A q \in Run : q # r => runPc'[q] = runPc[q] /\ workbook'[q] = workbook[q]
  BY DEF EndRun, Goto, Types, MemoryType

LEMMA GotoBook ==
  ASSUME Types, NEW r \in Run, NEW pc, Goto(r, pc)
  PROVE  /\ up' = up /\ runPc'[r] = pc
         /\ \A q \in Run : q # r => runPc'[q] = runPc[q]
  BY DEF Goto, Types, MemoryType

LEMMA RunStepExcel ==
  ASSUME Shape, ResultInv, ExcelInv, NEW r \in Run, RunStep(r)
  PROVE  ExcelInv'
<1>ty. Types /\ Exclusive
  BY DEF Shape
<1>at. {"load", "gather", "source", "collect", "build", "upload", "commit", "commitNoExcel"}
         \subseteq Working
  BY DEF Working
<1>1. CASE LoadBlueprint(r) \/ GatherReturns(r) \/ SourcesRead(r) \/ CountResults(r)
  <2>1. /\ runPc[r] \in Working /\ jobStatus' = jobStatus
        /\ EndRun(r) \/ \E pc \in {"reject", "flatten", "source", "gather", "collect", "build"} :
                          Goto(r, pc)
    BY <1>1, <1>at DEF LoadBlueprint, GatherReturns, SourcesRead, CountResults, At
  <2> QED
    BY <2>1, <1>ty, EndRunBook, GotoBook, NoBookKeeps
<1>2. CASE BuildExcel(r)
  <2>1. CASE Goto(r, "commitNoExcel")
    <3>1. runPc[r] \in Working /\ jobStatus' = jobStatus
      BY <1>2, <1>at DEF BuildExcel, At
    <3>2. /\ up' = up /\ runPc'[r] = "commitNoExcel"
          /\ \A q \in Run : q # r => runPc'[q] = runPc[q]
      BY <2>1, <1>ty, GotoBook
    <3> QED
      BY <3>1, <3>2, <1>ty, NoBookKeeps
  <2>2. CASE ~Goto(r, "commitNoExcel")
    <3>1. /\ workbook' = [workbook EXCEPT ![r] = {p \in Page : doneRows[p] > 0}]
          /\ Goto(r, "upload") /\ UNCHANGED <<row, jobStatus, excelReady, stored>>
          /\ runPc[r] \in Working
      BY <1>2, <2>2, <1>at DEF BuildExcel, At
    <3>2. Holds(workbook[r])'
      BY <3>1, <1>ty DEF Holds, ResultInv, DoneHasResult, Types, MemoryType
    <3>3. \A q \in Run : q # r => runPc'[q] \notin {"upload", "commit"}
      BY <3>1, <1>ty, Alone, GotoBook DEF Resting
    <3>4. runPc'[r] = "upload" /\ up'
      BY <3>1, <1>ty, GotoBook DEF ExcelInv
    <3>5. ExcelCoversDone'
      BY <3>1, <1>ty, Alone DEF ExcelCoversDone, ActiveStatus
    <3> QED
      BY <3>2, <3>3, <3>4, <3>5 DEF ExcelInv
  <2> QED
    BY <2>1, <2>2
<1>3. CASE UploadExcel(r)
  <2>1. CASE Goto(r, "commitNoExcel")
    <3>1. runPc[r] \in Working /\ jobStatus' = jobStatus
      BY <1>3, <1>at DEF UploadExcel, At
    <3>2. /\ up' = up /\ runPc'[r] = "commitNoExcel"
          /\ \A q \in Run : q # r => runPc'[q] = runPc[q]
      BY <2>1, <1>ty, GotoBook
    <3> QED
      BY <3>1, <3>2, <1>ty, NoBookKeeps
  <2>2. CASE ~Goto(r, "commitNoExcel")
    <3>1. /\ stored' = {workbook[r]} /\ Goto(r, "commit") /\ runPc[r] = "upload"
          /\ UNCHANGED <<row, jobStatus, workbook>>
      BY <1>3, <2>2 DEF UploadExcel, At, KeepLocals
    <3>2. Holds(workbook[r])'
      BY <3>1 DEF Holds, ExcelInv
    <3>3. \A q \in Run : q # r => runPc'[q] \notin {"upload", "commit"}
      BY <3>1, <1>at, <1>ty, Alone, GotoBook DEF Resting
    <3>4. runPc'[r] = "commit" /\ up'
      BY <3>1, <1>ty, GotoBook DEF ExcelInv
    <3>5. ExcelCoversDone'
      BY <3>1, <1>at, <1>ty, Alone DEF ExcelCoversDone, ActiveStatus
    <3> QED
      BY <3>1, <3>2, <3>3, <3>4, <3>5 DEF ExcelInv
  <2> QED
    BY <2>1, <2>2
<1>4. CASE FinalizeJob(r)
  <2>1. PICK o \in Outcome : FinalizeJob(r)!(o)
    BY <1>4 DEF FinalizeJob
  <2>2. runPc[r] \in Working
    BY <2>1, <1>at
  <2>3. CASE ~Applied(o)
    BY <2>1, <2>2, <2>3, <1>ty, EndRunBook, NoBookKeeps
  <2>4. CASE Applied(o)
    <3>1. /\ excelReady' = (runPc[r] = "commit") /\ UNCHANGED <<row, stored>>
      BY <2>1, <2>4 DEF FinalExcel
    <3>2. ExcelCoversDone'
      <4>1. CASE runPc[r] = "commit"
        BY <3>1, <4>1 DEF ExcelInv, Holds, ExcelCoversDone
      <4>2. CASE runPc[r] # "commit"
        BY <3>1, <4>2 DEF ExcelCoversDone
      <4> QED
        BY <4>1, <4>2
    <3>3. up' /\ \A q \in Run : runPc'[q] \notin {"upload", "commit"}
      BY <2>1, <2>2, <1>ty, Alone, EndRunBook DEF Resting, ExcelInv
    <3> QED
      BY <3>2, <3>3 DEF ExcelInv
  <2> QED
    BY <2>3, <2>4
<1>5. ASSUME NEW p \in Page, PageStep(r, p) PROVE ExcelInv'
  <2>1. /\ runPc[r] \in Paging /\ jobStatus' = jobStatus
        /\ EndRun(r) \/ \E pc \in TaskPc : MoveTask(r, p, pc)
    BY <1>5, PageStepIs DEF Shape
  <2>2. runPc[r] \in Working /\ runPc[r] \notin {"upload", "commit"}
    BY <2>1, ElsewhereIs DEF Paging
  <2>3. CASE EndRun(r)
    BY <2>1, <2>2, <2>3, <1>ty, EndRunBook, NoBookKeeps
  <2>4. CASE ~EndRun(r)
    <3>1. up' = up /\ runPc' = runPc
      BY <2>1, <2>4 DEF MoveTask
    <3> QED
      BY <2>1, <2>2, <3>1, <1>ty, NoBookKeeps
  <2> QED
    BY <2>3, <2>4
<1> QED
  BY <1>1, <1>2, <1>3, <1>4, <1>5 DEF RunStep

LEMMA BatchStepExcel ==
  ASSUME Shape, ExcelInv, BatchStep
  PROVE  ExcelInv'
<1>run. Batch \in Run
  BY DEF Run
<1>ty. Types /\ Exclusive
  BY DEF Shape
<1>at. {"reject", "flatten", "init"} \subseteq Working
  BY DEF Working
<1>1. CASE RejectJob
  BY <1>1, <1>run, <1>ty, EndRunBook, ExcelQuietKeeps DEF RejectJob, ExcelQuiet
<1>2. CASE FlattenToPageTasks \/ InitJobPages
  <2>1. /\ runPc[Batch] \in Working /\ jobStatus' = jobStatus
        /\ EndRun(Batch) \/ \E pc \in {"init", "gather"} : Goto(Batch, pc)
    BY <1>2, <1>at DEF FlattenToPageTasks, InitJobPages, At
  <2> QED
    BY <2>1, <1>run, <1>ty, EndRunBook, GotoBook, NoBookKeeps
<1>3. ASSUME NEW p \in Page, SaveFailedFile(p) PROVE ExcelInv'
  <2>1. /\ runPc[Batch] = "init" /\ jobStatus' = jobStatus
        /\ EndRun(Batch) \/ (up' = up /\ runPc' = runPc)
    BY <1>3 DEF SaveFailedFile, At, MoveTask
  <2> QED
    BY <2>1, <1>at, <1>run, <1>ty, EndRunBook, NoBookKeeps
<1> QED
  BY <1>1, <1>2, <1>3 DEF BatchStep

LEMMA RetryExcel ==
  ASSUME Shape, ExcelInv, NEW r \in Retry, CheckRetry(r) \/ RetryRequest(r)
  PROVE  ExcelInv'
<1>run. r \in Run
  BY DEF Run
<1>ty. Types
  BY DEF Shape
<1>1. /\ EndRun(r) \/ \E pc \in {"checked", "selected", "load"} : Goto(r, pc) /\ workbook' = workbook
      /\ stored' = stored /\ excelReady' = excelReady
      /\ jobStatus' = jobStatus \/ jobStatus' = "processing"
      /\ \A p \in Page : row'[p] = "done" => row[p] = "done"
  BY DEF CheckRetry, RetryRequest, SelectFailedPages, CommitRetry, KeepLocals, RetryStatus
<1>2. /\ up' = up /\ runPc'[r] \notin {"upload", "commit"}
      /\ \A q \in Run : q # r => runPc'[q] = runPc[q] /\ workbook'[q] = workbook[q]
  BY <1>1, <1>run, <1>ty, EndRunBook, GotoBook
<1> QED
  BY <1>1, <1>2, ExcelQuietKeeps DEF ExcelQuiet

LEMMA NextExcel ==
  ASSUME MaxCrashes = 0
  PROVE  Shape /\ ResultInv /\ ExcelInv /\ [Next]_vars => ExcelInv'
<1> SUFFICES ASSUME Shape, ResultInv, ExcelInv, [Next]_vars PROVE ExcelInv'
  OBVIOUS
<1>ty. Types
  BY DEF Shape
<1>1. ~Crash /\ ~Restart
  BY <1>ty DEF Crash, Restart, ExcelInv, Types, MemoryType
<1>2. CASE Upload
  <2>1. Goto(Batch, "load") /\ UNCHANGED <<row, stored, workbook>> /\ jobStatus' = "queued"
    BY <1>2 DEF Upload, KeepLocals
  <2> QED
    BY <2>1, <1>ty, GotoBook, ExcelQuietKeeps DEF ExcelQuiet, Run
<1>3. CASE Age \/ DeleteProject \/ CleanupUploads \/ UNCHANGED vars
  <2>1. UNCHANGED <<up, row, stored, workbook, jobStatus, excelReady, runPc>>
    BY <1>3 DEF Age, DeleteProject, CleanupUploads, vars
  <2> QED
    BY <2>1, ExcelQuietKeeps DEF ExcelQuiet
<1> QED
  BY <1>1, <1>2, <1>3, RunStepExcel, BatchStepExcel, RetryExcel DEF Next

LEMMA AlwaysResults == Spec => []ResultInv
<1>1. Spec => []Types
  BY InitTypes, NextTypes, PTL DEF Spec
<1> QED
  BY <1>1, InitResults, NextResults, PTL DEF Spec

\* With one open Processing page, and as long as the process does not die in the middle of
\* a run, the workbook offered for download holds every page that is done, whatever raises
\* before or after its commit, expires, is deleted or is retried (_finalize_job).
THEOREM ExcelCoversDoneAlways ==
  ASSUME OneTab, MaxCrashes = 0
  PROVE  Spec => []ExcelCoversDone
<1>1. Shape /\ ResultInv /\ ExcelInv /\ [Next]_vars => ExcelInv'
  BY NextExcel
<1>2. Init => ExcelInv
  BY DEF Init, ExcelInv, ExcelCoversDone
<1>3. Spec => []Shape
  BY ShapeAlways
<1>4. ExcelInv => ExcelCoversDone
  BY DEF ExcelInv
<1> QED
  BY <1>1, <1>2, <1>3, <1>4, AlwaysResults, PTL DEF Spec
=============================================================================
