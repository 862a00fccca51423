------------------------- MODULE JobPipeline_proofs --------------------------
(***************************************************************************)
(* Proofs about JobPipeline, for every set of pages and every bound: its   *)
(* types, that a page called done has its result, and that a single open   *)
(* Processing page never gets two runs onto one job.                       *)
(***************************************************************************)
EXTENDS JobPipeline, FiniteSetTheorems, TLAPS

\* The tuples of variables the UNCHANGED conjuncts name.
USE DEF jobRow, given, pages, results, files, memo, locals, Surroundings

-----------------------------------------------------------------------------
(* The type invariant in parts, one for each group of variables that the   *)
(* actions write together.                                                 *)

JobType ==
  /\ jobStatus \in JobStatus
  /\ totalPages \in Nat /\ completedPages \in Nat /\ failedPages \in Int
  /\ excelReady \in BOOLEAN
PageType   == row \in [Page -> RowStatus] /\ fresh \subseteq Page
ResultType == doneRows \in [Page -> Nat] /\ failedRows \in [Page -> Nat]
GivenType  == jobFresh \in BOOLEAN /\ blueprint \in BOOLEAN
                /\ known \in BOOLEAN /\ early \in BOOLEAN
FileType   == stored \subseteq SUBSET Page /\ onDisk \subseteq Page
MemoryType ==
  /\ up \in BOOLEAN /\ crashes \in Nat
  /\ runPc \in [Run -> RunPc]
  /\ runPages \in [Run -> SUBSET Page]
  /\ task \in [Run -> [Page -> TaskPc]]
  /\ failures \in [Run -> Int]
  /\ workbook \in [Run -> SUBSET Page]

Types == JobType /\ PageType /\ ResultType /\ GivenType /\ FileType
           /\ MemoryType /\ faults \in Nat

LEMMA TypesAreTypeOK == Types <=> TypeOK
  BY DEF Types, TypeOK, JobType, PageType, ResultType, GivenType, FileType, MemoryType

\* Subsets of the pages are finite, so what the code counts are numbers.
LEMMA CountsAreNat == \A S \in SUBSET Page : Cardinality(S) \in Nat
  BY PageAssumption, FS_Subset, FS_CardinalityType

-----------------------------------------------------------------------------
(* The operators that the actions are built from keep the types.           *)

LEMMA ChargeType == ASSUME faults \in Nat, NEW o, Charge(o) PROVE faults' \in Nat
  BY DEF Charge

LEMMA GotoType ==
  ASSUME MemoryType, NEW r \in Run, NEW pc \in RunPc, Goto(r, pc), KeepLocals
  PROVE  MemoryType'
  BY DEF MemoryType, Goto, KeepLocals

LEMMA NoTasksType ==
  [r \in Run |-> [p \in Page |-> "none"]] \in [Run -> [Page -> TaskPc]]
<1>1. [p \in Page |-> "none"] \in [Page -> TaskPc]
  BY DEF TaskPc
<1> QED
  BY <1>1

LEMMA EndRunType ==
  ASSUME MemoryType, NEW r \in Run, EndRun(r)
  PROVE  MemoryType'
<1>1. [p \in Page |-> "none"] \in [Page -> TaskPc]
  BY DEF TaskPc
<1>2. "over" \in RunPc
  BY DEF RunPc, Resting
<1> QED
  BY <1>1, <1>2 DEF MemoryType, EndRun, Goto

LEMMA MoveTaskType ==
  ASSUME MemoryType, NEW r \in Run, NEW p \in Page, NEW pc \in TaskPc, MoveTask(r, p, pc)
  PROVE  MemoryType'
  BY DEF MemoryType, MoveTask

LEMMA SetPageStatusType ==
  ASSUME PageType, NEW p \in Page, NEW status \in RowStatus, NEW o,
         SetPageStatus(p, status, o)
  PROVE  PageType'
  BY DEF PageType, SetPageStatus

LEMMA IncrementType ==
  ASSUME JobType, NEW o, IncrementCompleted(o) \/ IncrementFailed(o)
  PROVE  JobType'
  BY DEF JobType, IncrementCompleted, IncrementFailed

LEMMA SaveResultType ==
  ASSUME ResultType, NEW p \in Page, NEW o, SaveDoneResult(p, o) \/ SaveFailedResult(p, o)
  PROVE  ResultType'
  BY DEF ResultType, SaveDoneResult, SaveFailedResult

-----------------------------------------------------------------------------
(* Every action keeps the types.                                           *)

LEMMA PageStepTypes ==
  ASSUME Types, NEW r \in Run, NEW p \in Page, PageStep(r, p)
  PROVE  Types'
<1> USE DEF Types
<1>pc. {"extract", "escaped", "saveDone", "saveNone", "saveError", "markDone", "incDone",
        "ok", "markNone", "markError", "incNone", "incError", "failed", "wait", "remark",
        "recount"} \subseteq TaskPc
  BY DEF TaskPc, HoldsSlot, Finished
<1>st. {"processing", "done", "failed"} \subseteq RowStatus
  BY DEF RowStatus, ActiveStatus
<1>1. CASE StartPage(r, p)
  BY <1>1, <1>pc, <1>st, ChargeType, MoveTaskType, SetPageStatusType
     DEF StartPage, JobType, ResultType, GivenType, FileType
<1>2. CASE ExtractPage(r, p)
  BY <1>2, <1>pc, MoveTaskType
     DEF ExtractPage, JobType, PageType, ResultType, GivenType, FileType
<1>3. CASE SaveDone(r, p)
  BY <1>3, <1>pc, ChargeType, MoveTaskType, SaveResultType
     DEF SaveDone, JobType, PageType, GivenType, FileType
<1>4. CASE MarkDone(r, p)
  BY <1>4, <1>pc, <1>st, ChargeType, MoveTaskType, SetPageStatusType
     DEF MarkDone, JobType, ResultType, GivenType, FileType
<1>5. CASE CountDone(r, p)
  BY <1>5, <1>pc, ChargeType, MoveTaskType, IncrementType
     DEF CountDone, PageType, ResultType, GivenType, FileType
<1>6. CASE SaveFailed(r, p)
  BY <1>6, <1>pc, ChargeType, MoveTaskType, SaveResultType
     DEF SaveFailed, JobType, PageType, GivenType, FileType
<1>7. CASE MarkFailed(r, p)
  BY <1>7, <1>pc, <1>st, ChargeType, MoveTaskType, SetPageStatusType
     DEF MarkFailed, JobType, ResultType, GivenType, FileType
<1>8. CASE CountFailed(r, p)
  BY <1>8, <1>pc, ChargeType, MoveTaskType, IncrementType
     DEF CountFailed, PageType, ResultType, GivenType, FileType
<1>9. CASE FindSource(r, p)
  BY <1>9, <1>pc, MoveTaskType
     DEF FindSource, JobType, PageType, ResultType, GivenType, FileType
<1>10. CASE TakeEscaped(r, p)
  BY <1>10, <1>pc, MoveTaskType
     DEF TakeEscaped, JobType, PageType, ResultType, GivenType, FileType
<1>11. CASE Remark(r, p)
  BY <1>11, <1>pc, <1>st, ChargeType, MoveTaskType, EndRunType, SetPageStatusType
     DEF Remark, JobType, ResultType, GivenType, FileType
<1>12. CASE Recount(r, p)
  BY <1>12, <1>pc, ChargeType, MoveTaskType, EndRunType, IncrementType
     DEF Recount, PageType, ResultType, GivenType, FileType
<1> QED
  BY <1>1, <1>2, <1>3, <1>4, <1>5, <1>6, <1>7, <1>8, <1>9, <1>10, <1>11, <1>12
     DEF PageStep

LEMMA RunStepTypes ==
  ASSUME Types, NEW r \in Run, RunStep(r)
  PROVE  Types'
<1> USE DEF Types
<1>pc. {"reject", "flatten", "source", "gather", "collect", "build", "upload", "commit",
        "commitNoExcel"} \subseteq RunPc
  BY DEF RunPc, Working
<1>1. CASE LoadBlueprint(r)
  <2>1. PICK o \in Outcome : LoadBlueprint(r)!(o)
    BY <1>1 DEF LoadBlueprint
  <2>2. [p \in Page |-> IF p \in runPages[r] THEN "find" ELSE "none"] \in [Page -> TaskPc]
    BY DEF TaskPc
  <2>3. MemoryType'
    <3>1. CASE EndRun(r)
      BY <3>1, EndRunType
    <3>2. CASE ~EndRun(r)
      BY <2>1, <2>2, <3>2, <1>pc DEF MemoryType, Goto
    <3> QED  BY <3>1, <3>2
  <2> QED
    BY <2>1, <2>3, ChargeType DEF JobType, PageType, ResultType, GivenType, FileType
<1>2. CASE GatherReturns(r)
  BY <1>2, <1>pc, GotoType
     DEF GatherReturns, JobType, PageType, ResultType, GivenType, FileType
<1>3. CASE SourcesRead(r)
  BY <1>3, <1>pc, GotoType
     DEF SourcesRead, JobType, PageType, ResultType, GivenType, FileType
<1>4. CASE CountResults(r)
  <2>1. PICK o \in (IF r = Batch THEN {"ok"} ELSE Outcome) : CountResults(r)!(o)
    BY <1>4 DEF CountResults
  <2>2. Cardinality(Page) \in Nat /\ Cardinality({p \in Page : task[r][p] = "ok"}) \in Nat
    BY CountsAreNat
  <2>3. MemoryType'
    <3>1. CASE EndRun(r)
      BY <3>1, EndRunType
    <3>2. CASE ~EndRun(r)
      BY <2>1, <2>2, <3>2, <1>pc DEF MemoryType, Goto, JobType
    <3> QED  BY <3>1, <3>2
  <2> QED
    BY <2>1, <2>3, ChargeType DEF JobType, PageType, ResultType, GivenType, FileType
<1>5. CASE BuildExcel(r)
  <2>1. MemoryType'
    BY <1>5, <1>pc DEF BuildExcel, MemoryType, Goto
  <2> QED
    BY <1>5, <2>1 DEF BuildExcel, JobType, PageType, ResultType, GivenType, FileType
<1>6. CASE UploadExcel(r)
  <2>1. MemoryType'
    BY <1>6, <1>pc, GotoType DEF UploadExcel
  <2>2. FileType'
    BY <1>6 DEF UploadExcel, FileType, MemoryType
  <2> QED
    BY <1>6, <2>1, <2>2 DEF UploadExcel, JobType, PageType, ResultType, GivenType
<1>7. CASE FinalizeJob(r)
  <2>1. PICK o \in Outcome : FinalizeJob(r)!(o)
    BY <1>7 DEF FinalizeJob
  <2>2. MemoryType' /\ faults' \in Nat
    BY <2>1, EndRunType, ChargeType
  <2>3. JobType'
    BY <2>1 DEF JobType, FinalStatus, FinalExcel, JobStatus, TerminalStatus
  <2> QED
    BY <2>1, <2>2, <2>3 DEF PageType, ResultType, GivenType, FileType
<1>8. CASE \E p \in Page : PageStep(r, p)
  BY <1>8, PageStepTypes
<1> QED
  BY <1>1, <1>2, <1>3, <1>4, <1>5, <1>6, <1>7, <1>8 DEF RunStep

LEMMA BatchStepTypes == ASSUME Types, BatchStep PROVE Types'
<1> USE DEF Types
<1>run. Batch \in Run
  BY DEF Run
<1>1. CASE RejectJob
  <2>1. MemoryType' /\ faults' \in Nat
    BY <1>1, <1>run, EndRunType, ChargeType DEF RejectJob
  <2>2. JobType'
    BY <1>1 DEF RejectJob, JobType, JobStatus, TerminalStatus
  <2> QED
    BY <1>1, <2>1, <2>2 DEF RejectJob, PageType, ResultType, GivenType, FileType
<1>2. CASE FlattenToPageTasks
  <2>1. PICK bad \in SUBSET Page : FlattenToPageTasks!(bad)
    BY <1>2 DEF FlattenToPageTasks
  <2>2. [p \in Page |-> IF p \in bad THEN "splitFail" ELSE "wait"] \in [Page -> TaskPc]
    BY DEF TaskPc
  <2>3. MemoryType'
    BY <2>1, <2>2, <1>run DEF MemoryType, Goto, RunPc, Working
  <2> QED
    BY <2>1, <2>3 DEF JobType, PageType, ResultType, GivenType, FileType
<1>3. CASE InitJobPages
  <2> DEFINE bad == {p \in Page : task[Batch][p] = "failed"}
  <2>1. PICK o \in Outcome : InitJobPages!(o)
    BY <1>3 DEF InitJobPages
  <2>2. MemoryType' /\ faults' \in Nat
    BY <2>1, <1>run, EndRunType, GotoType, ChargeType DEF RunPc, Working
  <2>3. Cardinality(Page) \in Nat /\ Cardinality(bad) \in Nat
    BY CountsAreNat
  <2>4. JobType' /\ PageType'
    BY <2>1, <2>3 DEF JobType, PageType, RowStatus, ActiveStatus
  <2> QED
    BY <2>1, <2>2, <2>4 DEF ResultType, GivenType, FileType
<1>4. CASE \E p \in Page : SaveFailedFile(p)
  <2>1. PICK p \in Page, o \in SaveOutcome : SaveFailedFile(p)!(o)
    BY <1>4 DEF SaveFailedFile
  <2>2. MemoryType' /\ faults' \in Nat /\ ResultType'
    BY <2>1, <1>run, EndRunType, MoveTaskType, ChargeType, SaveResultType
       DEF TaskPc, Finished
  <2> QED
    BY <2>1, <2>2 DEF JobType, PageType, GivenType, FileType
<1> QED
  BY <1>1, <1>2, <1>3, <1>4 DEF BatchStep

LEMMA RetryTypes ==
  ASSUME Types, NEW r \in Retry, CheckRetry(r) \/ RetryRequest(r)
  PROVE  Types'
<1> USE DEF Types
<1>run. r \in Run
  BY DEF Run
<1>pc. {"checked", "selected", "load"} \subseteq RunPc
  BY DEF RunPc, Request, Working
<1>1. CASE CheckRetry(r)
  BY <1>1, <1>run, <1>pc, GotoType
     DEF CheckRetry, JobType, PageType, ResultType, GivenType, FileType
<1>2. CASE SelectFailedPages(r)
  <2>1. MemoryType'
    <3>1. CASE EndRun(r)
      BY <3>1, <1>run, EndRunType
    <3>2. CASE ~EndRun(r)
      BY <1>2, <3>2, <1>run, <1>pc DEF SelectFailedPages, MemoryType, Goto
    <3> QED  BY <3>1, <3>2
  <2> QED
    BY <1>2, <2>1 DEF SelectFailedPages, JobType, PageType, ResultType, GivenType, FileType
<1>3. CASE CommitRetry(r)
  <2>1. PICK o \in Outcome : CommitRetry(r)!(o)
    BY <1>3 DEF CommitRetry
  <2>2. MemoryType' /\ faults' \in Nat
    BY <2>1, <1>run, <1>pc, EndRunType, GotoType, ChargeType
  <2>3. Cardinality(runPages[r]) \in Nat
    BY <1>run, CountsAreNat DEF MemoryType
  <2>4. JobType' /\ PageType'
    BY <2>1, <2>3 DEF JobType, PageType, RowStatus, ActiveStatus, JobStatus, ResetPages,
       FailedAfterReset, RetryStatus
  <2> QED
    BY <2>1, <2>2, <2>4 DEF ResultType, GivenType, FileType
<1> QED
  BY <1>1, <1>2, <1>3 DEF RetryRequest

LEMMA SurroundingTypes ==
  ASSUME Types, Upload \/ Crash \/ Restart \/ Age \/ DeleteProject \/ CleanupUploads
  PROVE  Types'
<1> USE DEF Types
<1>1. CASE Upload
  <2>1. MemoryType'
    BY <1>1, GotoType DEF Upload, Run, RunPc, Working
  <2> QED
    BY <1>1, <2>1 DEF Upload, JobType, PageType, ResultType, GivenType, FileType,
       JobStatus, ActiveStatus
<1>2. CASE Crash
  <2>1. runPc' \in [Run -> RunPc]
    BY <1>2 DEF Crash, RunPc, Resting
  <2>2. up' \in BOOLEAN
    BY <1>2, Zenon DEF Crash
  <2>3. task' \in [Run -> [Page -> TaskPc]]
    BY <1>2, NoTasksType DEF Crash
  <2>4. runPages' \in [Run -> SUBSET Page] /\ failures' \in [Run -> Int]
          /\ workbook' \in [Run -> SUBSET Page] /\ crashes' \in Nat
    BY <1>2 DEF Crash, MemoryType
  <2>5. MemoryType'
    BY <2>1, <2>2, <2>3, <2>4 DEF MemoryType
  <2> QED
    BY <1>2, <2>5 DEF Crash, JobType, PageType, ResultType, GivenType, FileType
<1>3. CASE Restart
  <2> DEFINE done   == {p \in Page : SweptRow[p] = "done"}
             failed == {p \in Page : SweptRow[p] = "failed"}
  <2>1. Cardinality(done) \in Nat /\ Cardinality(failed) \in Nat
    BY CountsAreNat
  <2>2. Verdict(Cardinality(done), Cardinality(failed)) \in JobStatus
    BY DEF Verdict, JobStatus, TerminalStatus
  <2>3. JobType'
    BY <1>3, <2>1, <2>2 DEF Restart, Recover, JobType, JobStatus, TerminalStatus
  <2>4. PageType'
    BY <1>3 DEF Restart, Recover, PageType, SweptRow, Orphans, RowStatus
  <2>5. MemoryType'
    BY <1>3 DEF Restart, MemoryType
  <2> QED
    BY <1>3, <2>3, <2>4, <2>5 DEF Restart, Recover, ResultType, GivenType, FileType
<1>4. CASE Age
  BY <1>4 DEF Age, JobType, PageType, ResultType, GivenType, FileType, MemoryType
<1>5. CASE DeleteProject
  BY <1>5 DEF DeleteProject, JobType, PageType, ResultType, GivenType, FileType, MemoryType
<1>6. CASE CleanupUploads
  BY <1>6 DEF CleanupUploads, JobType, PageType, ResultType, GivenType, FileType, MemoryType
<1> QED
  BY <1>1, <1>2, <1>3, <1>4, <1>5, <1>6

-----------------------------------------------------------------------------

LEMMA InitTypes == Init => Types
<1> SUFFICES ASSUME Init PROVE Types
  OBVIOUS
<1>1. JobType /\ GivenType /\ FileType /\ faults \in Nat
  <2>1. GivenType
    BY Zenon DEF Init, GivenType
  <2>2. excelReady \in BOOLEAN
    BY Zenon DEF Init
  <2>3. FileType /\ faults \in Nat
    BY DEF Init, FileType
  <2>4. JobType
    BY <2>2 DEF Init, JobType, JobStatus
  <2> QED  BY <2>1, <2>3, <2>4
<1>2. PageType /\ ResultType
  BY DEF Init, PageType, ResultType, RowStatus
<1>3. runPc \in [Run -> RunPc]
  BY DEF Init, RunPc, Resting
<1>4. MemoryType
  BY <1>3, NoTasksType DEF Init, MemoryType
<1> QED
  BY <1>1, <1>2, <1>4 DEF Types

LEMMA NextTypes == Types /\ [Next]_vars => Types'
<1> SUFFICES ASSUME Types, [Next]_vars PROVE Types'
  OBVIOUS
<1>1. CASE UNCHANGED vars
  BY <1>1 DEF vars, Types, JobType, PageType, ResultType, GivenType, FileType, MemoryType
<1>2. CASE Next
  BY <1>2, RunStepTypes, BatchStepTypes, RetryTypes, SurroundingTypes DEF Next
<1> QED
  BY <1>1, <1>2

\* Every variable keeps its type, whatever fails, crashes, expires or overlaps.
THEOREM TypeCorrect == Spec => []TypeOK
<1>1. Spec => []Types
  BY InitTypes, NextTypes, PTL DEF Spec
<1> QED
  BY <1>1, TypesAreTypeOK, PTL

-----------------------------------------------------------------------------
(* A page called done has its result.  The invariant is not inductive by   *)
(* itself: it needs that a coroutine about to mark its page has saved, and *)
(* stays true because no step deletes a result.                            *)

SavedBeforeMarked ==
  \A r \in Run, p \in Page : task[r][p] = "markDone" => doneRows[p] > 0

ResultInv == DoneHasResult /\ SavedBeforeMarked

\* What every step but SaveDone and MarkDone does to the variables of ResultInv.
Quiet ==
  /\ \A p \in Page : doneRows'[p] >= doneRows[p]
  /\ \A p \in Page : row'[p] = "done" => row[p] = "done"
  /\ \A r \in Run, p \in Page : task'[r][p] = "markDone" => task[r][p] = "markDone"

LEMMA QuietKeeps == Types /\ ResultInv /\ Quiet => (Types' => ResultInv')
<1> SUFFICES ASSUME Types, ResultInv, Quiet, Types' PROVE ResultInv'
  OBVIOUS
<1>1. \A p \in Page : doneRows[p] \in Nat /\ doneRows'[p] \in Nat
  BY DEF Types, ResultType
<1> QED
  BY <1>1 DEF ResultInv, DoneHasResult, SavedBeforeMarked, Quiet

LEMMA EndRunQuiet ==
  ASSUME Types, NEW r \in Run, EndRun(r)
  PROVE  \A q \in Run, p \in Page : task'[q][p] = "markDone" => task[q][p] = "markDone"
  BY DEF EndRun, Types, MemoryType

LEMMA MoveTaskQuiet ==
  ASSUME Types, NEW r \in Run, NEW p \in Page, NEW pc, pc # "markDone", MoveTask(r, p, pc)
  PROVE  \A q \in Run, s \in Page : task'[q][s] = "markDone" => task[q][s] = "markDone"
  BY DEF MoveTask, Types, MemoryType

LEMMA SetPageStatusQuiet ==
  ASSUME Types, NEW p \in Page, NEW status, status # "done", NEW o, SetPageStatus(p, status, o)
  PROVE  \A s \in Page : row'[s] = "done" => row[s] = "done"
  BY DEF SetPageStatus, Types, PageType

LEMMA SaveResultGrows ==
  ASSUME Types, NEW p \in Page, NEW o, SaveDoneResult(p, o) \/ SaveFailedResult(p, o)
  PROVE  \A s \in Page : doneRows'[s] >= doneRows[s]
<1>1. \A s \in Page : doneRows[s] \in Nat
  BY DEF Types, ResultType
<1> QED
  BY <1>1 DEF SaveDoneResult, SaveFailedResult, Types, ResultType

LEMMA ResultsStay ==
  ASSUME Types, UNCHANGED doneRows
  PROVE  \A s \in Page : doneRows'[s] >= doneRows[s]
  BY DEF Types, ResultType

LEMMA PageStepResults ==
  ASSUME Types, Types', ResultInv, NEW r \in Run, NEW p \in Page, PageStep(r, p)
  PROVE  ResultInv'
<1>1. CASE StartPage(r, p)
  BY <1>1, MoveTaskQuiet, SetPageStatusQuiet, ResultsStay, QuietKeeps DEF StartPage, Quiet
<1>2. CASE ExtractPage(r, p)
  BY <1>2, MoveTaskQuiet, ResultsStay, QuietKeeps DEF ExtractPage, Quiet
<1>3. CASE SaveDone(r, p)
  <2>1. PICK o \in SaveOutcome : SaveDone(r, p)!(o)
    BY <1>3 DEF SaveDone
  <2>2. \A s \in Page : doneRows'[s] \in Nat /\ doneRows[s] \in Nat /\ doneRows'[s] >= doneRows[s]
    BY <2>1, SaveResultGrows DEF Types, ResultType
  <2>3. ~Raised(o) => doneRows'[p] > 0
    BY <2>1 DEF SaveDoneResult, Raised, Applied, Types, ResultType
  <2>4. \A q \in Run, s \in Page : task'[q][s] = "markDone" =>
          task[q][s] = "markDone" \/ (q = r /\ s = p /\ ~Raised(o))
    BY <2>1 DEF MoveTask, Types, MemoryType
  <2> QED
    BY <2>1, <2>2, <2>3, <2>4 DEF ResultInv, DoneHasResult, SavedBeforeMarked
<1>4. CASE MarkDone(r, p)
  <2>1. PICK o \in Outcome : MarkDone(r, p)!(o)
    BY <1>4 DEF MarkDone
  <2>2. doneRows[p] > 0
    BY <2>1 DEF ResultInv, SavedBeforeMarked
  <2>3. \A s \in Page : row'[s] = "done" => row[s] = "done" \/ s = p
    BY <2>1 DEF SetPageStatus, Types, PageType
  <2>4. \A q \in Run, s \in Page : task'[q][s] = "markDone" => task[q][s] = "markDone"
    BY <2>1, MoveTaskQuiet
  <2> QED
    BY <2>1, <2>2, <2>3, <2>4 DEF ResultInv, DoneHasResult, SavedBeforeMarked
<1>5. CASE CountDone(r, p)
  BY <1>5, MoveTaskQuiet, ResultsStay, QuietKeeps DEF CountDone, Quiet
<1>6. CASE SaveFailed(r, p)
  BY <1>6, MoveTaskQuiet, SaveResultGrows, QuietKeeps DEF SaveFailed, Quiet
<1>7. CASE MarkFailed(r, p)
  BY <1>7, MoveTaskQuiet, SetPageStatusQuiet, ResultsStay, QuietKeeps DEF MarkFailed, Quiet
<1>8. CASE CountFailed(r, p)
  BY <1>8, MoveTaskQuiet, ResultsStay, QuietKeeps DEF CountFailed, Quiet
<1>9. CASE FindSource(r, p)
  BY <1>9, MoveTaskQuiet, ResultsStay, QuietKeeps DEF FindSource, Quiet
<1>10. CASE TakeEscaped(r, p)
  BY <1>10, MoveTaskQuiet, ResultsStay, QuietKeeps DEF TakeEscaped, Quiet
<1>11. CASE Remark(r, p)
  BY <1>11, MoveTaskQuiet, EndRunQuiet, SetPageStatusQuiet, ResultsStay, QuietKeeps
     DEF Remark, Quiet
<1>12. CASE Recount(r, p)
  BY <1>12, MoveTaskQuiet, EndRunQuiet, ResultsStay, QuietKeeps DEF Recount, Quiet
<1> QED
  BY <1>1, <1>2, <1>3, <1>4, <1>5, <1>6, <1>7, <1>8, <1>9, <1>10, <1>11, <1>12
     DEF PageStep

\* No other step is a step of a coroutine: all are quiet.
LEMMA RunStepResults ==
  ASSUME Types, Types', ResultInv, NEW r \in Run, RunStep(r)
  PROVE  ResultInv'
<1>1. CASE LoadBlueprint(r)
  <2>1. \A q \in Run, p \in Page : task'[q][p] = "markDone" => task[q][p] = "markDone"
    <3>1. CASE EndRun(r)
      BY <3>1, EndRunQuiet
    <3>2. CASE ~EndRun(r)
      BY <1>1, <3>2 DEF LoadBlueprint, Types, MemoryType
    <3> QED  BY <3>1, <3>2
  <2> QED
    BY <1>1, <2>1, ResultsStay, QuietKeeps DEF LoadBlueprint, Quiet
<1>2. CASE GatherReturns(r) \/ SourcesRead(r) \/ UploadExcel(r)
  BY <1>2, ResultsStay, QuietKeeps DEF GatherReturns, SourcesRead, UploadExcel, KeepLocals, Quiet
<1>3. CASE CountResults(r)
  BY <1>3, EndRunQuiet, ResultsStay, QuietKeeps DEF CountResults, Quiet
<1>4. CASE BuildExcel(r)
  BY <1>4, ResultsStay, QuietKeeps DEF BuildExcel, Quiet
<1>5. CASE FinalizeJob(r)
  BY <1>5, EndRunQuiet, ResultsStay, QuietKeeps DEF FinalizeJob, Quiet
<1>6. CASE \E p \in Page : PageStep(r, p)
  BY <1>6, PageStepResults
<1> QED
  BY <1>1, <1>2, <1>3, <1>4, <1>5, <1>6 DEF RunStep

LEMMA OtherStepResults ==
  ASSUME Types, Types', ResultInv,
         \/ Upload \/ BatchStep
         \/ \E r \in Retry : CheckRetry(r) \/ RetryRequest(r)
         \/ Crash \/ Restart \/ Age \/ DeleteProject \/ CleanupUploads
  PROVE  ResultInv'
<1>run. Batch \in Run /\ Retry \subseteq Run
  BY DEF Run
<1>1. CASE Upload \/ Age \/ DeleteProject \/ CleanupUploads
  BY <1>1, ResultsStay, QuietKeeps
     DEF Upload, Age, DeleteProject, CleanupUploads, KeepLocals, Quiet
<1>2. CASE RejectJob
  BY <1>2, <1>run, EndRunQuiet, ResultsStay, QuietKeeps DEF RejectJob, Quiet
<1>3. CASE FlattenToPageTasks
  <2>1. \A q \in Run, p \in Page : task'[q][p] = "markDone" => task[q][p] = "markDone"
    BY <1>3, <1>run DEF FlattenToPageTasks, Types, MemoryType
  <2> QED
    BY <1>3, <2>1, ResultsStay, QuietKeeps DEF FlattenToPageTasks, Quiet
<1>4. CASE InitJobPages
  <2>1. \A q \in Run, p \in Page : task'[q][p] = "markDone" => task[q][p] = "markDone"
    BY <1>4, <1>run, EndRunQuiet DEF InitJobPages, KeepLocals
  <2> QED
    BY <1>4, <2>1, ResultsStay, QuietKeeps DEF InitJobPages, Quiet
<1>5. CASE \E p \in Page : SaveFailedFile(p)
  BY <1>5, <1>run, MoveTaskQuiet, EndRunQuiet, SaveResultGrows, QuietKeeps
     DEF SaveFailedFile, Quiet
<1>6. ASSUME NEW r \in Retry, CheckRetry(r) \/ RetryRequest(r) PROVE ResultInv'
  BY <1>6, <1>run, EndRunQuiet, ResultsStay, QuietKeeps
     DEF CheckRetry, RetryRequest, SelectFailedPages, CommitRetry, KeepLocals, Quiet
<1>7. CASE Crash
  BY <1>7, ResultsStay, QuietKeeps DEF Crash, Quiet
<1>8. CASE Restart
  BY <1>8, ResultsStay, QuietKeeps DEF Restart, Recover, SweptRow, Quiet
<1> QED
  BY <1>1, <1>2, <1>3, <1>4, <1>5, <1>6, <1>7, <1>8 DEF BatchStep

LEMMA InitResults == Init => ResultInv
  BY DEF Init, ResultInv, DoneHasResult, SavedBeforeMarked

LEMMA NextResults == Types /\ Types' /\ ResultInv /\ [Next]_vars => ResultInv'
<1> SUFFICES ASSUME Types, Types', ResultInv, [Next]_vars PROVE ResultInv'
  OBVIOUS
<1>1. CASE UNCHANGED vars
  BY <1>1, ResultsStay, QuietKeeps DEF vars, Quiet
<1>2. CASE Next
  BY <1>2, RunStepResults, OtherStepResults DEF Next
<1> QED
  BY <1>1, <1>2

\* A page called done has its data in extraction_results, with any number of
\* pages, runs, failing writes, lost acknowledgements and crashes.
THEOREM DoneHasResultAlways == Spec => []DoneHasResult
<1>1. Spec => []Types
  BY InitTypes, NextTypes, PTL DEF Spec
<1>2. Spec => []ResultInv
  BY <1>1, InitResults, NextResults, PTL DEF Spec
<1>3. ResultInv => DoneHasResult
  BY DEF ResultInv
<1> QED
  BY <1>2, <1>3, PTL

-----------------------------------------------------------------------------
(* One run at a time, with one open Processing page.  Nothing but the      *)
(* status column keeps runs apart, so the invariant ties the two: whoever  *)
(* is not resting is alone, a request was let in by a job that no run      *)
(* works on, a run holds its job open and its process knows it.            *)

Exclusive ==
  /\ runPc[Batch] \notin Request
  /\ \A r \in Run : runPc[r] \notin Resting =>
       /\ up
       /\ \A q \in Run : q # r => runPc[q] \in Resting
       /\ runPc[r] \in Request => jobStatus \notin {"none", "processing"}
       /\ runPc[r] \in Working => jobStatus \in ActiveStatus /\ known

LEMMA PcsDisjoint ==
  \A pc \in RunPc : /\ pc \in Resting => pc \notin Request /\ pc \notin Working
                    /\ pc \in Request => pc \notin Working
                    /\ pc \notin Resting => pc \in Request \/ pc \in Working
  BY DEF RunPc, Resting, Request, Working

LEMMA StayExclusive ==
  ASSUME Exclusive, UNCHANGED <<up, known, runPc, jobStatus>>
  PROVE  Exclusive'
  BY DEF Exclusive

LEMMA EndRunExclusive ==
  ASSUME Types, Exclusive, NEW r \in Run, EndRun(r),
         (jobStatus' = jobStatus /\ known' = known) \/ runPc[r] \notin Resting
  PROVE  Exclusive'
<1>1. up' = up /\ runPc' = [runPc EXCEPT ![r] = "over"] /\ runPc \in [Run -> RunPc]
  BY DEF EndRun, Goto, Types, MemoryType
<1>2. "over" \in Resting /\ "over" \notin Request
  BY DEF Resting, Request
<1>3. Batch \in Run
  BY DEF Run
<1> QED
  BY <1>1, <1>2, <1>3 DEF Exclusive

\* A run moves on.
LEMMA GotoExclusive ==
  ASSUME Types, Exclusive, NEW r \in Run, NEW pc \in Working, Goto(r, pc),
         runPc[r] \in Working, jobStatus' = jobStatus, known' = known
  PROVE  Exclusive'
<1>1. up' = up /\ runPc' = [runPc EXCEPT ![r] = pc] /\ runPc \in [Run -> RunPc]
  BY DEF Goto, Types, MemoryType
<1>2. pc \notin Resting /\ pc \notin Request /\ runPc[r] \notin Resting
  BY PcsDisjoint DEF RunPc, Resting, Request, Working
<1>3. Batch \in Run
  BY DEF Run
<1> QED
  BY <1>1, <1>2, <1>3 DEF Exclusive

LEMMA PageStepExclusive ==
  ASSUME Types, Exclusive, NEW r \in Run, NEW p \in Page, PageStep(r, p)
  PROVE  Exclusive'
<1>1. jobStatus' = jobStatus /\ known' = known
  BY DEF PageStep, StartPage, ExtractPage, SaveDone, MarkDone, CountDone, SaveFailed,
         MarkFailed, CountFailed, FindSource, TakeEscaped, Remark, Recount,
         IncrementCompleted, IncrementFailed
<1>2. EndRun(r) \/ UNCHANGED <<up, runPc>>
  BY DEF PageStep, StartPage, ExtractPage, SaveDone, MarkDone, CountDone, SaveFailed,
         MarkFailed, CountFailed, FindSource, TakeEscaped, Remark, Recount, MoveTask
<1> QED
  BY <1>1, <1>2, StayExclusive, EndRunExclusive

LEMMA RunStepExclusive ==
  ASSUME Types, Exclusive, NEW r \in Run, RunStep(r)
  PROVE  Exclusive'
<1>pc. {"reject", "flatten", "source", "gather", "collect", "build", "upload", "commit",
        "commitNoExcel", "load"} \subseteq Working
  BY DEF Working
<1>1. CASE LoadBlueprint(r)
  BY <1>1, <1>pc, EndRunExclusive, GotoExclusive DEF LoadBlueprint, At
<1>2. CASE GatherReturns(r) \/ SourcesRead(r) \/ BuildExcel(r) \/ UploadExcel(r)
  BY <1>2, <1>pc, GotoExclusive DEF GatherReturns, SourcesRead, BuildExcel, UploadExcel, At
<1>3. CASE CountResults(r)
  BY <1>3, <1>pc, EndRunExclusive, GotoExclusive DEF CountResults, At
<1>4. CASE FinalizeJob(r)
  <2>1. runPc[r] \notin Resting
    BY <1>4 DEF FinalizeJob, Resting
  <2> QED
    BY <1>4, <2>1, EndRunExclusive DEF FinalizeJob
<1>5. CASE \E p \in Page : PageStep(r, p)
  BY <1>5, PageStepExclusive
<1> QED
  BY <1>1, <1>2, <1>3, <1>4, <1>5 DEF RunStep

LEMMA BatchStepExclusive == ASSUME Types, Exclusive, BatchStep PROVE Exclusive'
<1>run. Batch \in Run
  BY DEF Run
<1>pc. {"flatten", "init", "gather"} \subseteq Working
  BY DEF Working
<1>1. CASE RejectJob
  <2>1. runPc[Batch] \notin Resting
    BY <1>1 DEF RejectJob, At, Resting
  <2> QED
    BY <1>1, <1>run, <2>1, EndRunExclusive DEF RejectJob
<1>2. CASE FlattenToPageTasks
  BY <1>2, <1>run, <1>pc, GotoExclusive DEF FlattenToPageTasks, At
<1>3. CASE InitJobPages
  BY <1>3, <1>run, <1>pc, EndRunExclusive, GotoExclusive DEF InitJobPages, At
<1>4. CASE \E p \in Page : SaveFailedFile(p)
  BY <1>4, <1>run, StayExclusive, EndRunExclusive DEF SaveFailedFile, MoveTask
<1> QED
  BY <1>1, <1>2, <1>3, <1>4 DEF BatchStep

\* With the job closed, no run is at work and only a request can be under way.
LEMMA RetryExclusive ==
  ASSUME OneTab, Types, Exclusive, NEW r \in Retry, CheckRetry(r) \/ RetryRequest(r)
  PROVE  Exclusive'
<1>run. r \in Run /\ Batch \in Run /\ r # Batch
  BY DEF Run, Retry, Batch
<1>pcs. runPc \in [Run -> RunPc]
  BY DEF Types, MemoryType
<1>1. CASE CheckRetry(r)
  <2>1. /\ up /\ up' = up /\ jobStatus' = jobStatus /\ jobStatus \notin {"none", "processing"}
        /\ jobStatus \notin ActiveStatus \/ ~known
        /\ \A q \in Retry : runPc[q] \notin Request
        /\ runPc' = [runPc EXCEPT ![r] = "checked"]
    BY <1>1 DEF CheckRetry, ShownClosed, ActiveStatus, TerminalStatus, Goto
  <2>2. \A q \in Run : runPc[q] \notin Working
    BY <2>1, PcsDisjoint, <1>pcs DEF Exclusive
  <2>3. \A q \in Run : runPc[q] \in Resting
    BY <2>1, <2>2, <1>pcs, PcsDisjoint DEF Exclusive, Run
  <2>4. "checked" \in Request /\ "checked" \notin Working
    BY DEF Request, Working
  <2> QED
    BY <2>1, <2>3, <2>4, <1>run, <1>pcs DEF Exclusive
<1>2. CASE SelectFailedPages(r)
  <2>1. CASE EndRun(r)
    BY <1>2, <2>1, <1>run, EndRunExclusive DEF SelectFailedPages
  <2>2. CASE ~EndRun(r)
    <3>1. /\ up' = up /\ jobStatus' = jobStatus /\ runPc[r] = "checked"
          /\ runPc' = [runPc EXCEPT ![r] = "selected"]
      BY <1>2, <2>2 DEF SelectFailedPages, At, Goto
    <3>2. {"checked", "selected"} \subseteq Request /\ "selected" \notin Working
            /\ "checked" \notin Resting
      BY DEF Request, Working, Resting
    <3> QED
      BY <3>1, <3>2, <1>run, <1>pcs DEF Exclusive
  <2> QED
    BY <2>1, <2>2
<1>3. CASE CommitRetry(r)
  <2>1. runPc[r] = "selected" /\ "selected" \notin Resting
    BY <1>3 DEF CommitRetry, At, Resting
  <2>2. CASE EndRun(r)
    BY <2>1, <2>2, <1>run, EndRunExclusive
  <2>3. CASE ~EndRun(r)
    <3>1. /\ up' = up /\ jobStatus' = "processing" /\ known'
          /\ runPc' = [runPc EXCEPT ![r] = "load"]
      BY <1>3, <2>3 DEF CommitRetry, Goto, Outcome, Applied, Raised, RetryStatus
    <3>2. "load" \notin Request /\ "processing" \in ActiveStatus
      BY DEF Request, ActiveStatus
    <3> QED
      BY <2>1, <3>1, <3>2, <1>run, <1>pcs DEF Exclusive
  <2> QED
    BY <2>2, <2>3
<1> QED
  BY <1>1, <1>2, <1>3 DEF RetryRequest

LEMMA SurroundingExclusive ==
  ASSUME Types, Exclusive, Upload \/ Crash \/ Restart \/ Age \/ DeleteProject \/ CleanupUploads
  PROVE  Exclusive'
<1>run. Batch \in Run
  BY DEF Run
<1>pcs. runPc \in [Run -> RunPc]
  BY DEF Types, MemoryType
<1>1. CASE Upload
  <2>1. /\ up /\ up' = up /\ jobStatus' = "queued" /\ jobStatus = "none" /\ known'
        /\ runPc' = [runPc EXCEPT ![Batch] = "load"]
    BY <1>1 DEF Upload, Goto
  <2>2. \A q \in Run : runPc[q] \in Resting
    BY <2>1, <1>pcs, PcsDisjoint DEF Exclusive, ActiveStatus
  <2>3. "load" \notin Request /\ "queued" \in ActiveStatus
    BY DEF Request, ActiveStatus
  <2> QED
    BY <2>1, <2>2, <2>3, <1>run, <1>pcs DEF Exclusive
<1>2. CASE Crash
  <2>1. \A r \in Run : runPc'[r] \in Resting /\ runPc'[r] \notin Request
    BY <1>2 DEF Crash, Resting, Request
  <2> QED
    BY <2>1, <1>run DEF Exclusive
<1>3. CASE Restart
  <2>1. \A r \in Run : runPc[r] \in Resting
    BY <1>3 DEF Restart, Exclusive
  <2> QED
    BY <1>3, <2>1, <1>run DEF Restart, Exclusive
<1>4. CASE Age \/ DeleteProject \/ CleanupUploads
  BY <1>4, StayExclusive DEF Age, DeleteProject, CleanupUploads
<1> QED
  BY <1>1, <1>2, <1>3, <1>4

LEMMA InitExclusive == Init => Exclusive
  BY DEF Init, Exclusive, Resting, Request, Run

LEMMA NextExclusive == ASSUME OneTab PROVE Types /\ Exclusive /\ [Next]_vars => Exclusive'
<1> SUFFICES ASSUME Types, Exclusive, [Next]_vars PROVE Exclusive'
  OBVIOUS
<1>1. CASE UNCHANGED vars
  BY <1>1, StayExclusive DEF vars
<1>2. CASE Next
  BY <1>2, RunStepExclusive, BatchStepExclusive, RetryExclusive, SurroundingExclusive DEF Next
<1> QED
  BY <1>1, <1>2

LEMMA ExclusiveMeansOne ==
  ASSUME Types, Exclusive
  PROVE  OneRunAtATime /\ LiveMeansActive
<1>1. \A r \in Run : Live(r) => runPc[r] \notin Resting
  BY DEF Live, Working, Resting
<1> QED
  BY <1>1 DEF Exclusive, OneRunAtATime, LiveMeansActive, Live

\* With one open Processing page, two runs never work on the job at once, and
\* the status says "queued" or "processing" for as long as one does.
THEOREM OneRunAtATimeAlways ==
  ASSUME OneTab
  PROVE  Spec => [](OneRunAtATime /\ LiveMeansActive)
<1>1. Spec => []Types
  BY InitTypes, NextTypes, PTL DEF Spec
<1>2. Types /\ Exclusive /\ [Next]_vars => Exclusive'
  BY NextExclusive
<1>3. Spec => []Exclusive
  BY <1>1, <1>2, InitExclusive, PTL DEF Spec
<1>4. Types /\ Exclusive => OneRunAtATime /\ LiveMeansActive
  BY ExclusiveMeansOne
<1> QED
  BY <1>1, <1>3, <1>4, PTL

\* With one open Processing page, the status that get_status and the stream read is never
\* terminal while a run still works on the job.
THEOREM LiveMeansActiveAlways ==
  ASSUME OneTab
  PROVE  Spec => []LiveMeansActive
<1>1. Spec => [](OneRunAtATime /\ LiveMeansActive)
  BY OneRunAtATimeAlways
<1> QED
  BY <1>1, PTL

-----------------------------------------------------------------------------
(* The concurrency bound.  A semaphore belongs to one run, so the bound    *)
(* over all runs follows only where runs exclude each other.               *)

Slots(r) == {p \in Page : task[r][p] \in HoldsSlot}

SlotInv ==
  \A r \in Run :
    /\ Cardinality(Slots(r)) <= MaxConcurrent
    /\ Slots(r) # {} => runPc[r] = "gather"

\* What every step but StartPage does: nobody gains a slot, and whoever keeps
\* one is where it was.
NoSlotGained ==
  \A q \in Run, s \in Page : task'[q][s] \in HoldsSlot =>
    task[q][s] \in HoldsSlot /\ runPc'[q] = runPc[q]

LEMMA SlotsFinite == \A r \in Run : IsFiniteSet(Slots(r)) /\ Cardinality(Slots(r)) \in Nat
  BY PageAssumption, CountsAreNat, FS_Subset DEF Slots

LEMMA NoSlotGainedKeeps == ASSUME SlotInv, NoSlotGained PROVE SlotInv'
<1> SUFFICES ASSUME NEW r \in Run
             PROVE  /\ Cardinality(Slots(r)') <= MaxConcurrent
                    /\ Slots(r)' # {} => runPc'[r] = "gather"
  BY DEF SlotInv, Slots
<1>1. Slots(r)' \subseteq Slots(r)
  BY DEF NoSlotGained, Slots
<1>2. Cardinality(Slots(r)') <= Cardinality(Slots(r)) /\ Cardinality(Slots(r)') \in Nat
  BY <1>1, SlotsFinite, FS_Subset, FS_CardinalityType
<1>3. Cardinality(Slots(r)') <= MaxConcurrent
  BY <1>2, SlotsFinite, BoundAssumption DEF SlotInv
<1>4. Slots(r)' # {} => runPc'[r] = "gather"
  BY <1>1 DEF SlotInv, NoSlotGained, Slots
<1> QED
  BY <1>3, <1>4

LEMMA MoveTaskSlots ==
  ASSUME Types, NEW r \in Run, NEW p \in Page, NEW pc, MoveTask(r, p, pc),
         pc \notin HoldsSlot \/ task[r][p] \in HoldsSlot
  PROVE  NoSlotGained
  BY DEF MoveTask, NoSlotGained, Types, MemoryType

LEMMA EndRunSlots ==
  ASSUME Types, NEW r \in Run, EndRun(r)
  PROVE  NoSlotGained
<1>1. "none" \notin HoldsSlot
  BY DEF HoldsSlot
<1> QED
  BY <1>1 DEF EndRun, Goto, NoSlotGained, Types, MemoryType

\* A run that is not gathering holds no slot, and may move as it likes.
LEMMA ElsewhereSlots ==
  ASSUME Types, SlotInv, NEW r \in Run, runPc[r] # "gather",
         \A q \in Run : q # r => task'[q] = task[q] /\ runPc'[q] = runPc[q],
         \A s \in Page : task'[r][s] \notin HoldsSlot \/ task'[r][s] = task[r][s]
  PROVE  NoSlotGained
  BY DEF NoSlotGained, SlotInv, Slots

LEMMA GotoSlots ==
  ASSUME Types, SlotInv, NEW r \in Run, NEW pc, runPc[r] # "gather", Goto(r, pc),
         UNCHANGED task
  PROVE  NoSlotGained
  BY ElsewhereSlots DEF Goto, Types, MemoryType

LEMMA PageStepSlots ==
  ASSUME Types, SlotInv, NEW r \in Run, NEW p \in Page, PageStep(r, p), ~StartPage(r, p)
  PROVE  NoSlotGained
<1>pc. /\ {"extract", "saveDone", "markDone", "incDone", "saveNone", "markNone", "incNone",
           "saveError", "markError", "incError"} \subseteq HoldsSlot
       /\ \A pc \in {"ok", "failed", "escaped", "wait", "remark", "recount"} : pc \notin HoldsSlot
  BY DEF HoldsSlot
<1>1. CASE ExtractPage(r, p)
  BY <1>1, <1>pc, MoveTaskSlots DEF ExtractPage
<1>2. CASE SaveDone(r, p) \/ MarkDone(r, p) \/ CountDone(r, p)
  BY <1>2, <1>pc, MoveTaskSlots DEF SaveDone, MarkDone, CountDone
<1>3. CASE SaveFailed(r, p) \/ MarkFailed(r, p) \/ CountFailed(r, p)
  BY <1>3, <1>pc, MoveTaskSlots DEF SaveFailed, MarkFailed, CountFailed
<1>4. CASE FindSource(r, p) \/ TakeEscaped(r, p)
  BY <1>4, <1>pc, MoveTaskSlots DEF FindSource, TakeEscaped
<1>5. CASE Remark(r, p) \/ Recount(r, p)
  BY <1>5, <1>pc, MoveTaskSlots, EndRunSlots DEF Remark, Recount
<1> QED
  BY <1>1, <1>2, <1>3, <1>4, <1>5 DEF PageStep

LEMMA StartPageSlots ==
  ASSUME Types, SlotInv, NEW r \in Run, NEW p \in Page, StartPage(r, p)
  PROVE  SlotInv'
<1>1. runPc[r] = "gather" /\ SlotFree(r) /\ runPc' = runPc
  BY DEF StartPage, At, MoveTask
<1>2. PICK pc \in TaskPc : task' = [task EXCEPT ![r][p] = pc]
  BY DEF StartPage, MoveTask, TaskPc, HoldsSlot, Finished
<1>3. \A q \in Run : q # r => Slots(q)' = Slots(q)
  BY <1>2 DEF Slots, Types, MemoryType
<1>4. Slots(r)' \subseteq Slots(r) \cup {p}
  BY <1>2 DEF Slots, Types, MemoryType
<1>5. Cardinality(Slots(r)) < MaxConcurrent
  BY <1>1 DEF SlotFree, Slots
<1>6. Cardinality(Slots(r)') <= MaxConcurrent
  <2>a. IsFiniteSet(Slots(r)) /\ Cardinality(Slots(r)) \in Nat
    BY SlotsFinite
  <2>b. /\ IsFiniteSet(Slots(r) \cup {p})
        /\ Cardinality(Slots(r) \cup {p}) =
             (IF p \in Slots(r) THEN Cardinality(Slots(r)) ELSE Cardinality(Slots(r)) + 1)
    BY <2>a, FS_AddElement
  <2>1. IsFiniteSet(Slots(r) \cup {p}) /\ Cardinality(Slots(r) \cup {p}) <= Cardinality(Slots(r)) + 1
    BY <2>a, <2>b
  <2>2. Cardinality(Slots(r)') <= Cardinality(Slots(r) \cup {p})
    BY <2>1, <1>4, FS_Subset
  <2>3. Cardinality(Slots(r)') \in Nat /\ Cardinality(Slots(r) \cup {p}) \in Nat
    BY <2>1, <1>4, FS_Subset, FS_CardinalityType
  <2> QED
    BY <2>1, <2>2, <2>3, <1>5, SlotsFinite, BoundAssumption
<1>7. \A q \in Run : Slots(q)' # {} => runPc'[q] = "gather"
  BY <1>1, <1>3 DEF SlotInv
<1> QED
  BY <1>3, <1>6, <1>7 DEF SlotInv, Slots

LEMMA RunStepSlots ==
  ASSUME Types, SlotInv, NEW r \in Run, RunStep(r)
  PROVE  SlotInv'
<1>1. CASE LoadBlueprint(r)
  <2>1. CASE EndRun(r)
    BY <2>1, EndRunSlots, NoSlotGainedKeeps
  <2>2. CASE ~EndRun(r)
    <3>1. /\ runPc[r] # "gather"
          /\ \A q \in Run : q # r => task'[q] = task[q] /\ runPc'[q] = runPc[q]
          /\ \A s \in Page : task'[r][s] \in {"find", "none"}
      BY <1>1, <2>2 DEF LoadBlueprint, At, Goto, Types, MemoryType
    <3>2. "find" \notin HoldsSlot /\ "none" \notin HoldsSlot
      BY DEF HoldsSlot
    <3> QED
      BY <3>1, <3>2, ElsewhereSlots, NoSlotGainedKeeps
  <2> QED
    BY <2>1, <2>2
<1>2. CASE GatherReturns(r)
  <2>1. Slots(r) = {}
    BY <1>2 DEF GatherReturns, Slots, Finished, HoldsSlot
  <2>2. NoSlotGained
    BY <1>2, <2>1 DEF GatherReturns, Goto, KeepLocals, NoSlotGained, Slots, Types, MemoryType
  <2> QED
    BY <2>2, NoSlotGainedKeeps
<1>3. CASE SourcesRead(r) \/ BuildExcel(r) \/ UploadExcel(r)
  BY <1>3, GotoSlots, NoSlotGainedKeeps
     DEF SourcesRead, BuildExcel, UploadExcel, KeepLocals, At
<1>4. CASE CountResults(r)
  BY <1>4, EndRunSlots, GotoSlots, NoSlotGainedKeeps DEF CountResults, At
<1>5. CASE FinalizeJob(r)
  BY <1>5, EndRunSlots, NoSlotGainedKeeps DEF FinalizeJob
<1>6. ASSUME NEW p \in Page, PageStep(r, p) PROVE SlotInv'
  <2>1. CASE StartPage(r, p)
    BY <2>1, StartPageSlots
  <2>2. CASE ~StartPage(r, p)
    BY <1>6, <2>2, PageStepSlots, NoSlotGainedKeeps
  <2> QED
    BY <2>1, <2>2
<1> QED
  BY <1>1, <1>2, <1>3, <1>4, <1>5, <1>6 DEF RunStep

LEMMA OtherStepSlots ==
  ASSUME Types, Exclusive, SlotInv,
         \/ Upload \/ BatchStep
         \/ \E r \in Retry : CheckRetry(r) \/ RetryRequest(r)
         \/ Crash \/ Restart \/ Age \/ DeleteProject \/ CleanupUploads
  PROVE  SlotInv'
<1> SUFFICES NoSlotGained
  BY NoSlotGainedKeeps
<1>run. Batch \in Run /\ Retry \subseteq Run
  BY DEF Run
<1>pcs. runPc \in [Run -> RunPc] /\ task \in [Run -> [Page -> TaskPc]]
  BY DEF Types, MemoryType
<1>pc. \A pc \in {"none", "splitFail", "wait", "failed"} : pc \notin HoldsSlot
  BY DEF HoldsSlot
<1>1. CASE Upload
  <2>1. runPc[Batch] # "gather"
    BY <1>1, <1>run DEF Upload, Exclusive, Working, Resting, ActiveStatus
  <2> QED
    BY <1>1, <2>1, <1>run, GotoSlots DEF Upload, KeepLocals
<1>2. CASE RejectJob
  BY <1>2, <1>run, EndRunSlots DEF RejectJob
<1>3. CASE FlattenToPageTasks
  <2>1. /\ runPc[Batch] # "gather"
        /\ \A q \in Run : q # Batch => task'[q] = task[q] /\ runPc'[q] = runPc[q]
        /\ \A s \in Page : task'[Batch][s] \in {"splitFail", "wait"}
    BY <1>3, <1>run, <1>pcs DEF FlattenToPageTasks, At, Goto
  <2> QED
    BY <2>1, <1>run, <1>pc, ElsewhereSlots
<1>4. CASE InitJobPages
  BY <1>4, <1>run, EndRunSlots, GotoSlots DEF InitJobPages, KeepLocals, At
<1>5. CASE \E p \in Page : SaveFailedFile(p)
  BY <1>5, <1>run, <1>pc, MoveTaskSlots, EndRunSlots DEF SaveFailedFile
<1>6. ASSUME NEW r \in Retry, CheckRetry(r) \/ RetryRequest(r) PROVE NoSlotGained
  <2>1. CASE CheckRetry(r)
    BY <2>1, <1>run, GotoSlots DEF CheckRetry, KeepLocals
  <2>2. CASE SelectFailedPages(r)
    BY <2>2, <1>run, EndRunSlots, ElsewhereSlots, <1>pcs DEF SelectFailedPages, Goto, At
  <2>3. CASE CommitRetry(r)
    BY <2>3, <1>run, EndRunSlots, GotoSlots DEF CommitRetry, KeepLocals, At
  <2> QED
    BY <1>6, <2>1, <2>2, <2>3 DEF RetryRequest
<1>7. CASE Crash
  BY <1>7, <1>pc DEF Crash, NoSlotGained
<1>8. CASE Restart \/ Age \/ DeleteProject \/ CleanupUploads
  BY <1>8 DEF Restart, Age, DeleteProject, CleanupUploads, NoSlotGained
<1> QED
  BY <1>1, <1>2, <1>3, <1>4, <1>5, <1>6, <1>7, <1>8 DEF BatchStep

LEMMA InitSlots == Init => SlotInv
<1> SUFFICES ASSUME Init, NEW r \in Run PROVE Slots(r) = {} /\ Cardinality(Slots(r)) <= MaxConcurrent
  BY DEF SlotInv
<1>1. Slots(r) = {}
  BY DEF Init, Slots, HoldsSlot
<1> QED
  BY <1>1, FS_EmptySet, BoundAssumption

LEMMA NextSlots == Types /\ Exclusive /\ SlotInv /\ [Next]_vars => SlotInv'
<1> SUFFICES ASSUME Types, Exclusive, SlotInv, [Next]_vars PROVE SlotInv'
  OBVIOUS
<1>1. CASE UNCHANGED vars
  BY <1>1 DEF vars, SlotInv, Slots
<1>2. CASE Next
  BY <1>2, RunStepSlots, OtherStepSlots DEF Next
<1> QED
  BY <1>1, <1>2

\* All the slots in use are one run's: the others rest.
LEMMA SlotsAreOneRuns ==
  ASSUME Exclusive, SlotInv
  PROVE  ConcurrencyBounded
<1> DEFINE pairs == {e \in Run \X Page : task[e[1]][e[2]] \in HoldsSlot}
<1>1. \A e \in pairs : e[1] \in Run /\ e[2] \in Slots(e[1]) /\ runPc[e[1]] \notin Resting
  BY DEF SlotInv, Slots, Resting
<1>2. CASE pairs = {}
  BY <1>2, FS_EmptySet, BoundAssumption DEF ConcurrencyBounded
<1>3. CASE pairs # {}
  <2>1. PICK r \in Run : \A e \in pairs : e[1] = r
    BY <1>1, <1>3 DEF Exclusive
  <2> DEFINE page == [e \in pairs |-> e[2]]
  <2>2. page \in Injection(pairs, Slots(r))
    <3>1. page \in [pairs -> Slots(r)]
      BY <1>1, <2>1
    <3>2. \A d, e \in pairs : page[d] = page[e] => d = e
      BY <2>1
    <3> QED
      BY <3>1, <3>2 DEF Injection, IsInjective
  <2>3. IsFiniteSet(Slots(r)) /\ Cardinality(Slots(r)) \in Nat
    BY SlotsFinite
  <2>4. IsFiniteSet(pairs) /\ Cardinality(pairs) <= Cardinality(Slots(r))
    BY <2>2, <2>3, FS_Injection DEF ExistsInjection
  <2>5. Cardinality(pairs) \in Nat
    BY <2>4, FS_CardinalityType
  <2> QED
    BY <2>3, <2>4, <2>5, BoundAssumption DEF ConcurrencyBounded, SlotInv
<1> QED
  BY <1>2, <1>3

\* With one open Processing page, no more pages are in extraction at once than
\* one semaphore admits, though every run brings a semaphore of its own.
THEOREM ConcurrencyBoundedAlways ==
  ASSUME OneTab
  PROVE  Spec => []ConcurrencyBounded
<1>1. Spec => []Types
  BY InitTypes, NextTypes, PTL DEF Spec
<1>2. Types /\ Exclusive /\ [Next]_vars => Exclusive'
  BY NextExclusive
<1>3. Spec => []Exclusive
  BY <1>1, <1>2, InitExclusive, PTL DEF Spec
<1>4. Spec => []SlotInv
  BY <1>1, <1>3, InitSlots, NextSlots, PTL DEF Spec
<1>5. Exclusive /\ SlotInv => ConcurrencyBounded
  BY SlotsAreOneRuns
<1> QED
  BY <1>3, <1>4, <1>5, PTL

=============================================================================
