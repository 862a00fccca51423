----------------------------- MODULE JobStream ------------------------------
(***************************************************************************)
(* How a job's end reaches its Processing page: the run that ends, the job *)
(* store in the process's memory with one queue per run, the event streams *)
(* that read it, the status in the database, and one browser page that     *)
(* follows both and may ask for a retry.                                   *)
(*                                                                         *)
(* Left out: the events that only narrate a stage, and the texts shown.    *)
(***************************************************************************)
EXTENDS Naturals, Sequences, FiniteSets

CONSTANTS
  Conn,         \* connections to /stream that may be open at once
  NoConn,       \* the page has no EventSource
  MaxRetries,   \* bound: retries that are accepted
  MaxCrashes,   \* bound: ends of the process
  MaxReloads,   \* bound: times the page is opened anew
  MaxAnswers,   \* bound: answers of /status that are under way at once
  Patient,      \* the user asks for a retry when the run has ended, and waits for the answer
  Eager         \* React runs a revision's effects before the page handles anything else

ASSUME ConnAssumption == NoConn \notin Conn
ASSUME BoundAssumption ==
  {MaxRetries, MaxCrashes, MaxReloads, MaxAnswers} \subseteq Nat /\ {Patient, Eager} \subseteq BOOLEAN

TerminalStatus == {"done", "completed_with_errors", "error"}
ActiveStatus   == {"queued", "processing"}
JobStatus      == {"gone"} \cup ActiveStatus \cup TerminalStatus

\* processing_complete carries an error, or failed_pages above or equal to 0.
Completion == {"error", "failed", "clean"}

VARIABLES
  \* the database
  status,       \* jobs.status, "gone" without a row
  failed,       \* failed_pages > 0
  \* the process
  up,
  store,        \* the status in job_store, or "absent"
  gen,          \* how many queues were made after the first
  queue,        \* the completions in each of them
  run,          \* the background task
  late,         \* the completion of a run that has written its status and not yet pushed it
  deleting,     \* delete_job has deleted the row and not yet the store's entry
  request,      \* the retry request, on the server
  conn,         \* each stream: where it is, the queue it reads, what it has sent
  \* the browser
  page,         \* the Processing page is open, or left for the dashboard
  shown,        \* jobStatus
  finished,     \* finishedRef
  es,           \* esRef, the connection of the EventSource
  polling,      \* pollRef's interval runs
  answers,      \* answers of /status under way to the page
  rerun,        \* a new sseRevision, or a new page, whose effects have not run yet
  timer,        \* the timeout that follows an error of the EventSource
  waiting,      \* retryLoading
  \* bounds
  crashes, reloads

job     == <<status, failed>>
memory  == <<store, gen, queue>>
task    == <<run, late, deleting>>
screen  == <<page, shown, finished, timer, waiting>>
source  == <<es, polling, rerun>>
browser == <<screen, source, answers>>
bounds  == <<crashes, reloads>>
vars    == <<job, up, memory, task, request, conn, browser, bounds>>

\* What the server does for a stream.
Closed    == [at |-> "closed"]
Asked     == [at |-> "asked"]
Lookup    == [at |-> "lookup"]
Refused   == [at |-> "refused"]
Live(g)   == [at |-> "live", on |-> g]
Sent(data) == [at |-> "sent", data |-> data]
Stream == {Closed, Asked, Lookup, Refused}
            \cup {Live(g) : g \in 0 .. MaxRetries} \cup {Sent(data) : data \in Completion}

NoPush == [status |-> "none", data |-> "none"]
Push   == [status : TerminalStatus, data : Completion]

\* POST /upload has been answered and the browser shows the page.
Init ==
  /\ status = "queued" /\ failed = FALSE
  /\ up = TRUE
  /\ store = "processing" /\ gen = 0
  /\ queue = [g \in 0 .. MaxRetries |-> <<>>]
  /\ run = "starting" /\ late = NoPush /\ deleting = FALSE
  /\ request = "none"
  /\ conn = [c \in Conn |-> Closed]
  /\ page = "open" /\ shown = "processing" /\ finished = FALSE
  /\ es = NoConn /\ polling = FALSE /\ rerun = TRUE
  /\ answers = {} /\ timer = FALSE /\ waiting = FALSE
  /\ crashes = 0 /\ reloads = 0

-----------------------------------------------------------------------------
(* The run.                                                                *)

Update(s) == IF store = "absent" THEN "absent" ELSE s

PushEvent(data) ==
  queue' = IF store = "absent" THEN queue ELSE [queue EXCEPT ![gen] = Append(@, data)]

RunStart ==
  /\ up /\ run = "starting"
  /\ run' = "working"
  /\ store' = Update("processing")
  /\ UNCHANGED <<job, up, gen, queue, late, deleting, request, conn, browser, bounds>>

PageFails ==
  /\ up /\ run = "working" /\ status # "gone" /\ ~failed
  /\ failed' = TRUE
  /\ UNCHANGED <<status, up, memory, task, request, conn, browser, bounds>>

\* _finalize_job writes the status, if there still is a row.  A workbook that
\* cannot be built makes it completed_with_errors without a failed page.
Finalize == \E s \in {"done", "completed_with_errors"}, f \in BOOLEAN :
  /\ up /\ run = "working" /\ late = NoPush
  /\ status # "gone" => f = failed
  /\ s = "done" => ~f
  /\ run' = "none"
  /\ late' = [status |-> s, data |-> IF f THEN "failed" ELSE "clean"]
  /\ status' = IF status = "gone" THEN "gone" ELSE s
  /\ UNCHANGED <<failed, up, memory, deleting, request, conn, browser, bounds>>

\* Without a blueprint no page is tried: a batch ends the job, a retry only says so.
RejectBatch ==
  /\ up /\ run = "working" /\ ~failed /\ gen = 0 /\ late = NoPush
  /\ run' = "none"
  /\ late' = [status |-> "error", data |-> "error"]
  /\ status' = IF status = "gone" THEN "gone" ELSE "error"
  /\ UNCHANGED <<failed, up, memory, deleting, request, conn, browser, bounds>>

RejectRetry ==
  /\ up /\ run = "working" /\ ~failed /\ gen > 0
  /\ run' = "none"
  /\ PushEvent("error")
  /\ UNCHANGED <<job, up, store, gen, late, deleting, request, conn, browser, bounds>>

\* The commit has returned to the coroutine: the store and its present queue
\* learn the status.
PushLate ==
  /\ up /\ late # NoPush
  /\ late' = NoPush
  /\ store' = Update(late.status)
  /\ PushEvent(late.data)
  /\ UNCHANGED <<job, up, gen, run, deleting, request, conn, browser, bounds>>

-----------------------------------------------------------------------------
(* The other requests.                                                     *)

\* retry_job: refused or without a page to retry, or committed.
RetryRefused ==
  /\ up /\ request = "sent"
  /\ request' = "refused"
  /\ UNCHANGED <<job, up, memory, task, conn, browser, bounds>>

RetryCommit ==
  /\ up /\ request = "sent" /\ gen < MaxRetries
  /\ status \notin {"processing", "gone"} /\ failed
  /\ status' = "processing" /\ failed' = FALSE
  /\ request' = "committed"
  /\ UNCHANGED <<up, memory, task, conn, browser, bounds>>

\* Mutant: the entry is left to the run to update.
MutStoreReset == UNCHANGED <<store, gen, queue>>

StoreReset == store' = "processing" /\ gen' = gen + 1 /\ UNCHANGED queue

RetryStore ==
  /\ up /\ request = "committed"
  /\ StoreReset
  /\ run' = "starting"
  /\ request' = "accepted"
  /\ UNCHANGED <<job, up, late, deleting, conn, browser, bounds>>

DeleteJob ==
  /\ up /\ status # "gone"
  /\ status' = "gone" /\ failed' = FALSE
  /\ deleting' = TRUE
  /\ UNCHANGED <<up, memory, run, late, request, conn, browser, bounds>>

DeleteStore ==
  /\ up /\ deleting
  /\ deleting' = FALSE
  /\ store' = "absent"
  /\ UNCHANGED <<job, up, gen, queue, run, late, request, conn, browser, bounds>>

-----------------------------------------------------------------------------
(* The streams.                                                            *)

\* A finished job is answered from the store, which has no failed_pages.
StreamJob(c) ==
  /\ up /\ conn[c] = Asked
  /\ conn' = [conn EXCEPT ![c] =
                 CASE store = "absent"          -> Lookup
                   [] store \in TerminalStatus  -> Sent("clean")
                   [] store = "processing"      -> Live(gen)]
  /\ UNCHANGED <<job, up, memory, task, request, browser, bounds>>

\* A job this process does not know is taken for a finished one.
StreamLookup(c) ==
  /\ up /\ conn[c] = Lookup
  /\ conn' = [conn EXCEPT ![c] =
                 IF status = "gone" THEN Refused
                 ELSE Sent(IF failed THEN "failed" ELSE "clean")]
  /\ UNCHANGED <<job, up, memory, task, request, browser, bounds>>

\* An event goes to one of the streams that wait for it, whether or not its
\* client is still there.
StreamEvent(c) == \E g \in 0 .. gen :
  /\ up /\ conn[c] = Live(g) /\ queue[g] # <<>>
  /\ conn' = [conn EXCEPT ![c] = Sent(Head(queue[g]))]
  /\ queue' = [queue EXCEPT ![g] = Tail(@)]
  /\ UNCHANGED <<job, up, store, gen, task, request, browser, bounds>>

\* The server notices, at its next keepalive, that the client has gone.
StreamNotices(c) ==
  /\ conn[c] # Closed /\ es # c
  /\ conn' = [conn EXCEPT ![c] = Closed]
  /\ UNCHANGED <<job, up, memory, task, request, browser, bounds>>

-----------------------------------------------------------------------------
(* The page.                                                               *)

Ready == page = "open" /\ (Eager => ~rerun)

\* finish, guarded by finishedRef.
Finish(s) ==
  IF finished
  THEN UNCHANGED <<shown, finished, es, polling>>
  ELSE shown' = s /\ finished' = TRUE /\ es' = NoConn /\ polling' = FALSE

\* The two effects of a revision: a new EventSource and a new interval.
RunEffects(c) ==
  /\ page = "open" /\ rerun
  /\ conn[c] = Closed /\ es # c
  /\ rerun' = FALSE
  /\ es' = c
  /\ polling' = TRUE
  /\ conn' = [conn EXCEPT ![c] = Asked]
  /\ UNCHANGED <<job, up, memory, task, request, screen, answers, bounds>>

\* Mutant: the page shows a status that no job has.
MutStatusShown(data) == IF data = "clean" THEN "done" ELSE data

\* The guess that processing_complete's listener makes.
StatusShown(data) ==
  CASE data = "error"  -> "error"
    [] data = "failed" -> "completed_with_errors"
    [] data = "clean"  -> "done"

ProcessingComplete(c) ==
  /\ Ready /\ es = c
  /\ \E data \in Completion : conn[c] = Sent(data) /\ Finish(StatusShown(data))
  /\ conn' = [conn EXCEPT ![c] = Closed]
  /\ UNCHANGED <<job, up, memory, task, request, page, rerun, answers, timer, waiting, bounds>>

\* The connection breaks, or the server refuses it.
StreamError ==
  /\ Ready /\ es # NoConn /\ ~finished
  /\ es' = NoConn
  /\ timer' = TRUE
  /\ UNCHANGED <<job, up, memory, task, request, conn, page, shown, finished, polling, rerun, answers, waiting, bounds>>

Reconnect ==
  /\ Ready /\ timer
  /\ timer' = FALSE
  /\ rerun' = (rerun \/ ~finished)
  /\ UNCHANGED <<job, up, memory, task, request, conn, page, shown, finished, es, polling, answers, waiting, bounds>>

\* get_status reads the row; an answer may be under way for long.
Poll ==
  /\ up /\ Ready /\ polling /\ Cardinality(answers) < MaxAnswers
  /\ answers' = answers \cup {status}
  /\ UNCHANGED <<job, up, memory, task, request, conn, screen, source, bounds>>

PollAnswer(s) ==
  /\ Ready /\ s \in answers
  /\ answers' = answers \ {s}
  /\ CASE s = "gone" -> /\ page' = "left" /\ es' = NoConn /\ polling' = FALSE
                        /\ UNCHANGED <<shown, finished>>
       [] s \in ActiveStatus -> UNCHANGED <<page, shown, finished, es, polling>>
       [] s \in TerminalStatus -> Finish(s) /\ UNCHANGED page
  /\ UNCHANGED <<job, up, memory, task, request, conn, rerun, timer, waiting, bounds>>

\* The button is there for completed_with_errors only.
HandleInlineRetry ==
  /\ Ready /\ shown = "completed_with_errors" /\ ~waiting /\ request = "none"
  /\ Patient => run = "none" /\ late = NoPush
  /\ waiting' = TRUE
  /\ request' = "sent"
  /\ UNCHANGED <<job, up, memory, task, conn, page, shown, finished, timer, source, answers, bounds>>

\* Mutant: finishedRef is not reset.
MutUnfinished == finished

Unfinished == FALSE

\* The answer arrives, unless the page has gone or the connection broke.
RetryAnswered ==
  /\ request \in {"accepted", "refused"}
  /\ request' = "none" /\ waiting' = FALSE
  /\ \/ UNCHANGED <<shown, finished, rerun>>
     \/ /\ request = "accepted" /\ waiting /\ Ready
        /\ shown' = "processing"
        /\ finished' = Unfinished
        /\ rerun' = TRUE
  /\ UNCHANGED <<job, up, memory, task, conn, page, es, polling, timer, answers, bounds>>

\* The page is reloaded, or left and opened again.
OpenPage ==
  /\ reloads < MaxReloads
  /\ Patient => ~waiting
  /\ reloads' = reloads + 1
  /\ page' = "open" /\ shown' = "processing" /\ finished' = FALSE
  /\ es' = NoConn /\ polling' = FALSE /\ rerun' = TRUE
  /\ answers' = {} /\ timer' = FALSE /\ waiting' = FALSE
  /\ UNCHANGED <<job, up, memory, task, request, conn, crashes>>

-----------------------------------------------------------------------------
(* The process.                                                            *)

Crash ==
  /\ up /\ crashes < MaxCrashes
  /\ up' = FALSE /\ crashes' = crashes + 1
  /\ store' = "absent"
  /\ queue' = [g \in 0 .. MaxRetries |-> <<>>]
  /\ run' = "none" /\ late' = NoPush /\ deleting' = FALSE
  /\ request' = IF request \in {"sent", "committed"} THEN "refused" ELSE request
  /\ conn' = [c \in Conn |-> Closed]
  /\ UNCHANGED <<job, gen, browser, reloads>>

\* The sweep ends a stale job and leaves a young one.
Restart ==
  /\ ~up
  /\ up' = TRUE
  /\ \/ UNCHANGED job
     \/ /\ status \in ActiveStatus
        /\ \/ status' = "error" /\ failed' \in BOOLEAN
           \/ status' = "done" /\ failed' = FALSE
           \/ status' = "completed_with_errors" /\ failed' = TRUE
  /\ UNCHANGED <<memory, task, request, conn, browser, bounds>>

RunStep == RunStart \/ PageFails \/ Finalize \/ RejectBatch \/ RejectRetry \/ PushLate
RequestStep == RetryRefused \/ RetryCommit \/ RetryStore \/ RetryAnswered \/ DeleteStore
StreamStep(c) == StreamJob(c) \/ StreamLookup(c) \/ StreamEvent(c) \/ StreamNotices(c)
Answered == \E s \in JobStatus : PollAnswer(s)

Next ==
  \/ RunStep \/ RequestStep \/ DeleteJob
  \/ \E c \in Conn : StreamStep(c) \/ RunEffects(c) \/ ProcessingComplete(c)
  \/ StreamError \/ Reconnect \/ Poll \/ Answered \/ HandleInlineRetry \/ OpenPage
  \/ Crash \/ Restart

Spec == Init /\ [][Next]_vars

\* asyncio and the browser run what is ready, the platform restarts a dead
\* process, and /status gets through at some time: every pair of effects polls
\* at once and the next pair is three seconds away, however often the stream breaks.
Fairness ==
  /\ WF_vars(RunStep) /\ WF_vars(RequestStep) /\ WF_vars(Restart)
  /\ WF_vars(\E c \in Conn : StreamStep(c)) /\ WF_vars(\E c \in Conn : RunEffects(c))
  /\ WF_vars(Reconnect) /\ SF_vars(Poll) /\ SF_vars(Answered)

FairSpec == Spec /\ Fairness

-----------------------------------------------------------------------------
TypeOK ==
  /\ status \in JobStatus /\ failed \in BOOLEAN
  /\ up \in BOOLEAN
  /\ store \in {"absent", "processing"} \cup TerminalStatus
  /\ gen \in 0 .. MaxRetries
  /\ queue \in [0 .. MaxRetries -> Seq(Completion)]
  /\ run \in {"none", "starting", "working"} /\ late \in {NoPush} \cup Push
  /\ deleting \in BOOLEAN
  /\ request \in {"none", "sent", "committed", "accepted", "refused"}
  /\ conn \in [Conn -> Stream]
  /\ page \in {"open", "left"} /\ shown \in {"processing"} \cup TerminalStatus
  /\ es \in Conn \cup {NoConn}
  /\ {finished, polling, rerun, timer, waiting} \subseteq BOOLEAN
  /\ answers \subseteq JobStatus
  /\ crashes \in 0 .. MaxCrashes /\ reloads \in 0 .. MaxReloads

\* Whatever happens to streams, events and the process, an open page learns that
\* the job has ended or is gone: the poll covers what the stream loses.
PageSettles ==
  status \notin ActiveStatus ~>
    (shown \in TerminalStatus \/ page = "left" \/ status \in ActiveStatus)

\* An event never ends the page of a run that is still at work (retry_job resets
\* the store before its run starts and before it answers).
NotEarly == [][(\E c \in Conn : ProcessingComplete(c)) /\ ~finished => run = "none"]_vars

\* A status guessed from an event is corrected by the poll ("the DB poll below
\* will correct this if it lands first or shortly after").
GuessCorrected ==
  (shown \in TerminalStatus /\ status \in TerminalStatus /\ shown # status)
    ~> (shown = status \/ shown = "processing" \/ status \notin TerminalStatus \/ page = "left")
=============================================================================
