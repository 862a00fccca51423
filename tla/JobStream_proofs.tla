--------------------------- MODULE JobStream_proofs ---------------------------
(***************************************************************************)
(* Proofs about JobStream: the types of what the process, the streams and  *)
(* the page keep, and that no event ends the page of a run that is still   *)
(* at work, for any number of connections, retries, crashes, reloads and   *)
(* answers under way.                                                      *)
(***************************************************************************)
EXTENDS JobStream, TLAPS

\* The tuples of variables the UNCHANGED conjuncts name.
USE DEF job, memory, task, screen, source, browser, bounds

-----------------------------------------------------------------------------
(* Types.                                                                   *)

LEMMA StreamIs ==
  /\ {Closed, Asked, Lookup, Refused} \subseteq Stream
  /\ \A g \in 0 .. MaxRetries : Live(g) \in Stream
  /\ \A data \in Completion : Sent(data) \in Stream
  BY DEF Stream

\* What a stream is at tells the states of streams apart.
LEMMA StreamAt ==
  /\ Closed.at = "closed" /\ Asked.at = "asked" /\ Lookup.at = "lookup" /\ Refused.at = "refused"
  /\ \A g : Live(g).at = "live" /\ Live(g).on = g
  /\ \A data : Sent(data).at = "sent" /\ Sent(data).data = data
  BY DEF Closed, Asked, Lookup, Refused, Live, Sent

LEMMA PushIs ==
  /\ NoPush \notin Push
  /\ \A p \in Push : p.status \in TerminalStatus /\ p.data \in Completion
  /\ \A s \in TerminalStatus, d \in Completion : [status |-> s, data |-> d] \in Push
  BY DEF NoPush, Push, TerminalStatus, Completion

\* What the server's memory is made of.
MemoryType ==
  /\ store \in {"absent", "processing"} \cup TerminalStatus
  /\ gen \in 0 .. MaxRetries
  /\ queue \in [0 .. MaxRetries -> Seq(Completion)]

LEMMA PushEventTypes ==
  ASSUME MemoryType, NEW data \in Completion, PushEvent(data)
  PROVE  queue' \in [0 .. MaxRetries -> Seq(Completion)]
<1>1. queue[gen] \in Seq(Completion) /\ Append(queue[gen], data) \in Seq(Completion)
  BY DEF MemoryType
<1> QED
  BY <1>1 DEF PushEvent, MemoryType

LEMMA FinishTypes ==
  ASSUME TypeOK, NEW s \in TerminalStatus, Finish(s)
  PROVE  /\ shown' \in {"processing"} \cup TerminalStatus /\ es' \in Conn \cup {NoConn}
         /\ {finished', polling'} \subseteq BOOLEAN
  BY DEF TypeOK, Finish

\* The queue of a retry that was committed is still to be made: the bound leaves room for it.
Room == request = "committed" => gen < MaxRetries

LEMMA RunTypes == ASSUME TypeOK, RunStep PROVE TypeOK'
<1>1. CASE RunStart
  BY <1>1 DEF RunStart, Update, TypeOK
<1>2. CASE PageFails
  BY <1>2 DEF PageFails, TypeOK
<1>3. CASE Finalize
  <2>1. PICK s \in {"done", "completed_with_errors"}, f \in BOOLEAN :
          /\ run' = "none" /\ late' = [status |-> s, data |-> IF f THEN "failed" ELSE "clean"]
          /\ status' = IF status = "gone" THEN "gone" ELSE s
          /\ UNCHANGED <<failed, up, memory, deleting, request, conn, browser, bounds>>
    BY <1>3 DEF Finalize
  <2>2. late' \in Push
    BY <2>1, PushIs DEF TerminalStatus, Completion
  <2>3. status' \in JobStatus
    BY <2>1 DEF JobStatus, TerminalStatus
  <2> QED
    BY <2>1, <2>2, <2>3 DEF TypeOK
<1>4. CASE RejectBatch
  <2>1. late' \in Push
    BY <1>4, PushIs DEF RejectBatch, TerminalStatus, Completion
  <2>2. status' \in JobStatus
    BY <1>4 DEF RejectBatch, JobStatus, TerminalStatus
  <2> QED
    BY <1>4, <2>1, <2>2 DEF RejectBatch, TypeOK
<1>5. CASE RejectRetry
  <2>1. queue' \in [0 .. MaxRetries -> Seq(Completion)]
    BY <1>5, PushEventTypes DEF RejectRetry, TypeOK, MemoryType, Completion
  <2> QED
    BY <1>5, <2>1 DEF RejectRetry, TypeOK
<1>6. CASE PushLate
  <2>1. late.status \in TerminalStatus /\ late.data \in Completion
    BY <1>6, PushIs DEF PushLate, TypeOK
  <2>2. queue' \in [0 .. MaxRetries -> Seq(Completion)]
    BY <1>6, <2>1, PushEventTypes DEF PushLate, TypeOK, MemoryType
  <2> QED
    BY <1>6, <2>1, <2>2 DEF PushLate, Update, TypeOK
<1> QED
  BY <1>1, <1>2, <1>3, <1>4, <1>5, <1>6 DEF RunStep

LEMMA RequestTypes == ASSUME TypeOK, Room, RequestStep \/ DeleteJob PROVE TypeOK'
<1>1. CASE RetryRefused
  BY <1>1 DEF RetryRefused, TypeOK
<1>2. CASE RetryCommit
  BY <1>2 DEF RetryCommit, TypeOK, JobStatus, ActiveStatus
<1>3. CASE RetryStore
  <2>1. gen' \in 0 .. MaxRetries
    BY <1>3, BoundAssumption DEF RetryStore, StoreReset, TypeOK, Room
  <2> QED
    BY <1>3, <2>1 DEF RetryStore, StoreReset, TypeOK
<1>4. CASE RetryAnswered
  BY <1>4 DEF RetryAnswered, Unfinished, TypeOK
<1>5. CASE DeleteStore
  BY <1>5 DEF DeleteStore, TypeOK
<1>6. CASE DeleteJob
  BY <1>6 DEF DeleteJob, TypeOK, JobStatus
<1> QED
  BY <1>1, <1>2, <1>3, <1>4, <1>5, <1>6 DEF RequestStep

LEMMA StreamTypes == ASSUME TypeOK, NEW c \in Conn, StreamStep(c) PROVE TypeOK'
<1>1. CASE StreamJob(c)
  <2>1. Live(gen) \in Stream /\ Sent("clean") \in Stream
    BY StreamIs DEF TypeOK, Completion
  <2>2. conn' \in [Conn -> Stream]
    BY <1>1, <2>1, StreamIs DEF StreamJob, TypeOK
  <2> QED
    BY <1>1, <2>2 DEF StreamJob, TypeOK
<1>2. CASE StreamLookup(c)
  <2>1. Sent("clean") \in Stream /\ Sent("failed") \in Stream
    BY StreamIs DEF Completion
  <2>2. conn' \in [Conn -> Stream]
    BY <1>2, <2>1, StreamIs DEF StreamLookup, TypeOK
  <2> QED
    BY <1>2, <2>2 DEF StreamLookup, TypeOK
<1>3. CASE StreamEvent(c)
  <2>1. PICK g \in 0 .. gen :
          /\ queue[g] # <<>> /\ conn' = [conn EXCEPT ![c] = Sent(Head(queue[g]))]
          /\ queue' = [queue EXCEPT ![g] = Tail(@)]
          /\ UNCHANGED <<job, up, store, gen, task, request, browser, bounds>>
    BY <1>3 DEF StreamEvent
  <2>2. g \in 0 .. MaxRetries
    BY BoundAssumption DEF TypeOK
  <2>3. queue[g] \in Seq(Completion)
    BY <2>2 DEF TypeOK
  <2>4. Head(queue[g]) \in Completion /\ Tail(queue[g]) \in Seq(Completion)
    BY <2>1, <2>3
  <2>5. conn' \in [Conn -> Stream] /\ queue' \in [0 .. MaxRetries -> Seq(Completion)]
    BY <2>1, <2>4, StreamIs DEF TypeOK
  <2> QED
    BY <2>1, <2>5 DEF TypeOK
<1>4. CASE StreamNotices(c)
  <2>1. conn' \in [Conn -> Stream]
    BY <1>4, StreamIs DEF StreamNotices, TypeOK
  <2> QED
    BY <1>4, <2>1 DEF StreamNotices, TypeOK
<1> QED
  BY <1>1, <1>2, <1>3, <1>4 DEF StreamStep

LEMMA PageTypes ==
  ASSUME TypeOK,
         \/ \E c \in Conn : RunEffects(c) \/ ProcessingComplete(c)
         \/ StreamError \/ Reconnect \/ Poll \/ Answered \/ HandleInlineRetry \/ OpenPage
  PROVE  TypeOK'
<1>1. ASSUME NEW c \in Conn, RunEffects(c) PROVE TypeOK'
  <2>1. conn' \in [Conn -> Stream]
    BY <1>1, StreamIs DEF RunEffects, TypeOK
  <2> QED
    BY <1>1, <2>1 DEF RunEffects, TypeOK
<1>2. ASSUME NEW c \in Conn, ProcessingComplete(c) PROVE TypeOK'
  <2>1. PICK data \in Completion : Finish(StatusShown(data))
    BY <1>2 DEF ProcessingComplete
  <2>2. StatusShown(data) \in TerminalStatus
    BY DEF StatusShown, Completion, TerminalStatus
  <2>3. /\ shown' \in {"processing"} \cup TerminalStatus /\ es' \in Conn \cup {NoConn}
        /\ {finished', polling'} \subseteq BOOLEAN
    BY <2>1, <2>2, FinishTypes
  <2>4. conn' \in [Conn -> Stream]
    BY <1>2, StreamIs DEF ProcessingComplete, TypeOK
  <2> QED
    BY <1>2, <2>3, <2>4 DEF ProcessingComplete, TypeOK
<1>3. CASE StreamError \/ Reconnect
  BY <1>3 DEF StreamError, Reconnect, TypeOK
<1>4. CASE Poll
  BY <1>4 DEF Poll, TypeOK
<1>5. ASSUME NEW s \in JobStatus, PollAnswer(s) PROVE TypeOK'
  <2>1. CASE s \in TerminalStatus
    <3>1. Finish(s) /\ page' = page
      BY <1>5, <2>1 DEF PollAnswer, TerminalStatus, ActiveStatus
    <3>2. /\ shown' \in {"processing"} \cup TerminalStatus /\ es' \in Conn \cup {NoConn}
          /\ {finished', polling'} \subseteq BOOLEAN
      BY <2>1, <3>1, FinishTypes
    <3> QED
      BY <1>5, <3>1, <3>2 DEF PollAnswer, TypeOK
  <2>2. CASE s \notin TerminalStatus
    <3>1. /\ page' \in {page, "left"} /\ es' \in {es, NoConn} /\ polling' \in {polling, FALSE}
          /\ UNCHANGED <<shown, finished>>
      BY <1>5, <2>2 DEF PollAnswer, JobStatus, ActiveStatus
    <3>2. /\ answers' = answers \ {s}
          /\ UNCHANGED <<job, up, memory, task, request, conn, rerun, timer, waiting, bounds>>
      BY <1>5 DEF PollAnswer
    <3>3. page' \in {"open", "left"} /\ es' \in Conn \cup {NoConn} /\ answers' \subseteq JobStatus
      BY <3>1, <3>2 DEF TypeOK
    <3>4. {finished', polling', rerun', timer', waiting'} \subseteq BOOLEAN
      BY <3>1, <3>2 DEF TypeOK
    <3> QED
      BY <3>1, <3>2, <3>3, <3>4 DEF TypeOK
  <2> QED
    BY <2>1, <2>2
<1>6. CASE HandleInlineRetry
  BY <1>6 DEF HandleInlineRetry, TypeOK
<1>7. CASE OpenPage
  BY <1>7, BoundAssumption DEF OpenPage, TypeOK
<1> QED
  BY <1>1, <1>2, <1>3, <1>4, <1>5, <1>6, <1>7 DEF Answered

LEMMA ProcessTypes == ASSUME TypeOK, Crash \/ Restart PROVE TypeOK'
<1>1. CASE Crash
  <2>1. conn' \in [Conn -> Stream] /\ queue' \in [0 .. MaxRetries -> Seq(Completion)]
    BY <1>1, StreamIs DEF Crash
  <2>2. crashes' \in 0 .. MaxCrashes
    BY <1>1, BoundAssumption DEF Crash, TypeOK
  <2> QED
    BY <1>1, <2>1, <2>2 DEF Crash, TypeOK
<1>2. CASE Restart
  <2>1. status' \in JobStatus /\ failed' \in BOOLEAN
    BY <1>2 DEF Restart, TypeOK, JobStatus, TerminalStatus
  <2> QED
    BY <1>2, <2>1 DEF Restart, TypeOK
<1> QED
  BY <1>1, <1>2

Types == TypeOK /\ Room

LEMMA InitTypes == Init => Types
<1> SUFFICES ASSUME Init PROVE Types
  OBVIOUS
<1>1. conn \in [Conn -> Stream] /\ queue \in [0 .. MaxRetries -> Seq(Completion)]
  BY StreamIs DEF Init
<1>2. 0 \in 0 .. MaxRetries /\ 0 \in 0 .. MaxCrashes /\ 0 \in 0 .. MaxReloads
  BY BoundAssumption
<1> QED
  BY <1>1, <1>2 DEF Init, Types, TypeOK, Room, JobStatus, ActiveStatus

LEMMA RoomStays == ASSUME Room, [Next]_vars PROVE Room'
<1>1. CASE RunStep
  BY <1>1 DEF RunStep, RunStart, PageFails, Finalize, RejectBatch, RejectRetry, PushLate, Room
<1>2. CASE RequestStep \/ DeleteJob
  BY <1>2 DEF RequestStep, RetryRefused, RetryCommit, RetryStore, RetryAnswered, DeleteStore,
              DeleteJob, StoreReset, Room
<1>3. ASSUME NEW c \in Conn, StreamStep(c) \/ RunEffects(c) \/ ProcessingComplete(c) PROVE Room'
  BY <1>3 DEF StreamStep, StreamJob, StreamLookup, StreamEvent, StreamNotices, RunEffects,
              ProcessingComplete, Room
<1>4. CASE StreamError \/ Reconnect \/ Poll \/ Answered \/ HandleInlineRetry \/ OpenPage
  BY <1>4 DEF StreamError, Reconnect, Poll, Answered, PollAnswer, HandleInlineRetry, OpenPage, Room
<1>5. CASE Crash \/ Restart \/ UNCHANGED vars
  BY <1>5 DEF Crash, Restart, vars, Room
<1> QED
  BY <1>1, <1>2, <1>3, <1>4, <1>5 DEF Next

LEMMA NextTypes == Types /\ [Next]_vars => Types'
<1> SUFFICES ASSUME TypeOK, Room, [Next]_vars PROVE TypeOK'
  BY RoomStays DEF Types
<1>1. CASE UNCHANGED vars
  BY <1>1 DEF vars, TypeOK
<1>2. CASE Next
  BY <1>2, RunTypes, RequestTypes, StreamTypes, PageTypes, ProcessTypes DEF Next
<1> QED
  BY <1>1, <1>2

\* What the process, the streams and the page keep is well typed in every reachable state; a
\* retry's queue is one of those there is room for.
THEOREM TypeCorrect == Spec => []TypeOK
<1>1. Types => TypeOK
  BY DEF Types
<1> QED
  BY <1>1, InitTypes, NextTypes, PTL DEF Spec

-----------------------------------------------------------------------------
(* No event ends the page of a run that is at work.                         *)

\* While a run is at work nothing that ends a page is on its way to the page: the run's own
\* queue is empty, the store does not call the job ended, and the page's stream reads that
\* queue, or is about to.
RunSilent ==
  run # "none" =>
    /\ late = NoPush /\ queue[gen] = <<>>
    /\ store = "processing" \/ (store = "absent" /\ status = "gone")
    /\ \A c \in Conn : es = c =>
         \/ conn[c] \in {Closed, Asked, Refused, Live(gen)}
         \/ conn[c] = Lookup /\ status = "gone"

\* The queues to come are empty, and a run that is asked for has none before it at work.
Ahead ==
  /\ \A g \in 0 .. MaxRetries : g > gen => queue[g] = <<>>
  /\ request \in {"sent", "committed"} => run = "none" /\ late = NoPush
  /\ deleting => status = "gone"

\* A page that waits for a retry's answer has finished, and a finished page reads no stream.
PageQuiet ==
  /\ request # "none" => waiting
  /\ waiting => request # "none" /\ finished
  /\ finished => es = NoConn /\ ~rerun
  /\ shown # "processing" => finished

Early == RunSilent /\ Ahead /\ PageQuiet

LEMMA RunEarly == ASSUME Types, Early, RunStep PROVE Early'
<1>ty. TypeOK /\ RunSilent /\ Ahead /\ PageQuiet
  BY DEF Types, Early
<1>quiet. PageQuiet'
  BY <1>ty DEF PageQuiet, RunStep, RunStart, PageFails, Finalize, RejectBatch, RejectRetry, PushLate
<1>1. CASE RunStart \/ PageFails
  <2>1. RunSilent'
    BY <1>1, <1>ty DEF RunStart, PageFails, Update, RunSilent
  <2>2. Ahead'
    BY <1>1, <1>ty DEF RunStart, PageFails, Ahead
  <2> QED
    BY <1>quiet, <2>1, <2>2 DEF Early
<1>2. CASE Finalize \/ RejectBatch
  BY <1>2, <1>ty, <1>quiet DEF Finalize, RejectBatch, RunSilent, Ahead, Early
<1>3. CASE RejectRetry \/ PushLate
  <2>1. run' = "none" /\ UNCHANGED <<status, gen, request, deleting>>
    BY <1>3, <1>ty DEF RejectRetry, PushLate, RunSilent
  <2>2. \A g \in 0 .. MaxRetries : g > gen => queue'[g] = queue[g]
    <3>1. PICK data : PushEvent(data)
      BY <1>3 DEF RejectRetry, PushLate
    <3> QED
      BY <3>1, <1>ty DEF PushEvent, TypeOK
  <2>3. late' = NoPush \/ late' = late
    BY <1>3 DEF RejectRetry, PushLate
  <2>4. Ahead'
    BY <2>1, <2>2, <2>3, <1>ty DEF Ahead
  <2> QED
    BY <1>quiet, <2>1, <2>4 DEF RunSilent, Early
<1> QED
  BY <1>1, <1>2, <1>3 DEF RunStep

LEMMA RequestEarly == ASSUME Types, Early, RequestStep \/ DeleteJob PROVE Early'
<1>ty. TypeOK /\ Room /\ RunSilent /\ Ahead /\ PageQuiet
  BY DEF Types, Early
<1>1. CASE RetryRefused \/ RetryCommit
  BY <1>1, <1>ty DEF RetryRefused, RetryCommit, RunSilent, Ahead, PageQuiet, Early
<1>2. CASE RetryStore
  <2>1. /\ run = "none" /\ late = NoPush /\ es = NoConn /\ gen < MaxRetries
    BY <1>2, <1>ty DEF RetryStore, Ahead, PageQuiet, Room
  <2>2. /\ store' = "processing" /\ gen' = gen + 1 /\ request' = "accepted" /\ run' = "starting"
        /\ UNCHANGED <<job, up, queue, late, deleting, conn, browser, bounds>>
    BY <1>2 DEF RetryStore, StoreReset
  <2>3. queue'[gen'] = <<>>
    BY <2>1, <2>2, <1>ty, BoundAssumption DEF Ahead, TypeOK
  <2>4. RunSilent'
    BY <2>1, <2>2, <2>3, ConnAssumption DEF RunSilent
  <2>5. Ahead'
    BY <2>1, <2>2, <1>ty, BoundAssumption DEF Ahead, TypeOK
  <2>6. PageQuiet'
    BY <1>2, <2>2, <1>ty DEF PageQuiet, RetryStore
  <2> QED
    BY <2>4, <2>5, <2>6 DEF Early
<1>3. CASE RetryAnswered
  BY <1>3, <1>ty DEF RetryAnswered, Unfinished, RunSilent, Ahead, PageQuiet, Early
<1>4. CASE DeleteStore \/ DeleteJob
  BY <1>4, <1>ty DEF DeleteStore, DeleteJob, RunSilent, Ahead, PageQuiet, Early
<1> QED
  BY <1>1, <1>2, <1>3, <1>4 DEF RequestStep

\* A stream that no page reads any more, or that goes where an event has not come.
LEMMA StreamEarly == ASSUME Types, Early, NEW c \in Conn, StreamStep(c) PROVE Early'
<1>ty. TypeOK /\ RunSilent /\ Ahead /\ PageQuiet
  BY DEF Types, Early
<1>quiet. PageQuiet'
  BY <1>ty DEF PageQuiet, StreamStep, StreamJob, StreamLookup, StreamEvent, StreamNotices
<1>mem. UNCHANGED <<job, up, store, gen, task, request, browser, bounds>>
  BY DEF StreamStep, StreamJob, StreamLookup, StreamEvent, StreamNotices
<1>1. \A g \in 0 .. MaxRetries : queue[g] = <<>> => queue'[g] = <<>>
  <2>1. CASE StreamEvent(c)
    <3>1. PICK g \in 0 .. gen : queue[g] # <<>> /\ queue' = [queue EXCEPT ![g] = Tail(@)]
      BY <2>1 DEF StreamEvent
    <3> QED
      BY <3>1, <1>ty DEF TypeOK
  <2>2. CASE StreamJob(c) \/ StreamLookup(c) \/ StreamNotices(c)
    BY <2>2 DEF StreamJob, StreamLookup, StreamNotices
  <2> QED
    BY <2>1, <2>2 DEF StreamStep
<1>2. Ahead'
  BY <1>1, <1>mem, <1>ty DEF Ahead
<1>3. ASSUME run # "none", es = c
      PROVE  \/ conn'[c] \in {Closed, Asked, Refused, Live(gen)}
             \/ conn'[c] = Lookup /\ status = "gone"
  <2>1. /\ store = "processing" \/ (store = "absent" /\ status = "gone")
        /\ queue[gen] = <<>>
        /\ \/ conn[c] \in {Closed, Asked, Refused, Live(gen)}
           \/ conn[c] = Lookup /\ status = "gone"
    BY <1>3, <1>ty DEF RunSilent
  <2>2. CASE StreamJob(c)
    BY <2>1, <2>2, <1>ty DEF StreamJob, TypeOK, TerminalStatus
  <2>3. CASE StreamLookup(c)
    <3>1. conn[c] = Lookup
      BY <2>3 DEF StreamLookup
    <3>2. status = "gone"
      BY <2>1, <3>1, StreamAt
    <3> QED
      BY <2>3, <3>2, <1>ty DEF StreamLookup, TypeOK
  <2>4. CASE StreamEvent(c)
    <3>1. PICK g \in 0 .. gen : conn[c] = Live(g) /\ queue[g] # <<>>
      BY <2>4 DEF StreamEvent
    <3>2. conn[c].at = "live"
      BY <3>1, StreamAt
    <3>3. conn[c] = Live(gen)
      BY <2>1, <3>2, StreamAt
    <3>5. Live(g).on = Live(gen).on
      BY <3>1, <3>3
    <3>4. g = gen
      BY <3>5, StreamAt
    <3> QED
      BY <2>1, <3>1, <3>4, <1>3, <1>ty DEF RunSilent
  <2>5. CASE StreamNotices(c)
    BY <2>5, <1>3 DEF StreamNotices
  <2> QED
    BY <2>2, <2>3, <2>4, <2>5 DEF StreamStep
<1>4. \A d \in Conn : d # c => conn'[d] = conn[d]
  BY <1>ty DEF StreamStep, StreamJob, StreamLookup, StreamEvent, StreamNotices, TypeOK
<1>5. RunSilent'
  BY <1>1, <1>3, <1>4, <1>mem, <1>ty DEF RunSilent, TypeOK
<1> QED
  BY <1>quiet, <1>2, <1>5 DEF Early

LEMMA PageEarly ==
  ASSUME Types, Early, Patient, Eager,
         \/ \E c \in Conn : RunEffects(c) \/ ProcessingComplete(c)
         \/ StreamError \/ Reconnect \/ Poll \/ Answered \/ HandleInlineRetry \/ OpenPage
  PROVE  Early'
<1>ty. TypeOK /\ RunSilent /\ Ahead /\ PageQuiet
  BY DEF Types, Early
<1>1. ASSUME NEW c \in Conn, RunEffects(c) PROVE Early'
  <2>1. conn' = [conn EXCEPT ![c] = Asked] /\ es' = c /\ UNCHANGED <<job, up, memory, task, request, screen>>
    BY <1>1 DEF RunEffects
  <2>2. RunSilent'
    BY <2>1, <1>ty DEF RunSilent, TypeOK
  <2>3. Ahead' /\ PageQuiet'
    BY <1>1, <2>1, <1>ty DEF RunEffects, Ahead, PageQuiet
  <2> QED
    BY <2>2, <2>3 DEF Early
<1>2. ASSUME NEW c \in Conn, ProcessingComplete(c) PROVE Early'
  <2>1. PICK data \in Completion : conn[c] = Sent(data) /\ Finish(StatusShown(data))
    BY <1>2 DEF ProcessingComplete
  <2>2. /\ conn' = [conn EXCEPT ![c] = Closed] /\ Ready
        /\ UNCHANGED <<job, up, memory, task, request, rerun, waiting>>
    BY <1>2 DEF ProcessingComplete
  <2>3. es' \in {es, NoConn}
    BY <2>1 DEF Finish
  <2>4. RunSilent'
    BY <2>2, <2>3, <1>ty, ConnAssumption DEF RunSilent, TypeOK
  <2>5. Ahead'
    BY <2>2, <1>ty DEF Ahead
  <2>6. PageQuiet'
    BY <2>1, <2>2, <1>ty DEF Finish, Ready, PageQuiet
  <2> QED
    BY <2>4, <2>5, <2>6 DEF Early
<1>3. CASE StreamError \/ Reconnect \/ Poll \/ HandleInlineRetry
  <2>1. /\ es' \in {es, NoConn} /\ UNCHANGED <<job, up, memory, task, conn, shown, finished>>
    BY <1>3 DEF StreamError, Reconnect, Poll, HandleInlineRetry
  <2>2. RunSilent'
    BY <2>1, <1>ty, ConnAssumption DEF RunSilent
  <2>3. Ahead'
    BY <1>3, <2>1, <1>ty DEF StreamError, Reconnect, Poll, HandleInlineRetry, Ahead
  <2>4. PageQuiet'
    <3>1. CASE StreamError
      BY <3>1, <1>ty DEF StreamError, PageQuiet
    <3>2. CASE Reconnect
      BY <3>2, <1>ty DEF Reconnect, PageQuiet, TypeOK
    <3>3. CASE Poll
      BY <3>3, <1>ty DEF Poll, PageQuiet
    <3>4. CASE HandleInlineRetry
      BY <3>4, <1>ty DEF HandleInlineRetry, PageQuiet
    <3> QED
      BY <1>3, <3>1, <3>2, <3>3, <3>4
  <2> QED
    BY <2>2, <2>3, <2>4 DEF Early
<1>4. ASSUME NEW s \in JobStatus, PollAnswer(s) PROVE Early'
  <2>1. /\ es' \in {es, NoConn} /\ UNCHANGED <<job, up, memory, task, conn, request, rerun, waiting>>
    BY <1>4 DEF PollAnswer, Finish, JobStatus
  <2>2. RunSilent' /\ Ahead'
    BY <2>1, <1>ty, ConnAssumption DEF RunSilent, Ahead
  <2>3. PageQuiet'
    <3>1. \/ UNCHANGED <<shown, finished>>
          \/ finished' /\ es' = NoConn /\ ~finished
      BY <1>4 DEF PollAnswer, Finish, JobStatus
    <3>2. ~rerun
      BY <1>4 DEF PollAnswer, Ready
    <3> QED
      BY <2>1, <3>1, <3>2, <1>ty DEF PageQuiet
  <2> QED
    BY <2>2, <2>3 DEF Early
<1>5. CASE OpenPage
  <2>1. request = "none"
    BY <1>5, <1>ty DEF OpenPage, PageQuiet
  <2> QED
    BY <1>5, <2>1, <1>ty, ConnAssumption DEF OpenPage, RunSilent, Ahead, PageQuiet, Early
<1> QED
  BY <1>1, <1>2, <1>3, <1>4, <1>5 DEF Answered

LEMMA ProcessEarly == ASSUME Types, Early, Crash \/ Restart PROVE Early'
<1>ty. TypeOK /\ RunSilent /\ Ahead /\ PageQuiet
  BY DEF Types, Early
<1>1. CASE Crash
  BY <1>1, <1>ty DEF Crash, RunSilent, Ahead, PageQuiet, Early
<1>2. CASE Restart
  BY <1>2, <1>ty DEF Restart, RunSilent, Ahead, PageQuiet, Early, ActiveStatus
<1> QED
  BY <1>1, <1>2

LEMMA InitEarly == Init => Early
  BY ConnAssumption, BoundAssumption DEF Init, Early, RunSilent, Ahead, PageQuiet

LEMMA NextEarly == ASSUME Patient, Eager PROVE Types /\ Early /\ [Next]_vars => Early'
<1> SUFFICES ASSUME Types, Early, [Next]_vars PROVE Early'
  OBVIOUS
<1>1. CASE UNCHANGED vars
  BY <1>1 DEF vars, Early, RunSilent, Ahead, PageQuiet
<1>2. CASE Next
  BY <1>2, RunEarly, RequestEarly, StreamEarly, PageEarly, ProcessEarly DEF Next
<1> QED
  BY <1>1, <1>2

EarlyStep == (\E c \in Conn : ProcessingComplete(c)) /\ ~finished => run = "none"

LEMMA CompletionWaits == ASSUME Types, Early PROVE EarlyStep
<1> SUFFICES ASSUME NEW c \in Conn, ProcessingComplete(c), run # "none" PROVE FALSE
  BY DEF EarlyStep
<1>1. PICK data : conn[c] = Sent(data)
  BY DEF ProcessingComplete
<1>2. es = c /\ conn[c] \in {Closed, Asked, Refused, Live(gen), Lookup}
  BY DEF ProcessingComplete, Early, RunSilent
<1> QED
  BY <1>1, <1>2, StreamAt

\* An event never ends the page of a run that is at work, when the user retries what has ended
\* and React runs a revision's effects first: retry_job resets the store and replaces the queue
\* before its run starts, so that what an earlier run pushed goes to streams nobody reads.
THEOREM NotEarlyAlways == ASSUME Patient, Eager PROVE Spec => NotEarly
<1>1. Types /\ Early /\ [Next]_vars => [EarlyStep]_vars
  BY CompletionWaits
<1>2. [EarlyStep]_vars <=> [(\E c \in Conn : ProcessingComplete(c)) /\ ~finished => run = "none"]_vars
  BY DEF EarlyStep
<1>3. Types /\ Early /\ [Next]_vars => Early'
  BY NextEarly
<1> QED
  BY <1>1, <1>2, <1>3, InitTypes, NextTypes, InitEarly, PTL DEF Spec, NotEarly
=============================================================================
