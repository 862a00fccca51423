------------------------------- MODULE Review -------------------------------
(***************************************************************************)
(* What a user looks at once a job has run, in one browser tab: the list   *)
(* of its results (ResultsList), one result and its correction             *)
(* (ResultDetail), and the AI usage pages (Observability), with the        *)
(* endpoints they read.  Every loader of Observability is an effect that   *)
(* runs again when what it depends on changes, and whose cleanup cancels   *)
(* the run before; the other two pages load once.                          *)
(*                                                                         *)
(* A job has one result, named as the job is; its data is a number, 0 for  *)
(* none.  Of the usage rows only their number counts, and which query the  *)
(* rows on the screen answer; they are read and answered in one step.      *)
(* What a page that was left still reads changes nothing and is left out.  *)
(***************************************************************************)
EXTENDS Naturals, FiniteSets

CONSTANTS
  MaxData,     \* bound: versions of a result's data
  MaxOps,      \* bound: what the user does on a page, typing apart
  MaxStray,    \* bound: cancelled requests under way when the user goes on
  MaxEvents    \* bound: requests lost, results saved and jobs deleted meanwhile

ASSUME ReviewAssumption == {MaxData, MaxOps, MaxStray, MaxEvents} \subseteq Nat /\ MaxData > 0

None == 0
Job  == 1 .. 2
Data == 0 .. MaxData

RANGES     == {7, 30}
PAGE_SIZES == {1, 2}                                      \* stand for 10, 20, 50 and 100
Recent     == {1}                                         \* the jobs of the last 7 days
Calls(j)   == 3 - j                                       \* the AI calls recorded for each

Page   == {"dashboard", "results", "detail", "usage"}
Paged  == {"jobs", "calls"}
Loader == Paged \cup {"overview", "job"}
Query  == [days : RANGES \cup {0}, sort : BOOLEAN, job : 0 .. 2, reload : 0 .. MaxOps,
           page : Nat, size : PAGE_SIZES \cup {0}]
Table  == [page : Nat, size : PAGE_SIZES, loading : BOOLEAN, failed : BOOLEAN,
           shown : Query, total : Nat]
View   == [loading : BOOLEAN, rows : SUBSET Job, result : Data, draft : Data, boxes : BOOLEAN,
           editing : BOOLEAN, saving : BOOLEAN,
           days : RANGES, sort : BOOLEAN, reload : 0 .. MaxOps, job : 0 .. 2]
Request == [do : Loader \cup {"rows", "result", "fields", "save"}, n : 0 .. MaxOps, live : BOOLEAN,
            at : {"asked", "ok", "no"}, q : Query, value : Data]

VARIABLES
  \* the server
  stored,      \* the data of each job's result
  gone,        \* the jobs that were deleted
  \* App
  page, jobId, resultId,
  \* the page that is mounted, and the four loaders of Observability
  view, tables,
  \* what is under way
  requests,
  \* what has happened
  unsure,      \* a save's answer was lost, or the page was opened again while one was under way
  ops, events

server == <<stored, gone>>
app    == <<page, jobId, resultId>>
vars   == <<server, app, view, tables, requests, unsure, ops, events>>

TypeOK ==
  /\ stored \in [Job -> Data] /\ gone \subseteq Job
  /\ page \in Page /\ {jobId, resultId} \subseteq Job \cup {None}
  /\ page = "results" => jobId # None
  /\ page = "detail" => resultId # None
  /\ view \in View /\ view.saving => view.editing
  /\ DOMAIN tables = Loader /\ \A l \in Loader : tables[l] \in Table
  /\ requests \subseteq Request
  /\ unsure \in BOOLEAN /\ ops \in 0 .. MaxOps /\ events \in 0 .. MaxEvents

-----------------------------------------------------------------------------
(* Requests and pages. *)

NoQuery == [days |-> 0, sort |-> FALSE, job |-> None, reload |-> 0, page |-> 0, size |-> 0]

\* What loader l asks for, given the page's state and its own page and size.
buildPath(l, v, t) ==
  [days   |-> IF l \in {"overview", "jobs"} THEN v.days ELSE 0,
   sort   |-> l = "jobs" /\ v.sort,
   job    |-> IF l \in {"calls", "job"} THEN v.job ELSE None,
   reload |-> v.reload,
   page   |-> IF l \in Paged THEN t.page ELSE 0,
   size   |-> IF l \in Paged THEN t.size ELSE 0]

Ask(do, q) ==
  [do |-> do, n |-> 0, live |-> TRUE, at |-> "asked", q |-> q, value |-> 0]

FreshView ==
  [loading |-> TRUE, rows |-> {}, result |-> 0, draft |-> 0, boxes |-> FALSE, editing |-> FALSE,
   saving |-> FALSE, days |-> 30, sort |-> FALSE, reload |-> 0, job |-> None]
FreshTable ==
  [page |-> 0, size |-> 2, loading |-> TRUE, failed |-> FALSE, shown |-> NoQuery, total |-> 0]

About(j) == [NoQuery EXCEPT !.job = j]
fetchJson(l, v, t) == Ask(l, buildPath(l, v, t))

\* What a page asks for when it is mounted.
Loads(new, j) ==
  CASE new = "results" -> {Ask("rows", About(j))}
    [] new = "detail"  -> {Ask("result", About(j))}
    [] new = "usage"   -> {fetchJson(l, FreshView, FreshTable) : l \in Loader \ {"job"}}
    [] OTHER           -> {}

Left(rest) == {[r EXCEPT !.live = FALSE] : r \in rest}
Saves == {r \in requests : r.do = "save"}

navigate(new, j) ==
  /\ page' = new
  /\ jobId'    = IF new = "results" THEN j ELSE jobId
  /\ resultId' = IF new = "detail" THEN j ELSE resultId
  /\ view' = [FreshView EXCEPT !.loading = new \in {"results", "detail"}]
  /\ tables' = [l \in Loader |-> [FreshTable EXCEPT !.loading = new = "usage" /\ l # "job"]]
  /\ requests' = Left(Saves) \cup Loads(new, j)
  /\ unsure' = (unsure \/ (new = "detail" /\ Saves # {}))

\* The effects of the loaders ls run again with the page's state v: usePaged goes back to the
\* first page, and what it asked for with the old one is cancelled at once.
Rerun(ls, v) ==
  LET first == {fetchJson(l, v, tables[l]) : l \in {p \in ls \cap Paged : tables[p].page # 0}} IN
  /\ view' = v
  /\ tables' = [l \in Loader |->
       IF l \in ls THEN [tables[l] EXCEPT !.page = 0, !.loading = TRUE, !.failed = FALSE]
                   ELSE tables[l]]
  /\ requests' = Left({r \in requests : r.do \in ls} \cup first)
                   \cup {r \in requests : r.do \notin ls}
                   \cup {fetchJson(l, v, tables'[l]) : l \in ls}

\* Loader l has another page or size.
Turn(l, p, s) ==
  /\ tables' = [tables EXCEPT ![l].page = p, ![l].size = s, ![l].loading = TRUE, ![l].failed = FALSE]
  /\ requests' = Left({r \in requests : r.do = l}) \cup {r \in requests : r.do # l}
                   \cup {fetchJson(l, view, tables'[l])}
  /\ UNCHANGED view

-----------------------------------------------------------------------------
(* What the user does. *)

\* Job 1 has run, job 2 waits for its first result.
Init ==
  /\ stored = [j \in Job |-> 2 - j] /\ gone = {}
  /\ page = "dashboard" /\ jobId = None /\ resultId = None
  /\ view = [FreshView EXCEPT !.loading = FALSE]
  /\ tables = [l \in Loader |-> [FreshTable EXCEPT !.loading = FALSE]]
  /\ requests = {} /\ unsure = FALSE
  /\ ops = 0 /\ events = 0

Operation(where) ==
  /\ page = where /\ ops < MaxOps /\ ops' = ops + 1
  /\ Cardinality({r \in requests : ~r.live}) <= MaxStray
Elsewhere == UNCHANGED <<server, events>>
Stays == UNCHANGED <<server, app, unsure, events>>

\* Sidebar and the breadcrumbs; Dashboard's rows and Profile's button lead here.
Visit ==
  /\ Elsewhere
  /\ \/ page # "dashboard" /\ Operation(page) /\ navigate("dashboard", None)
     \/ page = "dashboard" /\ navigate("usage", None) /\ UNCHANGED ops
     \/ page = "dashboard" /\ (\E j \in Job : navigate("results", j)) /\ UNCHANGED ops

OpenResult ==
  /\ Elsewhere /\ Operation("results") /\ ~view.loading
  /\ \E r \in view.rows : navigate("detail", r)

\* The breadcrumb of a result leads back to its job, the button of JobDetail to the job's results.
OpenResults ==
  /\ Elsewhere
  /\ \/ Operation("detail") /\ ~view.loading /\ view.result # 0 /\ navigate("results", resultId)
     \/ Operation("usage") /\ view.job # None /\ navigate("results", view.job)

Loaded == page = "detail" /\ ~view.loading /\ view.result # 0
Edit ==
  /\ Loaded /\ ~view.editing
  /\ view' = [view EXCEPT !.editing = TRUE] /\ Stays /\ UNCHANGED <<tables, requests, ops>>

\* The boxes take any input while the page is in editing, also when a save is under way.
Type ==
  /\ Loaded /\ view.editing /\ view.boxes
  /\ \E d \in Data \ {0, view.draft} : view' = [view EXCEPT !.draft = d]
  /\ Stays /\ UNCHANGED <<tables, requests, ops>>

MutMayCancel == Loaded /\ view.editing                    \* not disabled by the save
MayCancel    == Loaded /\ view.editing /\ ~view.saving
Cancel ==
  /\ MayCancel
  /\ view' = [view EXCEPT !.editing = FALSE, !.draft = view.result]
  /\ Stays /\ UNCHANGED <<tables, requests, ops>>

handleSave ==
  /\ Loaded /\ Operation("detail") /\ view.editing /\ ~view.saving
  /\ view' = [view EXCEPT !.saving = TRUE]
  /\ requests' = requests \cup {[Ask("save", About(resultId)) EXCEPT !.n = ops, !.value = view.draft]}
  /\ Stays /\ UNCHANGED tables

\* The header of Observability, which JobDetail hides.
setDays ==
  /\ Operation("usage") /\ view.job = None /\ Stays
  /\ \E d \in RANGES \ {view.days} : Rerun({"overview", "jobs"}, [view EXCEPT !.days = d])

Refresh ==
  /\ Operation("usage") /\ view.job = None /\ Stays
  /\ Rerun({"overview", "jobs", "calls"}, [view EXCEPT !.reload = @ + 1])

\* The table's head is there once it has rows.
toggleSort ==
  /\ Operation("usage") /\ view.job = None /\ tables["jobs"].total > 0 /\ Stays
  /\ Rerun({"jobs"}, [view EXCEPT !.sort = ~@])

\* The pager of a list that has rows: its buttons wait for the answer, the size does not.
Pages(t) == (t.total + t.size - 1) \div t.size
Mounted == {"calls", "overview", IF view.job = None THEN "jobs" ELSE "job"}
onPageChange(l) ==
  /\ Operation("usage") /\ l \in Mounted /\ ~tables[l].loading /\ Stays
  /\ \E p \in 0 .. Pages(tables[l]) - 1 : p # tables[l].page /\ Turn(l, p, tables[l].size)

onPageSizeChange(l) ==
  /\ Operation("usage") /\ l \in Mounted /\ tables[l].total > 0 /\ Stays
  /\ \E s \in PAGE_SIZES \ {tables[l].size} : Turn(l, 0, s)

\* JobDetail takes the place of the two lists, and the lists come back as new ones; what the
\* page itself asked for goes on.
Swap(j, new) ==
  LET v == [view EXCEPT !.job = j, !.sort = FALSE] IN
  /\ view' = v
  /\ tables' = [l \in Loader |-> IF l = "overview" THEN tables[l]
                                 ELSE [FreshTable EXCEPT !.loading = l \in new]]
  /\ requests' = Left({r \in requests : r.do # "overview"})
                   \cup {r \in requests : r.do = "overview"}
                   \cup {fetchJson(l, v, FreshTable) : l \in new}

openJob ==
  /\ Operation("usage") /\ view.job = None /\ tables["jobs"].total > 0 /\ Stays
  /\ \E j \in Job : Swap(j, {"job", "calls"})

onBack == Operation("usage") /\ view.job # None /\ Stays /\ Swap(None, {"jobs", "calls"})

User ==
  \/ Visit \/ OpenResult \/ OpenResults \/ Edit \/ Type \/ Cancel \/ handleSave
  \/ setDays \/ Refresh \/ toggleSort \/ openJob \/ onBack
  \/ \E l \in Paged : onPageChange(l) \/ onPageSizeChange(l)

-----------------------------------------------------------------------------
(* What the server does. *)

Reply(r, at, value) == requests' = (requests \ {r}) \cup {[r EXCEPT !.at = at, !.value = value]}

\* The result is the caller's: of a job that is there.
_get_owned_result(j) == j \notin gone /\ stored[j] # 0

list_job_results(r) ==
  /\ r.do = "rows" /\ UNCHANGED stored
  /\ IF r.q.job \in gone THEN Reply(r, "no", 0) ELSE Reply(r, "ok", stored[r.q.job])

get_result(r) ==
  /\ r.do = "result" /\ UNCHANGED stored
  /\ IF _get_owned_result(r.q.job) THEN Reply(r, "ok", stored[r.q.job]) ELSE Reply(r, "no", 0)

\* The blueprint may be gone, also without a trace in the result.
get_blueprint(r) ==
  /\ r.do = "fields" /\ UNCHANGED stored /\ \E at \in {"ok", "no"} : Reply(r, at, 0)

correct_result(r) ==
  /\ r.do = "save"
  /\ IF _get_owned_result(r.q.job)
       THEN Reply(r, "ok", r.value) /\ stored' = [stored EXCEPT ![r.q.job] = r.value]
       ELSE Reply(r, "no", r.value) /\ UNCHANGED stored

\* Usage is counted by the calls that are recorded; a job that was deleted is not listed.
Used(days) == {j \in Job : days = 30 \/ j \in Recent}
_job_rows(days) == Used(days) \ gone
list_calls(j) ==
  CASE j = None    -> Calls(1) + Calls(2)
    [] j \in gone  -> 0                                   \* job_id is cleared with the job
    [] OTHER       -> Calls(j)

\* What a usage query brings; the detail of a job without calls is not found.
Found(l, q) == l = "job" => q.job \in _job_rows(30)
Total(l, q) ==
  CASE l = "overview" -> Cardinality(Used(q.days))
    [] l = "jobs"     -> Cardinality(_job_rows(q.days))
    [] l = "calls"    -> list_calls(q.job)
    [] l = "job"      -> 1

Serve(r) ==
  /\ r.at = "asked"
  /\ \/ list_job_results(r) \/ get_result(r) \/ get_blueprint(r) \/ correct_result(r)
  /\ UNCHANGED <<gone, app, view, tables, unsure, ops, events>>

\* A request is lost, or an answer that brought something.
Fail(r) ==
  /\ r.do \notin Loader /\ r.at \in {"asked", "ok"} /\ events < MaxEvents /\ events' = events + 1
  /\ Reply(r, "no", 0)
  /\ unsure' = (unsure \/ (r.do = "save" /\ r.at = "ok"))
  /\ UNCHANGED <<server, app, view, tables, ops>>

Background ==
  /\ events < MaxEvents /\ events' = events + 1
  /\ UNCHANGED <<app, view, tables, requests, unsure, ops>>

\* The pipeline saves a result; a job is deleted in another tab.
SaveResult(j) ==
  /\ j \notin gone /\ stored[j] = 0 /\ stored' = [stored EXCEPT ![j] = 1]
  /\ Background /\ UNCHANGED gone
delete_job(j) == j \notin gone /\ gone' = gone \cup {j} /\ Background /\ UNCHANGED stored

-----------------------------------------------------------------------------
(* What the browser does with the answer to a request. *)

Rest(r) == requests \ {r}

\* ResultsList and ResultDetail ask for the fields next, once there is a result.
RowsLoaded(r) ==
  LET some == r.at = "ok" /\ r.value # 0 IN
  /\ r.do = "rows"
  /\ view' = [view EXCEPT !.rows = IF some THEN {r.q.job} ELSE {}, !.loading = some]
  /\ requests' = Rest(r) \cup (IF some THEN {Ask("fields", r.q)} ELSE {})
  /\ UNCHANGED tables

ResultLoaded(r) ==
  /\ r.do = "result"
  /\ IF r.at = "ok"
       THEN /\ view' = [view EXCEPT !.result = r.value, !.draft = r.value]
            /\ requests' = Rest(r) \cup {Ask("fields", r.q)}
       ELSE view' = [view EXCEPT !.loading = FALSE] /\ requests' = Rest(r)
  /\ UNCHANGED tables

FieldsLoaded(r) ==
  /\ r.do = "fields"
  /\ view' = [view EXCEPT !.boxes = r.at = "ok", !.loading = FALSE]
  /\ requests' = Rest(r) /\ UNCHANGED tables

MutUpdated(r) == view.draft                               \* the draft taken over, not the answer
Updated(r)    == r.value
Saved(r) ==
  /\ r.do = "save"
  /\ view' = IF r.at = "ok"
               THEN [view EXCEPT !.result = Updated(r), !.editing = FALSE, !.saving = FALSE]
               ELSE [view EXCEPT !.saving = FALSE]
  /\ requests' = Rest(r) /\ UNCHANGED tables

\* JobDetail has no loading of its own: it waits for a job for as long as none has come.
MutSettled(l, ok) == ok                                   \* in the then clause, not in finally
Settled(l, ok)    == l # "job" \/ ok
Answered(l, q, ok) ==
  tables' = [tables EXCEPT ![l].loading = ~Settled(l, ok), ![l].failed = ~ok,
                           ![l].shown = IF ok THEN q ELSE @,
                           ![l].total = IF ok THEN Total(l, q) ELSE @]

\* A cleanup ran, or the page was left: nothing but a toast.
MutHeard(r) == r.live \/ r.do \in Loader                  \* no cancelled flag
Heard(r)    == r.live
Dropped(r) == ~Heard(r) /\ requests' = Rest(r) /\ UNCHANGED <<view, tables>>

Deliver(r) ==
  /\ r.at # "asked"
  /\ \/ Heard(r) /\ (RowsLoaded(r) \/ ResultLoaded(r) \/ FieldsLoaded(r) \/ Saved(r))
     \/ Dropped(r)
  /\ UNCHANGED <<server, app, unsure, ops, events>>

\* A usage query is answered, or lost.
Read(r) ==
  /\ r.do \in Loader
  /\ \/ /\ Heard(r) /\ requests' = Rest(r) /\ UNCHANGED view
        /\ \/ Answered(r.do, r.q, Found(r.do, r.q)) /\ UNCHANGED events
           \/ events < MaxEvents /\ events' = events + 1 /\ Answered(r.do, r.q, FALSE)
     \/ Dropped(r) /\ UNCHANGED events
  /\ UNCHANGED <<server, app, unsure, ops>>

-----------------------------------------------------------------------------

Next ==
  \/ User
  \/ \E r \in requests : Serve(r) \/ Fail(r) \/ Deliver(r) \/ Read(r)
  \/ \E j \in Job : SaveResult(j) \/ delete_job(j)

\* Every request is answered, and the browser runs what waits for an answer.
Spec == Init /\ [][Next]_vars
          /\ WF_vars(\E r \in requests : Serve(r)) /\ WF_vars(\E r \in requests : Deliver(r))
          /\ WF_vars(\E r \in requests : Read(r))

-----------------------------------------------------------------------------
(* Properties. *)

\* A list that has loaded shows what its range, job, order, page and size ask for, however
\* many answers were overtaken, unless the last request failed (usePaged, Observability and
\* JobDetail: the cancelled flag of every effect).
ShownAsAsked ==
  page = "usage" =>
    \A l \in Mounted : ~tables[l].loading /\ ~tables[l].failed
                          => tables[l].shown = buildPath(l, view, tables[l])

\* However much is typed while a save is under way, the result that a page keeps, to which Cancel
\* goes back and which it shows where the blueprint is gone, is the one that is stored, unless an
\* answer was lost or a visit overtook a save (ResultDetail's result against correct_result).
\* The boxes show the draft, typed while the save was under way or not: they may differ.
DetailAgrees ==
  (Loaded /\ ~unsure /\ Saves = {} /\ resultId \notin gone)
     => view.result = stored[resultId]

Waits == view.loading \/ view.saving \/ (page = "usage" /\ \E l \in Mounted : tables[l].loading)

\* Whatever fails, no page loads for ever and no button stays disabled; only JobDetail goes on
\* showing its spinner when its one request has failed (Observability.jsx:283).
LoadEnds == Waits ~> (~Waits \/ (view.job # None /\ tables["job"].failed))
=============================================================================
