--------------------------- MODULE Review_proofs ---------------------------
(***************************************************************************)
(* Proofs for any bounds: a usage list which has loaded answers the query  *)
(* on the screen, however many requests were overtaken; the pages of       *)
(* results keep their types; and the result a page keeps is the stored one *)
(* whatever is typed while it is saved.                                    *)
(***************************************************************************)
EXTENDS Review, FiniteSetTheorems, TLAPS

-----------------------------------------------------------------------------
(* The strengthening.  Of the requests of the loaders only those that were *)
(* not cancelled count, and each of them asks what its loader would ask    *)
(* now: whatever changes that cancels them in the same step.               *)

ViewFields  == {"days", "sort", "job", "reload"}
TableFields == {"page", "size", "loading", "failed", "shown"}

Shapes ==
  /\ ViewFields \subseteq DOMAIN view
  /\ DOMAIN tables = Loader /\ \A l \in Loader : TableFields \subseteq DOMAIN tables[l]
  /\ \A r \in requests : {"do", "live", "q"} \subseteq DOMAIN r

Running(r) == r.do \in Loader /\ r.live
LiveAsks ==
  \A r \in requests : Running(r) =>
    page = "usage" /\ r.do \in Mounted /\ r.q = buildPath(r.do, view, tables[r.do])

ReviewInv == Shapes /\ LiveAsks /\ ShownAsAsked

\* The requests of R that run did so in S.
Tame(R, S) ==
  \A q \in R :
    /\ {"do", "live", "q"} \subseteq DOMAIN q
    /\ Running(q) => \E r \in S : Running(r) /\ r.do = q.do /\ r.q = q.q

-----------------------------------------------------------------------------
(* Queries and requests.                                                   *)

\* What a query is made of, loader by loader.
LEMMA PathDepends ==
  ASSUME NEW l, NEW v, NEW w, NEW t, NEW u,
         l \in {"overview", "jobs"} => v.days = w.days,
         l = "jobs" => v.sort = w.sort,
         l \in {"calls", "job"} => v.job = w.job,
         v.reload = w.reload,
         l \in Paged => t.page = u.page /\ t.size = u.size
  PROVE  buildPath(l, v, t) = buildPath(l, w, u)
<1>1. CASE l = "jobs"
  BY <1>1 DEF buildPath, Paged
<1>2. CASE l # "jobs"
  BY <1>2 DEF buildPath, Paged
<1> QED
  BY <1>1, <1>2

\* What fetchJson sends asks what the loader's page and size say.
LEMMA Fetched ==
  ASSUME NEW l, NEW v, NEW t
  PROVE  /\ {"do", "live", "q"} \subseteq DOMAIN fetchJson(l, v, t)
         /\ fetchJson(l, v, t).do = l
         /\ fetchJson(l, v, t).q = buildPath(l, v, t)
  BY DEF fetchJson, Ask

\* A cleanup leaves no request running.
LEMMA LeftStops ==
  ASSUME NEW R, \A r \in R : {"do", "live", "q"} \subseteq DOMAIN r
  PROVE  \A q \in Left(R) : {"do", "live", "q"} \subseteq DOMAIN q /\ ~Running(q)
<1> SUFFICES ASSUME NEW r \in R
             PROVE  /\ {"do", "live", "q"} \subseteq DOMAIN [r EXCEPT !.live = FALSE]
                    /\ ~Running([r EXCEPT !.live = FALSE])
  BY DEF Left
<1> QED
  BY DEF Running

\* A step that leaves the query of every loader alone, and sends none, keeps the invariant.
LEMMA QuietInv ==
  ASSUME ReviewInv, UNCHANGED <<page, tables>>, Tame(requests', requests),
         ViewFields \subseteq DOMAIN view',
         \A f \in ViewFields : view'[f] = view[f]
  PROVE  ReviewInv'
<1>1. /\ view'.days = view.days /\ view'.sort = view.sort
      /\ view'.job = view.job /\ view'.reload = view.reload
  BY DEF ViewFields
<1>2. \A l \in Loader : buildPath(l, view', tables'[l]) = buildPath(l, view, tables[l])
  BY <1>1, PathDepends
<1>3. Mounted' = Mounted /\ Mounted \subseteq Loader
  BY <1>1 DEF Mounted, Loader, Paged
<1> QED
  BY <1>2, <1>3 DEF ReviewInv, Shapes, LiveAsks, ShownAsAsked, Tame, Running

\* What a step drops does not run any more.
LEMMA SubsetTame ==
  ASSUME Shapes, NEW R, R \subseteq requests
  PROVE  Tame(R, requests)
  BY DEF Shapes, Tame

-----------------------------------------------------------------------------
(* Navigation, and what makes the loaders run again.                       *)

\* A page that is mounted starts with its own requests; those of the loaders come with Observability.
LEMMA NavigateInv ==
  ASSUME Shapes, NEW new, NEW j, navigate(new, j)
  PROVE  ReviewInv'
<1>1. /\ page' = new
      /\ view' = [FreshView EXCEPT !.loading = new \in {"results", "detail"}]
      /\ tables' = [l \in Loader |-> [FreshTable EXCEPT !.loading = new = "usage" /\ l # "job"]]
      /\ requests' = Left(Saves) \cup Loads(new, j)
  BY DEF navigate
<1>2. /\ ViewFields \subseteq DOMAIN view' /\ view'.days = FreshView.days
      /\ view'.sort = FreshView.sort /\ view'.job = None /\ view'.reload = FreshView.reload
      /\ FreshView.job = None
  BY <1>1 DEF FreshView, ViewFields
<1>3. /\ DOMAIN tables' = Loader
      /\ \A l \in Loader : /\ TableFields \subseteq DOMAIN tables'[l]
                           /\ tables'[l].page = FreshTable.page /\ tables'[l].size = FreshTable.size
                           /\ tables'[l].loading = (new = "usage" /\ l # "job")
  BY <1>1 DEF FreshTable, TableFields
<1>4. Mounted' = Loader \ {"job"}
  BY <1>2 DEF Mounted, Loader, Paged, None
<1>5. \A q \in Left(Saves) : {"do", "live", "q"} \subseteq DOMAIN q /\ ~Running(q)
  BY LeftStops DEF Saves, Shapes
<1>6. ASSUME NEW q \in Loads(new, j)
      PROVE  /\ {"do", "live", "q"} \subseteq DOMAIN q
             /\ Running(q) => /\ new = "usage" /\ q.do \in Loader \ {"job"}
                              /\ q.q = buildPath(q.do, FreshView, FreshTable)
  <2>1. CASE new = "usage"
    <3>1. PICK l \in Loader \ {"job"} : q = fetchJson(l, FreshView, FreshTable)
      BY <2>1 DEF Loads
    <3> QED
      BY <2>1, <3>1, Fetched
  <2>2. CASE new # "usage"
    <3>1. q = Ask("rows", About(j)) \/ q = Ask("result", About(j))
      BY <2>2 DEF Loads
    <3> QED
      BY <3>1 DEF Ask, Running, Loader, Paged
  <2> QED
    BY <2>1, <2>2
<1>7. \A l \in Loader : buildPath(l, view', tables'[l]) = buildPath(l, FreshView, FreshTable)
  BY <1>2, <1>3, PathDepends
<1>8. Shapes'
  BY <1>1, <1>2, <1>3, <1>5, <1>6 DEF Shapes
<1>9. LiveAsks'
  BY <1>1, <1>4, <1>5, <1>6, <1>7 DEF LiveAsks
<1>10. ShownAsAsked'
  BY <1>1, <1>3, <1>4 DEF ShownAsAsked
<1> QED
  BY <1>8, <1>9, <1>10 DEF ReviewInv

\* The loaders of ls ask again, the others ask what they asked.
LEMMA RerunInv ==
  ASSUME ReviewInv, page = "usage", page' = page, NEW ls, NEW v, Rerun(ls, v),
         ls \subseteq {"overview", "jobs", "calls"},
         ViewFields \subseteq DOMAIN v, view.job = None, v.job = None,
         \A l \in Mounted \ ls : \A t : buildPath(l, v, t) = buildPath(l, view, t)
  PROVE  ReviewInv'
<1> DEFINE first == {fetchJson(l, v, tables[l]) : l \in {p \in ls \cap Paged : tables[p].page # 0}}
           old   == {r \in requests : r.do \in ls} \cup first
<1>1. /\ view' = v
      /\ tables' = [l \in Loader |->
           IF l \in ls THEN [tables[l] EXCEPT !.page = 0, !.loading = TRUE, !.failed = FALSE]
                       ELSE tables[l]]
      /\ requests' = Left(old) \cup {r \in requests : r.do \notin ls}
                       \cup {fetchJson(l, v, tables'[l]) : l \in ls}
  BY DEF Rerun
<1>2. /\ DOMAIN tables' = Loader
      /\ \A l \in Loader : /\ TableFields \subseteq DOMAIN tables'[l]
                           /\ l \in ls => tables'[l].loading = TRUE
                           /\ l \notin ls => tables'[l] = tables[l]
  BY <1>1 DEF ReviewInv, Shapes, TableFields
<1>1a. view' = v
  BY <1>1
<1>3. \A r \in old : {"do", "live", "q"} \subseteq DOMAIN r
  BY Fetched DEF ReviewInv, Shapes
<1>4. \A q \in Left(old) : {"do", "live", "q"} \subseteq DOMAIN q /\ ~Running(q)
  BY <1>3, LeftStops
<1> HIDE DEF old, first
<1>5. Mounted' = Mounted /\ Mounted = {"overview", "jobs", "calls"} /\ Mounted \subseteq Loader
  BY <1>1 DEF Mounted, Loader, Paged
<1>6. ASSUME NEW q \in requests'
      PROVE  /\ {"do", "live", "q"} \subseteq DOMAIN q
             /\ Running(q) => q.do \in Mounted' /\ q.q = buildPath(q.do, view', tables'[q.do])
  <2>1. CASE q \in Left(old)
    BY <1>4, <2>1
  <2>2. CASE q \in requests /\ q.do \notin ls
    <3>1. {"do", "live", "q"} \subseteq DOMAIN q
      BY <2>2 DEF ReviewInv, Shapes
    <3>2. ASSUME Running(q)
          PROVE  /\ q.do \in Mounted \ ls /\ tables'[q.do] = tables[q.do]
                 /\ q.q = buildPath(q.do, view, tables[q.do])
      BY <1>2, <1>5, <2>2, <3>2 DEF ReviewInv, LiveAsks
    <3>3. ASSUME Running(q) PROVE q.q = buildPath(q.do, v, tables'[q.do])
      BY <3>2, <3>3
    <3> QED
      BY <1>1a, <1>5, <3>1, <3>2, <3>3
  <2>3. CASE q \in {fetchJson(l, v, tables'[l]) : l \in ls}
    <3>1. PICK l \in ls : q = fetchJson(l, v, tables'[l])
      BY <2>3
    <3> QED
      <4>1. {"do", "live", "q"} \subseteq DOMAIN q /\ q.do = l /\ q.q = buildPath(l, v, tables'[l])
        BY <3>1, Fetched
      <4> QED
        BY <1>1a, <1>5, <4>1
  <2> QED
    BY <1>1, <2>1, <2>2, <2>3
<1>7. Shapes'
  BY <1>1, <1>2, <1>6 DEF Shapes
<1>8. LiveAsks'
  BY <1>6 DEF LiveAsks
<1>9. ShownAsAsked'
  <2>1. ASSUME NEW l \in Mounted, ~tables'[l].loading, ~tables'[l].failed
        PROVE  tables'[l].shown = buildPath(l, view', tables'[l])
    <3>1. l \in Mounted \ ls /\ tables'[l] = tables[l]
      BY <1>2, <1>5, <2>1
    <3>2. tables[l].shown = buildPath(l, view, tables[l])
      BY <2>1, <3>1 DEF ReviewInv, ShownAsAsked
    <3>3. buildPath(l, v, tables[l]) = buildPath(l, view, tables[l])
      BY <3>1
    <3> QED
      BY <1>1a, <3>1, <3>2, <3>3
  <2> QED
    BY <1>5, <2>1 DEF ShownAsAsked
<1> QED
  BY <1>7, <1>8, <1>9 DEF ReviewInv

\* One list has another page or size, and asks again.
LEMMA TurnInv ==
  ASSUME ReviewInv, page = "usage", page' = page, NEW l \in Mounted, NEW p, NEW s, Turn(l, p, s)
  PROVE  ReviewInv'
<1>0. Mounted' = Mounted /\ Mounted \subseteq Loader
  BY DEF Turn, Mounted, Loader, Paged
<1>1. /\ view' = view
      /\ tables' = [tables EXCEPT ![l].page = p, ![l].size = s, ![l].loading = TRUE, ![l].failed = FALSE]
      /\ requests' = Left({r \in requests : r.do = l}) \cup {r \in requests : r.do # l}
                       \cup {fetchJson(l, view, tables'[l])}
  BY DEF Turn
<1>2. /\ DOMAIN tables' = Loader
      /\ \A k \in Loader : /\ TableFields \subseteq DOMAIN tables'[k]
                           /\ k # l => tables'[k] = tables[k]
      /\ tables'[l].loading = TRUE
  BY <1>0, <1>1 DEF ReviewInv, Shapes, TableFields
<1>3. \A q \in Left({r \in requests : r.do = l}) : {"do", "live", "q"} \subseteq DOMAIN q /\ ~Running(q)
  BY LeftStops DEF ReviewInv, Shapes
<1>4. ASSUME NEW q \in requests'
      PROVE  /\ {"do", "live", "q"} \subseteq DOMAIN q
             /\ Running(q) => q.do \in Mounted' /\ q.q = buildPath(q.do, view', tables'[q.do])
  <2>1. CASE q \in requests /\ q.do # l
    BY <1>0, <1>1, <1>2, <2>1 DEF ReviewInv, Shapes, LiveAsks
  <2>2. CASE q = fetchJson(l, view, tables'[l])
    <3>1. {"do", "live", "q"} \subseteq DOMAIN q /\ q.do = l /\ q.q = buildPath(l, view, tables'[l])
      BY <2>2, Fetched
    <3>2. view' = view
      BY <1>1
    <3> QED
      BY <1>0, <3>1, <3>2
  <2> QED
    BY <1>1, <1>3, <2>1, <2>2
<1>5. Shapes'
  BY <1>1, <1>2, <1>4 DEF ReviewInv, Shapes
<1>6. LiveAsks'
  BY <1>4 DEF LiveAsks
<1>7. ShownAsAsked'
  BY <1>0, <1>1, <1>2 DEF ReviewInv, ShownAsAsked
<1> QED
  BY <1>5, <1>6, <1>7 DEF ReviewInv

\* The lists of Observability and those of JobDetail take turns; the overview is neither's.
LEMMA SwapInv ==
  ASSUME ReviewInv, page = "usage", page' = page, NEW j, NEW new, Swap(j, new),
         \/ j = None /\ new = {"jobs", "calls"}
         \/ j # None /\ new = {"job", "calls"}
  PROVE  ReviewInv'
<1> DEFINE v == [view EXCEPT !.job = j, !.sort = FALSE]
<1>1. /\ view' = v
      /\ tables' = [l \in Loader |-> IF l = "overview" THEN tables[l]
                                     ELSE [FreshTable EXCEPT !.loading = l \in new]]
      /\ requests' = Left({r \in requests : r.do # "overview"})
                       \cup {r \in requests : r.do = "overview"}
                       \cup {fetchJson(l, v, FreshTable) : l \in new}
  BY DEF Swap
<1>2. /\ ViewFields \subseteq DOMAIN v /\ v.job = j
      /\ v.days = view.days /\ v.reload = view.reload
  BY DEF ReviewInv, Shapes, ViewFields
<1> HIDE DEF v
<1>3. /\ Mounted' = new \cup {"overview"} /\ Mounted' \subseteq Loader
      /\ "overview" \notin new
  BY <1>1, <1>2 DEF Mounted, Loader, Paged
<1>4. /\ DOMAIN tables' = Loader
      /\ \A l \in Loader \ {"overview"} :
           /\ TableFields \subseteq DOMAIN tables'[l]
           /\ tables'[l].page = FreshTable.page /\ tables'[l].size = FreshTable.size
           /\ tables'[l].loading = (l \in new)
      /\ "overview" \in Loader /\ tables'["overview"] = tables["overview"]
  BY <1>1 DEF FreshTable, TableFields, Loader
<1>5. buildPath("overview", view', tables'["overview"]) = buildPath("overview", view, tables["overview"])
  BY <1>1, <1>2, PathDepends DEF Paged
<1>6. \A l \in new : buildPath(l, view', tables'[l]) = buildPath(l, v, FreshTable)
  BY <1>1, <1>3, <1>4, PathDepends
<1>7. \A q \in Left({r \in requests : r.do # "overview"}) :
        {"do", "live", "q"} \subseteq DOMAIN q /\ ~Running(q)
  BY LeftStops DEF ReviewInv, Shapes
<1>8. ASSUME NEW q \in requests'
      PROVE  /\ {"do", "live", "q"} \subseteq DOMAIN q
             /\ Running(q) => q.do \in Mounted' /\ q.q = buildPath(q.do, view', tables'[q.do])
  <2>1. CASE q \in requests /\ q.do = "overview"
    BY <1>3, <1>5, <2>1 DEF ReviewInv, Shapes, LiveAsks
  <2>2. CASE q \in {fetchJson(l, v, FreshTable) : l \in new}
    <3>1. PICK l \in new : q = fetchJson(l, v, FreshTable)
      BY <2>2
    <3> QED
      BY <1>3, <1>6, <3>1, Fetched
  <2> QED
    BY <1>1, <1>7, <2>1, <2>2
<1>9. Shapes'
  BY <1>1, <1>2, <1>4, <1>8 DEF ReviewInv, Shapes
<1>10. LiveAsks'
  BY <1>8 DEF LiveAsks
<1>11. ShownAsAsked'
  <2>1. ~tables["overview"].loading /\ ~tables["overview"].failed
          => tables["overview"].shown = buildPath("overview", view, tables["overview"])
    BY DEF ReviewInv, ShownAsAsked, Mounted
  <2> QED
    BY <1>3, <1>4, <1>5, <2>1 DEF ShownAsAsked
<1> QED
  BY <1>9, <1>10, <1>11 DEF ReviewInv

-----------------------------------------------------------------------------
(* Every step.                                                             *)

\* What the user does on the pages of results concerns no loader.
LEMMA EditingInv ==
  ASSUME ReviewInv, Edit \/ Type \/ Cancel \/ handleSave
  PROVE  ReviewInv'
<1>1. UNCHANGED <<page, tables>>
  BY DEF Edit, Type, Cancel, handleSave, Stays, app
<1>2. ViewFields \subseteq DOMAIN view' /\ \A f \in ViewFields : view'[f] = view[f]
  BY DEF Edit, Type, Cancel, handleSave, ReviewInv, Shapes, ViewFields
<1>3. Tame(requests', requests)
  <2>1. CASE requests' = requests
    BY <2>1, SubsetTame DEF ReviewInv
  <2>2. CASE handleSave
    <3> DEFINE q == [Ask("save", About(resultId)) EXCEPT !.n = ops, !.value = view.draft]
    <3>1. requests' = requests \cup {q}
      BY <2>2 DEF handleSave
    <3>2. {"do", "live", "q"} \subseteq DOMAIN q /\ q.do = "save"
      BY DEF Ask
    <3> HIDE DEF q
    <3> QED
      BY <3>1, <3>2 DEF Tame, ReviewInv, Shapes, Running, Loader, Paged
  <2> QED
    BY <2>1, <2>2 DEF Edit, Type, Cancel
<1> QED
  BY <1>1, <1>2, <1>3, QuietInv

\* Whatever changes what a loader asks for makes it ask again.
LEMMA UserInv ==
  ASSUME ReviewInv, User
  PROVE  ReviewInv'
<1>0. Shapes
  BY DEF ReviewInv
<1>1. CASE Visit \/ OpenResult \/ OpenResults
  <2>1. PICK new, j : navigate(new, j)
    BY <1>1 DEF Visit, OpenResult, OpenResults
  <2> QED
    BY <1>0, <2>1, NavigateInv
<1>2. CASE Edit \/ Type \/ Cancel \/ handleSave
  BY <1>2, EditingInv
<1>3. CASE setDays
  <2>1. PICK d : Rerun({"overview", "jobs"}, [view EXCEPT !.days = d])
    BY <1>3 DEF setDays
  <2> DEFINE v == [view EXCEPT !.days = d]
  <2>2. page = "usage" /\ page' = page /\ view.job = None
    BY <1>3 DEF setDays, Operation, Stays, app
  <2>3. /\ ViewFields \subseteq DOMAIN v /\ v.job = view.job /\ v.sort = view.sort
        /\ v.reload = view.reload
    BY <1>0 DEF Shapes, ViewFields
  <2> HIDE DEF v
  <2>4. ASSUME NEW l \in Mounted \ {"overview", "jobs"}, NEW t
        PROVE  buildPath(l, v, t) = buildPath(l, view, t)
    BY <2>3, PathDepends
  <2> QED
    BY <2>1, <2>2, <2>3, <2>4, RerunInv DEF v
<1>4. CASE Refresh
  <2> DEFINE v == [view EXCEPT !.reload = @ + 1]
  <2>1. Rerun({"overview", "jobs", "calls"}, v)
    BY <1>4 DEF Refresh
  <2>2. page = "usage" /\ page' = page /\ view.job = None
    BY <1>4 DEF Refresh, Operation, Stays, app
  <2>3. ViewFields \subseteq DOMAIN v /\ v.job = view.job
    BY <1>0 DEF Shapes, ViewFields
  <2>4. Mounted \ {"overview", "jobs", "calls"} = {}
    BY <2>2 DEF Mounted
  <2> HIDE DEF v
  <2> QED
    BY <2>1, <2>2, <2>3, <2>4, RerunInv
<1>5. CASE toggleSort
  <2> DEFINE v == [view EXCEPT !.sort = ~@]
  <2>1. Rerun({"jobs"}, v)
    BY <1>5 DEF toggleSort
  <2>2. page = "usage" /\ page' = page /\ view.job = None
    BY <1>5 DEF toggleSort, Operation, Stays, app
  <2>3. /\ ViewFields \subseteq DOMAIN v /\ v.job = view.job /\ v.days = view.days
        /\ v.reload = view.reload
    BY <1>0 DEF Shapes, ViewFields
  <2> HIDE DEF v
  <2>4. ASSUME NEW l \in Mounted \ {"jobs"}, NEW t
        PROVE  buildPath(l, v, t) = buildPath(l, view, t)
    BY <2>3, PathDepends
  <2> QED
    BY <2>1, <2>2, <2>3, <2>4, RerunInv
<1>6. CASE openJob
  <2>1. PICK j \in Job : Swap(j, {"job", "calls"})
    BY <1>6 DEF openJob
  <2>2. page = "usage" /\ page' = page
    BY <1>6 DEF openJob, Operation, Stays, app
  <2>3. j # None
    BY DEF Job, None
  <2> QED
    BY <2>1, <2>2, <2>3, SwapInv
<1>7. CASE onBack
  <2>1. page = "usage" /\ page' = page /\ Swap(None, {"jobs", "calls"})
    BY <1>7 DEF onBack, Operation, Stays, app
  <2> QED
    BY <2>1, SwapInv
<1>8. ASSUME NEW l \in Paged, onPageChange(l) \/ onPageSizeChange(l) PROVE ReviewInv'
  <2>1. page = "usage" /\ page' = page /\ l \in Mounted
    BY <1>8 DEF onPageChange, onPageSizeChange, Operation, Stays, app
  <2>2. PICK p, s : Turn(l, p, s)
    BY <1>8 DEF onPageChange, onPageSizeChange
  <2> QED
    BY <2>1, <2>2, TurnInv
<1> QED
  BY <1>1, <1>2, <1>3, <1>4, <1>5, <1>6, <1>7, <1>8 DEF User

\* An answer changes neither what a request asks nor whether it runs.
LEMMA ReplyTame ==
  ASSUME Shapes, NEW r \in requests, NEW at, NEW value, Reply(r, at, value)
  PROVE  Tame(requests', requests)
<1> DEFINE c == [r EXCEPT !.at = at, !.value = value]
<1>1. requests' = (requests \ {r}) \cup {c}
  BY DEF Reply
<1>2. /\ {"do", "live", "q"} \subseteq DOMAIN c
      /\ c.do = r.do /\ c.live = r.live /\ c.q = r.q
  BY DEF Shapes
<1> HIDE DEF c
<1> QED
  BY <1>1, <1>2 DEF Tame, Shapes, Running

\* The server changes nothing that a loader depends on.
LEMMA ServerInv ==
  ASSUME ReviewInv, NEW r \in requests, Serve(r) \/ Fail(r)
  PROVE  ReviewInv'
<1>1. UNCHANGED <<page, tables, view>>
  BY DEF Serve, Fail, app
<1>2. \E at, value : Reply(r, at, value)
  BY DEF Serve, Fail, list_job_results, get_result, get_blueprint, correct_result
<1>3. Tame(requests', requests)
  BY <1>2, ReplyTame DEF ReviewInv
<1> QED
  BY <1>1, <1>3, QuietInv DEF ReviewInv, Shapes

\* Nor do the handlers of the pages of results, which may ask for the fields next.
LEMMA DeliverInv ==
  ASSUME ReviewInv, NEW r \in requests, Deliver(r)
  PROVE  ReviewInv'
<1>1. UNCHANGED <<page, tables>>
  BY DEF Deliver, app, RowsLoaded, ResultLoaded, FieldsLoaded, Saved, Dropped
<1>2. ViewFields \subseteq DOMAIN view' /\ \A f \in ViewFields : view'[f] = view[f]
  <2>1. CASE RowsLoaded(r)
    BY <2>1 DEF RowsLoaded, ReviewInv, Shapes, ViewFields
  <2>2. CASE ResultLoaded(r)
    BY <2>2 DEF ResultLoaded, ReviewInv, Shapes, ViewFields
  <2>3. CASE FieldsLoaded(r)
    BY <2>3 DEF FieldsLoaded, ReviewInv, Shapes, ViewFields
  <2>4. CASE Saved(r)
    BY <2>4 DEF Saved, ReviewInv, Shapes, ViewFields
  <2>5. CASE Dropped(r)
    BY <2>5 DEF Dropped, ReviewInv, Shapes
  <2> QED
    BY <2>1, <2>2, <2>3, <2>4, <2>5 DEF Deliver
<1>3. requests' \subseteq requests \cup {Ask("fields", r.q)}
  BY DEF Deliver, RowsLoaded, ResultLoaded, FieldsLoaded, Saved, Dropped, Rest
<1>4. /\ {"do", "live", "q"} \subseteq DOMAIN Ask("fields", r.q)
      /\ ~Running(Ask("fields", r.q))
  BY DEF Ask, Running, Loader, Paged
<1>5. Tame(requests', requests)
  BY <1>3, <1>4 DEF Tame, ReviewInv, Shapes
<1> QED
  BY <1>1, <1>2, <1>5, QuietInv

\* The answer to a query that still runs is the answer to what its loader asks for now.
LEMMA ReadInv ==
  ASSUME ReviewInv, NEW r \in requests, Read(r)
  PROVE  ReviewInv'
<1>0. requests' \subseteq requests /\ UNCHANGED <<page, view>>
  BY DEF Read, Dropped, Rest, app
<1>1. CASE UNCHANGED tables
  BY <1>0, <1>1, SubsetTame, QuietInv DEF ReviewInv, Shapes
<1>2. ASSUME NEW ok \in BOOLEAN, Heard(r), r.do \in Loader, Answered(r.do, r.q, ok)
      PROVE  ReviewInv'
  <2> DEFINE l == r.do
  <2>1. Running(r) /\ page = "usage" /\ l \in Mounted /\ r.q = buildPath(l, view, tables[l])
    BY <1>2 DEF Heard, Running, ReviewInv, LiveAsks
  <2>2. Mounted' = Mounted /\ Mounted \subseteq Loader
    BY <1>0 DEF Mounted, Loader, Paged
  <2>3. /\ DOMAIN tables' = Loader
        /\ \A k \in Loader : k # l => tables'[k] = tables[k]
        /\ TableFields \subseteq DOMAIN tables'[l]
        /\ tables'[l].page = tables[l].page /\ tables'[l].size = tables[l].size
        /\ tables'[l].failed = ~ok
        /\ ok => tables'[l].shown = r.q
    BY <1>2 DEF Answered, ReviewInv, Shapes, TableFields
  <2>4. \A k \in Loader : TableFields \subseteq DOMAIN tables'[k]
    BY <2>3 DEF ReviewInv, Shapes
  <2>5. buildPath(l, view', tables'[l]) = buildPath(l, view, tables[l])
    BY <1>0, <2>3, PathDepends
  <2>6. \A k \in Loader : buildPath(k, view', tables'[k]) = buildPath(k, view, tables[k])
    BY <1>0, <2>3, <2>5
  <2>7. Shapes'
    BY <1>0, <2>3, <2>4 DEF ReviewInv, Shapes
  <2>8. LiveAsks'
    BY <1>0, <2>2, <2>6 DEF ReviewInv, LiveAsks, Running
  <2>9. ShownAsAsked'
    <3>1. ASSUME NEW k \in Mounted, ~tables'[k].loading, ~tables'[k].failed
          PROVE  tables'[k].shown = buildPath(k, view', tables'[k])
      <4>1. CASE k = l
        BY <2>1, <2>3, <2>5, <3>1, <4>1
      <4>2. CASE k # l
        <5>1. tables'[k] = tables[k]
          BY <2>2, <2>3, <4>2
        <5>2. tables[k].shown = buildPath(k, view, tables[k])
          BY <2>1, <3>1, <5>1 DEF ReviewInv, ShownAsAsked
        <5> QED
          BY <2>2, <2>6, <5>1, <5>2
      <4> QED
        BY <4>1, <4>2
    <3> QED
      BY <2>2, <3>1 DEF ShownAsAsked
  <2> QED
    BY <2>7, <2>8, <2>9 DEF ReviewInv
<1>3. UNCHANGED tables
      \/ \E ok \in BOOLEAN : Heard(r) /\ r.do \in Loader /\ Answered(r.do, r.q, ok)
  BY DEF Read, Dropped, Found
<1> QED
  BY <1>1, <1>2, <1>3

\* The invariant holds at the start, when nothing is asked.
LEMMA InitInv == Init => ReviewInv
<1> SUFFICES ASSUME Init PROVE ReviewInv
  OBVIOUS
<1>1. page = "dashboard" /\ requests = {}
  BY DEF Init
<1>2. ViewFields \subseteq DOMAIN view
  BY DEF Init, FreshView, ViewFields
<1>3. DOMAIN tables = Loader /\ \A l \in Loader : TableFields \subseteq DOMAIN tables[l]
  BY DEF Init, FreshTable, TableFields
<1> QED
  BY <1>1, <1>2, <1>3 DEF ReviewInv, Shapes, LiveAsks, ShownAsAsked

\* Every step keeps it.
LEMMA NextInv == ReviewInv /\ [Next]_vars => ReviewInv'
<1> SUFFICES ASSUME ReviewInv, [Next]_vars PROVE ReviewInv'
  OBVIOUS
<1>1. CASE User
  BY <1>1, UserInv
<1>2. ASSUME NEW r \in requests, Serve(r) \/ Fail(r) PROVE ReviewInv'
  BY <1>2, ServerInv
<1>3. ASSUME NEW r \in requests, Deliver(r) PROVE ReviewInv'
  BY <1>3, DeliverInv
<1>4. ASSUME NEW r \in requests, Read(r) PROVE ReviewInv'
  BY <1>4, ReadInv
<1>5. CASE UNCHANGED <<page, view, tables, requests>>
  BY <1>5, SubsetTame, QuietInv DEF ReviewInv, Shapes
<1>6. ASSUME NEW j \in Job, SaveResult(j) \/ delete_job(j)
      PROVE  UNCHANGED <<page, view, tables, requests>>
  BY <1>6 DEF SaveResult, delete_job, Background, app
<1>7. CASE UNCHANGED vars
  BY <1>5, <1>7 DEF vars, app
<1> QED
  BY <1>1, <1>2, <1>3, <1>4, <1>5, <1>6, <1>7 DEF Next

\* A usage list that has loaded shows the answer to what its range, job, order, page and size
\* ask for, for any number of operations and of requests that are overtaken or lost: the
\* cleanup of every effect cancels the run before.
THEOREM ShownAsAskedAlways == Spec => []ShownAsAsked
<1>1. ReviewInv => ShownAsAsked
  BY DEF ReviewInv
<1> QED
  BY <1>1, InitInv, NextInv, PTL DEF Spec

-----------------------------------------------------------------------------
(* Types.  The page is opened again and again by the data it has read: a   *)
(* list of results leads to the job it was read for.                       *)

Sound(r) == r \in Request /\ (r.do \in {"rows", "result", "save"} => r.q.job \in Job)

ServerType == stored \in [Job -> Data] /\ gone \subseteq Job
AppType ==
  /\ page \in Page /\ jobId \in Job \cup {None} /\ resultId \in Job \cup {None}
  /\ page = "results" => jobId # None
  /\ page = "detail" => resultId # None
ViewType == view \in View /\ (view.saving => view.editing) /\ view.reload <= ops
TablesType == DOMAIN tables = Loader /\ \A l \in Loader : tables[l] \in Table
AllSound == \A r \in requests : Sound(r)
CountType == unsure \in BOOLEAN /\ ops \in 0 .. MaxOps /\ events \in 0 .. MaxEvents

Types == ServerType /\ AppType /\ ViewType /\ TablesType /\ AllSound /\ CountType

LEMMA TypesAreTypeOK == Types => TypeOK
  BY DEF Types, ServerType, AppType, ViewType, TablesType, AllSound, CountType, Sound, TypeOK

LEMMA BoundsAre ==
  /\ MaxData \in Nat /\ MaxOps \in Nat /\ MaxEvents \in Nat
  /\ {0, 1} \subseteq Data /\ 0 \in 0 .. MaxOps /\ 0 \in 0 .. MaxEvents
  /\ Job = {1, 2} /\ None = 0 /\ None \notin Job /\ 0 .. 2 = {0, 1, 2}
  BY ReviewAssumption DEF Data, Job, None

LEMMA FreshIs ==
  /\ FreshView \in View /\ FreshTable \in Table /\ NoQuery \in Query
  /\ FreshView.saving = FALSE /\ FreshView.reload = 0 /\ FreshView.editing = FALSE
  /\ FreshView.result = 0 /\ FreshView.draft = 0
  /\ \A j \in Job : About(j) \in Query /\ About(j).job = j
<1>1. NoQuery \in Query
  BY BoundsAre DEF NoQuery, Query
<1>2. FreshView \in View
  BY BoundsAre DEF FreshView, View, RANGES, Data
<1>3. FreshTable \in Table
  BY <1>1, BoundsAre DEF FreshTable, Table, PAGE_SIZES
<1>4. ASSUME NEW j \in Job PROVE About(j) \in Query /\ About(j).job = j
  <2>1. j \in 0 .. 2
    BY BoundsAre
  <2> QED
    BY <1>1, <2>1 DEF About, Query
<1> QED
  BY <1>1, <1>2, <1>3, <1>4 DEF FreshView

\* What a loader asks for is a query.
LEMMA PathIs ==
  ASSUME NEW l, NEW v \in View, NEW t \in Table
  PROVE  buildPath(l, v, t) \in Query
<1>1. /\ v.days \in RANGES /\ v.sort \in BOOLEAN /\ v.job \in 0 .. 2 /\ v.reload \in 0 .. MaxOps
      /\ t.page \in Nat /\ t.size \in PAGE_SIZES
  BY DEF View, Table
<1> QED
  BY <1>1, BoundsAre DEF buildPath, Query

LEMMA AskIs ==
  ASSUME NEW do \in Loader \cup {"rows", "result", "fields", "save"}, NEW q \in Query,
         do \in {"rows", "result", "save"} => q.job \in Job
  PROVE  /\ Sound(Ask(do, q))
         /\ Ask(do, q).do = do /\ Ask(do, q).live /\ Ask(do, q).at = "asked" /\ Ask(do, q).q = q
  BY BoundsAre DEF Ask, Sound, Request

LEMMA FetchIs ==
  ASSUME NEW l \in Loader, NEW v \in View, NEW t \in Table
  PROVE  Sound(fetchJson(l, v, t)) /\ fetchJson(l, v, t).do = l
<1>1. l \notin {"rows", "result", "save"}
  BY DEF Loader, Paged
<1> QED
  BY <1>1, PathIs, AskIs DEF fetchJson

\* What a page that is mounted asks for.
LEMMA LoadsAre ==
  ASSUME NEW new, NEW j, new \in {"results", "detail"} => j \in Job
  PROVE  \A a \in Loads(new, j) : Sound(a)
<1>1. CASE new = "results"
  BY <1>1, FreshIs, AskIs DEF Loads
<1>2. CASE new = "detail"
  BY <1>2, FreshIs, AskIs DEF Loads
<1>3. CASE new = "usage"
  BY <1>3, FreshIs, FetchIs DEF Loads
<1>4. CASE new \notin {"results", "detail", "usage"}
  BY <1>4 DEF Loads
<1> QED
  BY <1>1, <1>2, <1>3, <1>4

LEMMA LeftSound ==
  ASSUME NEW R, \A r \in R : Sound(r)
  PROVE  \A r \in Left(R) : Sound(r)
<1> SUFFICES ASSUME NEW r \in R PROVE Sound([r EXCEPT !.live = FALSE])
  BY DEF Left
<1> QED
  BY DEF Sound, Request

\* A table that is turned, cleared or answered is one.
LEMMA TableIs ==
  ASSUME NEW t \in Table, NEW p \in Nat, NEW s \in PAGE_SIZES, NEW b \in BOOLEAN, NEW c \in BOOLEAN,
         NEW q \in Query, NEW n \in Nat
  PROVE  /\ [t EXCEPT !.page = p, !.size = s, !.loading = b, !.failed = c] \in Table
         /\ [t EXCEPT !.page = p, !.loading = b, !.failed = c] \in Table
         /\ [t EXCEPT !.loading = b] \in Table
         /\ [t EXCEPT !.loading = b, !.failed = c, !.shown = q, !.total = n] \in Table
  BY DEF Table

LEMMA NavigateTypes ==
  ASSUME Types, NEW new \in Page, NEW j, new \in {"results", "detail"} => j \in Job,
         navigate(new, j), ops' \in {ops, ops + 1}, ops' \in 0 .. MaxOps
  PROVE  AppType' /\ ViewType' /\ TablesType' /\ AllSound' /\ unsure' \in BOOLEAN
<1>1. AppType' /\ unsure' \in BOOLEAN
  BY BoundsAre DEF navigate, Types, AppType, CountType
<1>2. ViewType'
  <2> DEFINE b == new \in {"results", "detail"}
  <2>1. view' = [FreshView EXCEPT !.loading = b]
    BY DEF navigate
  <2>2. b \in BOOLEAN
    OBVIOUS
  <2> HIDE DEF b
  <2>3. view' \in View /\ view'.saving = FALSE /\ view'.reload = 0
    BY <2>1, <2>2, FreshIs DEF View
  <2> QED
    BY <2>3, BoundsAre DEF ViewType
<1>3. TablesType'
  BY FreshIs, TableIs, BoundsAre DEF navigate, TablesType, PAGE_SIZES
<1>4. AllSound'
  BY LoadsAre, LeftSound DEF navigate, AllSound, Saves, Types
<1> QED
  BY <1>1, <1>2, <1>3, <1>4

LEMMA RerunTypes ==
  ASSUME Types, NEW ls \in SUBSET Loader, NEW v \in View, v.saving => v.editing, v.reload <= ops',
         Rerun(ls, v)
  PROVE  ViewType' /\ TablesType' /\ AllSound'
<1>1. ViewType'
  BY DEF Rerun, ViewType
<1>2. TablesType'
  <2>1. ASSUME NEW l \in Loader PROVE tables'[l] \in Table
    <3>1. tables[l] \in Table
      BY DEF Types, TablesType
    <3> QED
      BY <3>1, FreshIs, TableIs, BoundsAre DEF Rerun, PAGE_SIZES
  <2> QED
    BY <2>1 DEF Rerun, TablesType
<1>3. \A l \in Loader : tables[l] \in Table /\ tables'[l] \in Table
  BY <1>2 DEF Types, TablesType
<1> DEFINE first == {fetchJson(l, v, tables[l]) : l \in {p \in ls \cap Paged : tables[p].page # 0}}
           next  == {fetchJson(l, v, tables'[l]) : l \in ls}
<1>4. \A r \in first : Sound(r)
  BY <1>3, FetchIs
<1>5. \A r \in next : Sound(r)
  BY <1>3, FetchIs
<1>6. requests' = Left({r \in requests : r.do \in ls} \cup first)
                    \cup {r \in requests : r.do \notin ls} \cup next
  BY DEF Rerun
<1> HIDE DEF first, next
<1>7. AllSound'
  <2>1. \A r \in Left({r \in requests : r.do \in ls} \cup first) : Sound(r)
    BY <1>4, LeftSound DEF Types, AllSound
  <2> QED
    BY <1>5, <1>6, <2>1 DEF Types, AllSound
<1> QED
  BY <1>1, <1>2, <1>7

LEMMA TurnTypes ==
  ASSUME Types, NEW l \in Loader, NEW p \in Nat, NEW s \in PAGE_SIZES, Turn(l, p, s),
         ops <= ops', ops' \in Nat
  PROVE  ViewType' /\ TablesType' /\ AllSound'
<1>1. ViewType'
  <2>1. view \in View /\ view.reload \in Nat /\ ops \in Nat
    BY BoundsAre DEF Types, ViewType, CountType, View
  <2> QED
    BY <2>1 DEF Turn, Types, ViewType
<1>2. /\ DOMAIN tables' = Loader
      /\ tables'[l] = [tables[l] EXCEPT !.page = p, !.size = s, !.loading = TRUE, !.failed = FALSE]
      /\ \A k \in Loader \ {l} : tables'[k] = tables[k]
  BY DEF Turn, Types, TablesType
<1>3. TablesType'
  <2>1. tables[l] \in Table /\ NoQuery \in Query /\ 0 \in Nat
    BY FreshIs DEF Types, TablesType
  <2>2. [tables[l] EXCEPT !.page = p, !.size = s, !.loading = TRUE, !.failed = FALSE] \in Table
    BY <2>1, TableIs
  <2> QED
    BY <1>2, <2>2 DEF Types, TablesType
<1>4. Sound(fetchJson(l, view, tables'[l]))
  BY <1>3, FetchIs DEF TablesType, Types, ViewType
<1>5. \A r \in Left({r \in requests : r.do = l}) : Sound(r)
  BY LeftSound DEF Types, AllSound
<1>6. AllSound'
  BY <1>4, <1>5 DEF Turn, Types, AllSound
<1> QED
  BY <1>1, <1>3, <1>6

LEMMA SwapTypes ==
  ASSUME Types, NEW j \in 0 .. 2, NEW new \in SUBSET Loader, Swap(j, new), ops <= ops', ops' \in Nat
  PROVE  ViewType' /\ TablesType' /\ AllSound'
<1> DEFINE v == [view EXCEPT !.job = j, !.sort = FALSE]
<1>1. v \in View /\ v.saving = view.saving /\ v.editing = view.editing /\ v.reload = view.reload
  BY DEF Types, ViewType, View
<1>2. /\ view' = v
      /\ tables' = [l \in Loader |-> IF l = "overview" THEN tables[l]
                                     ELSE [FreshTable EXCEPT !.loading = l \in new]]
      /\ requests' = Left({r \in requests : r.do # "overview"})
                       \cup {r \in requests : r.do = "overview"}
                       \cup {fetchJson(l, v, FreshTable) : l \in new}
  BY DEF Swap
<1> HIDE DEF v
<1>3. ViewType'
  <2>1. view.reload \in Nat /\ ops \in Nat
    BY BoundsAre DEF Types, ViewType, CountType, View
  <2> QED
    BY <1>1, <1>2, <2>1 DEF Types, ViewType
<1>4. TablesType'
  <2>1. ASSUME NEW l \in Loader PROVE tables'[l] \in Table
    <3>1. (l \in new) \in BOOLEAN /\ tables[l] \in Table
      BY DEF Types, TablesType
    <3>2. ASSUME NEW b \in BOOLEAN PROVE [FreshTable EXCEPT !.loading = b] \in Table
      BY FreshIs DEF Table
    <3>3. [FreshTable EXCEPT !.loading = (l \in new)] \in Table
      BY <3>1, <3>2
    <3>4. tables'[l] = IF l = "overview" THEN tables[l]
                      ELSE [FreshTable EXCEPT !.loading = (l \in new)]
      BY <1>2
    <3> QED
      BY <3>1, <3>3, <3>4
  <2> QED
    BY <1>2, <2>1 DEF TablesType
<1>5. \A l \in new : Sound(fetchJson(l, v, FreshTable))
  BY <1>1, FreshIs, FetchIs
<1>6. \A r \in Left({r \in requests : r.do # "overview"}) : Sound(r)
  BY LeftSound DEF Types, AllSound
<1>7. AllSound'
  BY <1>2, <1>5, <1>6 DEF Types, AllSound
<1> QED
  BY <1>3, <1>4, <1>7

\* One more operation, or none.
LEMMA OpsAre ==
  ASSUME Types
  PROVE  /\ ops \in Nat /\ ops <= ops
         /\ \A where : Operation(where) =>
              page = where /\ ops' = ops + 1 /\ ops' \in 0 .. MaxOps /\ ops <= ops' /\ ops' \in Nat
  BY BoundsAre DEF Types, CountType, Operation

LEMMA VisitTypes ==
  ASSUME Types, Visit \/ OpenResult \/ OpenResults
  PROVE  Types'
<1>1. PICK new, j : /\ new \in Page /\ navigate(new, j)
                    /\ new \in {"results", "detail"} => j \in Job
  <2>1. CASE Visit
    BY <2>1 DEF Visit, Page
  <2>2. CASE OpenResult
    BY <2>2 DEF OpenResult, Page, Types, ViewType, View
  <2>3. CASE OpenResults
    <3>1. page = "detail" => resultId \in Job
      BY DEF Types, AppType
    <3>2. view.job \in 0 .. 2
      BY DEF Types, ViewType, View
    <3> QED
      BY <2>3, <3>1, <3>2, BoundsAre DEF OpenResults, Operation, Page
  <2> QED
    BY <2>1, <2>2, <2>3
<1>2. ops' \in {ops, ops + 1} /\ ops' \in 0 .. MaxOps
  <2>1. ops \in 0 .. MaxOps
    BY DEF Types, CountType
  <2>2. ops' = ops \/ \E where : Operation(where)
    BY DEF Visit, OpenResult, OpenResults
  <2> QED
    BY <2>1, <2>2, OpsAre
<1>3. AppType' /\ ViewType' /\ TablesType' /\ AllSound' /\ unsure' \in BOOLEAN
  BY <1>1, <1>2, NavigateTypes
<1>4. UNCHANGED <<server, events>>
  BY DEF Visit, OpenResult, OpenResults, Elsewhere
<1> QED
  BY <1>2, <1>3, <1>4 DEF Types, ServerType, CountType, server

\* The boxes and buttons of a result.
LEMMA EditTypes ==
  ASSUME Types, Edit \/ Type \/ Cancel \/ handleSave
  PROVE  Types'
<1>1. /\ UNCHANGED <<server, app, unsure, events, tables>>
      /\ ops' = ops \/ Operation("detail")
  BY DEF Edit, Type, Cancel, handleSave, Stays
<1>2. ops' \in 0 .. MaxOps /\ ops <= ops' /\ ops' \in Nat
  BY <1>1, OpsAre, BoundsAre DEF Types, CountType
<1>3. view \in View /\ (view.saving => view.editing) /\ view.reload \in Nat /\ view.reload <= ops
  BY BoundsAre DEF Types, ViewType, View
<1>4. view' \in View /\ (view'.saving => view'.editing) /\ view'.reload = view.reload
  <2>1. CASE Edit
    BY <1>3, <2>1 DEF Edit, View
  <2>2. CASE Type
    <3>1. PICK d \in Data : view' = [view EXCEPT !.draft = d]
      BY <2>2 DEF Type
    <3> QED
      BY <1>3, <3>1 DEF View
  <2>3. CASE Cancel
    BY <1>3, <2>3 DEF Cancel, MayCancel, View
  <2>4. CASE handleSave
    BY <1>3, <2>4 DEF handleSave, View
  <2> QED
    BY <2>1, <2>2, <2>3, <2>4
<1>5. ViewType'
  <2>1. ops \in Nat
    BY OpsAre
  <2> QED
    BY <1>2, <1>3, <1>4, <2>1 DEF ViewType
<1>6. AllSound'
  <2>1. CASE requests' = requests
    BY <2>1 DEF Types, AllSound
  <2>2. CASE handleSave
    <3>1. page = "detail" /\ resultId \in Job
      BY <2>2 DEF handleSave, Operation, Types, AppType
    <3>2. Sound(Ask("save", About(resultId)))
      BY <3>1, FreshIs, AskIs
    <3>3. view.draft \in Data /\ ops \in 0 .. MaxOps
      BY <1>3 DEF View, Types, CountType
    <3>4. Sound([Ask("save", About(resultId)) EXCEPT !.n = ops, !.value = view.draft])
      <4> DEFINE a == Ask("save", About(resultId))
      <4>1. Sound(a)
        BY <3>2
      <4> HIDE DEF a
      <4>2. Sound([a EXCEPT !.n = ops, !.value = view.draft])
        BY <3>3, <4>1 DEF Sound, Request
      <4> QED
        BY <4>2 DEF a
    <3> QED
      BY <2>2, <3>4 DEF handleSave, Types, AllSound
  <2> QED
    BY <2>1, <2>2 DEF Edit, Type, Cancel
<1> QED
  BY <1>1, <1>2, <1>5, <1>6 DEF Types, ServerType, AppType, TablesType, CountType, server, app

\* A list has no page beyond its last.
LEMMA PagesAre ==
  ASSUME NEW t \in Table, NEW p \in 0 .. Pages(t) - 1
  PROVE  p \in Nat
<1>1. t.size \in {1, 2} /\ t.total \in Nat
  BY DEF Table, PAGE_SIZES
<1>2. Pages(t) \in Int
  BY <1>1 DEF Pages
<1> QED
  BY <1>2

LEMMA UsageTypes ==
  ASSUME Types, setDays \/ Refresh \/ toggleSort \/ openJob \/ onBack
                  \/ (\E l \in Paged : onPageChange(l) \/ onPageSizeChange(l))
  PROVE  Types'
<1>1. UNCHANGED <<server, app, unsure, events>> /\ Operation("usage")
  BY DEF setDays, Refresh, toggleSort, openJob, onBack, onPageChange, onPageSizeChange, Stays
<1>2. ops' = ops + 1 /\ ops' \in 0 .. MaxOps /\ ops <= ops' /\ ops' \in Nat /\ ops \in Nat
  BY <1>1, OpsAre
<1>3. view \in View /\ (view.saving => view.editing) /\ view.reload \in Nat /\ view.reload <= ops
  BY BoundsAre DEF Types, ViewType, View
<1>4. view.reload <= ops'
  BY <1>2, <1>3
<1>5. ViewType' /\ TablesType' /\ AllSound'
  <2>1. CASE setDays
    <3>1. PICK d \in RANGES : Rerun({"overview", "jobs"}, [view EXCEPT !.days = d])
      BY <2>1 DEF setDays
    <3> DEFINE v == [view EXCEPT !.days = d]
    <3>2. v \in View /\ (v.saving => v.editing) /\ v.reload <= ops'
      BY <1>3, <1>4 DEF View
    <3>3. {"overview", "jobs"} \in SUBSET Loader
      BY DEF Loader, Paged
    <3> HIDE DEF v
    <3>4. Rerun({"overview", "jobs"}, v)
      BY <3>1 DEF v
    <3> QED
      BY <3>2, <3>3, <3>4, RerunTypes
  <2>2. CASE Refresh
    <3> DEFINE v == [view EXCEPT !.reload = @ + 1]
    <3>1. Rerun({"overview", "jobs", "calls"}, v)
      BY <2>2 DEF Refresh
    <3>2. v.reload = view.reload + 1 /\ view.reload + 1 <= ops' /\ view.reload + 1 \in 0 .. MaxOps
      BY <1>2, <1>3, BoundsAre DEF View
    <3>3. v \in View /\ (v.saving => v.editing)
      BY <1>3, <3>2 DEF View
    <3>4. {"overview", "jobs", "calls"} \in SUBSET Loader
      BY DEF Loader, Paged
    <3>5. v.reload <= ops'
      BY <3>2
    <3> HIDE DEF v
    <3> QED
      BY <3>1, <3>3, <3>4, <3>5, RerunTypes
  <2>3. CASE toggleSort
    <3> DEFINE v == [view EXCEPT !.sort = ~@]
    <3>1. Rerun({"jobs"}, v)
      BY <2>3 DEF toggleSort
    <3>2. v \in View /\ (v.saving => v.editing) /\ v.reload <= ops'
      BY <1>3, <1>4 DEF View
    <3>3. {"jobs"} \in SUBSET Loader
      BY DEF Loader, Paged
    <3> HIDE DEF v
    <3> QED
      BY <3>1, <3>2, <3>3, RerunTypes
  <2>4. CASE openJob
    <3>1. PICK j \in Job : Swap(j, {"job", "calls"})
      BY <2>4 DEF openJob
    <3>2. j \in 0 .. 2 /\ {"job", "calls"} \in SUBSET Loader
      BY BoundsAre DEF Loader, Paged
    <3> QED
      BY <1>2, <3>1, <3>2, SwapTypes
  <2>5. CASE onBack
    <3>1. Swap(None, {"jobs", "calls"})
      BY <2>5 DEF onBack
    <3>2. None \in 0 .. 2 /\ {"jobs", "calls"} \in SUBSET Loader
      BY BoundsAre DEF Loader, Paged
    <3> QED
      BY <1>2, <3>1, <3>2, SwapTypes
  <2>6. ASSUME NEW l \in Paged, onPageChange(l) \/ onPageSizeChange(l)
        PROVE  ViewType' /\ TablesType' /\ AllSound'
    <3>1. l \in Loader /\ tables[l] \in Table
      BY DEF Loader, Types, TablesType
    <3>2. PICK p \in Nat, s \in PAGE_SIZES : Turn(l, p, s)
      <4>1. CASE onPageChange(l)
        <5>1. PICK p \in 0 .. Pages(tables[l]) - 1 : Turn(l, p, tables[l].size)
          BY <4>1 DEF onPageChange
        <5>2. p \in Nat /\ tables[l].size \in PAGE_SIZES
          BY <3>1, PagesAre DEF Table
        <5> QED
          BY <5>1, <5>2
      <4>2. CASE onPageSizeChange(l)
        BY <4>2 DEF onPageSizeChange
      <4> QED
        BY <2>6, <4>1, <4>2
    <3> QED
      BY <1>2, <3>1, <3>2, TurnTypes
  <2> QED
    BY <2>1, <2>2, <2>3, <2>4, <2>5, <2>6
<1> QED
  BY <1>1, <1>2, <1>5 DEF Types, ServerType, AppType, CountType, server, app

LEMMA UserTypes ==
  ASSUME Types, User
  PROVE  Types'
  BY VisitTypes, EditTypes, UsageTypes DEF User

\* An answer changes neither what a request asks nor of which job.
LEMMA ReplyTypes ==
  ASSUME AllSound, NEW r \in requests, NEW at \in {"asked", "ok", "no"}, NEW value \in Data,
         Reply(r, at, value)
  PROVE  AllSound'
<1> DEFINE c == [r EXCEPT !.at = at, !.value = value]
<1>1. Sound(c)
  BY DEF AllSound, Sound, Request
<1>2. requests' = (requests \ {r}) \cup {c}
  BY DEF Reply
<1> HIDE DEF c
<1> QED
  BY <1>1, <1>2 DEF AllSound

LEMMA ServerTypes ==
  ASSUME Types, NEW r \in requests, Serve(r) \/ Fail(r)
  PROVE  Types'
<1>1. Sound(r) /\ r.value \in Data /\ r.do \in Loader \cup {"rows", "result", "fields", "save"}
  BY DEF Types, AllSound, Sound, Request
<1>2. UNCHANGED <<gone, app, view, tables, ops>>
  BY DEF Serve, Fail, server
<1>3. r.q.job \in Job => stored[r.q.job] \in Data
  BY DEF Types, ServerType
<1>4. PICK at \in {"ok", "no"}, value \in Data : Reply(r, at, value)
  BY <1>1, <1>3, BoundsAre DEF Serve, Fail, list_job_results, get_result, get_blueprint,
                               correct_result, Sound
<1>5. AllSound'
  BY <1>4, ReplyTypes DEF Types
<1>6. stored' \in [Job -> Data]
  BY <1>1, <1>3 DEF Serve, Fail, list_job_results, get_result, get_blueprint, correct_result,
                    server, Types, ServerType
<1>7. CountType'
  <2>1. unsure \in BOOLEAN /\ ops \in 0 .. MaxOps /\ events \in 0 .. MaxEvents
    BY DEF Types, CountType
  <2>2. CASE Serve(r)
    BY <2>1, <2>2 DEF Serve, CountType
  <2>3. CASE Fail(r)
    <3>1. unsure' \in BOOLEAN /\ ops' = ops /\ events < MaxEvents /\ events' = events + 1
      BY <2>3 DEF Fail
    <3> QED
      BY <2>1, <3>1, BoundsAre DEF CountType
  <2> QED
    BY <2>2, <2>3
<1> QED
  BY <1>2, <1>5, <1>6, <1>7 DEF Types, ServerType, AppType, ViewType, TablesType, app

LEMMA DeliverTypes ==
  ASSUME Types, NEW r \in requests, Deliver(r)
  PROVE  Types'
<1>1. Sound(r) /\ r.value \in Data /\ r.q \in Query
  BY DEF Types, AllSound, Sound, Request
<1>2. UNCHANGED <<server, app, unsure, ops, events, tables>>
  BY DEF Deliver, RowsLoaded, ResultLoaded, FieldsLoaded, Saved, Dropped
<1>3. view \in View /\ (view.saving => view.editing) /\ view.reload <= ops
  BY DEF Types, ViewType
<1>4. view' \in View /\ (view'.saving => view'.editing) /\ view'.reload = view.reload
  <2>1. CASE RowsLoaded(r)
    <3> DEFINE some == r.at = "ok" /\ r.value # 0
               rows == IF some THEN {r.q.job} ELSE {}
    <3>1. view' = [view EXCEPT !.rows = rows, !.loading = some]
      BY <2>1 DEF RowsLoaded
    <3>2. some \in BOOLEAN /\ rows \in SUBSET Job
      BY <1>1, <2>1 DEF RowsLoaded, Sound
    <3> HIDE DEF some, rows
    <3> QED
      BY <1>3, <3>1, <3>2 DEF View
  <2>2. CASE ResultLoaded(r)
    BY <1>1, <1>3, <2>2 DEF ResultLoaded, View
  <2>3. CASE FieldsLoaded(r)
    BY <1>3, <2>3 DEF FieldsLoaded, View
  <2>4. CASE Saved(r)
    BY <1>1, <1>3, <2>4 DEF Saved, Updated, View
  <2>5. CASE Dropped(r)
    BY <1>3, <2>5 DEF Dropped
  <2> QED
    BY <2>1, <2>2, <2>3, <2>4, <2>5 DEF Deliver
<1>5. requests' \subseteq requests \cup {Ask("fields", r.q)}
  BY DEF Deliver, RowsLoaded, ResultLoaded, FieldsLoaded, Saved, Dropped, Rest
<1>6. Sound(Ask("fields", r.q))
  BY <1>1, AskIs
<1>7. AllSound'
  BY <1>5, <1>6 DEF Types, AllSound
<1> QED
  BY <1>2, <1>3, <1>4, <1>7 DEF Types, ServerType, AppType, ViewType, TablesType, CountType,
                                 server, app

\* How much a usage query brings is a number.
LEMMA TotalIs ==
  ASSUME Types, NEW l \in Loader, NEW q \in Query
  PROVE  Total(l, q) \in Nat
<1>1. ASSUME NEW S \in SUBSET Job PROVE Cardinality(S) \in Nat
  <2>1. IsFiniteSet(Job)
    <3>1. IsFiniteSet({1} \cup {2})
      BY FS_Singleton, FS_AddElement
    <3>2. Job = {1} \cup {2}
      BY BoundsAre
    <3> QED
      BY <3>1, <3>2
  <2> QED
    BY <2>1, FS_Subset, FS_CardinalityType
<1>2. Used(q.days) \subseteq Job /\ _job_rows(q.days) \subseteq Job
  BY DEF Used, _job_rows
<1>3. q.job \in 0 .. 2 /\ gone \subseteq Job
  BY DEF Query, Types, ServerType
<1>4. list_calls(q.job) \in Nat
  BY <1>3, BoundsAre DEF list_calls, Calls
<1>5. CASE l = "overview"
  BY <1>1, <1>2, <1>5 DEF Total
<1>6. CASE l = "jobs"
  BY <1>1, <1>2, <1>6 DEF Total
<1>7. CASE l = "calls"
  BY <1>4, <1>7 DEF Total
<1>8. CASE l = "job"
  BY <1>8 DEF Total
<1> QED
  BY <1>5, <1>6, <1>7, <1>8 DEF Loader, Paged

LEMMA ReadTypes ==
  ASSUME Types, NEW r \in requests, Read(r)
  PROVE  Types'
<1>1. UNCHANGED <<server, app, unsure, ops, view>> /\ requests' \subseteq requests
  BY DEF Read, Dropped, Rest
<1>2. r.q \in Query
  BY DEF Types, AllSound, Sound, Request
<1>3. CountType'
  <2>1. events' = events \/ (events < MaxEvents /\ events' = events + 1)
    BY DEF Read
  <2>2. unsure' = unsure /\ ops' = ops
    BY DEF Read
  <2> QED
    BY <2>1, <2>2, BoundsAre DEF Types, CountType
<1>4. TablesType'
  <2>1. CASE UNCHANGED tables
    BY <2>1 DEF Types, TablesType
  <2>2. ASSUME NEW ok \in BOOLEAN, r.do \in Loader, Answered(r.do, r.q, ok)
        PROVE  TablesType'
    <3>1. PICK l \in Loader : l = r.do
      BY <2>2
    <3>2. PICK b \in BOOLEAN : b = ~Settled(l, ok)
      BY DEF Settled
    <3>3. /\ tables[l] \in Table /\ tables[l].shown \in Query /\ tables[l].total \in Nat
          /\ DOMAIN tables = Loader
      BY DEF Types, TablesType, Table
    <3>4. Total(l, r.q) \in Nat
      BY <1>2, TotalIs
    <3>5. tables'[l] = [tables[l] EXCEPT !.loading = b, !.failed = ~ok,
                          !.shown = IF ok THEN r.q ELSE tables[l].shown,
                          !.total = IF ok THEN Total(l, r.q) ELSE tables[l].total]
          /\ DOMAIN tables' = Loader /\ \A k \in Loader \ {l} : tables'[k] = tables[k]
      BY <2>2, <3>1, <3>2, <3>3 DEF Answered
    <3>6. tables'[l] \in Table
      BY <1>2, <3>3, <3>4, <3>5 DEF Table
    <3> QED
      BY <3>3, <3>5, <3>6 DEF Types, TablesType
  <2>3. UNCHANGED tables \/ \E ok \in BOOLEAN : r.do \in Loader /\ Answered(r.do, r.q, ok)
    BY DEF Read, Dropped, Found
  <2> QED
    BY <2>1, <2>2, <2>3
<1> QED
  BY <1>1, <1>3, <1>4 DEF Types, ServerType, AppType, ViewType, AllSound, server, app

LEMMA InitTypes == Init => Types
<1> SUFFICES ASSUME Init PROVE Types
  OBVIOUS
<1>1. ServerType
  <2>1. ASSUME NEW j \in Job PROVE 2 - j \in Data
    BY BoundsAre
  <2> QED
    BY <2>1 DEF Init, ServerType
<1>2. ViewType
  <2>1. view = [FreshView EXCEPT !.loading = FALSE] /\ ops = 0
    BY DEF Init
  <2>2. view \in View /\ view.saving = FALSE /\ view.reload = 0
    BY <2>1, FreshIs DEF View
  <2> QED
    BY <2>1, <2>2 DEF ViewType
<1>3. TablesType
  BY FreshIs DEF Init, TablesType, Table
<1>4. AppType /\ AllSound /\ CountType
  BY BoundsAre DEF Init, AppType, AllSound, CountType, Page
<1> QED
  BY <1>1, <1>2, <1>3, <1>4 DEF Types

LEMMA NextTypes == Types /\ [Next]_vars => Types'
<1> SUFFICES ASSUME Types, [Next]_vars PROVE Types'
  OBVIOUS
<1>1. ASSUME NEW j \in Job, SaveResult(j) \/ delete_job(j) PROVE Types'
  <2>1. UNCHANGED <<app, view, tables, requests, unsure, ops>> /\ CountType'
    BY <1>1, BoundsAre DEF SaveResult, delete_job, Background, Types, CountType
  <2>2. ServerType'
    BY <1>1, BoundsAre DEF SaveResult, delete_job, Types, ServerType
  <2> QED
    BY <2>1, <2>2 DEF Types, AppType, ViewType, TablesType, AllSound, app
<1>2. CASE UNCHANGED vars
  BY <1>2 DEF vars, Types, ServerType, AppType, ViewType, TablesType, AllSound, CountType,
              server, app
<1> QED
  BY <1>1, <1>2, UserTypes, ServerTypes, DeliverTypes, ReadTypes DEF Next

\* The pages of results stay within their types for any bounds: a page of results has its job
\* or result, only what is edited is being saved, and no list goes to a page it does not have.
THEOREM TypeCorrect == Spec => []TypeOK
<1>1. Types => TypeOK
  BY TypesAreTypeOK
<1> QED
  BY <1>1, InitTypes, NextTypes, PTL DEF Spec

-----------------------------------------------------------------------------
(* A result's page.  As long as no save's answer was lost, and the page    *)
(* was not opened again while one was under way, there is at most one      *)
(* save, it is of this page's result, and the stored data is what the page *)
(* read or what that save has stored.  The draft may be anything by then.  *)

Asked == {r \in requests : r.do = "result"}

SaveSound ==
  /\ \A r \in Saves : /\ r.live /\ view.saving /\ r.q.job = resultId
                      /\ r.at # "no" => r.value # 0
                      /\ r.at = "ok" => stored[resultId] = r.value
  /\ \A r, s \in Saves : r = s

AskedSound ==
  /\ \A r \in Asked : /\ view.result = 0 /\ r.q.job = resultId
                      /\ r.at = "ok" => r.value = stored[resultId] /\ r.value # 0
  /\ \A r, s \in Asked : r = s

ShownSound ==
  view.result # 0 => /\ view.draft # 0 /\ stored[resultId] # 0
                     /\ (stored[resultId] = view.result \/ \E s \in Saves : s.at = "ok")

EditSound == view.editing => view.result # 0

PageSound == SaveSound /\ AskedSound /\ ShownSound /\ EditSound
DetailInv == ~unsure /\ page = "detail" => PageSound

LEMMA DetailAgreesFollows == DetailInv => DetailAgrees
  BY DEF DetailInv, PageSound, ShownSound, DetailAgrees, Loaded

\* Without a save, nothing but the page's own request is under way.
LEMMA NoSave ==
  ASSUME Types, SaveSound, ~view.saving \/ view.result = 0, EditSound
  PROVE  Saves = {}
  BY DEF Types, ViewType, SaveSound, EditSound

\* A page that is opened has asked for its result, and no save is under way.
LEMMA OpenDetail ==
  ASSUME NEW new, NEW j, navigate(new, j)
  PROVE  DetailInv'
<1> SUFFICES ASSUME ~unsure', page' = "detail" PROVE PageSound'
  BY DEF DetailInv
<1>1. new = "detail" /\ Saves = {} /\ resultId' = j
  BY DEF navigate
<1> DEFINE a == Ask("result", About(j))
<1>2. requests' = {a}
  <2>1. Left(Saves) = {}
    BY <1>1 DEF Left
  <2>2. Loads(new, j) = {a}
    BY <1>1 DEF Loads
  <2> QED
    BY <2>1, <2>2 DEF navigate
<1>3. a.do = "result" /\ a.at = "asked" /\ a.q.job = j
  BY DEF Ask, About, NoQuery
<1> HIDE DEF a
<1>4. view'.result = 0 /\ view'.draft = 0 /\ view'.editing = FALSE
  BY DEF navigate, FreshView
<1>5. Saves' = {} /\ Asked' = {a}
  BY <1>2, <1>3 DEF Saves, Asked
<1> QED
  BY <1>1, <1>3, <1>4, <1>5 DEF PageSound, SaveSound, AskedSound, ShownSound, EditSound

\* What the user does on the page; what is done on others leaves it closed.
LEMMA UserDetail ==
  ASSUME Types, DetailInv, User
  PROVE  DetailInv'
<1>1. CASE Visit \/ OpenResult \/ OpenResults
  <2>1. PICK new, j : navigate(new, j)
    BY <1>1 DEF Visit, OpenResult, OpenResults
  <2> QED
    BY <2>1, OpenDetail
<1>2. CASE page' # "detail"
  BY <1>2 DEF DetailInv
<1>3. CASE setDays \/ Refresh \/ toggleSort \/ openJob \/ onBack
           \/ (\E l \in Paged : onPageChange(l) \/ onPageSizeChange(l))
  BY <1>2, <1>3 DEF setDays, Refresh, toggleSort, openJob, onBack, onPageChange, onPageSizeChange,
                    Operation, Stays, app
<1>4. ASSUME Edit \/ Type \/ Cancel \/ handleSave, page' = "detail", ~unsure'
      PROVE  PageSound'
  <2>1. /\ PageSound /\ page = "detail" /\ UNCHANGED <<stored, resultId, tables>>
        /\ Loaded /\ view.result # 0 /\ view \in View
    BY <1>4 DEF Edit, Type, Cancel, MayCancel, handleSave, Stays, server, app, DetailInv, Loaded,
                Types, ViewType
  <2>2. Asked = {}
    BY <2>1 DEF PageSound, AskedSound
  <2>3. CASE Edit
    <3>1. /\ requests' = requests /\ view'.editing /\ view'.result = view.result
          /\ view'.draft = view.draft /\ view'.saving = view.saving
      BY <2>1, <2>3 DEF Edit, View
    <3>2. Saves' = Saves /\ Asked' = Asked
      BY <3>1 DEF Saves, Asked
    <3> QED
      BY <2>1, <2>2, <3>1, <3>2 DEF PageSound, SaveSound, AskedSound, ShownSound, EditSound
  <2>4. CASE Type \/ Cancel
    <3>1. requests' = requests
      BY <2>4 DEF Type, Cancel
    <3>2. Saves' = Saves /\ Asked' = Asked
      BY <3>1 DEF Saves, Asked
    <3>3. /\ view'.result = view.result /\ view'.saving = view.saving /\ view'.draft # 0
          /\ view'.editing => view.editing
      <4>1. CASE Type
        <5>1. PICK d \in Data \ {0} : view' = [view EXCEPT !.draft = d]
          BY <4>1 DEF Type
        <5>2. view.editing
          BY <4>1 DEF Type
        <5> QED
          BY <2>1, <5>1, <5>2 DEF View
      <4>2. CASE Cancel
        BY <2>1, <4>2 DEF Cancel, View
      <4> QED
        BY <2>4, <4>1, <4>2
    <3> QED
      BY <2>1, <3>1, <3>2, <3>3 DEF PageSound, SaveSound, AskedSound, ShownSound, EditSound
  <2>5. CASE handleSave
    <3>1. Saves = {}
      BY <2>1, <2>5, NoSave DEF handleSave, PageSound
    <3> DEFINE a == [Ask("save", About(resultId)) EXCEPT !.n = ops, !.value = view.draft]
    <3>2. requests' = requests \cup {a}
      BY <2>5 DEF handleSave
    <3>3. a.do = "save" /\ a.live /\ a.at = "asked" /\ a.q.job = resultId /\ a.value # 0
      BY <2>1 DEF Ask, About, NoQuery, PageSound, ShownSound
    <3> HIDE DEF a
    <3>4. Saves' = {a} /\ Asked' = {}
      BY <2>2, <3>1, <3>2, <3>3 DEF Saves, Asked
    <3>5. /\ view'.saving /\ view'.editing /\ view'.result = view.result
          /\ view'.draft = view.draft
      BY <2>1, <2>5 DEF handleSave, View
    <3> QED
      BY <2>1, <3>1, <3>3, <3>4, <3>5 DEF PageSound, SaveSound, AskedSound, ShownSound, EditSound
  <2> QED
    BY <1>4, <2>3, <2>4, <2>5
<1> QED
  BY <1>1, <1>2, <1>3, <1>4 DEF User, DetailInv

\* An answer to a request of another kind touches neither saves nor the page's own request.
LEMMA OtherReply ==
  ASSUME Types, NEW r \in requests, NEW at, NEW value, Reply(r, at, value),
         r.do \notin {"save", "result"}
  PROVE  Saves' = Saves /\ Asked' = Asked
<1> DEFINE c == [r EXCEPT !.at = at, !.value = value]
<1>1. requests' = (requests \ {r}) \cup {c}
  BY DEF Reply
<1>2. c.do = r.do
  BY DEF Types, AllSound, Sound, Request
<1> HIDE DEF c
<1> QED
  BY <1>1, <1>2 DEF Saves, Asked

\* The one save, or the page's own request, is answered.
LEMMA OneReply ==
  ASSUME Types, PageSound, NEW r \in requests, NEW at, NEW value, Reply(r, at, value)
  PROVE  \E c : /\ c.live = r.live /\ c.q = r.q /\ c.at = at /\ c.value = value
                /\ r.do = "save" => Saves' = {c} /\ Asked' = Asked
                /\ r.do = "result" => Asked' = {c} /\ Saves' = Saves
<1> DEFINE c == [r EXCEPT !.at = at, !.value = value]
<1>1. requests' = (requests \ {r}) \cup {c}
  BY DEF Reply
<1>2. c.do = r.do /\ c.live = r.live /\ c.q = r.q /\ c.at = at /\ c.value = value
  BY DEF Types, AllSound, Sound, Request
<1> HIDE DEF c
<1>3. ASSUME r.do = "save" PROVE Saves' = {c} /\ Asked' = Asked
  <2>1. Saves = {r}
    BY <1>3 DEF PageSound, SaveSound, Saves
  <2> QED
    BY <1>1, <1>2, <1>3, <2>1 DEF Saves, Asked
<1>4. ASSUME r.do = "result" PROVE Asked' = {c} /\ Saves' = Saves
  <2>1. Asked = {r}
    BY <1>4 DEF PageSound, AskedSound, Asked
  <2> QED
    BY <1>1, <1>2, <1>4, <2>1 DEF Saves, Asked
<1> QED
  BY <1>2, <1>3, <1>4

\* A save that the server has made is one of what the page shows.
LEMMA ServerDetail ==
  ASSUME Types, DetailInv, NEW r \in requests, Serve(r) \/ Fail(r)
  PROVE  DetailInv'
<1> SUFFICES ASSUME ~unsure', page' = "detail" PROVE PageSound'
  BY DEF DetailInv
<1>1. ~unsure /\ PageSound /\ UNCHANGED <<page, resultId, view>>
  <2>1. UNCHANGED <<page, resultId, view>> /\ ~unsure
    <3>1. CASE Serve(r)
      BY <3>1 DEF Serve, app
    <3>2. CASE Fail(r)
      BY <3>2 DEF Fail, app
    <3> QED
      BY <3>1, <3>2
  <2> QED
    BY <2>1 DEF DetailInv
<1>2. r.do = "save" \/ UNCHANGED stored
  <2>1. CASE Serve(r)
    BY <2>1 DEF Serve, list_job_results, get_result, get_blueprint, correct_result
  <2>2. CASE Fail(r)
    BY <2>2 DEF Fail, server
  <2> QED
    BY <2>1, <2>2
<1>3. PICK at, value : Reply(r, at, value) /\ at \in {"ok", "no"}
  BY DEF Serve, Fail, list_job_results, get_result, get_blueprint, correct_result
<1>4. CASE r.do \notin {"save", "result"}
  <2>1. Saves' = Saves /\ Asked' = Asked
    BY <1>3, <1>4, OtherReply
  <2> QED
    BY <1>1, <1>2, <1>4, <2>1 DEF PageSound, SaveSound, AskedSound, ShownSound, EditSound
<1>5. CASE r.do = "result"
  <2>0. r \in Asked
    BY <1>5 DEF Asked
  <2>1. view.result = 0 /\ r.q.job = resultId /\ UNCHANGED stored
    BY <1>1, <1>2, <1>5, <2>0 DEF PageSound, AskedSound
  <2>2. PICK a, v : Reply(r, a, v) /\ (a = "ok" => v = stored[resultId] /\ v # 0)
    <3>1. CASE Serve(r)
      BY <1>5, <2>1, <3>1 DEF Serve, list_job_results, get_result, get_blueprint, correct_result,
                              _get_owned_result
    <3>2. CASE Fail(r)
      <4>1. Reply(r, "no", 0)
        BY <3>2 DEF Fail
      <4> QED
        BY <4>1
    <3> QED
      BY <3>1, <3>2
  <2>3. PICK c : Asked' = {c} /\ Saves' = Saves /\ c.q = r.q /\ c.at = a /\ c.value = v
    BY <1>1, <1>5, <2>2, OneReply
  <2> QED
    BY <1>1, <2>1, <2>2, <2>3 DEF PageSound, SaveSound, AskedSound, ShownSound, EditSound
<1>6. CASE r.do = "save"
  <2>1. /\ r.live /\ view.saving /\ r.q.job = resultId
        /\ r.at # "no" => r.value # 0
        /\ Saves = {r} /\ view.editing /\ view.result # 0 /\ Asked = {} /\ resultId \in Job
        /\ view.draft # 0 /\ stored[resultId] # 0
    <3>1. r \in Saves
      BY <1>6 DEF Saves
    <3>2. view.saving /\ view.editing
      BY <1>1, <3>1 DEF PageSound, SaveSound, Types, ViewType
    <3>3. view.result # 0 /\ Asked = {}
      BY <1>1, <3>2 DEF PageSound, EditSound, AskedSound
    <3>4. Sound(r)
      BY DEF Types, AllSound
    <3> QED
      BY <1>1, <1>6, <3>1, <3>2, <3>3, <3>4 DEF PageSound, SaveSound, ShownSound, Sound
  <2>2. PICK a, v :
          /\ Reply(r, a, v)
          /\ \/ a = "ok" /\ v # 0 /\ stored' = [stored EXCEPT ![resultId] = v]
             \/ a = "no" /\ r.at = "asked" /\ UNCHANGED stored
    <3>1. CASE Serve(r)
      <4>1. correct_result(r) /\ r.at = "asked"
        BY <1>6, <3>1 DEF Serve, list_job_results, get_result, get_blueprint
      <4> QED
        BY <2>1, <4>1 DEF correct_result
    <3>2. CASE Fail(r)
      <4>1. Reply(r, "no", 0) /\ r.at = "asked" /\ UNCHANGED stored
        BY <1>6, <3>2 DEF Fail, server
      <4> QED
        BY <4>1
    <3> QED
      BY <3>1, <3>2
  <2>3. PICK c : /\ Saves' = {c} /\ Asked' = Asked
                 /\ c.live = r.live /\ c.q = r.q /\ c.at = a /\ c.value = v
    BY <1>1, <1>6, <2>2, OneReply
  <2>4. CASE a = "ok"
    <3>1. stored'[resultId] = v
      BY <2>1, <2>2, <2>4 DEF Types, ServerType
    <3>2. c.value = v /\ v # 0
      BY <2>2, <2>3, <2>4
    <3>3. c.live /\ c.q.job = resultId /\ view.saving
      BY <2>1, <2>3
    <3>4. SaveSound'
      BY <1>1, <2>3, <3>1, <3>2, <3>3 DEF SaveSound
    <3>5. ShownSound'
      BY <1>1, <2>1, <2>3, <2>4, <3>1, <3>2 DEF ShownSound
    <3>6. AskedSound' /\ EditSound'
      BY <1>1, <2>1, <2>3 DEF AskedSound, EditSound, PageSound
    <3> QED
      BY <3>4, <3>5, <3>6 DEF PageSound
  <2>5. CASE a = "no"
    <3>1. r.at = "asked" /\ UNCHANGED stored
      BY <2>2, <2>5
    <3>2. stored[resultId] = view.result
      BY <1>1, <2>1, <3>1 DEF PageSound, ShownSound
    <3>3. SaveSound' /\ ShownSound'
      BY <1>1, <2>1, <2>3, <2>5, <3>1, <3>2 DEF SaveSound, ShownSound
    <3>4. AskedSound' /\ EditSound'
      BY <1>1, <2>1, <2>3 DEF AskedSound, EditSound, PageSound
    <3> QED
      BY <3>3, <3>4 DEF PageSound
  <2> QED
    BY <2>2, <2>4, <2>5
<1> QED
  BY <1>4, <1>5, <1>6

\* The page takes over what it asked for, and what it saved.
LEMMA DeliverDetail ==
  ASSUME Types, DetailInv, NEW r \in requests, Deliver(r)
  PROVE  DetailInv'
<1> SUFFICES ASSUME ~unsure', page' = "detail" PROVE PageSound'
  BY DEF DetailInv
<1>1. ~unsure /\ PageSound /\ UNCHANGED <<page, resultId, stored>> /\ view \in View
  BY DEF Deliver, DetailInv, app, server, Types, ViewType
<1>2. r.do = "save" => /\ r.live /\ Saves = {r}
                       /\ r.at # "no" => r.value # 0
                       /\ r.at = "ok" => stored[resultId] = r.value
  BY <1>1 DEF PageSound, SaveSound, Saves
<1>3. r.do = "result" => /\ Asked = {r} /\ view.result = 0
                         /\ r.at = "ok" => r.value = stored[resultId] /\ r.value # 0
  BY <1>1 DEF PageSound, AskedSound, Asked
<1>4. Ask("fields", r.q).do = "fields"
  BY DEF Ask
<1>5. requests \ {r} \subseteq requests' /\ requests' \subseteq Rest(r) \cup {Ask("fields", r.q)}
  BY DEF Deliver, RowsLoaded, ResultLoaded, FieldsLoaded, Saved, Dropped, Rest
<1>6. Saves' = Saves \ {r} /\ Asked' = Asked \ {r}
  BY <1>4, <1>5 DEF Saves, Asked, Rest
<1>7. CASE view' = view \/ RowsLoaded(r) \/ FieldsLoaded(r)
           \/ (ResultLoaded(r) /\ r.at # "ok")
  <2>1. ASSUME r.do # "save" PROVE PageSound'
    <3>1. /\ view'.result = view.result /\ view'.draft = view.draft
          /\ view'.editing = view.editing /\ view'.saving = view.saving
      BY <1>1, <1>7 DEF RowsLoaded, FieldsLoaded, ResultLoaded, View
    <3>2. Saves' = Saves
      BY <1>6, <2>1 DEF Saves
    <3> QED
      BY <1>1, <1>6, <3>1, <3>2 DEF PageSound, SaveSound, AskedSound, ShownSound, EditSound
  <2>2. ASSUME r.do = "save" PROVE PageSound'
    <3>1. Saved(r)
      BY <1>2, <2>2 DEF Deliver, RowsLoaded, ResultLoaded, FieldsLoaded, Dropped, Heard
    <3>2. view.saving /\ ~view'.saving
      BY <1>1, <1>2, <2>2, <3>1 DEF Saved, View, PageSound, SaveSound
    <3> QED
      BY <1>7, <2>2, <3>2 DEF RowsLoaded, FieldsLoaded, ResultLoaded
  <2> QED
    BY <2>1, <2>2
<1>8. CASE ResultLoaded(r) /\ r.at = "ok"
  <2>1. r.do = "result" /\ view' = [view EXCEPT !.result = r.value, !.draft = r.value]
    BY <1>8 DEF ResultLoaded
  <2>2. /\ view'.result = r.value /\ view'.draft = r.value
        /\ view'.editing = view.editing /\ view'.saving = view.saving
    BY <1>1, <2>1 DEF View
  <2>3. Saves = {}
    BY <1>1, <1>3, <2>1, NoSave DEF PageSound
  <2>4. Saves' = {} /\ Asked' = {} /\ ~view.editing
    BY <1>1, <1>3, <1>6, <2>1, <2>3 DEF PageSound, EditSound
  <2> QED
    BY <1>1, <1>3, <1>8, <2>1, <2>2, <2>4 DEF PageSound, SaveSound, AskedSound, ShownSound, EditSound
<1>9. CASE Saved(r)
  <2>1. r.do = "save" /\ r \in Saves
    BY <1>9 DEF Saved, Saves
  <2>2. view.editing /\ view.result # 0 /\ Asked = {}
    BY <1>1, <2>1 DEF PageSound, SaveSound, AskedSound, EditSound, Types, ViewType
  <2>3. Saves' = {} /\ Asked' = {}
    BY <1>2, <1>6, <2>1, <2>2
  <2>4. CASE r.at = "ok"
    <3>1. /\ view'.result = r.value /\ view'.draft = view.draft /\ ~view'.editing
      BY <1>1, <1>9, <2>4 DEF Saved, Updated, View
    <3> QED
      BY <1>1, <1>2, <2>1, <2>2, <2>3, <2>4, <3>1
         DEF PageSound, SaveSound, AskedSound, ShownSound, EditSound
  <2>5. CASE r.at # "ok"
    <3>1. /\ view'.result = view.result /\ view'.draft = view.draft
          /\ view'.editing = view.editing
      BY <1>1, <1>9, <2>5 DEF Saved, View
    <3> QED
      BY <1>1, <1>2, <2>1, <2>2, <2>3, <2>5, <3>1
         DEF PageSound, SaveSound, AskedSound, ShownSound, EditSound
  <2> QED
    BY <2>4, <2>5
<1> QED
  BY <1>7, <1>8, <1>9 DEF Deliver, Dropped

\* A result that comes in takes the place of none, and usage is no result.
LEMMA RestDetail ==
  ASSUME Types, DetailInv,
         \/ \E r \in requests : Read(r)
         \/ \E j \in Job : SaveResult(j) \/ delete_job(j)
         \/ UNCHANGED vars
  PROVE  DetailInv'
<1> SUFFICES ASSUME ~unsure', page' = "detail" PROVE PageSound'
  BY DEF DetailInv
<1>1. ~unsure /\ PageSound /\ UNCHANGED <<page, resultId, view>>
  <2>1. UNCHANGED <<page, resultId, view, unsure>>
    <3>1. ASSUME NEW r \in requests, Read(r) PROVE UNCHANGED <<page, resultId, view, unsure>>
      BY <3>1 DEF Read, Dropped, app
    <3>2. ASSUME NEW j \in Job, SaveResult(j) \/ delete_job(j)
          PROVE  UNCHANGED <<page, resultId, view, unsure>>
      BY <3>2 DEF SaveResult, delete_job, Background, app
    <3> QED
      BY <3>1, <3>2 DEF vars, app
  <2> QED
    BY <2>1 DEF DetailInv
<1>2. UNCHANGED stored
      \/ (UNCHANGED requests /\ \E j \in Job : stored[j] = 0 /\ stored' = [stored EXCEPT ![j] = 1])
  BY DEF Read, SaveResult, delete_job, Background, server, vars
<1>3. Saves' = Saves /\ Asked' = Asked
  <2>1. CASE requests' = requests
    BY <2>1 DEF Saves, Asked
  <2>2. ASSUME NEW r \in requests, Read(r) PROVE Saves' = Saves /\ Asked' = Asked
    <3>1. requests' = requests \ {r} /\ r.do \notin {"save", "result"}
      BY <2>2 DEF Read, Dropped, Rest, Loader, Paged
    <3> QED
      BY <3>1 DEF Saves, Asked
  <2> QED
    BY <2>1, <2>2 DEF SaveResult, delete_job, Background, vars
<1>4. CASE UNCHANGED stored
  BY <1>1, <1>3, <1>4 DEF PageSound, SaveSound, AskedSound, ShownSound, EditSound
<1>5. ASSUME NEW j \in Job, stored[j] = 0, stored' = [stored EXCEPT ![j] = 1] PROVE PageSound'
  <2>1. CASE stored'[resultId] = stored[resultId]
    BY <1>1, <1>3, <2>1 DEF PageSound, SaveSound, AskedSound, ShownSound, EditSound
  <2>2. CASE stored'[resultId] # stored[resultId]
    <3>1. stored[resultId] = 0
      BY <1>5, <2>2 DEF Types, ServerType
    <3>2. view.result = 0 /\ \A r \in Asked : r.at # "ok"
      BY <1>1, <3>1 DEF PageSound, ShownSound, AskedSound
    <3>3. Saves = {}
      BY <1>1, <3>2, NoSave DEF PageSound
    <3> QED
      BY <1>1, <1>3, <3>2, <3>3 DEF PageSound, SaveSound, AskedSound, ShownSound, EditSound
  <2> QED
    BY <2>1, <2>2
<1> QED
  BY <1>2, <1>4, <1>5

\* The result a page keeps is the stored one, through any number of saves, cancelled edits,
\* visits, lost requests and results that come in, and whatever is typed while a save is under
\* way, as long as no save's answer was lost and no visit overtook a save.
THEOREM DetailAgreesAlways == Spec => []DetailAgrees
<1>1. Init => Types /\ DetailInv
  <2>1. Init => DetailInv
    BY DEF Init, DetailInv
  <2> QED
    BY <2>1, InitTypes
<1>2. Types /\ DetailInv /\ [Next]_vars => (Types /\ DetailInv)'
  <2> SUFFICES ASSUME Types, DetailInv, [Next]_vars PROVE DetailInv'
    BY NextTypes
  <2>1. CASE User
    BY <2>1, UserDetail
  <2>2. ASSUME NEW r \in requests, Serve(r) \/ Fail(r) PROVE DetailInv'
    BY <2>2, ServerDetail
  <2>3. ASSUME NEW r \in requests, Deliver(r) PROVE DetailInv'
    BY <2>3, DeliverDetail
  <2> QED
    BY <2>1, <2>2, <2>3, RestDetail DEF Next
<1>3. Types /\ DetailInv => DetailAgrees
  BY DetailAgreesFollows
<1> QED
  BY <1>1, <1>2, <1>3, PTL DEF Spec

=============================================================================
