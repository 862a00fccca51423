--------------------------- MODULE Catalog_proofs ---------------------------
(***************************************************************************)
(* Proofs for any number of projects, blueprints, jobs, operations and     *)
(* faults: a job's blueprint is one of the job's project, and what the     *)
(* pages show is what the server has once nothing is under way, until      *)
(* something goes astray.                                                  *)
(***************************************************************************)
EXTENDS Catalog, FiniteSetTheorems, TLAPS

-----------------------------------------------------------------------------
(* The strengthening.  An upload that was checked and is not inserted yet  *)
(* names a blueprint of its project for as long as that blueprint exists:  *)
(* a blueprint keeps its project, and its number is never used again.      *)

Shapes ==
  /\ \A r \in requests : {"do", "at", "project", "blueprint", "got"} \subseteq DOMAIN r
  /\ \A b \in DOMAIN blueprints : "project" \in DOMAIN blueprints[b]
  /\ \A j \in DOMAIN jobs : {"project", "blueprint", "result"} \subseteq DOMAIN jobs[j]
  /\ {"projects", "blueprints"} \subseteq DOMAIN made /\ made.blueprints \in Nat

Known ==
  /\ DOMAIN blueprints \subseteq 1 .. made.blueprints
  /\ \A b \in DOMAIN blueprints : blueprints[b].project \in DOMAIN projects
  /\ \A j \in DOMAIN jobs : jobs[j].blueprint \in DOMAIN blueprints \cup {None}

CheckedUpload(r) == r.do = "upload" /\ r.at = "checked"
CheckedMatch ==
  \A r \in requests : CheckedUpload(r) =>
    /\ r.blueprint \in 1 .. made.blueprints
    /\ r.blueprint \in DOMAIN blueprints => blueprints[r.blueprint].project = r.project

CatalogInv == Shapes /\ Known /\ CheckedMatch /\ JobOfItsProject

\* Every checked request of R was one of S, and the requests of R have their fields.
Tame(R, S) ==
  \A q \in R :
    /\ {"do", "at", "project", "blueprint", "got"} \subseteq DOMAIN q
    /\ q.at = "checked" => \E r \in S : /\ r.at = "checked" /\ r.do = q.do /\ r.got = q.got
                                        /\ r.project = q.project /\ r.blueprint = q.blueprint

-----------------------------------------------------------------------------
(* What the browser asks for is new, and what it drops is gone.            *)

\* Requests that are only dropped bring no checked request in.
LEMMA SubsetTame ==
  ASSUME Shapes, NEW rest, rest \subseteq requests
  PROVE  Tame(rest, requests)
  BY DEF Shapes, Tame

\* Two tame sets make one.
LEMMA UnionTame ==
  ASSUME NEW R1, NEW R2, NEW S, Tame(R1, S), Tame(R2, S)
  PROVE  Tame(R1 \cup R2, S)
  BY DEF Tame

\* A request that a page has just sent is not a checked one.
LEMMA AskTame ==
  ASSUME NEW do, NEW p, NEW b, NEW S
  PROVE  Tame({Ask(do, p, b)}, S)
  BY DEF Ask, Tame

\* Nor is any of those a page sends when it is mounted.
LEMMA LoadsTame ==
  ASSUME NEW new, NEW p, NEW S
  PROVE  Tame(Loads(new, p), S)
<1>1. \A q \in Loads(new, p) : \E do : q = Ask(do, p, None) \/ q = Ask(do, None, None)
  BY DEF Loads
<1> QED
  BY <1>1 DEF Ask, Tame

\* A request whose page was left is checked only if it was before.
LEMMA LeftTame ==
  ASSUME Shapes, NEW rest, rest \subseteq requests
  PROVE  Tame({[r EXCEPT !.on = FALSE] : r \in rest}, requests)
<1> SUFFICES ASSUME NEW r \in rest
             PROVE  Tame({[r EXCEPT !.on = FALSE]}, requests)
  BY DEF Tame
<1>1. {"do", "at", "project", "blueprint", "got"} \subseteq DOMAIN r
  BY DEF Shapes
<1> QED
  BY <1>1 DEF Tame

\* navigate sends and drops requests, and checks none.
LEMMA NavigateTame ==
  ASSUME Shapes, NEW new, NEW p, NEW b, NEW rest, rest \subseteq requests,
         navigate(new, p, b, rest)
  PROVE  Tame(requests', requests)
<1>1. \/ \E q : requests' = rest \cup Loads(new, q)
      \/ requests' = rest \cup {}
      \/ \E q : requests' = {[r EXCEPT !.on = FALSE] : r \in rest} \cup Loads(new, q)
  BY DEF navigate
<1>2. Tame(rest, requests) /\ Tame({}, requests)
  BY SubsetTame DEF Tame
<1>3. CASE \E q : requests' = rest \cup Loads(new, q)
  BY <1>2, <1>3, LoadsTame, UnionTame
<1>4. CASE requests' = rest \cup {}
  BY <1>2, <1>4, UnionTame
<1>5. CASE \E q : requests' = {[r EXCEPT !.on = FALSE] : r \in rest} \cup Loads(new, q)
  <2>1. PICK q : requests' = {[r EXCEPT !.on = FALSE] : r \in rest} \cup Loads(new, q)
    BY <1>5
  <2> QED
    BY <2>1, LeftTame, LoadsTame, UnionTame
<1> QED
  BY <1>1, <1>3, <1>4, <1>5

\* Sending a request that is not a checked one.
LEMMA SendTame ==
  ASSUME Shapes, NEW q, Tame({q}, requests), Send(q)
  PROVE  Tame(requests', requests)
  BY SubsetTame, UnionTame DEF Send

\* What the user does changes no row and checks no request.
LEMMA UserTame ==
  ASSUME Shapes, User
  PROVE  Tame(requests', requests) /\ UNCHANGED server
<1>1. ASSUME NEW new, Sidebar(new) PROVE Tame(requests', requests) /\ UNCHANGED server
  BY <1>1, NavigateTame DEF Sidebar, Calm
<1>2. CASE OpenProject
  BY <1>2, NavigateTame DEF OpenProject, Calm
<1>3. CASE NewProject \/ EditProject \/ OpenBlueprint \/ UploadWithThis
  BY <1>3, NavigateTame DEF NewProject, EditProject, OpenBlueprint, UploadWithThis, Calm
<1>4. CASE AskDelete \/ CancelDelete \/ Type \/ ChooseBlueprint \/ addFiles \/ remove
  BY <1>4, SubsetTame DEF AskDelete, CancelDelete, Type, ChooseBlueprint, addFiles, remove, Local, Calm
<1>5. CASE handleDeleteProject \/ handleCreate \/ handleDeleteBlueprint \/ handleUpload
  BY <1>5, SendTame, AskTame
     DEF handleDeleteProject, handleCreate, handleDeleteBlueprint, handleUpload, Local, Calm
<1>6. CASE handleSubmitProject
  <2> DEFINE q == [Ask("save", projectId, None) EXCEPT !.text = view.text]
  <2>1. Tame({q}, requests)
    BY DEF Ask, Tame
  <2> QED
    BY <1>6, <2>1, SendTame DEF handleSubmitProject, Local, Calm
<1>7. CASE ChooseProject
  <2>1. PICK p : requests' = requests \cup (IF p = None THEN {} ELSE {Ask("blueprints", p, None)})
    BY <1>7 DEF ChooseProject
  <2>2. Tame(IF p = None THEN {} ELSE {Ask("blueprints", p, None)}, requests)
    BY AskTame DEF Tame
  <2> QED
    BY <1>7, <2>1, <2>2, SubsetTame, UnionTame DEF ChooseProject, Calm
<1> QED
  BY <1>1, <1>2, <1>3, <1>4, <1>5, <1>6, <1>7 DEF User

\* What a page does with an answer changes no row and checks no request.
LEMMA ContinueTame ==
  ASSUME Shapes, NEW r \in requests, Continue(r)
  PROVE  Tame(requests', requests) /\ UNCHANGED server
<1>0. UNCHANGED server
  BY DEF Continue
<1>1. CASE requests' \subseteq requests
  BY <1>0, <1>1, SubsetTame
<1>2. CASE \E new, p, b : navigate(new, p, b, requests \ {r})
  <2>1. PICK new, p, b : navigate(new, p, b, requests \ {r})
    BY <1>2
  <2> QED
    BY <1>0, <2>1, NavigateTame
<1>3. CASE Listed(r)
  BY <1>1, <1>3 DEF Listed, Show, Stay
<1>4. CASE DetailLoaded(r)
  BY <1>1, <1>4 DEF DetailLoaded, Show, Stay
<1>5. CASE FormLoaded(r)
  BY <1>1, <1>5 DEF FormLoaded, Show, Stay
<1>6. CASE BlueprintsLoaded(r)
  BY <1>1, <1>6 DEF BlueprintsLoaded, Show, Stay
<1>7. CASE ProjectDeleted(r)
  BY <1>1, <1>7 DEF ProjectDeleted, Show, Stay
<1>8. CASE BlueprintDeleted(r)
  BY <1>1, <1>8 DEF BlueprintDeleted, Show, Stay
<1>9. CASE ProjectSaved(r)
  BY <1>1, <1>2, <1>9 DEF ProjectSaved, Show, Stay
<1>10. CASE BlueprintCreated(r)
  BY <1>1, <1>2, <1>10 DEF BlueprintCreated, Show, Stay
<1>11. CASE Uploaded(r)
  BY <1>1, <1>2, <1>11 DEF Uploaded, Show, Stay
<1> QED
  BY <1>3, <1>4, <1>5, <1>6, <1>7, <1>8, <1>9, <1>10, <1>11 DEF Continue

-----------------------------------------------------------------------------
(* What the server does to the rows.                                       *)

\* A request that the server answers for good is not a checked one any more.
LEMMA ReplyTame ==
  ASSUME Shapes, NEW r \in requests, NEW at, NEW got, Reply(r, at, got),
         at # "checked"
  PROVE  Tame(requests', requests)
<1>1. {"do", "at", "project", "blueprint", "got"} \subseteq DOMAIN r
  BY DEF Shapes
<1>2. Tame({[r EXCEPT !.at = at, !.got = got]}, requests)
  BY <1>1 DEF Tame
<1> QED
  BY <1>2, SubsetTame, UnionTame DEF Reply

\* A step that leaves blueprints and jobs alone and removes no project keeps the invariant.
LEMMA Unchanged ==
  ASSUME CatalogInv, Tame(requests', requests), UNCHANGED <<blueprints, jobs, made>>,
         DOMAIN projects \subseteq DOMAIN projects'
  PROVE  CatalogInv'
  BY DEF CatalogInv, Shapes, Known, CheckedMatch, JobOfItsProject, Tame, CheckedUpload

\* Rows that go leave no job of theirs behind: the foreign keys cascade or set null.
LEMMA ForgetInv ==
  ASSUME CatalogInv, NEW gone, Forget(gone), Tame(requests', requests), UNCHANGED made,
         \A b \in DOMAIN blueprints \ gone : blueprints[b].project \in DOMAIN projects'
  PROVE  CatalogInv'
<1> USE DEF CatalogInv
<1>1. /\ DOMAIN blueprints' = DOMAIN blueprints \ gone
      /\ \A b \in DOMAIN blueprints' : blueprints'[b] = blueprints[b]
      /\ DOMAIN jobs' = DOMAIN jobs
  BY DEF Forget
<1>2. ASSUME NEW j \in DOMAIN jobs
      PROVE  /\ {"project", "blueprint", "result"} \subseteq DOMAIN jobs'[j]
             /\ jobs'[j].blueprint = IF jobs[j].blueprint \in gone THEN None ELSE jobs[j].blueprint
             /\ jobs'[j].project = IF jobs[j].project \in DOMAIN projects'
                                     THEN jobs[j].project ELSE None
  BY <1>2 DEF Forget, Shapes
<1>3. Shapes'
  BY <1>1, <1>2 DEF Shapes, Tame
<1>4. Known'
  BY <1>1, <1>2 DEF Known
<1>5. CheckedMatch'
  BY <1>1 DEF CheckedMatch, Tame, CheckedUpload
<1>6. JobOfItsProject'
  BY <1>1, <1>2 DEF JobOfItsProject, Known, None
<1> QED
  BY <1>3, <1>4, <1>5, <1>6

\* Every handler of the server keeps the invariant.
LEMMA ServeInv ==
  ASSUME CatalogInv, NEW r \in requests, Serve(r)
  PROVE  CatalogInv'
<1>0. Shapes
  BY DEF CatalogInv
<1>1. CASE list_projects(r)
  <2>1. Tame(requests', requests)
    BY <1>0, <1>1, ReplyTame DEF list_projects
  <2> QED
    BY <1>1, <2>1, Unchanged DEF list_projects, server
<1>2. CASE get_project(r)
  <2>1. Tame(requests', requests)
    BY <1>0, <1>2, ReplyTame DEF get_project
  <2> QED
    BY <1>2, <2>1, Unchanged DEF get_project, server
<1>3. CASE create_project(r)
  <2>1. Tame(requests', requests)
    BY <1>0, <1>3, ReplyTame DEF create_project, Done
  <2>2. DOMAIN projects \subseteq DOMAIN projects'
    BY <1>3 DEF create_project
  <2>3. made'.blueprints = made.blueprints /\ DOMAIN made' = DOMAIN made
    BY <1>0, <1>3 DEF create_project, Shapes
  <2>4. UNCHANGED <<blueprints, jobs>>
    BY <1>3 DEF create_project
  <2> QED
    BY <2>1, <2>2, <2>3, <2>4
       DEF CatalogInv, Shapes, Known, CheckedMatch, JobOfItsProject, Tame, CheckedUpload
<1>4. CASE update_project(r)
  <2>1. Tame(requests', requests)
    BY <1>0, <1>4, ReplyTame DEF update_project, Done
  <2> QED
    BY <1>4, <2>1, Unchanged DEF update_project
<1>5. CASE delete_project(r)
  <2>1. Tame(requests', requests)
    BY <1>0, <1>5, ReplyTame DEF delete_project, Done
  <2>2. /\ DOMAIN projects' = DOMAIN projects \ {r.project}
        /\ Forget({b \in DOMAIN blueprints : blueprints[b].project = r.project})
        /\ UNCHANGED made
    BY <1>5 DEF delete_project
  <2> QED
    BY <2>1, <2>2, ForgetInv DEF CatalogInv, Known
<1>6. CASE create_blueprint(r)
  <2>1. Tame(requests', requests)
    BY <1>0, <1>6, ReplyTame DEF create_blueprint, Done
  <2> DEFINE id == made.blueprints + 1
  <2>2. /\ DOMAIN blueprints' = DOMAIN blueprints \cup {id}
        /\ \A b \in DOMAIN blueprints' :
             blueprints'[b] = IF b = id THEN [project |-> r.project, active |-> TRUE] ELSE blueprints[b]
        /\ r.project \in DOMAIN projects /\ UNCHANGED <<projects, jobs>>
    BY <1>6 DEF create_blueprint
  <2>3. made'.blueprints = id /\ DOMAIN made' = DOMAIN made /\ made.blueprints \in Nat
    BY <1>0, <1>6 DEF create_blueprint, Shapes
  <2>4. id \notin DOMAIN blueprints /\ 1 .. made.blueprints \subseteq 1 .. id /\ id # None /\ id \in 1 .. id
        /\ id \notin 1 .. made.blueprints /\ id \in Nat
    <3>1. made.blueprints \in Nat /\ DOMAIN blueprints \subseteq 1 .. made.blueprints
      BY <2>3 DEF CatalogInv, Known
    <3> QED
      BY <3>1 DEF None
  <2> HIDE DEF id
  <2>5. Shapes'
    BY <2>1, <2>2, <2>3, <2>4 DEF CatalogInv, Shapes, Tame
  <2>6. Known'
    BY <2>2, <2>3, <2>4 DEF CatalogInv, Known
  <2>7. CheckedMatch'
    BY <2>1, <2>2, <2>3, <2>4 DEF CatalogInv, CheckedMatch, Tame, CheckedUpload
  <2>8. JobOfItsProject'
    BY <2>2, <2>4 DEF CatalogInv, JobOfItsProject, Known
  <2> QED
    BY <2>5, <2>6, <2>7, <2>8 DEF CatalogInv
<1>7. CASE CountResults(r)
  <2> DEFINE c == [r EXCEPT !.at = "checked", !.got = [Nothing EXCEPT !.missing = ~HasResults(r.blueprint)]]
  <2>1. requests' = (requests \ {r}) \cup {c} /\ r.do = "deleteBlueprint"
    BY <1>7 DEF CountResults, Reply
  <2>2. {"do", "at", "project", "blueprint", "got"} \subseteq DOMAIN c /\ c.do = r.do
    BY <1>0 DEF Shapes
  <2> HIDE DEF c
  <2>3. UNCHANGED <<projects, blueprints, jobs, made>>
    BY <1>7 DEF CountResults, server
  <2>4. \A q \in requests' : q \in requests \/ q = c
    BY <2>1
  <2> QED
    BY <2>1, <2>2, <2>3, <2>4
       DEF CatalogInv, Shapes, Known, CheckedMatch, JobOfItsProject, CheckedUpload
<1>8. CASE delete_blueprint(r)
  <2>1. Tame(requests', requests)
    BY <1>0, <1>8, ReplyTame DEF delete_blueprint
  <2>2. CASE projects' = projects /\ Forget({r.blueprint})
    BY <1>8, <2>1, <2>2, ForgetInv DEF delete_blueprint, CatalogInv, Known
  <2>3. CASE /\ blueprints' = [blueprints EXCEPT ![r.blueprint].active = FALSE]
             /\ UNCHANGED <<projects, jobs>>
    <3>1. /\ DOMAIN blueprints' = DOMAIN blueprints
          /\ \A b \in DOMAIN blueprints : /\ "project" \in DOMAIN blueprints'[b]
                                          /\ blueprints'[b].project = blueprints[b].project
      BY <1>0, <2>3 DEF Shapes
    <3>2. UNCHANGED made
      BY <1>8 DEF delete_blueprint
    <3> QED
      BY <2>1, <2>3, <3>1, <3>2
         DEF CatalogInv, Shapes, Known, CheckedMatch, JobOfItsProject, Tame, CheckedUpload
  <2> QED
    BY <1>8, <2>2, <2>3 DEF delete_blueprint
<1>9. CASE CheckUpload(r)
  <2>1. requests' = (requests \ {r}) \cup {[r EXCEPT !.at = "checked", !.got = Nothing]}
    BY <1>9 DEF CheckUpload, Reply
  <2>2. /\ r.blueprint \in DOMAIN blueprints /\ blueprints[r.blueprint].project = r.project
        /\ UNCHANGED <<projects, blueprints, jobs, made>>
    BY <1>9 DEF CheckUpload, Belongs, server
  <2> DEFINE c == [r EXCEPT !.at = "checked", !.got = Nothing]
  <2>3. {"do", "at", "project", "blueprint", "got"} \subseteq DOMAIN c
        /\ c.blueprint = r.blueprint /\ c.project = r.project
    BY <1>0 DEF Shapes
  <2> HIDE DEF c
  <2>4. \A q \in requests' : q \in requests \/ q = c
    BY <2>1 DEF c
  <2> QED
    BY <2>2, <2>3, <2>4
       DEF CatalogInv, Shapes, Known, CheckedMatch, JobOfItsProject, CheckedUpload
<1>10. CASE upload_files(r)
  <2>1. Tame(requests', requests)
    BY <1>0, <1>10, ReplyTame DEF upload_files, Done
  <2> DEFINE id == Cardinality(DOMAIN jobs) + 1
             new == [project |-> r.project, blueprint |-> r.blueprint, result |-> FALSE]
  <2>2. /\ DOMAIN jobs' = DOMAIN jobs \cup {id}
        /\ \A j \in DOMAIN jobs' : jobs'[j] = IF j # id THEN jobs[j] ELSE new
        /\ r.blueprint \in DOMAIN blueprints
        /\ UNCHANGED <<projects, blueprints, made>>
    BY <1>10 DEF upload_files
  <2>3. {"project", "blueprint", "result"} \subseteq DOMAIN new
        /\ new.project = r.project /\ new.blueprint = r.blueprint
    OBVIOUS
  <2> HIDE DEF id, new
  <2>4. blueprints[r.blueprint].project = r.project
    BY <1>10, <2>2 DEF upload_files, CatalogInv, CheckedMatch, CheckedUpload
  <2>5. Shapes'
    BY <2>1, <2>2, <2>3 DEF CatalogInv, Shapes, Tame
  <2>6. Known' /\ JobOfItsProject'
    BY <2>2, <2>3, <2>4 DEF CatalogInv, Known, JobOfItsProject
  <2>7. CheckedMatch'
    BY <2>1, <2>2 DEF CatalogInv, CheckedMatch, Tame, CheckedUpload
  <2> QED
    BY <2>5, <2>6, <2>7 DEF CatalogInv
<1>11. CASE NotFound(r)
  <2>1. Tame(requests', requests)
    BY <1>0, <1>11, ReplyTame DEF NotFound, Refused
  <2> QED
    BY <1>11, <2>1, Unchanged DEF NotFound, Refused, server
<1> QED
  BY <1>1, <1>2, <1>3, <1>4, <1>5, <1>6, <1>7, <1>8, <1>9, <1>10, <1>11 DEF Serve

\* A request that fails on its way has no effect on the rows.
LEMMA FailInv ==
  ASSUME CatalogInv, NEW r \in requests, Fail(r)
  PROVE  CatalogInv'
<1>1. Tame(requests', requests)
  BY ReplyTame DEF Fail, Refused, CatalogInv
<1> QED
  BY <1>1, Unchanged DEF Fail, Refused, server

\* A saved result moves no job and no blueprint.
LEMMA SaveResultInv ==
  ASSUME CatalogInv, NEW j \in DOMAIN jobs, SaveResult(j)
  PROVE  CatalogInv'
<1>1. /\ DOMAIN jobs' = DOMAIN jobs
      /\ \A i \in DOMAIN jobs : /\ DOMAIN jobs'[i] = DOMAIN jobs[i]
                                /\ jobs'[i].project = jobs[i].project
                                /\ jobs'[i].blueprint = jobs[i].blueprint
  BY DEF SaveResult, CatalogInv, Shapes
<1>2. UNCHANGED <<projects, blueprints, made, requests>>
  BY DEF SaveResult
<1> QED
  BY <1>1, <1>2 DEF CatalogInv, Shapes, Known, CheckedMatch, JobOfItsProject, CheckedUpload

-----------------------------------------------------------------------------
(* The theorem.                                                            *)

\* The invariant holds at the start: the two blueprints are of the two projects.
LEMMA InitInv == Init => CatalogInv
<1> SUFFICES ASSUME Init PROVE CatalogInv
  OBVIOUS
<1>1. requests = {} /\ DOMAIN jobs = {}
  BY DEF Init
<1>2. DOMAIN blueprints = 1 .. 2 /\ DOMAIN projects = 1 .. 2
      /\ \A b \in 1 .. 2 : blueprints[b] = [project |-> b, active |-> TRUE]
  BY DEF Init
<1>3. made = [projects |-> 2, blueprints |-> 2]
  BY DEF Init
<1> QED
  BY <1>1, <1>2, <1>3 DEF CatalogInv, Shapes, Known, CheckedMatch, JobOfItsProject

\* Every step keeps the invariant.
LEMMA NextInv == CatalogInv /\ [Next]_vars => CatalogInv'
<1> SUFFICES ASSUME CatalogInv, [Next]_vars PROVE CatalogInv'
  OBVIOUS
<1>0. Shapes
  BY DEF CatalogInv
<1>1. CASE User
  BY <1>0, <1>1, UserTame, Unchanged DEF server
<1>2. ASSUME NEW j \in DOMAIN jobs, SaveResult(j) PROVE CatalogInv'
  BY <1>2, SaveResultInv
<1>3. ASSUME NEW r \in requests, Serve(r) PROVE CatalogInv'
  BY <1>3, ServeInv
<1>4. ASSUME NEW r \in requests, Fail(r) PROVE CatalogInv'
  BY <1>4, FailInv
<1>5. ASSUME NEW r \in requests, Continue(r) PROVE CatalogInv'
  BY <1>0, <1>5, ContinueTame, Unchanged DEF server
<1>6. CASE UNCHANGED vars
  <2>1. UNCHANGED <<projects, blueprints, jobs, made, requests>>
    BY <1>6 DEF vars, server
  <2>2. Tame(requests', requests)
    BY <1>0, <2>1, SubsetTame
  <2> QED
    BY <2>1, <2>2, Unchanged
<1> QED
  BY <1>1, <1>2, <1>3, <1>4, <1>5, <1>6 DEF Next

\* A job's blueprint is one of the job's project in every reachable state, for any number of
\* projects, blueprints, uploads, operations and failed requests: upload_files compares the two
\* before the insert, and no handler moves a blueprint to another project.
THEOREM JobOfItsProjectAlways == Spec => []JobOfItsProject
<1>1. CatalogInv => JobOfItsProject
  BY DEF CatalogInv
<1> QED
  BY <1>1, InitInv, NextInv, PTL DEF Spec

-----------------------------------------------------------------------------
(* Types.                                                                   *)

\* A request, and what the answers that App navigates by, or the page shows, name.
Sound(r) ==
  /\ r \in Request
  /\ r.at = "ok" /\ r.do \in {"save", "detail"} => r.got.id \in 0 .. MaxProjects
  /\ r.at = "ok" /\ r.do = "create" => r.got.id \in 0 .. MaxBlueprints

ServerType ==
  /\ DOMAIN projects \subseteq 1 .. made.projects
  /\ DOMAIN projects \subseteq ProjectId /\ \A p \in DOMAIN projects : projects[p] \in BOOLEAN
  /\ DOMAIN blueprints \subseteq BlueprintId
  /\ \A b \in DOMAIN blueprints : blueprints[b] \in [project : ProjectId, active : BOOLEAN]
  /\ DOMAIN jobs \subseteq 1 .. MaxJobs /\ \A j \in DOMAIN jobs : jobs[j] \in Job
  /\ made \in [projects : 2 .. MaxProjects, blueprints : 2 .. MaxBlueprints]

AppType ==
  /\ page \in Page /\ projectId \in 0 .. MaxProjects /\ blueprintId \in 0 .. MaxBlueprints
  /\ view \in View

AllSound == \A r \in requests : Sound(r)

Types ==
  /\ ServerType /\ AppType /\ AllSound
  /\ astray \in BOOLEAN /\ ops \in 0 .. MaxOps /\ faults \in 0 .. MaxFaults

LEMMA TypesAreTypeOK == Types => TypeOK
  BY DEF Types, ServerType, AppType, AllSound, Sound, TypeOK

LEMMA BoundsAre ==
  /\ {MaxProjects, MaxBlueprints, MaxJobs, MaxOps, MaxFaults} \subseteq Nat
  /\ MaxProjects >= 2 /\ MaxBlueprints >= 2
  /\ Unset \notin 0 .. MaxProjects /\ Unset \notin 0 .. MaxBlueprints
  BY CatalogAssumption DEF Unset

LEMMA NothingIs ==
  /\ Nothing \in Answer /\ Nothing.id = None /\ ~Nothing.missing
  /\ Nothing.text = FALSE /\ Nothing.projects = {} /\ Nothing.cards = {}
  /\ None \in 0 .. MaxProjects /\ None \in 0 .. MaxBlueprints
  BY BoundsAre DEF Nothing, Answer, None

\* A request that was just sent.
LEMMA AskIs ==
  ASSUME ops \in Nat, NEW do \in Loading \cup Change, NEW p \in 0 .. MaxProjects,
         NEW b \in 0 .. MaxBlueprints
  PROVE  /\ Sound(Ask(do, p, b))
         /\ Ask(do, p, b).do = do /\ Ask(do, p, b).on /\ Ask(do, p, b).at = "asked"
         /\ Ask(do, p, b).project = p /\ Ask(do, p, b).blueprint = b
  BY NothingIs DEF Ask, Sound, Request

\* What a page asks for when it is mounted.
LEMMA LoadsAre ==
  ASSUME ops \in Nat, NEW new, NEW p \in 0 .. MaxProjects, NEW a \in Loads(new, p)
  PROVE  /\ Sound(a) /\ a.do \in Loading /\ a.on /\ a.at = "asked"
         /\ a.do = "list" => new \in {"projects", "upload"}
         /\ a.do = "detail" => new = "detail" /\ a.project = p
         /\ a.do = "project" => new = "form" /\ p # None /\ a.project = p
         /\ a.do = "blueprints" => new = "upload" /\ p # None /\ a.project = p
         /\ a = Ask(a.do, IF a.do = "list" THEN None ELSE p, None)
<1>1. PICK do \in Loading, q \in {p, None} :
        /\ a = Ask(do, q, None) /\ q = (IF do = "list" THEN None ELSE p)
        /\ do = "list" => new \in {"projects", "upload"}
        /\ do = "detail" => new = "detail" /\ q = p
        /\ do = "project" => new = "form" /\ p # None /\ q = p
        /\ do = "blueprints" => new = "upload" /\ p # None /\ q = p
  BY DEF Loads, Loading
<1>2. q \in 0 .. MaxProjects /\ None \in 0 .. MaxBlueprints /\ do \in Loading \cup Change
  BY <1>1, NothingIs
<1>3. /\ Sound(a) /\ a.do = do /\ a.on /\ a.at = "asked" /\ a.project = q
  BY <1>1, <1>2, AskIs
<1> QED
  BY <1>1, <1>3

LEMMA FreshIs ==
  ASSUME NEW new, NEW p \in 0 .. MaxProjects, NEW b \in 0 .. MaxBlueprints
  PROVE  Fresh(new, p, b) \in View
  BY NothingIs DEF Fresh, View

\* A request as its page leaves it.
LEMMA OffIs ==
  ASSUME NEW r, Sound(r)
  PROVE  /\ Sound([r EXCEPT !.on = FALSE]) /\ ~[r EXCEPT !.on = FALSE].on
         /\ [r EXCEPT !.on = FALSE].do = r.do
  BY DEF Sound, Request

LEMMA NavigateTypes ==
  ASSUME Types, NEW new \in Page, NEW p \in 0 .. MaxProjects \cup {Unset},
         NEW b \in 0 .. MaxBlueprints \cup {Unset}, NEW rest \in SUBSET requests,
         navigate(new, p, b, rest)
  PROVE  AppType' /\ AllSound' /\ astray' \in BOOLEAN
<1>1. NextProject(new, p) \in 0 .. MaxProjects /\ NextBlueprint(new, b) \in 0 .. MaxBlueprints
  BY NothingIs DEF NextProject, NextBlueprint, Types, AppType
<1>2. /\ page' = new /\ projectId' = NextProject(new, p) /\ blueprintId' = NextBlueprint(new, b)
      /\ view' \in {view, Fresh(new, projectId', blueprintId')}
      /\ astray' = (astray \/ \E r \in rest : r.do \in Change)
  BY DEF navigate
<1>3. AppType' /\ astray' \in BOOLEAN
  BY <1>1, <1>2, FreshIs DEF Types, AppType
<1>4. requests' \subseteq rest \cup {[r EXCEPT !.on = FALSE] : r \in rest} \cup Loads(new, NextProject(new, p))
  BY DEF navigate
<1>5. \A a \in Loads(new, NextProject(new, p)) : Sound(a)
  BY <1>1, LoadsAre DEF Types
<1>6. \A r \in rest : Sound(r) /\ Sound([r EXCEPT !.on = FALSE])
  BY OffIs DEF AllSound, Types
<1>7. AllSound'
  BY <1>4, <1>5, <1>6 DEF AllSound
<1> QED
  BY <1>3, <1>7

LEMMA UserTypes ==
  ASSUME Types, User
  PROVE  Types'
<1> USE DEF Operation, Calm, Local, Send, Detail
<1>a. /\ ServerType /\ AppType /\ AllSound /\ astray \in BOOLEAN /\ ops \in 0 .. MaxOps
      /\ faults \in 0 .. MaxFaults /\ MaxOps \in Nat /\ ops \in Nat
  BY BoundsAre DEF Types
<1>b. /\ Unset \in 0 .. MaxProjects \cup {Unset} /\ Unset \in 0 .. MaxBlueprints \cup {Unset}
      /\ projectId \in 0 .. MaxProjects \cup {Unset} /\ blueprintId \in 0 .. MaxBlueprints \cup {Unset}
      /\ None \in 0 .. MaxProjects /\ None \in 0 .. MaxBlueprints
  BY <1>a, NothingIs DEF AppType
<1>v. /\ view.projects \subseteq ProjectId /\ view.cards \subseteq Card
      /\ view.pick \in 0 .. MaxProjects /\ view.choice \in 0 .. MaxBlueprints
      /\ view.modal \in 0 .. MaxProjects /\ view \in View
      /\ view.text \in BOOLEAN /\ view.typed \in BOOLEAN
  BY <1>a DEF AppType, View
<1>i. /\ ProjectId \subseteq 0 .. MaxProjects
      /\ \A c \in Card : c.id \in 0 .. MaxBlueprints /\ c.active \in BOOLEAN
  BY BoundsAre DEF ProjectId, BlueprintId, Card
<1>c. (server' = server /\ AppType' /\ AllSound' /\ astray' \in BOOLEAN
        /\ ops' \in {ops, ops + 1} /\ ops' \in 0 .. MaxOps /\ faults' = faults) => Types'
  BY <1>a DEF Types, ServerType, server
<1>n. ASSUME NEW new \in Page, NEW p \in 0 .. MaxProjects \cup {Unset},
             NEW b \in 0 .. MaxBlueprints \cup {Unset}, navigate(new, p, b, requests),
             Calm, ops < MaxOps, ops' = ops + 1
      PROVE  Types'
  <2>1. AppType' /\ AllSound' /\ astray' \in BOOLEAN
    BY <1>n, NavigateTypes
  <2> QED
    BY <1>a, <1>c, <1>n, <2>1
<1>s. ASSUME view' \in View, app' = app, Local, requests' = requests,
             ops' \in {ops, ops + 1} /\ ops' \in 0 .. MaxOps
      PROVE  Types'
  BY <1>a, <1>c, <1>s DEF AppType, AllSound, app
<1>q. ASSUME NEW r, Sound(r), view' \in View, Local, requests' = requests \cup {r},
             ops < MaxOps, ops' = ops + 1
      PROVE  Types'
  <2>1. AppType' /\ AllSound'
    BY <1>a, <1>q DEF AppType, AllSound, app
  <2> QED
    BY <1>a, <1>c, <1>q, <2>1
<1>1. ASSUME NEW new \in {"projects", "upload", "elsewhere"}, Sidebar(new) PROVE Types'
  BY <1>1, <1>n, <1>b DEF Sidebar, Page
<1>2. CASE OpenProject
  <2>1. PICK p \in 0 .. MaxProjects : navigate("detail", p, Unset, requests)
    BY <1>2, <1>v, <1>i, <1>a DEF OpenProject, AppType
  <2>2. ops < MaxOps /\ ops' = ops + 1 /\ Calm
    BY <1>2 DEF OpenProject
  <2> QED
    BY <2>1, <2>2, <1>n, <1>b DEF Page
<1>3. CASE NewProject
  BY <1>3, <1>n, <1>b DEF NewProject, Page
<1>4. CASE AskDelete
  <2>1. view' \in View
    BY <1>4, <1>v, <1>i DEF AskDelete, View
  <2> QED
    BY <2>1, <1>4, <1>s, <1>a DEF AskDelete, app
<1>5. CASE CancelDelete
  <2>1. view' \in View
    BY <1>5, <1>v, <1>b DEF CancelDelete, View
  <2> QED
    BY <2>1, <1>5, <1>s, <1>a DEF CancelDelete, app
<1>6. CASE handleDeleteProject
  <2>1. view' \in View
    BY <1>6, <1>v DEF handleDeleteProject, View
  <2>2. Sound(Ask("deleteProject", view.modal, None))
    BY <1>a, <1>b, <1>v, AskIs DEF Change
  <2> QED
    BY <2>1, <2>2, <1>6, <1>q DEF handleDeleteProject
<1>7. CASE EditProject
  BY <1>7, <1>n, <1>b DEF EditProject, Page
<1>8. CASE OpenBlueprint
  <2>1. PICK c \in view.cards : navigate("builder", projectId, c.id, requests)
    BY <1>8 DEF OpenBlueprint
  <2>2. c.id \in 0 .. MaxBlueprints \cup {Unset}
    BY <1>v, <1>i
  <2> QED
    BY <1>8, <2>1, <2>2, <1>n, <1>b DEF OpenBlueprint, Page
<1>9. CASE handleCreate
  <2>1. Sound(Ask("create", projectId, None))
    BY <1>a, <1>b, AskIs DEF Change, AppType
  <2> QED
    BY <2>1, <1>9, <1>q, <1>v DEF handleCreate
<1>10. CASE handleDeleteBlueprint
  <2>1. PICK c \in view.cards : /\ view' = [view EXCEPT !.busyId = c.id]
                                /\ Send(Ask("deleteBlueprint", None, c.id))
    BY <1>10 DEF handleDeleteBlueprint
  <2>2. c.id \in 0 .. MaxBlueprints
    BY <1>v, <1>i
  <2>3. view' \in View
    BY <2>1, <2>2, <1>v DEF View
  <2>4. Sound(Ask("deleteBlueprint", None, c.id))
    BY <2>2, <1>a, <1>b, AskIs DEF Change
  <2> QED
    BY <2>1, <2>3, <2>4, <1>10, <1>q DEF handleDeleteBlueprint
<1>11. CASE Type
  <2>1. view' \in View
    BY <1>11, <1>v DEF Type, View
  <2> QED
    BY <2>1, <1>11, <1>s, <1>a DEF Type, app
<1>12. CASE handleSubmitProject
  <2>1. view' \in View
    BY <1>12, <1>v DEF handleSubmitProject, View
  <2>2. Sound(Ask("save", projectId, None)) /\ Ask("save", projectId, None).at = "asked"
    BY <1>a, <1>b, AskIs DEF Change, AppType
  <2> DEFINE r == [Ask("save", projectId, None) EXCEPT !.text = view.text]
  <2>3. Sound(r)
    BY <2>2, <1>v DEF Sound, Request
  <2>4. requests' = requests \cup {r}
    BY <1>12 DEF handleSubmitProject
  <2> HIDE DEF r
  <2> QED
    BY <2>1, <2>3, <2>4, <1>12, <1>q DEF handleSubmitProject
<1>13. CASE ChooseProject
  <2>1. PICK p \in view.projects \cup {None} :
          /\ view' = [view EXCEPT !.pick = p, !.choice = Cleared(@),
                        !.cards = IF p = None THEN {} ELSE @,
                        !.loadingBlueprints = @ \/ p # None]
          /\ requests' = requests \cup (IF p = None THEN {} ELSE {Ask("blueprints", p, None)})
    BY <1>13 DEF ChooseProject
  <2>2. p \in 0 .. MaxProjects
    BY <1>v, <1>i, <1>b
  <2>3. view' \in View
    BY <2>1, <2>2, <1>v, <1>b DEF View, Cleared
  <2>4. Sound(Ask("blueprints", p, None))
    BY <2>2, <1>a, <1>b, AskIs DEF Loading
  <2>5. AppType' /\ AllSound'
    BY <2>1, <2>3, <2>4, <1>a, <1>13 DEF AppType, AllSound, app, ChooseProject
  <2>6. astray' \in BOOLEAN /\ ops < MaxOps /\ ops' = ops + 1 /\ Calm
    BY <1>13 DEF ChooseProject
  <2> QED
    BY <2>5, <2>6, <1>a, <1>c
<1>14. CASE ChooseBlueprint
  <2>1. PICK b \in {c.id : c \in view.cards} \cup {None} : view' = [view EXCEPT !.choice = b]
    BY <1>14 DEF ChooseBlueprint
  <2>2. b \in 0 .. MaxBlueprints
    BY <1>v, <1>i, <1>b
  <2>3. view' \in View
    BY <2>1, <2>2, <1>v DEF View
  <2> QED
    BY <2>3, <1>14, <1>s, <1>a DEF ChooseBlueprint, app
<1>15. CASE addFiles
  <2>1. view' \in View
    BY <1>15, <1>v DEF addFiles, View
  <2> QED
    BY <2>1, <1>15, <1>s, <1>a DEF addFiles, app
<1>16. CASE remove
  <2>1. view' \in View
    BY <1>16, <1>v DEF remove, View
  <2> QED
    BY <2>1, <1>16, <1>s, <1>a DEF remove, app
<1>17. CASE handleUpload
  <2>1. view' \in View
    BY <1>17, <1>v DEF handleUpload, View
  <2>2. Sound(Ask("upload", view.pick, view.choice))
    BY <1>a, <1>v, AskIs DEF Change
  <2> QED
    BY <2>1, <2>2, <1>17, <1>q DEF handleUpload
<1>18. CASE UploadWithThis
  BY <1>18, <1>n, <1>b DEF UploadWithThis, Page
<1> QED
  BY <1>1, <1>2, <1>3, <1>4, <1>5, <1>6, <1>7, <1>8, <1>9, <1>10, <1>11, <1>12, <1>13,
     <1>14, <1>15, <1>16, <1>17, <1>18 DEF User

\* What the server has of a project, as an answer.
LEMMA CardsOfAre ==
  ASSUME ServerType, NEW p
  PROVE  CardsOf(p) \subseteq Card
  BY DEF ServerType, CardsOf, Card

\* An answer to a request is one, if its parts are.
LEMMA ReplyTypes ==
  ASSUME AllSound, NEW r \in requests, NEW at \in {"checked", "ok", "no"}, NEW got \in Answer,
         Reply(r, at, got),
         at = "ok" /\ r.do \in {"save", "detail"} => got.id \in 0 .. MaxProjects,
         at = "ok" /\ r.do = "create" => got.id \in 0 .. MaxBlueprints
  PROVE  AllSound'
<1> DEFINE ans == [r EXCEPT !.at = at, !.got = got]
<1>1. Sound(r)
  BY DEF AllSound
<1>2. ans \in Request /\ ans.do = r.do /\ ans.at = at /\ ans.got = got
  BY <1>1 DEF Sound, Request
<1>3. requests' = (requests \ {r}) \cup {ans}
  BY DEF Reply
<1> HIDE DEF ans
<1>4. Sound(ans)
  BY <1>2 DEF Sound
<1> QED
  BY <1>3, <1>4 DEF AllSound

\* An answer that names the row it made or changed.
LEMMA DoneTypes ==
  ASSUME AllSound, NEW r \in requests, NEW id \in Nat, Done(r, id),
         r.do \in {"save", "detail"} => id \in 0 .. MaxProjects,
         r.do = "create" => id \in 0 .. MaxBlueprints
  PROVE  AllSound'
<1>1. [Nothing EXCEPT !.id = id] \in Answer /\ [Nothing EXCEPT !.id = id].id = id
  BY NothingIs DEF Answer
<1> QED
  BY <1>1, ReplyTypes DEF Done

\* Rows are taken away and what referred to them is set to null.
LEMMA ForgetTypes ==
  ASSUME ServerType, NEW gone, Forget(gone), DOMAIN projects' \subseteq DOMAIN projects,
         \A p \in DOMAIN projects' : projects'[p] = projects[p], made' = made
  PROVE  ServerType'
<1>1. /\ DOMAIN blueprints' \subseteq DOMAIN blueprints
      /\ \A b \in DOMAIN blueprints' : blueprints'[b] = blueprints[b]
  BY DEF Forget
<1>2. DOMAIN jobs' = DOMAIN jobs /\ \A j \in DOMAIN jobs : jobs'[j] \in Job
  BY NothingIs DEF Forget, ServerType, Job
<1> QED
  BY <1>1, <1>2 DEF ServerType

LEMMA ServeTypes ==
  ASSUME Types, NEW r \in requests, Serve(r)
  PROVE  Types'
<1>a. /\ ServerType /\ AllSound /\ Sound(r) /\ r \in Request
      /\ r.project \in 0 .. MaxProjects /\ r.blueprint \in 0 .. MaxBlueprints
      /\ r.text \in BOOLEAN /\ r.got \in Answer
  BY DEF Types, AllSound, Sound, Request
<1>b. /\ made.projects \in 2 .. MaxProjects /\ made.blueprints \in 2 .. MaxBlueprints
      /\ ProjectId \subseteq Nat /\ ProjectId \subseteq 0 .. MaxProjects
      /\ {MaxProjects, MaxBlueprints, MaxJobs} \subseteq Nat
      /\ DOMAIN projects \subseteq ProjectId
      /\ None \in 0 .. MaxProjects /\ None \in 0 .. MaxBlueprints
  BY <1>a, BoundsAre, NothingIs DEF ServerType, ProjectId
<1>c. (ServerType' /\ AllSound') => Types'
  BY DEF Serve, Types, AppType, app
<1>u. server' = server => ServerType'
  BY <1>a DEF ServerType, server
<1>1. CASE list_projects(r)
  <2> DEFINE got == [Nothing EXCEPT !.projects = DOMAIN projects]
  <2>1. got \in Answer
    BY <1>b, NothingIs DEF Answer
  <2>2. r.do = "list" /\ Reply(r, "ok", got) /\ server' = server
    BY <1>1 DEF list_projects, server
  <2> HIDE DEF got
  <2> QED
    BY <2>1, <2>2, <1>a, <1>c, <1>u, ReplyTypes
<1>2. CASE get_project(r)
  <2>1. server' = server /\ ServerType'
    BY <1>2, <1>u DEF get_project, server
  <2>2. CASE r.project \in DOMAIN projects
    <3> DEFINE got == [Nothing EXCEPT !.id = r.project, !.text = projects[r.project],
                                      !.cards = CardsOf(r.project)]
    <3>1. r.project \in Nat /\ projects[r.project] \in BOOLEAN /\ CardsOf(r.project) \subseteq Card
      BY <2>2, <1>a, <1>b, CardsOfAre DEF ServerType
    <3>2. got \in Answer /\ got.id = r.project
      BY <3>1, NothingIs DEF Answer
    <3>3. Reply(r, "ok", got) /\ r.do # "create"
      BY <1>2, <2>2 DEF get_project
    <3> HIDE DEF got
    <3> QED
      BY <3>2, <3>3, <2>1, <1>a, <1>c, ReplyTypes
  <2>3. CASE r.project \notin DOMAIN projects
    <3> DEFINE got == [Nothing EXCEPT !.missing = TRUE]
    <3>1. got \in Answer /\ got.id = None
      BY NothingIs DEF Answer
    <3>2. Reply(r, "ok", got) /\ r.do # "create"
      BY <1>2, <2>3 DEF get_project
    <3> HIDE DEF got
    <3> QED
      BY <3>1, <3>2, <2>1, <1>a, <1>b, <1>c, ReplyTypes
  <2> QED
    BY <2>2, <2>3
<1>3. CASE create_project(r)
  <2> DEFINE id == made.projects + 1
  <2>1. /\ r.do = "save" /\ id <= MaxProjects /\ Done(r, id)
        /\ projects' = [p \in DOMAIN projects \cup {id} |-> IF p = id THEN r.text ELSE projects[p]]
        /\ made' = [made EXCEPT !.projects = id]
        /\ blueprints' = blueprints /\ jobs' = jobs
    BY <1>3 DEF create_project
  <2>2. id \in ProjectId /\ id \in 2 .. MaxProjects /\ id \in Nat /\ id \in 0 .. MaxProjects
    BY <2>1, <1>b DEF ProjectId
  <2>3. /\ made' \in [projects : 2 .. MaxProjects, blueprints : 2 .. MaxBlueprints]
        /\ made'.projects = id /\ DOMAIN projects \cup {id} \subseteq 1 .. id
    BY <2>1, <2>2, <1>a, <1>b DEF ServerType
  <2> HIDE DEF id
  <2>4. ServerType'
    BY <2>1, <2>2, <2>3, <1>a DEF ServerType
  <2> QED
    BY <2>1, <2>2, <2>4, <1>a, <1>c, DoneTypes
<1>4. CASE update_project(r)
  <2>1. /\ r.do = "save" /\ r.project \in DOMAIN projects /\ Done(r, r.project)
        /\ projects' = [projects EXCEPT ![r.project] = r.text]
        /\ blueprints' = blueprints /\ jobs' = jobs /\ made' = made
    BY <1>4 DEF update_project
  <2>2. r.project \in Nat
    BY <2>1, <1>b
  <2>3. ServerType'
    BY <2>1, <1>a DEF ServerType
  <2> QED
    BY <2>1, <2>2, <2>3, <1>a, <1>c, DoneTypes
<1>5. CASE delete_project(r)
  <2>1. /\ r.do = "deleteProject" /\ r.project \in DOMAIN projects /\ Done(r, r.project)
        /\ projects' = [p \in DOMAIN projects \ {r.project} |-> projects[p]]
        /\ Forget({b \in DOMAIN blueprints : blueprints[b].project = r.project})
        /\ made' = made
    BY <1>5 DEF delete_project
  <2>2. ServerType'
    BY <2>1, <1>a, ForgetTypes
  <2>3. r.project \in Nat
    BY <2>1, <1>b
  <2> QED
    BY <2>1, <2>2, <2>3, <1>a, <1>c, DoneTypes
<1>6. CASE create_blueprint(r)
  <2> DEFINE id == made.blueprints + 1
  <2>1. /\ r.do = "create" /\ r.project \in DOMAIN projects /\ id <= MaxBlueprints /\ Done(r, id)
        /\ blueprints' = [b \in DOMAIN blueprints \cup {id} |->
                            IF b = id THEN [project |-> r.project, active |-> TRUE]
                                      ELSE blueprints[b]]
        /\ made' = [made EXCEPT !.blueprints = id]
        /\ projects' = projects /\ jobs' = jobs
    BY <1>6 DEF create_blueprint
  <2>2. id \in BlueprintId /\ id \in 2 .. MaxBlueprints /\ id \in Nat /\ id \in 0 .. MaxBlueprints
    BY <2>1, <1>b DEF BlueprintId
  <2>3. made' \in [projects : 2 .. MaxProjects, blueprints : 2 .. MaxBlueprints]
    BY <2>1, <2>2, <1>a DEF ServerType
  <2>4. [project |-> r.project, active |-> TRUE] \in [project : ProjectId, active : BOOLEAN]
    BY <2>1, <1>b
  <2> HIDE DEF id
  <2>5. ServerType'
    BY <2>1, <2>2, <2>3, <2>4, <1>a DEF ServerType
  <2> QED
    BY <2>1, <2>2, <2>5, <1>a, <1>c, DoneTypes
<1>7. CASE CountResults(r)
  <2> DEFINE got == [Nothing EXCEPT !.missing = ~HasResults(r.blueprint)]
  <2>1. got \in Answer
    BY NothingIs DEF Answer, HasResults
  <2>2. Reply(r, "checked", got) /\ server' = server
    BY <1>7 DEF CountResults, server
  <2> HIDE DEF got
  <2> QED
    BY <2>1, <2>2, <1>a, <1>c, <1>u, ReplyTypes
<1>8. CASE delete_blueprint(r)
  <2>1. /\ r.do = "deleteBlueprint" /\ r.blueprint \in DOMAIN blueprints /\ made' = made
        /\ Reply(r, "ok", r.got)
    BY <1>8 DEF delete_blueprint
  <2>2. CASE projects' = projects /\ Forget({r.blueprint})
    BY <2>1, <2>2, <1>a, <1>c, ForgetTypes, ReplyTypes
  <2>3. CASE /\ blueprints' = [blueprints EXCEPT ![r.blueprint].active = FALSE]
             /\ UNCHANGED <<projects, jobs>>
    <3>1. /\ DOMAIN blueprints' = DOMAIN blueprints
          /\ \A b \in DOMAIN blueprints' : blueprints'[b] \in [project : ProjectId, active : BOOLEAN]
      BY <2>3, <1>a DEF ServerType
    <3>2. ServerType'
      BY <2>1, <2>3, <3>1, <1>a DEF ServerType
    <3> QED
      BY <2>1, <3>2, <1>a, <1>c, ReplyTypes
  <2> QED
    BY <1>8, <2>2, <2>3 DEF delete_blueprint
<1>9. CASE CheckUpload(r)
  BY <1>9, <1>a, <1>c, <1>u, ReplyTypes, NothingIs DEF CheckUpload
<1>10. CASE upload_files(r)
  <2> DEFINE id == Cardinality(DOMAIN jobs) + 1
  <2>1. /\ r.do = "upload" /\ id <= MaxJobs /\ Done(r, id)
        /\ jobs' = [j \in DOMAIN jobs \cup {id} |-> IF j # id THEN jobs[j] ELSE
                      [project |-> r.project, blueprint |-> r.blueprint, result |-> FALSE]]
        /\ projects' = projects /\ blueprints' = blueprints /\ made' = made
    BY <1>10 DEF upload_files
  <2>2. Cardinality(DOMAIN jobs) \in Nat
    <3>1. IsFiniteSet(1 .. MaxJobs)
      BY <1>b, FS_Interval
    <3>2. IsFiniteSet(DOMAIN jobs)
      BY <3>1, <1>a, FS_Subset DEF ServerType
    <3> QED
      BY <3>2, FS_CardinalityType
  <2>3. id \in 1 .. MaxJobs /\ id \in Nat
    BY <2>1, <2>2, <1>b
  <2>4. [project |-> r.project, blueprint |-> r.blueprint, result |-> FALSE] \in Job
    BY <1>a DEF Job
  <2> HIDE DEF id
  <2>5. ServerType'
    BY <2>1, <2>3, <2>4, <1>a DEF ServerType
  <2> QED
    BY <2>1, <2>3, <2>5, <1>a, <1>c, DoneTypes
<1>11. CASE NotFound(r)
  BY <1>11, <1>a, <1>b, <1>c, <1>u, ReplyTypes, NothingIs DEF NotFound, Refused
<1> QED
  BY <1>1, <1>2, <1>3, <1>4, <1>5, <1>6, <1>7, <1>8, <1>9, <1>10, <1>11 DEF Serve

LEMMA FailTypes ==
  ASSUME Types, NEW r \in requests, Fail(r)
  PROVE  Types'
<1>1. AllSound'
  BY ReplyTypes, NothingIs DEF Fail, Refused, Types
<1>2. ServerType'
  BY DEF Fail, Refused, Types, ServerType, server
<1>3. faults' \in 0 .. MaxFaults /\ astray' \in BOOLEAN
  BY BoundsAre DEF Fail, Types
<1> QED
  BY <1>1, <1>2, <1>3 DEF Fail, Types, AppType, app

LEMMA SaveResultTypes ==
  ASSUME Types, NEW j \in DOMAIN jobs, SaveResult(j)
  PROVE  Types'
<1>1. DOMAIN jobs' = DOMAIN jobs /\ \A i \in DOMAIN jobs' : jobs'[i] \in Job
  BY DEF SaveResult, Types, ServerType, Job
<1> QED
  BY <1>1 DEF SaveResult, Types, ServerType, AppType, AllSound, app

LEMMA ContinueTypes ==
  ASSUME Types, NEW r \in requests, Continue(r)
  PROVE  Types'
<1>a. /\ ServerType /\ AppType /\ AllSound /\ Sound(r) /\ r \in Request /\ view \in View
      /\ r.project \in 0 .. MaxProjects /\ r.blueprint \in 0 .. MaxBlueprints
      /\ r.on \in BOOLEAN /\ r.got \in Answer /\ r.at \in {"ok", "no"}
  BY DEF Types, AppType, AllSound, Sound, Request, Continue
<1>b. /\ r.got.missing \in BOOLEAN /\ r.got.id \in Nat /\ r.got.text \in BOOLEAN
      /\ r.got.projects \subseteq ProjectId /\ r.got.cards \subseteq Card
  BY <1>a DEF Answer
<1>v. /\ view.projects \subseteq ProjectId /\ view.cards \subseteq Card /\ view.busy \in BOOLEAN
  BY <1>a DEF View
<1>n. None \in 0 .. MaxProjects /\ None \in 0 .. MaxBlueprints
  BY NothingIs
<1>c. (AppType' /\ AllSound' /\ astray' \in BOOLEAN) => Types'
  BY DEF Continue, Types, ServerType, server
<1>s. ASSUME NEW new \in View, Show(r, new) PROVE Types'
  <2>1. AppType' /\ AllSound' /\ astray' \in BOOLEAN
    BY <1>a, <1>s DEF Types, AppType, AllSound, Show, Stay, app
  <2> QED
    BY <2>1, <1>c
<1>g. ASSUME NEW new \in Page, NEW p \in 0 .. MaxProjects \cup {Unset},
             NEW b \in 0 .. MaxBlueprints \cup {Unset}, navigate(new, p, b, requests \ {r})
      PROVE  Types'
  BY <1>g, <1>c, NavigateTypes
<1>w. ASSUME NEW busy \in BOOLEAN PROVE [view EXCEPT !.busy = busy] \in View
  BY <1>a DEF View
<1>1. CASE Listed(r)
  <2> DEFINE new == [view EXCEPT !.loading = FALSE,
                       !.projects = IF Heard(r) THEN r.got.projects ELSE @]
  <2>1. new \in View
    BY <1>a, <1>b, <1>v DEF View
  <2>2. Show(r, new)
    BY <1>1 DEF Listed
  <2> QED
    BY <2>1, <2>2, <1>s
<1>2. CASE DetailLoaded(r)
  <2>1. CASE r.on /\ r.got.missing /\ page' = "blank"
    <3>1. Fresh("blank", None, None) \in View
      BY <1>n, FreshIs
    <3>2. CASE requests' = {} /\ UNCHANGED <<projectId, blueprintId, astray>>
               /\ view' = Fresh("blank", None, None)
      <4>1. AppType' /\ AllSound' /\ astray' \in BOOLEAN
        BY <2>1, <3>1, <3>2, <1>a DEF Types, AppType, AllSound, Page
      <4> QED
        BY <4>1, <1>c
    <3>3. CASE ~(r.on /\ r.got.missing)
      BY <2>1, <3>3
    <3> QED
      BY <1>2, <2>1, <3>2, <3>3 DEF DetailLoaded
  <2>2. CASE Show(r, IF Heard(r) THEN [view EXCEPT !.loading = FALSE, !.shown = r.got.id,
                                                   !.cards = r.got.cards]
                                 ELSE [view EXCEPT !.loading = FALSE])
    <3>1. CASE Heard(r)
      <4> DEFINE new == [view EXCEPT !.loading = FALSE, !.shown = r.got.id, !.cards = r.got.cards]
      <4>1. r.got.id \in 0 .. MaxProjects
        BY <1>2, <1>a, <3>1 DEF Sound, Heard, DetailLoaded
      <4>2. new \in View
        BY <4>1, <1>a, <1>b DEF View
      <4>3. Show(r, new)
        BY <2>2, <3>1
      <4> QED
        BY <4>2, <4>3, <1>s
    <3>2. CASE ~Heard(r)
      <4>1. [view EXCEPT !.loading = FALSE] \in View
        BY <1>a DEF View
      <4> QED
        BY <4>1, <2>2, <3>2, <1>s
    <3> QED
      BY <3>1, <3>2
  <2> QED
    BY <1>2, <2>1, <2>2 DEF DetailLoaded
<1>3. CASE FormLoaded(r)
  <2> DEFINE new == [view EXCEPT !.loading = FALSE,
                       !.text = IF Heard(r) THEN r.got.text ELSE @]
  <2>1. new \in View
    BY <1>a, <1>b DEF View
  <2>2. Show(r, new)
    BY <1>3 DEF FormLoaded
  <2> QED
    BY <2>1, <2>2, <1>s
<1>4. CASE BlueprintsLoaded(r)
  <2> DEFINE new == [view EXCEPT !.loadingBlueprints = FALSE,
        !.cards = IF Heard(r) /\ ~r.got.missing THEN {c \in r.got.cards : c.active} ELSE @]
  <2>1. new \in View
    BY <1>a, <1>b DEF View
  <2>2. Show(r, new)
    BY <1>4 DEF BlueprintsLoaded
  <2> QED
    BY <2>1, <2>2, <1>s
<1>5. CASE ProjectDeleted(r)
  <2>1. CASE Heard(r)
    <3> DEFINE new == [view EXCEPT !.busy = FALSE, !.projects = Kept(r), !.modal = None]
    <3>1. new \in View
      BY <1>a, <1>v, <1>n DEF View, Kept
    <3>2. Show(r, new)
      BY <1>5, <2>1 DEF ProjectDeleted
    <3> QED
      BY <3>1, <3>2, <1>s
  <2>2. CASE ~Heard(r)
    BY <1>5, <2>2, <1>s, <1>w DEF ProjectDeleted, StillBusy
  <2> QED
    BY <2>1, <2>2
<1>6. CASE ProjectSaved(r)
  <2>1. CASE Heard(r)
    <3>1. r.got.id \in 0 .. MaxProjects \cup {Unset}
      BY <1>6, <2>1, <1>a DEF ProjectSaved, Sound, Heard
    <3> QED
      BY <1>6, <2>1, <3>1, <1>g DEF ProjectSaved, Page
  <2>2. CASE ~Heard(r)
    BY <1>6, <2>2, <1>s, <1>w DEF ProjectSaved, StillBusy
  <2> QED
    BY <2>1, <2>2
<1>7. CASE BlueprintCreated(r)
  <2>1. CASE Heard(r)
    <3>1. r.got.id \in 0 .. MaxBlueprints \cup {Unset} /\ r.project \in 0 .. MaxProjects \cup {Unset}
      BY <1>7, <2>1, <1>a DEF BlueprintCreated, Sound, Heard
    <3> QED
      BY <1>7, <2>1, <3>1, <1>g DEF BlueprintCreated, Page
  <2>2. CASE ~Heard(r)
    BY <1>7, <2>2, <1>s, <1>a DEF BlueprintCreated
  <2> QED
    BY <2>1, <2>2
<1>8. CASE BlueprintDeleted(r)
  <2> DEFINE archived == {[c EXCEPT !.active = FALSE] : c \in view.cards \ Others(r)}
             cards == IF ~Heard(r) THEN view.cards
                      ELSE Others(r) \cup (IF r.got.missing THEN {} ELSE archived)
             new == [view EXCEPT !.busyId = None, !.cards = cards]
  <2>1. Others(r) \subseteq Card /\ archived \subseteq Card
    BY <1>v DEF Others, Card
  <2> HIDE DEF archived
  <2>2. cards \subseteq Card
    BY <2>1, <1>v, <1>b
  <2>3. Show(r, new)
    BY <1>8 DEF BlueprintDeleted, archived
  <2> HIDE DEF cards
  <2>4. new \in View
    BY <2>2, <1>a, <1>n DEF View
  <2> QED
    BY <2>3, <2>4, <1>s
<1>9. CASE Uploaded(r)
  <2>1. CASE Heard(r)
    BY <1>9, <2>1, <1>g DEF Uploaded, Page
  <2>2. CASE ~Heard(r)
    BY <1>9, <2>2, <1>s, <1>w DEF Uploaded, StillBusy
  <2> QED
    BY <2>1, <2>2
<1> QED
  BY <1>1, <1>2, <1>3, <1>4, <1>5, <1>6, <1>7, <1>8, <1>9 DEF Continue

LEMMA InitTypes == Init => Types
<1> SUFFICES ASSUME Init PROVE Types
  OBVIOUS
<1>1. /\ 1 .. 2 \subseteq ProjectId /\ 1 .. 2 \subseteq BlueprintId
      /\ 2 \in 2 .. MaxProjects /\ 2 \in 2 .. MaxBlueprints
      /\ 0 \in 0 .. MaxOps /\ 0 \in 0 .. MaxFaults
      /\ {0, 1} \subseteq 0 .. MaxProjects /\ {0, 1} \subseteq 0 .. MaxBlueprints
  BY BoundsAre DEF ProjectId, BlueprintId
<1>2. DOMAIN jobs = {}
  BY DEF Init
<1>3. ServerType
  BY <1>1, <1>2 DEF Init, ServerType
<1>4. AppType
  BY <1>1, FreshIs, NothingIs DEF Init, AppType, Page, None
<1> QED
  BY <1>1, <1>3, <1>4 DEF Init, Types, AllSound

LEMMA NextTypes == Types /\ [Next]_vars => Types'
<1> SUFFICES ASSUME Types, [Next]_vars PROVE Types'
  OBVIOUS
<1>1. CASE User
  BY <1>1, UserTypes
<1>2. ASSUME NEW j \in DOMAIN jobs, SaveResult(j) PROVE Types'
  BY <1>2, SaveResultTypes
<1>3. ASSUME NEW r \in requests, Serve(r) \/ Fail(r) \/ Continue(r) PROVE Types'
  BY <1>3, ServeTypes, FailTypes, ContinueTypes
<1>4. CASE UNCHANGED vars
  BY <1>4 DEF vars, server, app, Types, ServerType, AppType, AllSound
<1> QED
  BY <1>1, <1>2, <1>3, <1>4 DEF Next

\* The pages, what is under way and what the server has stay within their sets: App is handed
\* the project and the blueprint of an answer, and navigates by them.
THEOREM TypeCorrect == Spec => []TypeOK
<1>1. Spec => []Types
  BY InitTypes, NextTypes, PTL DEF Spec
<1> QED
  BY <1>1, TypesAreTypeOK, PTL

-----------------------------------------------------------------------------
(* Until something goes astray, what a page shows is what the server has,  *)
(* short of what is under way.  A change is its page's: to leave the page  *)
(* before the answer is what astray says.                                  *)

On(do) == {r \in requests : r.on /\ r.do = do}

ChangeHere(r) ==
  r.do \in Change =>
    /\ r.on
    /\ r.do = "deleteProject" => page = "projects" /\ view.busy
    /\ r.do = "save" => page = "form" /\ view.busy /\ r.project = projectId
    /\ r.do \in {"create", "deleteBlueprint"} => page = "detail"
    /\ r.do = "create" => r.project = projectId
    /\ r.do = "upload" => page = "upload"

\* A load whose answer the page still listens to.
LoadHere(r) ==
  r.on /\ r.do \in Loading =>
    /\ r.at \in {"asked", "ok"}
    /\ r.do = "list" => page \in {"projects", "upload"}
    /\ r.do = "detail" => page = "detail" /\ r.project = projectId
    /\ r.do = "project" => page = "form" /\ r.project = projectId
    /\ r.do = "blueprints" =>
         page = "upload" /\ r.project = view.pick /\ r.project # None /\ view.loadingBlueprints
    /\ r.do # "blueprints" => view.loading

Here == \A r \in requests : ChangeHere(r) /\ LoadHere(r)

\* There is one of each load, one save and one deletion of a project; nothing changes while a
\* page loads, short of the upload page, which changes nothing it shows.
OneOfEach ==
  \A r, q \in requests :
    r.on /\ q.on /\ r.do = q.do /\ r.do \in Loading \cup {"save", "deleteProject"} => r = q
LoadsFirst ==
  \A r, q \in requests : r.on /\ r.do \in Loading /\ q.do \in Change => page = "upload"

\* Nothing that a load was answered with changes before the page hears of it.
TrueLoad(r) ==
  r.on /\ r.at = "ok" =>
    /\ r.do = "list" => r.got.projects = DOMAIN projects
    /\ r.do \in {"detail", "blueprints"} =>
         ~r.got.missing /\ r.got.id = r.project /\ r.got.cards = CardsOf(r.project)
    /\ r.do = "project" /\ r.project \in DOMAIN projects => r.got.text = projects[r.project]

TrueChange(r) ==
  /\ r.do = "deleteBlueprint" => r.blueprint \in 1 .. made.blueprints
  /\ r.at = "ok" =>
       /\ r.do = "deleteProject" => r.project \notin DOMAIN projects
       /\ r.do = "save" => r.got.id \in DOMAIN projects
       /\ r.do = "create" =>
            /\ r.got.id \in 1 .. made.blueprints
            /\ r.got.id \in DOMAIN blueprints => blueprints[r.got.id].project = r.project
       /\ r.do = "deleteBlueprint" /\ r.got.missing => r.blueprint \notin DOMAIN blueprints
       /\ r.do = "deleteBlueprint" /\ ~r.got.missing /\ r.blueprint \in DOMAIN blueprints
            => ~blueprints[r.blueprint].active

Accurate == \A r \in requests : TrueLoad(r) /\ TrueChange(r)

\* Where the user is, is there.
Places ==
  /\ page # "blank"
  /\ projectId \in DOMAIN projects \cup {None}
  /\ page = "projects" => projectId = None
  /\ page \in {"detail", "builder"} => projectId # None
  /\ page \notin {"builder", "upload"} => blueprintId = None
  /\ blueprintId \in DOMAIN blueprints => blueprints[blueprintId].project = projectId

\* The list of projects lacks nothing, and has what is being deleted on top.
ProjectsPage ==
  page = "projects" =>
    /\ On("list") # {} => view.projects = {} /\ view.modal = None
    /\ On("list") = {} => DOMAIN projects \subseteq view.projects
    /\ \A p \in view.projects : p \in DOMAIN projects \/ \E r \in requests :
         r.do = "deleteProject" /\ r.at = "ok" /\ r.project = p
    /\ view.modal # None => view.modal \in view.projects
    /\ \A r \in requests : r.do = "deleteProject" =>
         r.at \in {"asked", "ok"} /\ (r.at = "asked" => r.project \in DOMAIN projects)

\* A deletion was answered by "gone" or by "archived", a new blueprint by its number.
Deleted(b, gone) ==
  \E r \in requests : r.do = "deleteBlueprint" /\ r.at = "ok" /\ r.got.missing = gone /\ r.blueprint = b
Created(b) == \E r \in requests : r.do = "create" /\ r.at = "ok" /\ r.got.id = b

\* The blueprints shown have what is being deleted or archived on top, and lack what is new.
CardTrue(c) ==
  /\ c.id \in 1 .. made.blueprints
  /\ c.id \notin DOMAIN blueprints => Deleted(c.id, TRUE)
  /\ c.id \in DOMAIN blueprints =>
       /\ blueprints[c.id].project = projectId
       /\ c.active # blueprints[c.id].active => c.active /\ Deleted(c.id, FALSE)
DetailPage ==
  page = "detail" /\ On("detail") = {} =>
    /\ view.shown = projectId
    /\ \A c \in view.cards : CardTrue(c)
    /\ \A c, d \in view.cards : c.id = d.id => c = d
    /\ \A b \in DOMAIN blueprints : blueprints[b].project = projectId =>
         (\E c \in view.cards : c.id = b) \/ Created(b)

UploadPage ==
  page = "upload" =>
    /\ On("list") # {} => view.projects = {}
    /\ On("list") = {} => view.projects = DOMAIN projects
    /\ view.pick \in DOMAIN projects \cup {None}
    /\ view.pick # None /\ On("blueprints") = {} =>
         view.cards = {c \in CardsOf(view.pick) : c.active}
    /\ view.choice \in DOMAIN blueprints => blueprints[view.choice].project = view.pick

\* The form has the description there is, until somebody types.
SaveTrue(r) ==
  r.do = "save" /\ r.project # None /\ ~view.typed => r.text = projects[r.project]
FormPage ==
  /\ page = "form" /\ projectId # None /\ On("project") = {} /\ ~view.typed
       => view.text = projects[projectId]
  /\ \A r \in requests : SaveTrue(r)

Tidy ==
  /\ Here /\ OneOfEach /\ LoadsFirst /\ Accurate /\ Places
  /\ ProjectsPage /\ DetailPage /\ UploadPage /\ FormPage
TidyInv == ~astray => Tidy

-----------------------------------------------------------------------------
(* What every step has in common.                                          *)

LEMMA KindsAre ==
  /\ Loading \cap Change = {}
  /\ \A r \in Request : /\ r.on \in BOOLEAN /\ r.do \in Loading \cup Change
                        /\ r.text \in BOOLEAN
                        /\ r.at \in {"asked", "checked", "ok", "no"} /\ r.got.missing \in BOOLEAN
                        /\ r.project \in 0 .. MaxProjects /\ r.blueprint \in 0 .. MaxBlueprints
  BY DEF Loading, Change, Request, Answer

LEMMA ServerIs ==
  ASSUME ServerType
  PROVE  /\ None \notin DOMAIN projects /\ None \notin DOMAIN blueprints
         /\ made.projects \in Nat /\ made.blueprints \in Nat
         /\ \A p \in DOMAIN projects : projects[p] \in BOOLEAN
         /\ \A b \in DOMAIN blueprints : blueprints[b].active \in BOOLEAN
         /\ [made EXCEPT !.blueprints = made.blueprints + 1].blueprints = made.blueprints + 1
         /\ [made EXCEPT !.projects = made.projects + 1].blueprints = made.blueprints
<1>1. made.projects \in Nat /\ made.blueprints \in Nat
  BY BoundsAre DEF ServerType
<1> QED
  BY <1>1 DEF ServerType, None, ProjectId, BlueprintId

\* The pages other than the one that is shown ask for nothing.
LEMMA OtherPages ==
  /\ page' # "projects" => ProjectsPage'
  /\ page' # "detail" => DetailPage'
  /\ page' # "upload" => UploadPage'
  /\ page' # "form" /\ Here' => FormPage'
<1>1. page' # "form" /\ Here' => FormPage'
  BY DEF FormPage, SaveTrue, Here, ChangeHere, Change
<1> QED
  BY <1>1 DEF ProjectsPage, DetailPage, UploadPage

\* A page that has loaded waits for no load, the list of blueprints to upload with apart.
LEMMA NoLoads ==
  ASSUME Tidy, page # "upload", ~view.loading
  PROVE  \A r \in requests : ~(r.on /\ r.do \in Loading)
  BY DEF Tidy, Here, LoadHere

\* Requests that go, or that stay, leave the others what they are.
LEMMA FewerTidy ==
  ASSUME Tidy, requests' \subseteq requests, UNCHANGED <<projects, blueprints, made, app>>
  PROVE  OneOfEach' /\ LoadsFirst' /\ Accurate' /\ Places'
<1>1. OneOfEach' /\ LoadsFirst'
  BY DEF Tidy, OneOfEach, LoadsFirst, app
<1>2. Accurate'
  BY DEF Tidy, Accurate, TrueLoad, TrueChange, CardsOf
<1>3. Places'
  BY DEF Tidy, Places, app
<1> QED
  BY <1>1, <1>2, <1>3

\* What a page shows changes, and nothing that a request goes by.
LEMMA StillHere ==
  ASSUME Tidy, UNCHANGED app, NEW r \in requests,
         r.do \in {"deleteProject", "save"} => view'.busy = view.busy,
         r.on /\ r.do = "blueprints" =>
           view'.loadingBlueprints = view.loadingBlueprints /\ view'.pick = view.pick,
         r.on /\ r.do \in Loading \ {"blueprints"} => view'.loading = view.loading
  PROVE  ChangeHere(r)' /\ LoadHere(r)'
<1>1. ChangeHere(r) /\ LoadHere(r)
  BY DEF Tidy, Here
<1>2. ChangeHere(r)'
  BY <1>1 DEF ChangeHere, app
<1>3. LoadHere(r)'
  BY <1>1 DEF LoadHere, app, Loading
<1> QED
  BY <1>2, <1>3

\* A page asks for a change.
LEMMA SendTidy ==
  ASSUME Types, Tidy, NEW a, a.do \in Change, a.at = "asked", a.on,
         requests' = requests \cup {a}, UNCHANGED <<projects, blueprints, made, app>>,
         page # "upload" => \A r \in requests : ~(r.on /\ r.do \in Loading),
         a.do \in {"save", "deleteProject"} => \A r \in requests : r.do # a.do,
         a.do = "deleteBlueprint" => a.blueprint \in 1 .. made.blueprints
  PROVE  /\ OneOfEach' /\ LoadsFirst' /\ Accurate' /\ Places'
         /\ \A do \in Loading : On(do)' = On(do)
         /\ \A b, gone : Deleted(b, gone) => Deleted(b, gone)'
         /\ \A b : Created(b) => Created(b)'
<1>a. a.do \notin Loading
  BY KindsAre
<1>1. OneOfEach'
  BY <1>a DEF Tidy, OneOfEach
<1>2. LoadsFirst'
  BY <1>a DEF Tidy, LoadsFirst, app
<1>3. Accurate'
  <2>1. ASSUME NEW r \in requests PROVE TrueLoad(r)' /\ TrueChange(r)'
    BY <2>1 DEF Tidy, Accurate, TrueLoad, TrueChange, CardsOf
  <2>2. TrueLoad(a)' /\ TrueChange(a)'
    BY DEF TrueLoad, TrueChange
  <2> QED
    BY <2>1, <2>2 DEF Accurate
<1>4. Places'
  BY DEF Tidy, Places, app
<1>5. \A do \in Loading : On(do)' = On(do)
  BY <1>a DEF On
<1>6. /\ \A b, gone : Deleted(b, gone) => Deleted(b, gone)'
      /\ \A b : Created(b) => Created(b)'
  BY DEF Deleted, Created
<1> QED
  BY <1>1, <1>2, <1>3, <1>4, <1>5, <1>6

\* The answer to a request.
IsAnswer(a, r, at, got) ==
  /\ a.do = r.do /\ a.on = r.on /\ a.project = r.project /\ a.blueprint = r.blueprint
  /\ a.text = r.text /\ a.at = at /\ a.got = got
LEMMA ReplyIs ==
  ASSUME NEW r \in Request, NEW at, NEW got, Reply(r, at, got)
  PROVE  \E a : IsAnswer(a, r, at, got) /\ requests' = (requests \ {r}) \cup {a}
<1> DEFINE a == [r EXCEPT !.at = at, !.got = got]
<1>1. IsAnswer(a, r, at, got)
  BY DEF IsAnswer, Request
<1>2. requests' = (requests \ {r}) \cup {a}
  BY DEF Reply
<1> HIDE DEF a
<1> QED
  BY <1>1, <1>2

\* What a page waits for is still under way once it is answered.
LEMMA ReplyTidy ==
  ASSUME Types, Tidy, NEW r \in requests, r.at \in {"asked", "checked"}, NEW at, NEW got, NEW a,
         IsAnswer(a, r, at, got), requests' = (requests \ {r}) \cup {a},
         r.do \in Loading /\ r.on => at = "ok", UNCHANGED <<app, view>>
  PROVE  /\ Here' /\ OneOfEach' /\ LoadsFirst'
         /\ \A do : (On(do) = {})' <=> (On(do) = {})
         /\ \A b, gone : Deleted(b, gone) => Deleted(b, gone)'
         /\ \A b : Created(b) => Created(b)'
<1> USE DEF IsAnswer
<1>1. Here'
  <2>1. ASSUME NEW q \in requests, q # r PROVE ChangeHere(q)' /\ LoadHere(q)'
    BY <2>1 DEF Tidy, Here, ChangeHere, LoadHere, app
  <2>2. ChangeHere(a)' /\ LoadHere(a)'
    BY DEF Tidy, Here, ChangeHere, LoadHere, app
  <2> QED
    BY <2>1, <2>2 DEF Here
<1>2. OneOfEach'
  BY DEF Tidy, OneOfEach
<1>3. LoadsFirst'
  BY DEF Tidy, LoadsFirst, app
<1>4. ASSUME NEW do PROVE (On(do) = {})' <=> (On(do) = {})
  BY DEF On
<1>5. \A q \in requests : q.at = "ok" => q \in requests'
  OBVIOUS
<1>6. \A b, gone : Deleted(b, gone) => Deleted(b, gone)'
  BY <1>5 DEF Deleted
<1>7. \A b : Created(b) => Created(b)'
  BY <1>5 DEF Created
<1> QED
  BY <1>1, <1>2, <1>3, <1>4, <1>6, <1>7

-----------------------------------------------------------------------------
(* The user.                                                               *)

\* Another page starts from nothing, and has asked for what it shows.
LEMMA NavigateTidy ==
  ASSUME Types, Tidy, NEW new \in Page \ {"blank"}, new # page, NEW p, NEW b,
         NEW rest \in SUBSET requests, navigate(new, p, b, rest), ~astray',
         UNCHANGED <<projects, blueprints, made>>,
         NextProject(new, p) \in DOMAIN projects \cup {None},
         NextBlueprint(new, b) \in 0 .. MaxBlueprints,
         new = "projects" => NextProject(new, p) = None,
         new \in {"detail", "builder"} => NextProject(new, p) # None,
         new \notin {"builder", "upload"} => NextBlueprint(new, b) = None,
         NextBlueprint(new, b) \in DOMAIN blueprints =>
           blueprints[NextBlueprint(new, b)].project = NextProject(new, p)
  PROVE  Tidy'
<1> DEFINE nextP == NextProject(new, p)
           nextB == NextBlueprint(new, b)
<1>1. /\ page' = new /\ projectId' = nextP /\ blueprintId' = nextB
      /\ view' = Fresh(new, nextP, nextB)
      /\ requests' = {[r EXCEPT !.on = FALSE] : r \in rest} \cup Loads(new, nextP)
      /\ \A r \in rest : r.do \notin Change
  BY DEF navigate
<1>a. /\ ops \in Nat /\ AllSound /\ ServerType /\ nextP \in 0 .. MaxProjects
      /\ \A r \in requests : r \in Request
  BY BoundsAre, NothingIs DEF Types, AllSound, Sound, ServerType, ProjectId
<1> HIDE DEF nextP, nextB
<1>2. \A r \in requests' : r \in Loads(new, nextP) \/ (~r.on /\ r.do \notin Change)
  BY <1>1, <1>a, OffIs DEF AllSound
<1>3. \A r \in Loads(new, nextP) :
        /\ r.do \in Loading /\ r.do \notin Change /\ r.on /\ r.at = "asked"
        /\ r.do = "list" => new \in {"projects", "upload"}
        /\ r.do = "detail" => new = "detail" /\ r.project = nextP
        /\ r.do = "project" => new = "form" /\ nextP # None /\ r.project = nextP
        /\ r.do = "blueprints" => new = "upload" /\ nextP # None /\ r.project = nextP
  BY <1>a, LoadsAre, KindsAre
<1>4. \A r \in requests' : /\ r.do \notin Change
                           /\ r.on => r \in Loads(new, nextP)
  BY <1>2, <1>3
<1>5. /\ view'.loading = (new \in {"projects", "detail", "upload"} \/ (new = "form" /\ nextP # None))
      /\ view'.projects = {} /\ view'.modal = None /\ view'.cards = {}
      /\ view'.pick = (IF new = "upload" THEN nextP ELSE None)
      /\ view'.choice = (IF new = "upload" THEN nextB ELSE None)
      /\ view'.loadingBlueprints = (new = "upload" /\ nextP # None)
  BY <1>1 DEF Fresh
<1>6. Here'
  <2>1. ASSUME NEW r \in requests' PROVE ChangeHere(r)' /\ LoadHere(r)'
    <3>1. ChangeHere(r)'
      BY <2>1, <1>4 DEF ChangeHere
    <3>2. LoadHere(r)'
      <4>1. CASE ~r.on
        BY <4>1 DEF LoadHere
      <4>2. CASE r \in Loads(new, nextP)
        <5>1. r.do # "blueprints" => view'.loading
          BY <4>2, <1>3, <1>5 DEF Loading
        <5>2. r.do = "blueprints" => view'.pick = nextP /\ view'.loadingBlueprints
          BY <4>2, <1>3, <1>5
        <5> QED
          BY <4>2, <5>1, <5>2, <1>1, <1>3 DEF LoadHere
      <4> QED
        BY <2>1, <1>4, <4>1, <4>2
    <3> QED
      BY <3>1, <3>2
  <2> QED
    BY <2>1 DEF Here
<1>7. OneOfEach'
  <2>1. \A r, q \in Loads(new, nextP) : r.do = q.do => r = q
    <3>1. \A r \in Loads(new, nextP) : r = Ask(r.do, IF r.do = "list" THEN None ELSE nextP, None)
      BY <1>a, LoadsAre
    <3> QED
      BY <3>1
  <2> QED
    BY <2>1, <1>4 DEF OneOfEach
<1>8. LoadsFirst'
  BY <1>4 DEF LoadsFirst
<1>9. Accurate'
  <2>1. ASSUME NEW r \in requests' PROVE TrueLoad(r)' /\ TrueChange(r)'
    BY <2>1, <1>3, <1>4 DEF TrueLoad, TrueChange, Change
  <2> QED
    BY <2>1 DEF Accurate
<1>10. Places'
  BY <1>1 DEF Places, nextP, nextB
<1>11. \A do : (On(do) # {})' <=> \E r \in Loads(new, nextP) : r.do = do
  BY <1>1, <1>3, <1>4 DEF On
<1>12. /\ new \in {"projects", "upload"} => (On("list") # {})'
       /\ new = "detail" => (On("detail") # {})'
       /\ new = "form" /\ nextP # None => (On("project") # {})'
       /\ new = "upload" /\ nextP # None => (On("blueprints") # {})'
  BY <1>11 DEF Loads, Ask
<1>13. ProjectsPage'
  BY <1>1, <1>4, <1>5, <1>12 DEF ProjectsPage, Change
<1>14. DetailPage'
  BY <1>1, <1>12 DEF DetailPage
<1>15. UploadPage'
  BY <1>1, <1>5, <1>12 DEF UploadPage, nextP, nextB
<1>16. FormPage'
  BY <1>1, <1>4, <1>12 DEF FormPage, SaveTrue, Change
<1> QED
  BY <1>6, <1>7, <1>8, <1>9, <1>10, <1>13, <1>14, <1>15, <1>16 DEF Tidy

\* Where navigate goes with the options it is given.
LEMMA NextAre ==
  ASSUME Types, NEW new
  PROVE  /\ NextProject(new, Unset) = IF new \in {"form", "detail", "builder", "upload"}
                                        THEN projectId ELSE None
         /\ NextBlueprint(new, Unset) = IF new \in {"builder", "upload"} THEN blueprintId ELSE None
         /\ \A p \in 0 .. MaxProjects : NextProject(new, p) = p
         /\ \A b \in 0 .. MaxBlueprints : NextBlueprint(new, b) = b
         /\ projectId \in 0 .. MaxProjects /\ blueprintId \in 0 .. MaxBlueprints
         /\ None \in 0 .. MaxProjects /\ None \in 0 .. MaxBlueprints
         /\ DOMAIN projects \cup {None} \subseteq 0 .. MaxProjects
         /\ None \notin DOMAIN blueprints
<1>1. /\ projectId \in 0 .. MaxProjects /\ blueprintId \in 0 .. MaxBlueprints
      /\ DOMAIN projects \subseteq 1 .. MaxProjects /\ DOMAIN blueprints \subseteq 1 .. MaxBlueprints
  BY DEF Types, AppType, ServerType, ProjectId, BlueprintId
<1>2. /\ None \in 0 .. MaxProjects /\ None \in 0 .. MaxBlueprints
      /\ DOMAIN projects \cup {None} \subseteq 0 .. MaxProjects /\ None \notin DOMAIN blueprints
  BY <1>1, BoundsAre, NothingIs DEF None
<1>3. /\ NextProject(new, Unset) = IF new \in {"form", "detail", "builder", "upload"}
                                     THEN projectId ELSE None
      /\ NextBlueprint(new, Unset) = IF new \in {"builder", "upload"} THEN blueprintId ELSE None
  BY DEF NextProject, NextBlueprint
<1>4. /\ \A p \in 0 .. MaxProjects : NextProject(new, p) = p
      /\ \A b \in 0 .. MaxBlueprints : NextBlueprint(new, b) = b
  <2>1. /\ \A p \in 0 .. MaxProjects : p # Unset
        /\ \A b \in 0 .. MaxBlueprints : b # Unset
    BY BoundsAre
  <2>2. \A p : p # Unset => NextProject(new, p) = p
    BY DEF NextProject
  <2>3. \A b : b # Unset => NextBlueprint(new, b) = b
    BY DEF NextBlueprint
  <2> QED
    BY <2>1, <2>2, <2>3
<1> QED
  BY <1>1, <1>2, <1>3, <1>4

LEMMA UserTidy ==
  ASSUME Types, Known, Tidy, User, ~astray'
  PROVE  Tidy'
<1> USE DEF Operation, Calm, Local, Send, Detail
<1>a. /\ ServerType /\ AllSound /\ view \in View /\ ops \in Nat
      /\ \A r \in requests : r \in Request
  BY BoundsAre DEF Types, AppType, AllSound, Sound
<1>k. UNCHANGED <<projects, blueprints, made>>
  BY DEF User, Sidebar, OpenProject, NewProject, AskDelete, CancelDelete, handleDeleteProject,
     EditProject, OpenBlueprint, handleCreate, handleDeleteBlueprint, Type, handleSubmitProject,
     ChooseProject, ChooseBlueprint, addFiles, remove, handleUpload, UploadWithThis, server
<1>b. /\ Here /\ OneOfEach /\ LoadsFirst /\ Places /\ ProjectsPage /\ DetailPage /\ UploadPage
      /\ FormPage
  BY DEF Tidy
<1>1. ASSUME NEW new \in {"projects", "upload", "elsewhere"}, Sidebar(new) PROVE Tidy'
  <2>1. new # page /\ navigate(new, Unset, Unset, requests) /\ new \in Page \ {"blank"}
    BY <1>1 DEF Sidebar, Page
  <2> QED
    BY <2>1, <1>k, <1>b, NextAre, NavigateTidy DEF Places
<1>2. CASE OpenProject
  <2>1. PICK p : /\ navigate("detail", p, Unset, requests) /\ page # "detail"
                 /\ \/ page = "projects" /\ p \in view.projects
                    \/ page = "upload" /\ p = view.pick /\ p # None
                    \/ page = "builder" /\ p = projectId
    BY <1>2 DEF OpenProject
  <2>2. \A r \in requests : r.do \notin Change
    BY <2>1 DEF navigate
  <2>3. p \in DOMAIN projects
    BY <2>1, <2>2, <1>b DEF ProjectsPage, UploadPage, Places, Change
  <2>4. p # None /\ NextProject("detail", p) = p /\ NextBlueprint("detail", Unset) = None
    BY <2>3, <1>a, NextAre, ServerIs
  <2> QED
    BY <2>1, <2>3, <2>4, <1>k, NextAre, NavigateTidy DEF Page
<1>3. CASE NewProject
  BY <1>3, <1>k, <1>b, NextAre, NavigateTidy DEF NewProject, Places, Page
<1>4. CASE AskDelete
  <2>1. PICK p \in view.projects : view' = [view EXCEPT !.modal = p]
    BY <1>4 DEF AskDelete
  <2>2. /\ view'.modal = p /\ view'.projects = view.projects /\ view'.loading = view.loading
        /\ view'.busy = view.busy /\ view'.pick = view.pick
        /\ view'.loadingBlueprints = view.loadingBlueprints
    BY <2>1, <1>a DEF View
  <2>3. requests' = requests /\ UNCHANGED app /\ page = "projects" /\ page' = page
    BY <1>4 DEF AskDelete, app
  <2>4. Here'
    BY <2>2, <2>3, StillHere DEF Here
  <2>5. ProjectsPage'
    BY <2>1, <2>2, <2>3, <1>k, <1>b DEF ProjectsPage, On
  <2> QED
    BY <2>3, <2>4, <2>5, <1>k, FewerTidy, OtherPages DEF Tidy
<1>5. CASE CancelDelete
  <2>2. /\ view'.modal = None /\ view'.projects = view.projects /\ view'.loading = view.loading
        /\ view'.busy = view.busy /\ view'.pick = view.pick
        /\ view'.loadingBlueprints = view.loadingBlueprints
    BY <1>5, <1>a DEF CancelDelete, View
  <2>3. requests' = requests /\ UNCHANGED app /\ page = "projects" /\ page' = page
    BY <1>5 DEF CancelDelete, app
  <2>4. Here'
    BY <2>2, <2>3, StillHere DEF Here
  <2>5. ProjectsPage'
    BY <2>2, <2>3, <1>k, <1>b DEF ProjectsPage, On
  <2> QED
    BY <2>3, <2>4, <2>5, <1>k, FewerTidy, OtherPages DEF Tidy
<1>6. CASE handleDeleteProject
  <2> DEFINE a == Ask("deleteProject", view.modal, None)
  <2>1. /\ page = "projects" /\ view.modal # None /\ ~view.busy
        /\ requests' = requests \cup {a} /\ UNCHANGED app /\ page' = page
    BY <1>6 DEF handleDeleteProject, app
  <2>2. a.do = "deleteProject" /\ a.at = "asked" /\ a.on /\ a.project = view.modal
    BY DEF Ask
  <2>3. /\ view'.busy = TRUE /\ view'.modal = view.modal /\ view'.projects = view.projects
        /\ view'.loading = view.loading
    BY <1>6, <1>a DEF handleDeleteProject, View
  <2> HIDE DEF a
  <2>4. \A r \in requests : r.do # "deleteProject" /\ r.do # "save"
    BY <2>1, <1>b DEF Here, ChangeHere, Change
  <2>5. \A r \in requests : ~(r.on /\ r.do \in Loading)
    BY <2>1, <1>b DEF Here, LoadHere, ProjectsPage, On, Loading
  <2>6. view.modal \in DOMAIN projects
    BY <2>1, <2>4, <1>b DEF ProjectsPage
  <2>7. Here'
    BY <2>1, <2>2, <2>3, <2>4, <2>5, StillHere, KindsAre
       DEF Here, ChangeHere, LoadHere, Change, Loading
  <2>8. /\ OneOfEach' /\ LoadsFirst' /\ Accurate' /\ Places'
        /\ \A do \in Loading : On(do)' = On(do)
    BY <2>1, <2>2, <2>4, <2>5, <1>k, SendTidy DEF Change
  <2>9. ProjectsPage'
    BY <2>1, <2>2, <2>3, <2>4, <2>6, <2>8, <1>k, <1>b DEF ProjectsPage, Loading
  <2> QED
    BY <2>1, <2>7, <2>8, <2>9, OtherPages DEF Tidy
<1>7. CASE EditProject
  BY <1>7, <1>k, <1>b, NextAre, NavigateTidy DEF EditProject, Places, Page
<1>8. CASE OpenBlueprint
  <2>1. PICK c \in view.cards : navigate("builder", projectId, c.id, requests)
    BY <1>8 DEF OpenBlueprint
  <2>2. page = "detail" /\ ~view.loading
    BY <1>8 DEF OpenBlueprint
  <2>3. CardTrue(c) /\ c.id \in 0 .. MaxBlueprints
    <3>1. On("detail") = {}
      BY <2>2, NoLoads DEF On, Loading
    <3>2. c \in Card
      BY <1>a DEF View
    <3> QED
      BY <2>2, <3>1, <3>2, <1>b, BoundsAre DEF DetailPage, Card, BlueprintId
  <2>4. NextProject("builder", projectId) = projectId /\ NextBlueprint("builder", c.id) = c.id
    BY <2>3, NextAre
  <2> QED
    BY <2>1, <2>2, <2>3, <2>4, <1>k, <1>b, NextAre, NavigateTidy DEF Places, CardTrue, Page
<1>9. CASE handleCreate
  <2> DEFINE a == Ask("create", projectId, None)
  <2>1. /\ page = "detail" /\ ~view.loading /\ view' = view
        /\ requests' = requests \cup {a} /\ UNCHANGED app /\ page' = page
        /\ projectId' = projectId
    BY <1>9 DEF handleCreate, app
  <2>2. a.do = "create" /\ a.at = "asked" /\ a.on /\ a.project = projectId
    BY DEF Ask
  <2> HIDE DEF a
  <2>3. \A r \in requests : ~(r.on /\ r.do \in Loading)
    BY <2>1, NoLoads
  <2>4. Here'
    BY <2>1, <2>2, StillHere, KindsAre DEF Here, ChangeHere, LoadHere, Change, Loading
  <2>5. /\ OneOfEach' /\ LoadsFirst' /\ Accurate' /\ Places'
        /\ \A do \in Loading : On(do)' = On(do)
        /\ \A b, gone : Deleted(b, gone) => Deleted(b, gone)'
        /\ \A b : Created(b) => Created(b)'
    BY <2>1, <2>2, <2>3, <1>k, SendTidy DEF Change
  <2>6. DetailPage'
    BY <2>1, <2>5, <1>k, <1>b DEF DetailPage, CardTrue, Loading
  <2> QED
    BY <2>1, <2>4, <2>5, <2>6, OtherPages DEF Tidy
<1>10. CASE handleDeleteBlueprint
  <2>1. PICK c \in view.cards : /\ view' = [view EXCEPT !.busyId = c.id]
                                /\ Send(Ask("deleteBlueprint", None, c.id))
    BY <1>10 DEF handleDeleteBlueprint
  <2> DEFINE a == Ask("deleteBlueprint", None, c.id)
  <2>2. /\ page = "detail" /\ ~view.loading
        /\ requests' = requests \cup {a} /\ UNCHANGED app /\ page' = page
        /\ projectId' = projectId
    BY <1>10, <2>1 DEF handleDeleteBlueprint, app
  <2>3. a.do = "deleteBlueprint" /\ a.at = "asked" /\ a.on /\ a.blueprint = c.id
    BY DEF Ask
  <2>4. /\ view'.busy = view.busy /\ view'.loading = view.loading /\ view'.pick = view.pick
        /\ view'.loadingBlueprints = view.loadingBlueprints /\ view'.cards = view.cards
        /\ view'.shown = view.shown
    BY <2>1, <1>a DEF View
  <2> HIDE DEF a
  <2>5. \A r \in requests : ~(r.on /\ r.do \in Loading)
    BY <2>2, NoLoads
  <2>6. On("detail") = {} /\ c.id \in 1 .. made.blueprints
    BY <2>2, <2>5, <1>b DEF On, Loading, DetailPage, CardTrue
  <2>7. Here'
    BY <2>2, <2>3, <2>4, StillHere, KindsAre DEF Here, ChangeHere, LoadHere, Change, Loading
  <2>8. /\ OneOfEach' /\ LoadsFirst' /\ Accurate' /\ Places'
        /\ \A do \in Loading : On(do)' = On(do)
        /\ \A b, gone : Deleted(b, gone) => Deleted(b, gone)'
        /\ \A b : Created(b) => Created(b)'
    BY <2>2, <2>3, <2>5, <2>6, <1>k, SendTidy DEF Change
  <2>9. DetailPage'
    BY <2>2, <2>4, <2>8, <1>k, <1>b DEF DetailPage, CardTrue, Loading
  <2> QED
    BY <2>2, <2>7, <2>8, <2>9, OtherPages DEF Tidy
<1>11. CASE Type
  <2>1. /\ view'.typed = TRUE /\ view'.loading = view.loading /\ view'.busy = view.busy
        /\ view'.pick = view.pick /\ view'.loadingBlueprints = view.loadingBlueprints
    BY <1>11, <1>a DEF Type, View
  <2>2. requests' = requests /\ UNCHANGED app /\ page = "form" /\ page' = page
    BY <1>11 DEF Type, app
  <2>3. Here'
    BY <2>1, <2>2, StillHere DEF Here
  <2>4. FormPage'
    BY <2>1, <2>2, <1>k, <1>b DEF FormPage, SaveTrue
  <2> QED
    BY <2>2, <2>3, <2>4, <1>k, FewerTidy, OtherPages DEF Tidy
<1>12. CASE handleSubmitProject
  <2> DEFINE a == [Ask("save", projectId, None) EXCEPT !.text = view.text]
  <2>1. /\ page = "form" /\ ~view.loading /\ ~view.busy
        /\ requests' = requests \cup {a} /\ UNCHANGED app /\ page' = page
        /\ projectId' = projectId
    BY <1>12 DEF handleSubmitProject, app
  <2>2. /\ a.do = "save" /\ a.at = "asked" /\ a.on /\ a.project = projectId
        /\ a.text = view.text
    BY DEF Ask
  <2>3. /\ view'.busy = TRUE /\ view'.loading = view.loading /\ view'.text = view.text
        /\ view'.typed = view.typed
    BY <1>12, <1>a DEF handleSubmitProject, View
  <2> HIDE DEF a
  <2>4. \A r \in requests : r.do # "save" /\ r.do # "deleteProject"
    BY <2>1, <1>b DEF Here, ChangeHere, Change
  <2>5. \A r \in requests : ~(r.on /\ r.do \in Loading)
    BY <2>1, NoLoads
  <2>6. Here'
    BY <2>1, <2>2, <2>3, <2>4, <2>5, StillHere, KindsAre
       DEF Here, ChangeHere, LoadHere, Change, Loading
  <2>7. /\ OneOfEach' /\ LoadsFirst' /\ Accurate' /\ Places'
        /\ \A do \in Loading : On(do)' = On(do)
    BY <2>1, <2>2, <2>4, <2>5, <1>k, SendTidy DEF Change
  <2>8. On("project") = {} /\ On("project")' = {}
    BY <2>5, <2>7 DEF On, Loading
  <2>9. FormPage'
    <3>1. projectId # None /\ ~view.typed => view.text = projects[projectId]
      BY <2>1, <2>8, <1>b DEF FormPage
    <3>2. \A r \in requests' : SaveTrue(r)'
      BY <3>1, <2>1, <2>2, <2>3, <2>4, <1>k DEF SaveTrue
    <3> QED
      BY <3>1, <3>2, <2>1, <2>3, <1>k DEF FormPage
  <2> QED
    BY <2>1, <2>6, <2>7, <2>9, OtherPages DEF Tidy
<1>13. CASE ChooseProject
  <2>1. PICK p \in view.projects \cup {None} :
          /\ view' = [view EXCEPT !.pick = p, !.choice = Cleared(@),
                        !.cards = IF p = None THEN {} ELSE @,
                        !.loadingBlueprints = @ \/ p # None]
          /\ requests' = requests \cup (IF p = None THEN {} ELSE {Ask("blueprints", p, None)})
    BY <1>13 DEF ChooseProject
  <2>2. /\ page = "upload" /\ ~view.loading /\ UNCHANGED app /\ page' = page
        /\ \A r \in requests : ~(r.on /\ r.do = "blueprints")
    BY <1>13 DEF ChooseProject, app
  <2>3. /\ view'.pick = p /\ view'.choice = None /\ view'.projects = view.projects
        /\ view'.busy = view.busy /\ view'.loading = view.loading
        /\ p # None => view'.loadingBlueprints
        /\ p = None => view'.cards = {}
    BY <2>1, <1>a DEF View, Cleared
  <2> DEFINE a == Ask("blueprints", p, None)
  <2>4. a.do = "blueprints" /\ a.at = "asked" /\ a.on /\ a.project = p
    BY DEF Ask
  <2>5. requests' = requests \cup (IF p = None THEN {} ELSE {a})
    BY <2>1
  <2> HIDE DEF a
  <2>6. Here'
    BY <2>2, <2>3, <2>4, <2>5, StillHere DEF Here, ChangeHere, LoadHere, Change, Loading
  <2>7. OneOfEach' /\ LoadsFirst'
    BY <2>2, <2>4, <2>5, <1>b DEF OneOfEach, LoadsFirst, Change
  <2>8. Accurate'
    <3>1. \A r \in requests : TrueLoad(r)' /\ TrueChange(r)'
      BY <1>k DEF Tidy, Accurate, TrueLoad, TrueChange, CardsOf
    <3>2. \A r : r.do = "blueprints" /\ r.at = "asked" => TrueLoad(r)' /\ TrueChange(r)'
      BY DEF TrueLoad, TrueChange
    <3> QED
      BY <3>1, <3>2, <2>4, <2>5 DEF Accurate
  <2>9. Places'
    BY <2>2, <1>k, <1>b DEF Places, app
  <2>10. On("list") = {} /\ On("list")' = {}
    BY <2>2, <2>4, <2>5, <1>b DEF On, Here, LoadHere, Loading
  <2>11. p # None => On("blueprints")' # {}
    BY <2>4, <2>5 DEF On
  <2>12. UploadPage'
    BY <2>2, <2>3, <2>10, <2>11, <1>k, <1>b, NextAre DEF UploadPage
  <2> QED
    BY <2>2, <2>6, <2>7, <2>8, <2>9, <2>12, OtherPages DEF Tidy
<1>14. CASE ChooseBlueprint
  <2>1. PICK b \in {c.id : c \in view.cards} \cup {None} : view' = [view EXCEPT !.choice = b]
    BY <1>14 DEF ChooseBlueprint
  <2>2. /\ view'.choice = b /\ view'.projects = view.projects /\ view'.loading = view.loading
        /\ view'.busy = view.busy /\ view'.pick = view.pick /\ view'.cards = view.cards
        /\ view'.loadingBlueprints = view.loadingBlueprints
    BY <2>1, <1>a DEF View
  <2>3. /\ requests' = requests /\ UNCHANGED app /\ page = "upload" /\ page' = page
        /\ view.pick # None /\ ~view.loadingBlueprints
    BY <1>14 DEF ChooseBlueprint, app
  <2>4. Here'
    BY <2>2, <2>3, StillHere DEF Here
  <2>5. On("blueprints") = {}
    BY <2>3, <1>b DEF On, Here, LoadHere, Loading
  <2>6. view.cards = {c \in CardsOf(view.pick) : c.active}
    BY <2>3, <2>5, <1>b DEF UploadPage
  <2>7. b \in DOMAIN blueprints => blueprints[b].project = view.pick
    <3>1. \A c \in CardsOf(view.pick) : c.id \in DOMAIN blueprints => blueprints[c.id].project = view.pick
      BY DEF CardsOf
    <3> QED
      BY <3>1, <2>1, <2>6, <1>a, ServerIs
  <2>8. UploadPage'
    BY <2>2, <2>3, <2>7, <1>k, <1>b DEF UploadPage, On, CardsOf
  <2> QED
    BY <2>3, <2>4, <2>8, <1>k, FewerTidy, OtherPages DEF Tidy
<1>15. CASE addFiles \/ remove
  <2>1. /\ view'.choice = view.choice /\ view'.projects = view.projects
        /\ view'.loading = view.loading /\ view'.busy = view.busy /\ view'.pick = view.pick
        /\ view'.cards = view.cards /\ view'.loadingBlueprints = view.loadingBlueprints
    BY <1>15, <1>a DEF addFiles, remove, View
  <2>2. requests' = requests /\ UNCHANGED app /\ page = "upload" /\ page' = page
    BY <1>15 DEF addFiles, remove, app
  <2>3. Here'
    BY <2>1, <2>2, StillHere DEF Here
  <2>4. UploadPage'
    BY <2>1, <2>2, <1>k, <1>b DEF UploadPage, On, CardsOf
  <2> QED
    BY <2>2, <2>3, <2>4, <1>k, FewerTidy, OtherPages DEF Tidy
<1>16. CASE handleUpload
  <2> DEFINE a == Ask("upload", view.pick, view.choice)
  <2>1. /\ page = "upload" /\ requests' = requests \cup {a} /\ UNCHANGED app /\ page' = page
    BY <1>16 DEF handleUpload, app
  <2>2. a.do = "upload" /\ a.at = "asked" /\ a.on
    BY DEF Ask
  <2>3. /\ view'.choice = view.choice /\ view'.projects = view.projects
        /\ view'.loading = view.loading /\ view'.pick = view.pick
        /\ view'.cards = view.cards /\ view'.loadingBlueprints = view.loadingBlueprints
    BY <1>16, <1>a DEF handleUpload, View
  <2> HIDE DEF a
  <2>4. \A r \in requests : r.do # "save" /\ r.do # "deleteProject"
    BY <2>1, <1>b DEF Here, ChangeHere, Change
  <2>5. Here'
    BY <2>1, <2>2, <2>3, <2>4, StillHere, KindsAre DEF Here, ChangeHere, LoadHere, Change, Loading
  <2>6. /\ OneOfEach' /\ LoadsFirst' /\ Accurate' /\ Places'
        /\ \A do \in Loading : On(do)' = On(do)
    BY <2>1, <2>2, <2>4, <1>k, SendTidy DEF Change
  <2>7. UploadPage'
    BY <2>1, <2>3, <2>6, <1>k, <1>b DEF UploadPage, CardsOf, Loading
  <2> QED
    BY <2>1, <2>5, <2>6, <2>7, OtherPages DEF Tidy
<1>17. CASE UploadWithThis
  <2>1. navigate("upload", projectId, blueprintId, requests) /\ page = "builder"
    BY <1>17 DEF UploadWithThis
  <2>2. /\ NextProject("upload", projectId) = projectId
        /\ NextBlueprint("upload", blueprintId) = blueprintId
        /\ blueprintId \in 0 .. MaxBlueprints
    BY NextAre
  <2> QED
    BY <2>1, <2>2, <1>k, <1>b, NavigateTidy DEF Places, Page
<1> QED
  BY <1>1, <1>2, <1>3, <1>4, <1>5, <1>6, <1>7, <1>8, <1>9, <1>10, <1>11, <1>12, <1>13,
     <1>14, <1>15, <1>16, <1>17 DEF User

-----------------------------------------------------------------------------
(* The server.                                                             *)

\* Whatever the server says of a page's requests, the pages that are not concerned ask nothing.
LEMMA ServeTidy ==
  ASSUME Types, Known, Tidy, NEW r \in requests, Serve(r), ~astray'
  PROVE  Tidy'
<1>a. /\ ServerType /\ AllSound /\ view \in View /\ r \in Request
      /\ r.at \in {"asked", "checked"} /\ UNCHANGED <<app, view, astray>>
      /\ page' = page /\ projectId' = projectId /\ blueprintId' = blueprintId /\ view' = view
      /\ \A q \in requests : q \in Request
  BY DEF Types, AppType, AllSound, Sound, Serve, app
<1>b. /\ Here /\ OneOfEach /\ LoadsFirst /\ Accurate /\ Places /\ ProjectsPage /\ DetailPage
      /\ UploadPage /\ FormPage /\ ChangeHere(r) /\ LoadHere(r)
  BY DEF Tidy, Here
<1>r. r.do \in Loading \cup Change /\ (r.do \in Change => r.on /\ r.do \notin Loading)
  BY <1>a, <1>b, KindsAre DEF ChangeHere

\* What only reads, or writes no more than the jobs.
<1>s. ASSUME UNCHANGED <<projects, blueprints, made>>,
             NEW at \in {"checked", "ok", "no"}, NEW got, Reply(r, at, got),
             r.on /\ r.do \in Loading => at = "ok",
             \A a : IsAnswer(a, r, at, got) => TrueLoad(a) /\ TrueChange(a),
             r.do = "deleteProject" => at = "ok"
      PROVE  Tidy'
  <2>1. PICK a : IsAnswer(a, r, at, got) /\ requests' = (requests \ {r}) \cup {a}
    BY <1>a, <1>s, ReplyIs
  <2>2. /\ Here' /\ OneOfEach' /\ LoadsFirst'
        /\ \A do : (On(do) = {})' <=> (On(do) = {})
        /\ \A b, gone : Deleted(b, gone) => Deleted(b, gone)'
        /\ \A b : Created(b) => Created(b)'
    BY <2>1, <1>a, <1>s, ReplyTidy
  <2>3. Accurate'
    <3>1. ASSUME NEW q \in requests' PROVE TrueLoad(q) /\ TrueChange(q)
      BY <2>1, <1>s, <1>b, <3>1 DEF Accurate
    <3>2. ASSUME NEW q \in requests' PROVE TrueLoad(q)' /\ TrueChange(q)'
      BY <3>1, <3>2, <1>s DEF TrueLoad, TrueChange, CardsOf
    <3> QED
      BY <3>2 DEF Accurate
  <2>4. Places'
    BY <1>a, <1>b, <1>s DEF Places
  <2>5. ProjectsPage'
    <3>1. SUFFICES ASSUME page = "projects" PROVE ProjectsPage'
      BY <1>a DEF ProjectsPage
    <3>2. \A p : (\E q \in requests : q.do = "deleteProject" /\ q.at = "ok" /\ q.project = p)
                  => \E q \in requests' : q.do = "deleteProject" /\ q.at = "ok" /\ q.project = p
      BY <2>1, <1>a
    <3>3. \A q \in requests' : q.do = "deleteProject" =>
            q.at \in {"asked", "ok"} /\ (q.at = "asked" => q.project \in DOMAIN projects')
      BY <3>1, <2>1, <1>b, <1>s DEF ProjectsPage, IsAnswer
    <3> QED
      BY <3>1, <3>2, <3>3, <2>2, <1>a, <1>b, <1>s DEF ProjectsPage
  <2>6. DetailPage'
    BY <2>2, <1>a, <1>b, <1>s DEF DetailPage, CardTrue
  <2>7. UploadPage'
    BY <2>2, <1>a, <1>b, <1>s DEF UploadPage, CardsOf
  <2>8. FormPage'
    <3>1. \A q \in requests' : SaveTrue(q)'
      BY <2>1, <1>a, <1>b, <1>s DEF FormPage, SaveTrue, IsAnswer
    <3> QED
      BY <3>1, <2>2, <1>a, <1>b, <1>s DEF FormPage
  <2> QED
    BY <2>2, <2>3, <2>4, <2>5, <2>6, <2>7, <2>8 DEF Tidy

\* What writes a row of projects or blueprints, while no page loads.
<1>n. ASSUME r.do \in Change \ {"upload"}
      PROVE  /\ page # "upload" /\ (page = "projects" <=> r.do = "deleteProject")
             /\ (page = "form" <=> r.do = "save")
             /\ (page = "detail" <=> r.do \in {"create", "deleteBlueprint"})
             /\ \A q \in requests : ~(q.on /\ q.do \in Loading)
             /\ \A q \in requests : /\ q.do = "deleteProject" => page = "projects" /\ q.on
                                    /\ q.do = "save" => page = "form" /\ q.on
                                    /\ q.do \in {"create", "deleteBlueprint"} => page = "detail"
                                    /\ q.do # "upload"
  <2>1. page # "upload"
    BY <1>n, <1>b DEF ChangeHere, Change
  <2>2. \A q \in requests : ChangeHere(q)
    BY <1>b DEF Here
  <2>3. \A q \in requests : ~(q.on /\ q.do \in Loading)
    BY <2>1, <1>n, <1>b DEF LoadsFirst
  <2> QED
    BY <2>1, <2>2, <2>3, <1>n DEF ChangeHere, Change
<1>w. ASSUME r.do \in Change \ {"upload"}, NEW at \in {"checked", "ok", "no"}, NEW got, NEW a,
             IsAnswer(a, r, at, got), requests' = (requests \ {r}) \cup {a},
             \A q \in requests : q # r => TrueChange(q)' /\ SaveTrue(q)',
             TrueChange(a)', SaveTrue(a)', Places', ProjectsPage', DetailPage',
             page = "form" /\ projectId # None /\ ~view.typed
               => projects'[projectId] = projects[projectId]
      PROVE  Tidy'
  <2>1. /\ Here' /\ OneOfEach' /\ LoadsFirst'
        /\ \A do : (On(do) = {})' <=> (On(do) = {})
    BY <1>w, <1>a, <1>n, ReplyTidy
  <2>2. Accurate'
    <3>1. \A q \in requests' : ~(q.on /\ q.do \in Loading)
      BY <1>w, <1>n, <1>r DEF IsAnswer
    <3>2. \A q \in requests' : TrueLoad(q)'
      <4>1. ASSUME NEW q \in requests' PROVE TrueLoad(q)'
        BY <3>1, <4>1, <1>w, <1>n, <1>r, <1>a, KindsAre DEF TrueLoad, Loading, IsAnswer
      <4> QED
        BY <4>1
    <3> QED
      BY <3>2, <1>w DEF Accurate
  <2>3. FormPage'
    <3>1. \A q \in requests' : SaveTrue(q)'
      BY <1>w
    <3> QED
      BY <3>1, <2>1, <1>a, <1>b, <1>w DEF FormPage
  <2>4. UploadPage'
    BY <1>n, <1>w, <1>a, OtherPages
  <2> QED
    BY <2>1, <2>2, <2>3, <2>4, <1>w DEF Tidy

<1>1. CASE list_projects(r)
  <2> DEFINE got == [Nothing EXCEPT !.projects = DOMAIN projects]
  <2>1. r.do = "list" /\ Reply(r, "ok", got) /\ server' = server
    BY <1>1 DEF list_projects, server
  <2>2. got.projects = DOMAIN projects
    BY NothingIs DEF Answer
  <2> HIDE DEF got
  <2>3. \A a : IsAnswer(a, r, "ok", got) => TrueLoad(a) /\ TrueChange(a)
    BY <2>1, <2>2 DEF IsAnswer, TrueLoad, TrueChange
  <2> QED
    BY <2>1, <2>3, <1>s DEF server
<1>2. CASE get_project(r)
  <2> DEFINE got == IF r.project \in DOMAIN projects
                      THEN [Nothing EXCEPT !.id = r.project, !.text = projects[r.project],
                                           !.cards = CardsOf(r.project)]
                      ELSE [Nothing EXCEPT !.missing = TRUE]
  <2>1. r.do \in {"detail", "project", "blueprints"} /\ Reply(r, "ok", got) /\ server' = server
    BY <1>2 DEF get_project, server
  <2>2. r.project \in DOMAIN projects =>
          /\ ~got.missing /\ got.id = r.project /\ got.cards = CardsOf(r.project)
          /\ got.text = projects[r.project]
    BY NothingIs DEF Answer
  <2> HIDE DEF got
  <2>3. r.on /\ r.do \in {"detail", "blueprints"} => r.project \in DOMAIN projects
    BY <2>1, <1>b DEF LoadHere, Loading, Places, UploadPage
  <2>4. \A a : IsAnswer(a, r, "ok", got) => TrueLoad(a) /\ TrueChange(a)
    BY <2>1, <2>2, <2>3 DEF IsAnswer, TrueLoad, TrueChange
  <2> QED
    BY <2>1, <2>4, <1>s DEF server
<1>3. CASE create_project(r)
  <2> DEFINE id == made.projects + 1
             got == [Nothing EXCEPT !.id = id]
  <2>1. /\ r.do = "save" /\ r.project = None /\ Reply(r, "ok", got)
        /\ projects' = [p \in DOMAIN projects \cup {id} |-> IF p = id THEN r.text ELSE projects[p]]
        /\ made' = [made EXCEPT !.projects = id]
        /\ blueprints' = blueprints
    BY <1>3 DEF create_project, Done
  <2>2. got.id = id /\ id \notin {None}
    BY <1>a, NothingIs, ServerIs DEF Answer, None
  <2> HIDE DEF got
  <2>3. PICK a : IsAnswer(a, r, "ok", got) /\ requests' = (requests \ {r}) \cup {a}
    BY <2>1, <1>a, ReplyIs
  <2>4. /\ r.do \in Change \ {"upload"} /\ page = "form" /\ projectId = None
    BY <2>1, <1>b DEF ChangeHere, Change
  <2>5. \A q \in requests : q # r => q.do \notin Change
    BY <2>1, <2>4, <1>b, <1>n, <1>r DEF OneOfEach, Change
  <2>6. \A q \in requests : q # r => TrueChange(q)' /\ SaveTrue(q)'
    BY <2>5 DEF TrueChange, SaveTrue, Change
  <2>7. SaveTrue(a)'
    BY <2>1, <2>3, <1>a, <1>b DEF IsAnswer, FormPage, SaveTrue
  <2>8. TrueChange(a)'
    BY <2>1, <2>2, <2>3 DEF IsAnswer, TrueChange
  <2>9. Places'
    BY <2>1, <2>4, <1>a, <1>b DEF Places
  <2> QED
    BY <2>3, <2>4, <2>6, <2>7, <2>8, <2>9, <1>w, <1>a, OtherPages
<1>4. CASE update_project(r)
  <2> DEFINE got == [Nothing EXCEPT !.id = r.project]
  <2>1. /\ r.do = "save" /\ r.project \in DOMAIN projects /\ Reply(r, "ok", got)
        /\ projects' = [projects EXCEPT ![r.project] = r.text]
        /\ made' = made /\ blueprints' = blueprints
    BY <1>4 DEF update_project, Done
  <2>2. got.id = r.project /\ r.project # None
    BY <2>1, <1>a, NothingIs, ServerIs DEF Answer
  <2> HIDE DEF got
  <2>3. PICK a : IsAnswer(a, r, "ok", got) /\ requests' = (requests \ {r}) \cup {a}
    BY <2>1, <1>a, ReplyIs
  <2>4. /\ r.do \in Change \ {"upload"} /\ page = "form" /\ projectId = r.project
    BY <2>1, <1>b DEF ChangeHere, Change
  <2>5. \A q \in requests : q # r => q.do \notin Change
    BY <2>1, <2>4, <1>b, <1>n, <1>r DEF OneOfEach, Change
  <2>6. \A q \in requests : q # r => TrueChange(q)' /\ SaveTrue(q)'
    BY <2>5 DEF TrueChange, SaveTrue, Change
  <2>7. ~view.typed => r.text = projects[r.project]
    BY <2>1, <2>2, <1>b DEF FormPage, SaveTrue
  <2>8. SaveTrue(a)'
    BY <2>1, <2>3, <2>7, <1>a DEF IsAnswer, SaveTrue
  <2>9. TrueChange(a)'
    BY <2>1, <2>2, <2>3 DEF IsAnswer, TrueChange
  <2>10. Places'
    BY <2>1, <2>4, <1>a, <1>b DEF Places
  <2>11. ~view.typed => projects'[projectId] = projects[projectId]
    BY <2>1, <2>4, <2>7
  <2> QED
    BY <2>3, <2>4, <2>6, <2>8, <2>9, <2>10, <2>11, <1>w, <1>a, OtherPages
<1>5. CASE delete_project(r)
  <2> DEFINE got == [Nothing EXCEPT !.id = r.project]
  <2>1. /\ r.do = "deleteProject" /\ r.project \in DOMAIN projects /\ Reply(r, "ok", got)
        /\ projects' = [p \in DOMAIN projects \ {r.project} |-> projects[p]]
        /\ DOMAIN blueprints' \subseteq DOMAIN blueprints
        /\ made' = made
    BY <1>5 DEF delete_project, Done, Forget
  <2> HIDE DEF got
  <2>2. PICK a : IsAnswer(a, r, "ok", got) /\ requests' = (requests \ {r}) \cup {a}
    BY <2>1, <1>a, ReplyIs
  <2>3. r.do \in Change \ {"upload"} /\ page = "projects"
    BY <2>1, <1>b DEF ChangeHere, Change
  <2>4. \A q \in requests : q # r => q.do \notin Change
    BY <2>1, <2>3, <1>b, <1>n, <1>r DEF OneOfEach, Change
  <2>5. \A q \in requests : q # r => TrueChange(q)' /\ SaveTrue(q)'
    BY <2>4 DEF TrueChange, SaveTrue, Change
  <2>6. SaveTrue(a)' /\ TrueChange(a)'
    BY <2>1, <2>2 DEF IsAnswer, SaveTrue, TrueChange
  <2>7. Places'
    BY <2>1, <2>3, <1>a, <1>b, ServerIs DEF Places
  <2>8. ProjectsPage'
    <3>1. /\ a.do = "deleteProject" /\ a.at = "ok" /\ a.project = r.project /\ a \in requests'
          /\ ~a.on \/ a.do \notin Loading
      BY <2>1, <2>2 DEF IsAnswer, Loading
    <3>2. \A q \in requests : q.do = "deleteProject" => q = r
      BY <2>4 DEF Change
    <3>3. On("list") = {} /\ On("list")' = {}
      BY <2>2, <2>3, <3>1, <1>n DEF On, Loading
    <3>4. DOMAIN projects' = DOMAIN projects \ {r.project}
      BY <2>1
    <3>5. r.at # "ok"
      BY <1>a
    <3>6. \A p \in view.projects : p \in DOMAIN projects' \/ \E q \in requests' :
            q.do = "deleteProject" /\ q.at = "ok" /\ q.project = p
      BY <2>3, <3>1, <3>2, <3>4, <3>5, <1>b DEF ProjectsPage
    <3>7. \A q \in requests' : q.do = "deleteProject" => q.at = "ok"
      BY <2>2, <3>1, <3>2
    <3> QED
      BY <2>3, <3>3, <3>4, <3>6, <3>7, <1>a, <1>b DEF ProjectsPage
  <2> QED
    BY <2>2, <2>3, <2>5, <2>6, <2>7, <2>8, <1>w, <1>a, OtherPages
<1>6. CASE create_blueprint(r)
  <2>0. PICK id : id = made.blueprints + 1
    OBVIOUS
  <2> DEFINE got == [Nothing EXCEPT !.id = id]
  <2>1. /\ r.do = "create" /\ r.project \in DOMAIN projects /\ Reply(r, "ok", got)
        /\ blueprints' = [b \in DOMAIN blueprints \cup {id} |->
                            IF b = id THEN [project |-> r.project, active |-> TRUE] ELSE blueprints[b]]
        /\ made' = [made EXCEPT !.blueprints = id] /\ projects' = projects
    BY <1>6, <2>0 DEF create_blueprint, Done
  <2>2. /\ got.id = id /\ made'.blueprints = id /\ made.blueprints \in Nat /\ id \in Nat
        /\ id \notin DOMAIN blueprints
        /\ 1 .. made.blueprints \subseteq 1 .. id /\ id \in 1 .. id
        /\ \A n \in 1 .. made.blueprints : n # id
    BY <2>0, <2>1, <1>a, NothingIs, ServerIs DEF Answer, Known
  <2> HIDE DEF got
  <2>3. PICK a : IsAnswer(a, r, "ok", got) /\ requests' = (requests \ {r}) \cup {a}
    BY <2>1, <1>a, ReplyIs
  <2>4. r.do \in Change \ {"upload"} /\ page = "detail" /\ r.project = projectId
    BY <2>1, <1>b DEF ChangeHere, Change
  <2>5. /\ DOMAIN blueprints' = DOMAIN blueprints \cup {id}
        /\ \A b \in DOMAIN blueprints : blueprints'[b] = blueprints[b]
        /\ blueprints'[id].project = r.project
    BY <2>1, <2>2
  <2>6. \A q \in requests : q # r => TrueChange(q)' /\ SaveTrue(q)'
    <3>1. ASSUME NEW q \in requests PROVE TrueChange(q)'
      <4>1. TrueChange(q)
        BY <1>b DEF Accurate
      <4> QED
        BY <4>1, <2>1, <2>2, <2>5 DEF TrueChange
    <3>2. ASSUME NEW q \in requests PROVE SaveTrue(q)'
      BY <2>4, <1>n DEF SaveTrue
    <3> QED
      BY <3>1, <3>2
  <2>7. SaveTrue(a)' /\ TrueChange(a)'
    BY <2>1, <2>2, <2>3, <2>5 DEF IsAnswer, SaveTrue, TrueChange
  <2>8. Places'
    BY <2>1, <2>2, <2>4, <1>a, <1>b, ServerIs DEF Places, None
  <2>9. DetailPage'
    <3>1. /\ On("detail") = {}
          /\ \A b, gone : Deleted(b, gone) => Deleted(b, gone)'
          /\ \A b : Created(b) => Created(b)'
      BY <2>3, <2>4, <1>a, <1>n, <1>r, ReplyTidy DEF On, Loading
    <3>2. Created(id)'
      BY <2>1, <2>2, <2>3 DEF Created, IsAnswer
    <3>3. \A c \in view.cards : CardTrue(c)
      BY <2>4, <3>1, <1>b DEF DetailPage
    <3>4. \A c \in view.cards : CardTrue(c)'
      <4>1. ASSUME NEW c \in view.cards PROVE CardTrue(c)'
        BY <3>1, <3>3, <2>2, <2>5, <1>a DEF CardTrue
      <4> QED
        BY <4>1
    <3> QED
      BY <3>1, <3>2, <3>4, <2>4, <2>5, <1>a, <1>b DEF DetailPage
  <2> QED
    BY <2>3, <2>4, <2>6, <2>7, <2>8, <2>9, <2>1, <1>w, <1>a, OtherPages
<1>7. CASE CountResults(r)
  <2> DEFINE got == [Nothing EXCEPT !.missing = ~HasResults(r.blueprint)]
  <2>1. r.do = "deleteBlueprint" /\ Reply(r, "checked", got) /\ server' = server
    BY <1>7 DEF CountResults, server
  <2> HIDE DEF got
  <2>2. \A a : IsAnswer(a, r, "checked", got) => TrueLoad(a) /\ TrueChange(a)
    BY <2>1, <1>b DEF IsAnswer, TrueLoad, TrueChange, Accurate
  <2> QED
    BY <2>1, <2>2, <1>s DEF server, Loading
<1>8. CASE delete_blueprint(r)
  <2>1. /\ r.do = "deleteBlueprint" /\ r.blueprint \in DOMAIN blueprints /\ made' = made
        /\ Reply(r, "ok", r.got) /\ projects' = projects
    BY <1>8 DEF delete_blueprint
  <2>2. PICK a : IsAnswer(a, r, "ok", r.got) /\ requests' = (requests \ {r}) \cup {a}
    BY <2>1, <1>a, ReplyIs
  <2>3. r.do \in Change \ {"upload"} /\ page = "detail"
    BY <2>1, <1>b DEF ChangeHere, Change
  <2>4. \/ /\ r.got.missing /\ DOMAIN blueprints' = DOMAIN blueprints \ {r.blueprint}
           /\ \A b \in DOMAIN blueprints' : blueprints'[b] = blueprints[b]
        \/ /\ ~r.got.missing /\ DOMAIN blueprints' = DOMAIN blueprints
           /\ \A b \in DOMAIN blueprints : b # r.blueprint => blueprints'[b] = blueprints[b]
           /\ blueprints'[r.blueprint].project = blueprints[r.blueprint].project
           /\ blueprints'[r.blueprint].active = FALSE
    <3>1. CASE r.got.missing /\ Forget({r.blueprint})
      BY <3>1 DEF Forget
    <3>2. CASE ~r.got.missing /\ blueprints' = [blueprints EXCEPT ![r.blueprint].active = FALSE]
      BY <3>2, <2>1, <1>a DEF ServerType
    <3> QED
      BY <1>8, <3>1, <3>2 DEF delete_blueprint
  <2>5. r.got.missing \in BOOLEAN
    BY <1>a, KindsAre
  <2>6. \A q \in requests : q # r => TrueChange(q)' /\ SaveTrue(q)'
    <3>1. ASSUME NEW q \in requests PROVE TrueChange(q)'
      <4>1. TrueChange(q) /\ q.got.missing \in BOOLEAN
        BY <1>a, <1>b, KindsAre DEF Accurate
      <4> QED
        BY <4>1, <2>1, <2>4, <1>a, ServerIs DEF TrueChange
    <3>2. ASSUME NEW q \in requests PROVE SaveTrue(q)'
      BY <2>3, <1>n DEF SaveTrue
    <3> QED
      BY <3>1, <3>2
  <2>7. SaveTrue(a)' /\ TrueChange(a)'
    <3>1. TrueChange(r)
      BY <1>b DEF Accurate
    <3> QED
      BY <3>1, <2>1, <2>2, <2>4 DEF IsAnswer, SaveTrue, TrueChange
  <2>8. Places'
    BY <2>1, <2>3, <2>4, <1>a, <1>b, ServerIs DEF Places
  <2>9. DetailPage'
    <3>1. /\ On("detail") = {}
          /\ \A b, gone : Deleted(b, gone) => Deleted(b, gone)'
          /\ \A b : Created(b) => Created(b)'
      BY <2>2, <2>3, <1>a, <1>n, <1>r, ReplyTidy DEF On, Loading
    <3>2. Deleted(r.blueprint, r.got.missing)'
      BY <2>1, <2>2 DEF Deleted, IsAnswer
    <3>3. \A c \in view.cards : CardTrue(c) /\ c \in Card
      BY <2>3, <3>1, <1>a, <1>b DEF DetailPage, View
    <3>4. \A c \in view.cards : CardTrue(c)'
      <4>1. ASSUME NEW c \in view.cards PROVE CardTrue(c)'
        <5>1. CardTrue(c) /\ c.active \in BOOLEAN
          BY <3>3 DEF Card
        <5>2. CASE c.id # r.blueprint
          BY <5>1, <5>2, <3>1, <2>1, <2>4, <1>a DEF CardTrue
        <5>3. CASE c.id = r.blueprint /\ r.got.missing
          BY <5>1, <5>3, <3>2, <2>1, <2>4, <2>5, <1>a DEF CardTrue
        <5>4. CASE c.id = r.blueprint /\ ~r.got.missing
          BY <5>1, <5>4, <3>1, <3>2, <2>1, <2>4, <2>5, <1>a DEF CardTrue
        <5> QED
          BY <5>2, <5>3, <5>4, <2>5
      <4> QED
        BY <4>1
    <3>5. /\ DOMAIN blueprints' \subseteq DOMAIN blueprints
          /\ \A b \in DOMAIN blueprints' : blueprints'[b].project = blueprints[b].project
      BY <2>1, <2>4
    <3> QED
      BY <3>1, <3>4, <3>5, <2>3, <1>a, <1>b DEF DetailPage
  <2> QED
    BY <2>1, <2>2, <2>3, <2>6, <2>7, <2>8, <2>9, <1>w, <1>a, OtherPages
<1>9. CASE CheckUpload(r)
  <2>1. r.do = "upload" /\ Reply(r, "checked", Nothing) /\ server' = server
    BY <1>9 DEF CheckUpload, server
  <2>2. \A a : IsAnswer(a, r, "checked", Nothing) => TrueLoad(a) /\ TrueChange(a)
    BY <2>1 DEF IsAnswer, TrueLoad, TrueChange
  <2> QED
    BY <2>1, <2>2, <1>s DEF server, Loading
<1>10. CASE upload_files(r)
  <2> DEFINE got == [Nothing EXCEPT !.id = Cardinality(DOMAIN jobs) + 1]
  <2>1. /\ r.do = "upload" /\ Reply(r, "ok", got) /\ UNCHANGED <<projects, blueprints, made>>
    BY <1>10 DEF upload_files, Done
  <2> HIDE DEF got
  <2>2. \A a : IsAnswer(a, r, "ok", got) => TrueLoad(a) /\ TrueChange(a)
    BY <2>1 DEF IsAnswer, TrueLoad, TrueChange
  <2> QED
    BY <2>1, <2>2, <1>s DEF Loading
<1>11. CASE NotFound(r)
  <2>1. /\ r.do \in Change /\ r.do \notin Loading /\ Reply(r, "no", Nothing) /\ server' = server
        /\ r.do = "deleteProject" => r.project \notin DOMAIN projects
    BY <1>11, KindsAre DEF NotFound, Refused, Change, Loading, server
  <2>2. r.do # "deleteProject"
    BY <2>1, <1>a, <1>b DEF ChangeHere, ProjectsPage, Change
  <2>3. \A a : IsAnswer(a, r, "no", Nothing) => TrueLoad(a) /\ TrueChange(a)
    BY <1>b DEF IsAnswer, TrueLoad, TrueChange, Accurate
  <2> QED
    BY <2>1, <2>2, <2>3, <1>s DEF server
<1> QED
  BY <1>1, <1>2, <1>3, <1>4, <1>5, <1>6, <1>7, <1>8, <1>9, <1>10, <1>11 DEF Serve

-----------------------------------------------------------------------------
(* The answers.                                                            *)

LEMMA ContinueTidy ==
  ASSUME Types, Known, Tidy, NEW r \in requests, Continue(r), ~astray'
  PROVE  Tidy'
<1>a. /\ ServerType /\ AllSound /\ view \in View /\ r \in Request
      /\ r.at \in {"ok", "no"} /\ UNCHANGED <<projects, blueprints, made>>
      /\ r.do \in Loading \cup Change
      /\ \A q \in requests : q \in Request
  BY KindsAre DEF Types, AppType, AllSound, Sound, Continue, server
<1>b. /\ Here /\ OneOfEach /\ LoadsFirst /\ Accurate /\ Places /\ ProjectsPage /\ DetailPage
      /\ UploadPage /\ FormPage /\ ChangeHere(r) /\ LoadHere(r) /\ TrueLoad(r) /\ TrueChange(r)
  BY DEF Tidy, Here, Accurate
<1>s. ASSUME NEW new, Show(r, new)
      PROVE  /\ requests' = requests \ {r} /\ UNCHANGED app /\ page' = page /\ projectId' = projectId
             /\ view' = (IF r.on THEN new ELSE view)
             /\ OneOfEach' /\ LoadsFirst' /\ Accurate' /\ Places'
  BY <1>s, <1>a, FewerTidy DEF Show, Stay, app
\* A load that its page has left.
<1>o. ASSUME NEW new, Show(r, new), ~r.on PROVE Tidy'
  <2>1. r.do \notin Change
    BY <1>o, <1>b DEF ChangeHere
  <2>2. \A do : On(do)' = On(do)
    BY <1>o, <1>s DEF On
  <2>3. \A q \in requests : q.do \in Change => q \in requests'
    BY <2>1, <1>o, <1>s
  <2>4. Here'
    BY <1>o, <1>s, StillHere DEF Here
  <2>5. ProjectsPage'
    BY <2>2, <2>3, <1>o, <1>s, <1>a, <1>b DEF ProjectsPage, Change
  <2>6. DetailPage'
    <3>1. /\ \A b, gone : Deleted(b, gone) => Deleted(b, gone)'
          /\ \A b : Created(b) => Created(b)'
      BY <2>3 DEF Deleted, Created, Change
    <3> QED
      BY <3>1, <2>2, <1>o, <1>s, <1>a, <1>b DEF DetailPage, CardTrue
  <2>7. UploadPage'
    BY <2>2, <1>o, <1>s, <1>a, <1>b DEF UploadPage, CardsOf
  <2>8. FormPage'
    BY <2>2, <1>o, <1>s, <1>a, <1>b DEF FormPage, SaveTrue
  <2> QED
    BY <2>4, <2>5, <2>6, <2>7, <2>8, <1>o, <1>s DEF Tidy
<1>1. CASE Listed(r)
  <2> DEFINE new == [view EXCEPT !.loading = FALSE,
                       !.projects = IF Heard(r) THEN r.got.projects ELSE @]
  <2>1. Show(r, new) /\ r.do = "list"
    BY <1>1 DEF Listed
  <2>2. SUFFICES ASSUME r.on PROVE Tidy'
    BY <2>1, <1>o
  <2>3. /\ r.at = "ok" /\ page \in {"projects", "upload"} /\ r.got.projects = DOMAIN projects
    BY <2>1, <2>2, <1>a, <1>b DEF LoadHere, TrueLoad, Loading
  <2>4. /\ view'.projects = DOMAIN projects /\ view'.modal = view.modal /\ view'.busy = view.busy
        /\ view'.pick = view.pick /\ view'.choice = view.choice /\ view'.cards = view.cards
        /\ view'.loadingBlueprints = view.loadingBlueprints
    <3>1. view' = [view EXCEPT !.loading = FALSE, !.projects = DOMAIN projects]
      BY <2>1, <2>2, <2>3 DEF Show, Heard
    <3> QED
      BY <3>1, <1>a DEF View
  <2>5. \A q \in requests : q # r /\ q.on /\ q.do \in Loading => q.do = "blueprints"
    BY <2>1, <2>2, <2>3, <1>b DEF OneOfEach, Here, LoadHere, Loading
  <2>6. Here'
    BY <2>1, <2>4, <2>5, <1>s, StillHere DEF Here
  <2>7. On("list")' = {} /\ On("list") # {} /\ On("blueprints")' = On("blueprints")
    BY <2>1, <2>2, <2>5, <1>s DEF On, Loading
  <2>8. ProjectsPage'
    <3>1. page = "projects" => \A q \in requests : q.do # "deleteProject"
      BY <2>1, <2>2, <1>b DEF LoadsFirst, Loading, Change
    <3> QED
      BY <3>1, <2>1, <2>4, <2>7, <1>a, <1>b, <1>s DEF ProjectsPage
  <2>9. UploadPage'
    BY <2>1, <2>4, <2>7, <1>a, <1>b, <1>s DEF UploadPage, CardsOf
  <2> QED
    BY <2>1, <2>3, <2>6, <2>8, <2>9, <1>s, OtherPages DEF Tidy
<1>2. CASE DetailLoaded(r)
  <2>1. r.do = "detail"
    BY <1>2 DEF DetailLoaded
  <2>2. r.on => /\ page = "detail" /\ r.project = projectId /\ r.at = "ok" /\ ~r.got.missing
                /\ r.got.id = projectId /\ r.got.cards = CardsOf(projectId)
    BY <2>1, <1>a, <1>b DEF LoadHere, TrueLoad, Loading
  <2>3. Show(r, IF Heard(r) THEN [view EXCEPT !.loading = FALSE, !.shown = r.got.id, !.cards = r.got.cards]
                            ELSE [view EXCEPT !.loading = FALSE])
    BY <1>2, <2>2 DEF DetailLoaded
  <2>4. SUFFICES ASSUME r.on PROVE Tidy'
    BY <2>3, <1>o
  <2>5. /\ view'.shown = projectId /\ view'.cards = CardsOf(projectId) /\ view'.busy = view.busy
    <3>1. view' = [view EXCEPT !.loading = FALSE, !.shown = projectId, !.cards = CardsOf(projectId)]
      BY <2>2, <2>3, <2>4 DEF Show, Heard
    <3> QED
      BY <3>1, <1>a DEF View
  <2>6. \A q \in requests : q # r => ~(q.on /\ q.do \in Loading)
    BY <2>1, <2>2, <2>4, <1>b DEF OneOfEach, Here, LoadHere, Loading
  <2>7. Here'
    BY <2>3, <2>5, <2>6, <1>s, StillHere DEF Here, Loading
  <2>8. DetailPage'
    <3>1. \A c \in CardsOf(projectId) : /\ c.id \in DOMAIN blueprints
                                        /\ blueprints[c.id].project = projectId
                                        /\ c = [id |-> c.id, active |-> blueprints[c.id].active]
      <4>1. ASSUME NEW c \in CardsOf(projectId)
            PROVE  \E b \in DOMAIN blueprints :
                     /\ blueprints[b].project = projectId
                     /\ c = [id |-> b, active |-> blueprints[b].active]
        BY <4>1 DEF CardsOf
      <4> QED
        BY <4>1
    <3>2. \A b \in DOMAIN blueprints : blueprints[b].project = projectId =>
            \E c \in CardsOf(projectId) : c.id = b
      <4>1. ASSUME NEW b \in DOMAIN blueprints, blueprints[b].project = projectId
            PROVE  [id |-> b, active |-> blueprints[b].active] \in CardsOf(projectId)
        BY <4>1 DEF CardsOf
      <4> QED
        BY <4>1
    <3>3. \A b \in DOMAIN blueprints : b \in 1 .. made.blueprints
      BY DEF Known
    <3>4. \A c \in view'.cards : CardTrue(c)'
      <4>1. ASSUME NEW c \in CardsOf(projectId) PROVE CardTrue(c)'
        <5>1. c.active = blueprints[c.id].active
          BY <3>1
        <5>2. projectId' = projectId
          BY <2>3, <1>s
        <5> QED
          BY <5>1, <5>2, <3>1, <3>3, <1>a DEF CardTrue
      <4> QED
        BY <4>1, <2>5
    <3>5. \A c, d \in view'.cards : c.id = d.id => c = d
      BY <3>1, <2>5
    <3> QED
      BY <3>2, <3>4, <3>5, <2>3, <2>5, <1>a, <1>s DEF DetailPage
  <2> QED
    BY <2>2, <2>3, <2>4, <2>7, <2>8, <1>s, OtherPages DEF Tidy
<1>3. CASE FormLoaded(r)
  <2> DEFINE new == [view EXCEPT !.loading = FALSE,
                       !.text = IF Heard(r) THEN r.got.text ELSE @]
  <2>1. Show(r, new) /\ r.do = "project"
    BY <1>3 DEF FormLoaded
  <2>2. SUFFICES ASSUME r.on PROVE Tidy'
    BY <2>1, <1>o
  <2>3. /\ r.at = "ok" /\ page = "form" /\ r.project = projectId
        /\ projectId # None => r.got.text = projects[projectId]
    BY <2>1, <2>2, <1>a, <1>b DEF LoadHere, TrueLoad, Loading, Places
  <2>4. view'.text = r.got.text /\ view'.typed = view.typed /\ view'.busy = view.busy
    <3>1. view' = [view EXCEPT !.loading = FALSE, !.text = r.got.text]
      BY <2>1, <2>2, <2>3 DEF Show, Heard
    <3> QED
      BY <3>1, <1>a DEF View
  <2>5. \A q \in requests : q # r => ~(q.on /\ q.do \in Loading)
    BY <2>1, <2>2, <2>3, <1>b DEF OneOfEach, Here, LoadHere, Loading
  <2>6. Here'
    BY <2>1, <2>4, <2>5, <1>s, StillHere DEF Here, Loading
  <2>7. FormPage'
    BY <2>1, <2>3, <2>4, <1>a, <1>b, <1>s DEF FormPage, SaveTrue
  <2> QED
    BY <2>1, <2>3, <2>6, <2>7, <1>s, OtherPages DEF Tidy
<1>4. CASE BlueprintsLoaded(r)
  <2> DEFINE new == [view EXCEPT !.loadingBlueprints = FALSE,
        !.cards = IF Heard(r) /\ ~r.got.missing THEN {c \in r.got.cards : c.active} ELSE @]
  <2>1. Show(r, new) /\ r.do = "blueprints"
    BY <1>4 DEF BlueprintsLoaded
  <2>2. SUFFICES ASSUME r.on PROVE Tidy'
    BY <2>1, <1>o
  <2>3. /\ r.at = "ok" /\ page = "upload" /\ r.project = view.pick
        /\ ~r.got.missing /\ r.got.cards = CardsOf(view.pick)
    BY <2>1, <2>2, <1>a, <1>b DEF LoadHere, TrueLoad, Loading
  <2>4. /\ view'.cards = {c \in CardsOf(view.pick) : c.active} /\ view'.busy = view.busy
        /\ view'.projects = view.projects /\ view'.pick = view.pick /\ view'.choice = view.choice
        /\ view'.loading = view.loading
    <3>1. view' = [view EXCEPT !.loadingBlueprints = FALSE,
                                !.cards = {c \in CardsOf(view.pick) : c.active}]
      BY <2>1, <2>2, <2>3 DEF Show, Heard
    <3> QED
      BY <3>1, <1>a DEF View
  <2>5. \A q \in requests : q # r => ~(q.on /\ q.do = "blueprints")
    BY <2>1, <2>2, <1>b DEF OneOfEach, Loading
  <2>6. Here'
    BY <2>1, <2>4, <2>5, <1>s, StillHere DEF Here
  <2>7. On("list")' = On("list")
    BY <2>1, <1>s DEF On
  <2>8. UploadPage'
    BY <2>1, <2>4, <2>7, <1>a, <1>b, <1>s DEF UploadPage, CardsOf
  <2> QED
    BY <2>1, <2>3, <2>6, <2>8, <1>s, OtherPages DEF Tidy
<1>5. CASE ProjectDeleted(r)
  <2>1. /\ r.do = "deleteProject" /\ r.on /\ page = "projects" /\ r.at = "ok"
        /\ r.project \notin DOMAIN projects
    BY <1>5, <1>a, <1>b DEF ProjectDeleted, ChangeHere, TrueChange, ProjectsPage, Change
  <2>2. Show(r, [view EXCEPT !.busy = FALSE, !.projects = Kept(r), !.modal = None])
    BY <1>5, <2>1 DEF ProjectDeleted, Heard
  <2>3. /\ view'.projects = view.projects \ {r.project} /\ view'.modal = None
        /\ view'.loading = view.loading /\ view'.loadingBlueprints = view.loadingBlueprints
        /\ view'.pick = view.pick
    <3>1. view' = [view EXCEPT !.busy = FALSE, !.projects = Kept(r), !.modal = None]
      BY <2>1, <2>2 DEF Show
    <3> QED
      BY <3>1, <1>a DEF View, Kept
  <2>4. \A q \in requests : q # r => q.do # "deleteProject" /\ q.do # "save"
    BY <2>1, <1>b DEF Here, ChangeHere, OneOfEach, Change
  <2>5. Here'
    BY <2>2, <2>3, <2>4, <1>s, StillHere DEF Here
  <2>6. \A q \in requests : ~(q.on /\ q.do = "list")
    BY <2>1, <1>b DEF LoadsFirst, Loading, Change
  <2>7. ProjectsPage'
    BY <2>1, <2>2, <2>3, <2>4, <2>6, <1>a, <1>b, <1>s DEF ProjectsPage, On
  <2> QED
    BY <2>1, <2>2, <2>5, <2>7, <1>s, OtherPages DEF Tidy
<1>6. CASE ProjectSaved(r)
  <2>1. r.do = "save" /\ r.on /\ page = "form"
    BY <1>6, <1>b DEF ProjectSaved, ChangeHere, Change
  <2>2. CASE Heard(r)
    <3>1. navigate("detail", r.got.id, Unset, requests \ {r}) /\ r.got.id \in DOMAIN projects
      BY <1>6, <2>1, <2>2, <1>b DEF ProjectSaved, Heard, TrueChange
    <3>2. /\ NextProject("detail", r.got.id) = r.got.id /\ NextBlueprint("detail", Unset) = None
          /\ r.got.id # None
      BY <3>1, <1>a, NextAre, ServerIs
    <3> QED
      BY <2>1, <3>1, <3>2, <1>a, NextAre, NavigateTidy DEF Page
  <2>3. CASE ~Heard(r)
    <3>1. Show(r, [view EXCEPT !.busy = FALSE])
      BY <1>6, <2>3 DEF ProjectSaved, StillBusy
    <3>2. /\ view'.text = view.text /\ view'.typed = view.typed /\ view'.loading = view.loading
          /\ view'.loadingBlueprints = view.loadingBlueprints /\ view'.pick = view.pick
      <4>1. view' = [view EXCEPT !.busy = FALSE]
        BY <2>1, <3>1 DEF Show
      <4> QED
        BY <4>1, <1>a DEF View
    <3>3. \A q \in requests : q # r => q.do # "deleteProject" /\ q.do # "save"
      BY <2>1, <1>b DEF Here, ChangeHere, OneOfEach, Change
    <3>4. Here'
      BY <3>1, <3>2, <3>3, <1>s, StillHere DEF Here
    <3>5. On("project")' = On("project")
      BY <2>1, <3>1, <1>s DEF On
    <3>6. FormPage'
      BY <3>1, <3>2, <3>5, <1>a, <1>b, <1>s DEF FormPage, SaveTrue
    <3> QED
      BY <2>1, <3>1, <3>4, <3>6, <1>s, OtherPages DEF Tidy
  <2> QED
    BY <2>2, <2>3
<1>7. CASE BlueprintCreated(r)
  <2>1. r.do = "create" /\ r.on /\ page = "detail" /\ r.project = projectId
    BY <1>7, <1>b DEF BlueprintCreated, ChangeHere, Change
  <2>2. CASE Heard(r)
    <3>1. /\ navigate("builder", projectId, r.got.id, requests \ {r})
          /\ r.got.id \in 1 .. made.blueprints
          /\ r.got.id \in DOMAIN blueprints => blueprints[r.got.id].project = projectId
      BY <1>7, <2>1, <2>2, <1>b DEF BlueprintCreated, Heard, TrueChange
    <3>2. r.got.id \in 0 .. MaxBlueprints
      BY <3>1, <1>a, BoundsAre DEF ServerType
    <3>3. /\ NextProject("builder", projectId) = projectId
          /\ NextBlueprint("builder", r.got.id) = r.got.id
      BY <3>2, NextAre
    <3> QED
      BY <2>1, <3>1, <3>2, <3>3, <1>a, <1>b, NavigateTidy DEF Page, Places
  <2>3. CASE ~Heard(r)
    <3>1. Show(r, view) /\ view' = view
      BY <1>7, <2>3 DEF BlueprintCreated, Show
    <3>2. Here'
      BY <3>1, <1>s, StillHere DEF Here
    <3>3. /\ On("detail")' = On("detail")
          /\ \A b, gone : Deleted(b, gone) => Deleted(b, gone)'
          /\ \A b : Created(b) => Created(b)'
      BY <2>1, <2>3, <3>1, <1>s DEF On, Deleted, Created, Heard
    <3>4. DetailPage'
      BY <3>1, <3>3, <1>a, <1>b, <1>s DEF DetailPage, CardTrue
    <3> QED
      BY <2>1, <3>1, <3>2, <3>4, <1>s, OtherPages DEF Tidy
  <2> QED
    BY <2>2, <2>3
<1>8. CASE BlueprintDeleted(r)
  <2>1. r.do = "deleteBlueprint" /\ r.on /\ page = "detail" /\ r.got.missing \in BOOLEAN
    BY <1>8, <1>a, <1>b, KindsAre DEF BlueprintDeleted, ChangeHere, Change
  <2> DEFINE archived == {[c EXCEPT !.active = FALSE] : c \in view.cards \ Others(r)}
             cards == IF ~Heard(r) THEN view.cards
                      ELSE Others(r) \cup (IF r.got.missing THEN {} ELSE archived)
  <2>2. Show(r, [view EXCEPT !.busyId = None, !.cards = cards])
    BY <1>8 DEF BlueprintDeleted
  <2>3. /\ view'.cards = cards /\ view'.shown = view.shown /\ view'.busy = view.busy
        /\ view'.loading = view.loading /\ view'.pick = view.pick
        /\ view'.loadingBlueprints = view.loadingBlueprints
    <3>1. view' = [view EXCEPT !.busyId = None, !.cards = cards]
      BY <2>1, <2>2 DEF Show
    <3> HIDE DEF cards
    <3> QED
      BY <3>1, <1>a DEF View
  <2>4. Here'
    BY <2>2, <2>3, <1>s, StillHere DEF Here
  <2>5. On("detail") = {} /\ On("detail")' = {}
    BY <2>1, <2>2, <1>b, <1>s DEF On, LoadsFirst, Loading, Change
  <2>6. /\ \A c \in view.cards : CardTrue(c) /\ c \in Card
        /\ \A c, d \in view.cards : c.id = d.id => c = d
        /\ \A b \in DOMAIN blueprints : blueprints[b].project = projectId =>
             (\E c \in view.cards : c.id = b) \/ Created(b)
        /\ view.shown = projectId
    BY <2>1, <2>5, <1>a, <1>b DEF DetailPage, View
  <2>7. /\ \A b : Created(b) => Created(b)'
        /\ \A b, gone : Deleted(b, gone) /\ (b # r.blueprint \/ gone # r.got.missing \/ ~Heard(r))
             => Deleted(b, gone)'
    BY <2>1, <2>2, <1>s DEF Created, Deleted, Heard
  <2>8. \A c \in archived : /\ c.id = r.blueprint /\ c.active = FALSE
                            /\ \E d \in view.cards : d.id = r.blueprint /\ c = [d EXCEPT !.active = FALSE]
    <3>1. ASSUME NEW d \in view.cards \ Others(r)
          PROVE  d.id = r.blueprint /\ [d EXCEPT !.active = FALSE].id = d.id
                 /\ [d EXCEPT !.active = FALSE].active = FALSE
      BY <2>6 DEF Others, Card
    <3> QED
      BY <3>1 DEF Others
  <2>9. \A d \in view.cards : d.id = r.blueprint => \E c \in archived : c.id = r.blueprint
    <3>1. ASSUME NEW d \in view.cards, d.id = r.blueprint
          PROVE  [d EXCEPT !.active = FALSE] \in archived
      BY <3>1 DEF Others
    <3> QED
      BY <3>1, <2>8
  <2> HIDE DEF archived
  <2>10. \A c \in cards : CardTrue(c)'
    <3>1. \A c \in view.cards : (c.id # r.blueprint \/ ~Heard(r)) => CardTrue(c)'
      <4>1. ASSUME NEW c \in view.cards, c.id # r.blueprint \/ ~Heard(r) PROVE CardTrue(c)'
        BY <4>1, <2>2, <2>6, <2>7, <1>a, <1>s DEF CardTrue
      <4> QED
        BY <4>1
    <3>2. ASSUME Heard(r), ~r.got.missing, NEW c \in archived PROVE CardTrue(c)'
      <4>1. PICK d \in view.cards : d.id = r.blueprint
        BY <3>2, <2>8
      <4>2. CardTrue(d) /\ c.id = r.blueprint /\ c.active = FALSE
        BY <3>2, <4>1, <2>6, <2>8
      <4>3. r.blueprint \in DOMAIN blueprints => blueprints[r.blueprint].active = FALSE
        BY <3>2, <2>1, <1>a, <1>b, ServerIs DEF TrueChange, Heard
      <4> QED
        BY <4>1, <4>2, <4>3, <3>2, <2>1, <2>2, <2>7, <1>a, <1>s DEF CardTrue
    <3> QED
      BY <3>1, <3>2 DEF Others
  <2>11. \A c, d \in cards : c.id = d.id => c = d
    <3>1. \A c, d \in archived : c = d
      BY <2>6, <2>8
    <3>2. \A c \in Others(r) : c \in view.cards /\ c.id # r.blueprint
      BY DEF Others
    <3> QED
      BY <3>1, <3>2, <2>6, <2>8
  <2>12. \A b \in DOMAIN blueprints : blueprints[b].project = projectId =>
           (\E c \in cards : c.id = b) \/ Created(b)
    <3>1. ASSUME NEW d \in view.cards, d.id \in DOMAIN blueprints PROVE \E c \in cards : c.id = d.id
      <4>1. CASE ~Heard(r) \/ d.id # r.blueprint
        BY <4>1 DEF Others
      <4>2. CASE Heard(r) /\ d.id = r.blueprint
        <5>1. ~r.got.missing
          BY <3>1, <4>2, <2>1, <1>b DEF TrueChange, Heard
        <5> QED
          BY <4>2, <5>1, <2>9
      <4> QED
        BY <4>1, <4>2
    <3> QED
      BY <3>1, <2>6
  <2> HIDE DEF cards
  <2>13. DetailPage'
    BY <2>2, <2>3, <2>6, <2>7, <2>10, <2>11, <2>12, <1>a, <1>s DEF DetailPage
  <2> QED
    BY <2>1, <2>2, <2>4, <2>13, <1>s, OtherPages DEF Tidy
<1>9. CASE Uploaded(r)
  <2>1. r.do = "upload" /\ r.on /\ page = "upload"
    BY <1>9, <1>b DEF Uploaded, ChangeHere, Change
  <2>2. CASE Heard(r)
    BY <1>9, <2>1, <2>2, <1>a, NextAre, NavigateTidy DEF Uploaded, Page
  <2>3. CASE ~Heard(r)
    <3>1. Show(r, [view EXCEPT !.busy = FALSE])
      BY <1>9, <2>3 DEF Uploaded, StillBusy
    <3>2. /\ view'.projects = view.projects /\ view'.pick = view.pick /\ view'.cards = view.cards
          /\ view'.choice = view.choice /\ view'.loading = view.loading
          /\ view'.loadingBlueprints = view.loadingBlueprints
      <4>1. view' = [view EXCEPT !.busy = FALSE]
        BY <2>1, <3>1 DEF Show
      <4> QED
        BY <4>1, <1>a DEF View
    <3>3. \A q \in requests : q.do # "deleteProject" /\ q.do # "save"
      BY <2>1, <1>b DEF Here, ChangeHere, Change
    <3>4. Here'
      BY <3>1, <3>2, <3>3, <1>s, StillHere DEF Here
    <3>5. On("list")' = On("list") /\ On("blueprints")' = On("blueprints")
      BY <2>1, <3>1, <1>s DEF On
    <3>6. UploadPage'
      BY <3>1, <3>2, <3>5, <1>a, <1>b, <1>s DEF UploadPage, CardsOf
    <3> QED
      BY <2>1, <3>1, <3>4, <3>6, <1>s, OtherPages DEF Tidy
  <2> QED
    BY <2>2, <2>3
<1> QED
  BY <1>1, <1>2, <1>3, <1>4, <1>5, <1>6, <1>7, <1>8, <1>9 DEF Continue

-----------------------------------------------------------------------------
(* The steps together.                                                     *)

LEMMA SameTidy ==
  ASSUME Tidy, UNCHANGED <<projects, blueprints, made, app, view, requests>>
  PROVE  Tidy'
<1>1. Here'
  BY StillHere DEF Here
<1>2. OneOfEach' /\ LoadsFirst' /\ Accurate' /\ Places'
  BY FewerTidy
<1>3. ProjectsPage' /\ UploadPage' /\ FormPage'
  BY DEF Tidy, ProjectsPage, UploadPage, FormPage, SaveTrue, On, CardsOf, app
<1>4. DetailPage'
  BY DEF Tidy, DetailPage, CardTrue, Deleted, Created, On, app
<1> QED
  BY <1>1, <1>2, <1>3, <1>4 DEF Tidy

LEMMA InitTidy == Init => TidyInv
<1> SUFFICES ASSUME Init PROVE Tidy
  BY DEF TidyInv
<1>1. /\ requests = {} /\ projectId \in {0, 1} /\ 1 \in DOMAIN projects /\ blueprints[1].project = 1
      /\ blueprintId \in {0, 1} /\ (blueprintId = 1 <=> projectId = 1) /\ 0 \notin DOMAIN blueprints
      /\ (page = "elsewhere" /\ projectId = 0) \/ (page = "builder" /\ projectId = 1)
  BY DEF Init, None
<1>2. Here /\ OneOfEach /\ LoadsFirst /\ Accurate /\ FormPage
  BY <1>1 DEF Here, OneOfEach, LoadsFirst, Accurate, FormPage
<1>3. Places
  BY <1>1 DEF Places, None
<1> QED
  BY <1>1, <1>2, <1>3 DEF Tidy, ProjectsPage, DetailPage, UploadPage

LEMMA AstrayStays == Types /\ [Next]_vars /\ ~astray' => ~astray
<1> SUFFICES ASSUME [Next]_vars, astray PROVE astray' = TRUE \/ astray' = astray
  BY DEF Types
<1>1. CASE User
  BY <1>1 DEF User, Sidebar, OpenProject, NewProject, AskDelete, CancelDelete, handleDeleteProject,
     EditProject, OpenBlueprint, handleCreate, handleDeleteBlueprint, Type, handleSubmitProject,
     ChooseProject, ChooseBlueprint, addFiles, remove, handleUpload, UploadWithThis, navigate, Local
<1>2. ASSUME NEW j \in DOMAIN jobs, SaveResult(j) PROVE astray' = astray
  BY <1>2 DEF SaveResult
<1>3. ASSUME NEW r \in requests, Serve(r) \/ Fail(r) PROVE astray' = TRUE \/ astray' = astray
  BY <1>3 DEF Serve, Fail
<1>4. ASSUME NEW r \in requests, Continue(r) PROVE astray' = TRUE \/ astray' = astray
  BY <1>4 DEF Continue, Listed, DetailLoaded, FormLoaded, BlueprintsLoaded, ProjectDeleted,
     ProjectSaved, BlueprintCreated, BlueprintDeleted, Uploaded, Show, Stay, navigate
<1>5. CASE UNCHANGED vars
  BY <1>5 DEF vars
<1> QED
  BY <1>1, <1>2, <1>3, <1>4, <1>5 DEF Next

LEMMA NextTidy == Types /\ Known /\ TidyInv /\ [Next]_vars => TidyInv'
<1> SUFFICES ASSUME Types, Known, Tidy, [Next]_vars, ~astray' PROVE Tidy'
  BY AstrayStays DEF TidyInv
<1>1. CASE User
  BY <1>1, UserTidy
<1>2. ASSUME NEW j \in DOMAIN jobs, SaveResult(j) PROVE Tidy'
  BY <1>2, SameTidy DEF SaveResult
<1>3. ASSUME NEW r \in requests, Serve(r) PROVE Tidy'
  BY <1>3, ServeTidy
<1>4. ASSUME NEW r \in requests, Fail(r) PROVE FALSE
  BY <1>4 DEF Fail
<1>5. ASSUME NEW r \in requests, Continue(r) PROVE Tidy'
  BY <1>5, ContinueTidy
<1>6. CASE UNCHANGED vars
  BY <1>6, SameTidy DEF vars, server
<1> QED
  BY <1>1, <1>2, <1>3, <1>4, <1>5, <1>6 DEF Next

LEMMA TidyAlways == Spec => [](Types /\ Known /\ TidyInv)
<1>1. Spec => []Types
  BY InitTypes, NextTypes, PTL DEF Spec
<1>2. CatalogInv => Known
  BY DEF CatalogInv
<1>3. Spec => []Known
  BY <1>2, InitInv, NextInv, PTL DEF Spec
<1> QED
  BY <1>1, <1>3, InitTidy, NextTidy, PTL DEF Spec

LEMMA TidyAgrees == Types /\ TidyInv => ListAgrees
<1> SUFFICES ASSUME Types, Tidy PROVE ListAgrees
  BY DEF TidyInv, ListAgrees
<1>1. page # "blank" /\ ProjectsPage /\ DetailPage /\ UploadPage /\ view \in View
  BY DEF Tidy, Places, Types, AppType
<1>2. page = "upload" /\ view.choice \in DOMAIN blueprints
        => blueprints[view.choice].project = view.pick
  BY <1>1 DEF UploadPage
<1>3. ASSUME requests = {}
      PROVE  /\ page = "projects" => view.projects = DOMAIN projects
             /\ page = "upload" =>
                  /\ view.projects = DOMAIN projects
                  /\ view.pick # None => view.cards = {c \in CardsOf(view.pick) : c.active}
  BY <1>1, <1>3 DEF ProjectsPage, UploadPage, On
<1>4. ASSUME requests = {}, page = "detail"
      PROVE  view.shown = projectId /\ view.cards = CardsOf(projectId)
  <2>1. /\ view.shown = projectId
        /\ \A c \in view.cards : /\ c \in Card /\ c.id \in DOMAIN blueprints
                                 /\ blueprints[c.id].project = projectId
                                 /\ c.active = blueprints[c.id].active
        /\ \A b \in DOMAIN blueprints : blueprints[b].project = projectId =>
             \E c \in view.cards : c.id = b
    BY <1>1, <1>4 DEF DetailPage, CardTrue, Deleted, Created, On, View
  <2>2. ASSUME NEW c \in view.cards PROVE c \in CardsOf(projectId)
    <3>1. c = [id |-> c.id, active |-> blueprints[c.id].active]
      BY <2>1, <2>2 DEF Card
    <3> QED
      BY <2>1, <2>2, <3>1 DEF CardsOf
  <2>3. ASSUME NEW c \in CardsOf(projectId) PROVE c \in view.cards
    <3>1. PICK b \in DOMAIN blueprints : /\ blueprints[b].project = projectId
                                         /\ c = [id |-> b, active |-> blueprints[b].active]
      BY <2>3 DEF CardsOf
    <3>2. PICK d \in view.cards : d.id = b
      BY <2>1, <3>1
    <3>3. d = [id |-> d.id, active |-> blueprints[d.id].active]
      BY <2>1, <3>2 DEF Card
    <3> QED
      BY <3>1, <3>2, <3>3
  <2> QED
    BY <2>1, <2>2, <2>3
<1>5. ASSUME requests = {}, page = "form", projectId # None, ~view.typed
      PROVE  view.text = projects[projectId]
  BY <1>5 DEF Tidy, FormPage, On
<1> QED
  BY <1>1, <1>2, <1>3, <1>4, <1>5 DEF ListAgrees

\* Until a request fails, a change outlives its page or answers of two choices cross, the app is
\* not left blank, the upload page would send a blueprint of the project it would send it for,
\* and with nothing under way the lists of projects and blueprints, and the description of a form
\* that nobody typed into, are what the server has.
THEOREM ListAgreesAlways == Spec => []ListAgrees
  BY TidyAlways, TidyAgrees, PTL
=============================================================================
