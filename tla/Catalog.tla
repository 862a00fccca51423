------------------------------ MODULE Catalog ------------------------------
(***************************************************************************)
(* Projects and their blueprints in one browser tab: the pages that list,  *)
(* edit and delete them, the page that starts an extraction with one, App's *)
(* navigation between them, and the endpoints. An answer that comes after  *)
(* its page was left sets no state of that page, but what it calls of App, *)
(* navigate above all, still happens.                                      *)
(*                                                                         *)
(* A project has a description or none; names, the order of lists and the  *)
(* files of an upload beyond "some" are left out.                          *)
(***************************************************************************)
EXTENDS Naturals, FiniteSets

CONSTANTS
  MaxProjects,    \* bound: projects ever made, the first two at the start
  MaxBlueprints,  \* bound: blueprints ever made, one in each of those two
  MaxJobs,        \* bound: uploads accepted
  MaxOps,         \* bound: what the user does, file picking and typing apart
  MaxFaults       \* bound: requests that fail

ASSUME CatalogAssumption ==
  /\ MaxProjects \in Nat \ {0, 1} /\ MaxBlueprints \in Nat \ {0, 1}
  /\ {MaxJobs, MaxOps, MaxFaults} \subseteq Nat

None  == 0
Unset == MaxProjects + MaxBlueprints + 1       \* an option navigate is not given
ProjectId   == 1 .. MaxProjects
BlueprintId == 1 .. MaxBlueprints

Page    == {"projects", "form", "detail", "builder", "upload", "processing", "elsewhere", "blank"}
Loading == {"list", "detail", "project", "blueprints"}
Change  == {"deleteProject", "save", "create", "deleteBlueprint", "upload"}
Card    == [id : BlueprintId, active : BOOLEAN]
Answer  == [missing : BOOLEAN, id : Nat, text : BOOLEAN, projects : SUBSET ProjectId,
            cards : SUBSET Card]
Request == [do : Loading \cup Change, n : Nat, on : BOOLEAN, at : {"asked", "checked", "ok", "no"},
            project : 0 .. MaxProjects, blueprint : 0 .. MaxBlueprints,
            text : BOOLEAN, got : Answer]
View    == [loading : BOOLEAN, projects : SUBSET ProjectId, shown : 0 .. MaxProjects,
            cards : SUBSET Card, modal : 0 .. MaxProjects, busy : BOOLEAN,
            busyId : 0 .. MaxBlueprints, pick : 0 .. MaxProjects, choice : 0 .. MaxBlueprints,
            loadingBlueprints : BOOLEAN, files : BOOLEAN, text : BOOLEAN, typed : BOOLEAN]

VARIABLES
  \* the server
  projects,     \* the projects there are, and whether each has a description
  blueprints,   \* the blueprints there are, each with its project and is_active
  jobs,         \* project, blueprint (None once deleted) and whether it has a result
  made,         \* how many projects and blueprints were ever made
  \* App
  page, projectId, blueprintId,
  \* the page that is mounted
  view,
  \* what is under way
  requests,
  \* what has happened
  astray,       \* a request failed, or one that changes something outlived its page
  ops, faults

server == <<projects, blueprints, jobs, made>>
app    == <<page, projectId, blueprintId>>
vars   == <<server, app, view, requests, astray, ops, faults>>

Job == [project : 0 .. MaxProjects, blueprint : 0 .. MaxBlueprints, result : BOOLEAN]

TypeOK ==
  /\ DOMAIN projects \subseteq ProjectId /\ \A p \in DOMAIN projects : projects[p] \in BOOLEAN
  /\ DOMAIN blueprints \subseteq BlueprintId
  /\ \A b \in DOMAIN blueprints : blueprints[b] \in [project : ProjectId, active : BOOLEAN]
  /\ DOMAIN jobs \subseteq 1 .. MaxJobs /\ \A j \in DOMAIN jobs : jobs[j] \in Job
  /\ made \in [projects : 2 .. MaxProjects, blueprints : 2 .. MaxBlueprints]
  /\ page \in Page /\ projectId \in 0 .. MaxProjects /\ blueprintId \in 0 .. MaxBlueprints
  /\ view \in View /\ requests \subseteq Request
  /\ astray \in BOOLEAN /\ ops \in 0 .. MaxOps /\ faults \in 0 .. MaxFaults

-----------------------------------------------------------------------------
(* Requests and navigation. *)

Nothing == [missing |-> FALSE, id |-> None, text |-> FALSE, projects |-> {}, cards |-> {}]
Ask(do, p, b) ==
  [do |-> do, n |-> ops, on |-> TRUE, at |-> "asked", project |-> p, blueprint |-> b,
   text |-> FALSE, got |-> Nothing]

\* What a page asks for when it is mounted, or its project changes.
Loads(new, p) ==
  CASE new = "projects"               -> {Ask("list", None, None)}
    [] new = "detail"                 -> {Ask("detail", p, None)}
    [] new = "form" /\ p # None       -> {Ask("project", p, None)}
    [] new = "upload" /\ p = None     -> {Ask("list", None, None)}
    [] new = "upload" /\ p # None     -> {Ask("list", None, None), Ask("blueprints", p, None)}
    [] OTHER                          -> {}

\* The state a page is mounted with.
Fresh(new, p, b) ==
  [loading |-> new \in {"projects", "detail", "upload"} \/ (new = "form" /\ p # None),
   projects |-> {}, shown |-> None, cards |-> {}, modal |-> None, busy |-> FALSE, busyId |-> None,
   pick |-> IF new = "upload" THEN p ELSE None, choice |-> IF new = "upload" THEN b ELSE None,
   loadingBlueprints |-> new = "upload" /\ p # None, files |-> FALSE, text |-> FALSE,
   typed |-> FALSE]

NextProject(new, p) ==
  IF p # Unset THEN p
  ELSE IF new \in {"form", "detail", "builder", "upload"} THEN projectId ELSE None
MutNextBlueprint(new, b) == b                             \* "undefined" not asked for
NextBlueprint(new, b) ==
  IF b # Unset THEN b
  ELSE IF new \in {"builder", "upload"} THEN blueprintId ELSE None

\* navigate, with the requests that remain: the same page stays mounted with new properties,
\* any other one is unmounted.
navigate(new, p, b, rest) ==
  LET nextP == NextProject(new, p)
      nextB == NextBlueprint(new, b)
  IN
  /\ page' = new /\ projectId' = nextP /\ blueprintId' = nextB
  /\ view' = IF new = page THEN view ELSE Fresh(new, nextP, nextB)
  /\ requests' = IF new = page
                   THEN rest \cup (IF nextP = projectId THEN {} ELSE Loads(new, nextP))
                   ELSE {[r EXCEPT !.on = FALSE] : r \in rest} \cup Loads(new, nextP)
  /\ astray' = (astray \/ \E r \in rest : r.do \in Change)

\* The user does something on a page; the modal lets nothing through.
Operation(where) == page = where /\ view.modal = None /\ ops < MaxOps /\ ops' = ops + 1
Calm == UNCHANGED <<server, faults>>
Local == Calm /\ UNCHANGED <<app, astray>>
Send(r) == requests' = requests \cup {r}

\* The bounds leave room for what is under way.
Room(do, n, max) == n + Cardinality({r \in requests : r.do = do /\ r.at \in {"asked", "checked"}}) < max

-----------------------------------------------------------------------------
(* What the user does. *)

Init ==
  /\ projects = [p \in 1 .. 2 |-> TRUE]
  /\ blueprints = [b \in 1 .. 2 |-> [project |-> b, active |-> TRUE]]
  /\ jobs = <<>> /\ made = [projects |-> 2, blueprints |-> 2]
  /\ \/ page = "elsewhere" /\ projectId = None /\ blueprintId = None
     \/ page = "builder" /\ projectId = 1 /\ blueprintId = 1
  /\ view = Fresh("elsewhere", None, None) /\ requests = {}
  /\ astray = FALSE /\ ops = 0 /\ faults = 0

Sidebar(new) ==
  /\ new # page /\ page # "blank" /\ Operation(page)
  /\ Calm /\ navigate(new, Unset, Unset, requests)

\* A card of the list, "Edit project", "Create a blueprint", the builder's breadcrumb.
OpenProject ==
  /\ Calm
  /\ \/ Operation("projects") /\ \E p \in view.projects : navigate("detail", p, Unset, requests)
     \/ Operation("upload") /\ view.pick # None /\ view.cards = {} /\ ~view.loadingBlueprints
          /\ navigate("detail", view.pick, Unset, requests)
     \/ Operation("builder") /\ navigate("detail", projectId, Unset, requests)

NewProject == Operation("projects") /\ Calm /\ navigate("form", Unset, Unset, requests)

AskDelete ==
  /\ page = "projects" /\ view.modal = None
  /\ \E p \in view.projects : view' = [view EXCEPT !.modal = p]
  /\ Local /\ UNCHANGED <<requests, ops>>

\* Neither the button nor the overlay closes the modal while it deletes.
CancelDelete ==
  /\ page = "projects" /\ view.modal # None /\ ~view.busy
  /\ view' = [view EXCEPT !.modal = None]
  /\ Local /\ UNCHANGED <<requests, ops>>

handleDeleteProject ==
  /\ page = "projects" /\ view.modal # None /\ ~view.busy /\ ops < MaxOps /\ ops' = ops + 1
  /\ view' = [view EXCEPT !.busy = TRUE]
  /\ Send(Ask("deleteProject", view.modal, None)) /\ Local

\* The project page shows something once it has loaded; what it asks for goes by its property.
Detail == Operation("detail") /\ ~view.loading /\ view.shown # None

EditProject   == Detail /\ Calm /\ navigate("form", projectId, Unset, requests)
OpenBlueprint == Detail /\ Calm /\ \E c \in view.cards : navigate("builder", projectId, c.id, requests)

\* The form's button is never disabled, nor is the Enter key.
handleCreate ==
  /\ Detail /\ Room("create", made.blueprints, MaxBlueprints)
  /\ Send(Ask("create", projectId, None)) /\ Local /\ UNCHANGED view

handleDeleteBlueprint ==
  /\ Detail /\ Local
  /\ \E c \in view.cards :
       /\ view.busyId # c.id
       /\ view' = [view EXCEPT !.busyId = c.id]
       /\ Send(Ask("deleteBlueprint", None, c.id))

\* The description is written, or cleared.
Type ==
  /\ page = "form" /\ ~view.loading
  /\ view' = [view EXCEPT !.text = ~@, !.typed = TRUE]
  /\ Local /\ UNCHANGED <<requests, ops>>

\* A form without a project posts a new one.
handleSubmitProject ==
  /\ Operation("form") /\ ~view.loading /\ ~view.busy
  /\ projectId = None => Room("save", made.projects, MaxProjects)
  /\ view' = [view EXCEPT !.busy = TRUE]
  /\ Send([Ask("save", projectId, None) EXCEPT !.text = view.text])
  /\ Local

\* The list of the project chosen before stays until an answer replaces it, and nothing tells
\* the answers apart.
Cleared(choice) == None
ChooseProject ==
  /\ Operation("upload") /\ ~view.loading /\ Calm
  /\ \E p \in (view.projects \cup {None}) \ {view.pick} :
       /\ view' = [view EXCEPT !.pick = p, !.choice = Cleared(@),
                     !.cards = IF p = None THEN {} ELSE @,
                     !.loadingBlueprints = @ \/ p # None]
       /\ requests' = requests \cup (IF p = None THEN {} ELSE {Ask("blueprints", p, None)})
  /\ astray' = (astray \/ \E r \in requests : r.on /\ r.do = "blueprints")
  /\ UNCHANGED app

ChooseBlueprint ==
  /\ Operation("upload") /\ view.pick # None /\ ~view.loadingBlueprints
  /\ \E b \in {c.id : c \in view.cards} \cup {None} : view' = [view EXCEPT !.choice = b]
  /\ Local /\ UNCHANGED requests

addFiles ==
  /\ page = "upload" /\ view' = [view EXCEPT !.files = TRUE]
  /\ Local /\ UNCHANGED <<requests, ops>>
remove ==
  /\ page = "upload" /\ view' = [view EXCEPT !.files = FALSE]
  /\ Local /\ UNCHANGED <<requests, ops>>

handleUpload ==
  /\ Operation("upload") /\ view.pick # None /\ view.choice # None /\ view.files /\ ~view.busy
  /\ Room("upload", Cardinality(DOMAIN jobs), MaxJobs)
  /\ view' = [view EXCEPT !.busy = TRUE]
  /\ Send(Ask("upload", view.pick, view.choice)) /\ Local

\* The builder's button hands both identifiers on.
UploadWithThis == Operation("builder") /\ Calm /\ navigate("upload", projectId, blueprintId, requests)

User ==
  \/ \E new \in {"projects", "upload", "elsewhere"} : Sidebar(new)
  \/ OpenProject \/ NewProject \/ AskDelete \/ CancelDelete \/ handleDeleteProject
  \/ EditProject \/ OpenBlueprint \/ handleCreate \/ handleDeleteBlueprint
  \/ Type \/ handleSubmitProject
  \/ ChooseProject \/ ChooseBlueprint \/ addFiles \/ remove \/ handleUpload \/ UploadWithThis

-----------------------------------------------------------------------------
(* What the server does. A 404 of a load is an answer like any other, as   *)
(* the pages do not look at the status.                                    *)

Reply(r, at, got) == requests' = (requests \ {r}) \cup {[r EXCEPT !.at = at, !.got = got]}
Refused(r) == Reply(r, "no", Nothing) /\ UNCHANGED server
Done(r, id) == Reply(r, "ok", [Nothing EXCEPT !.id = id])

CardsOf(p) == {[id |-> b, active |-> blueprints[b].active] :
                 b \in {c \in DOMAIN blueprints : blueprints[c].project = p}}

list_projects(r) ==
  /\ r.do = "list" /\ Reply(r, "ok", [Nothing EXCEPT !.projects = DOMAIN projects])
  /\ UNCHANGED server

\* The project, its blueprints, or both, in one read.
get_project(r) ==
  /\ r.do \in {"detail", "project", "blueprints"}
  /\ Reply(r, "ok", IF r.project \in DOMAIN projects
                      THEN [Nothing EXCEPT !.id = r.project, !.text = projects[r.project],
                                           !.cards = CardsOf(r.project)]
                      ELSE [Nothing EXCEPT !.missing = TRUE])
  /\ UNCHANGED server

create_project(r) ==
  LET id == made.projects + 1 IN
  /\ r.do = "save" /\ r.project = None /\ id <= MaxProjects
  /\ projects' = [p \in DOMAIN projects \cup {id} |-> IF p = id THEN r.text ELSE projects[p]]
  /\ made' = [made EXCEPT !.projects = id]
  /\ Done(r, id) /\ UNCHANGED <<blueprints, jobs>>

update_project(r) ==
  /\ r.do = "save" /\ r.project \in DOMAIN projects
  /\ projects' = [projects EXCEPT ![r.project] = r.text]
  /\ Done(r, r.project) /\ UNCHANGED <<blueprints, jobs, made>>

\* Rows that go take what refers to them along, or are set to null in it.
Forget(gone) ==
  /\ blueprints' = [b \in DOMAIN blueprints \ gone |-> blueprints[b]]
  /\ jobs' = [j \in DOMAIN jobs |-> [jobs[j] EXCEPT
                !.blueprint = IF @ \in gone THEN None ELSE @,
                !.project = IF @ \in DOMAIN projects' THEN @ ELSE None]]

delete_project(r) ==
  /\ r.do = "deleteProject" /\ r.project \in DOMAIN projects
  /\ projects' = [p \in DOMAIN projects \ {r.project} |-> projects[p]]
  /\ Forget({b \in DOMAIN blueprints : blueprints[b].project = r.project})
  /\ Done(r, r.project) /\ UNCHANGED made

create_blueprint(r) ==
  LET id == made.blueprints + 1 IN
  /\ r.do = "create" /\ r.project \in DOMAIN projects /\ id <= MaxBlueprints
  /\ blueprints' = [b \in DOMAIN blueprints \cup {id} |->
                      IF b = id THEN [project |-> r.project, active |-> TRUE] ELSE blueprints[b]]
  /\ made' = [made EXCEPT !.blueprints = id]
  /\ Done(r, id) /\ UNCHANGED <<projects, jobs>>

HasResults(b) == \E j \in DOMAIN jobs : jobs[j].blueprint = b /\ jobs[j].result

\* delete_blueprint: the count of results, and then, by what it was, the update or the delete.  A
\* result that is saved in between does not keep the blueprint.
CountResults(r) ==
  /\ r.do = "deleteBlueprint" /\ r.at = "asked" /\ r.blueprint \in DOMAIN blueprints
  /\ Reply(r, "checked", [Nothing EXCEPT !.missing = ~HasResults(r.blueprint)])
  /\ UNCHANGED server

delete_blueprint(r) ==
  /\ r.do = "deleteBlueprint" /\ r.at = "checked" /\ r.blueprint \in DOMAIN blueprints
  /\ \/ /\ r.got.missing
        /\ projects' = projects /\ Forget({r.blueprint})
     \/ /\ ~r.got.missing
        /\ blueprints' = [blueprints EXCEPT ![r.blueprint].active = FALSE]
        /\ UNCHANGED <<projects, jobs>>
  /\ Reply(r, "ok", r.got) /\ UNCHANGED made

\* upload_files: the two rows are looked up, the files are stored, and the job is inserted,
\* which its foreign keys let through only if both rows are still there.
MutBelongs(b, p) == TRUE                                  \* the project of the row not compared
Belongs(b, p)    == blueprints[b].project = p
CheckUpload(r) ==
  /\ r.do = "upload" /\ r.at = "asked"
  /\ r.project \in DOMAIN projects /\ r.blueprint \in DOMAIN blueprints
  /\ Belongs(r.blueprint, r.project)
  /\ Reply(r, "checked", Nothing) /\ UNCHANGED server

upload_files(r) ==
  LET id == Cardinality(DOMAIN jobs) + 1 IN
  /\ r.do = "upload" /\ r.at = "checked" /\ id <= MaxJobs
  /\ r.project \in DOMAIN projects /\ r.blueprint \in DOMAIN blueprints
  /\ jobs' = [j \in DOMAIN jobs \cup {id} |-> IF j # id THEN jobs[j] ELSE
                [project |-> r.project, blueprint |-> r.blueprint, result |-> FALSE]]
  /\ Done(r, id) /\ UNCHANGED <<projects, blueprints, made>>

\* What the request names is not there, or not where it says.
NotFound(r) ==
  /\ \/ r.do \in {"deleteProject", "create"} /\ r.project \notin DOMAIN projects
     \/ r.do = "save" /\ r.project \notin DOMAIN projects \cup {None}
     \/ r.do = "deleteBlueprint" /\ r.blueprint \notin DOMAIN blueprints
     \/ r.do = "upload" /\ (r.project \notin DOMAIN projects \/ r.blueprint \notin DOMAIN blueprints)
     \/ r.do = "upload" /\ r.blueprint \in DOMAIN blueprints /\ ~Belongs(r.blueprint, r.project)
  /\ Refused(r)

Serve(r) ==
  /\ r.at \in {"asked", "checked"}
  /\ \/ list_projects(r) \/ get_project(r) \/ create_project(r) \/ update_project(r)
     \/ delete_project(r) \/ create_blueprint(r) \/ CountResults(r) \/ delete_blueprint(r)
     \/ CheckUpload(r) \/ upload_files(r) \/ NotFound(r)
  /\ UNCHANGED <<app, view, astray, ops, faults>>

\* A request that fails on its way, before it has an effect.
Fail(r) ==
  /\ r.at \in {"asked", "checked"} /\ faults < MaxFaults
  /\ faults' = faults + 1 /\ astray' = TRUE
  /\ Refused(r) /\ UNCHANGED <<app, view, ops>>

\* A running job saves the data of a page; its insert refers to the blueprint.
SaveResult(j) ==
  /\ ~jobs[j].result /\ jobs[j].blueprint # None
  /\ jobs' = [jobs EXCEPT ![j].result = TRUE]
  /\ UNCHANGED <<projects, blueprints, made, app, view, requests, astray, ops, faults>>

-----------------------------------------------------------------------------
(* What a page does with the answer to a request. *)

Stay(r) == requests' = requests \ {r} /\ UNCHANGED <<app, astray>>
Show(r, new) == Stay(r) /\ view' = IF r.on THEN new ELSE view
Heard(r) == r.at = "ok"

\* setDeleting(false), setSaving(false) and setUploading(false) in a finally clause.
MutStillBusy(r) == view.busy /\ ~Heard(r)
StillBusy(r)    == FALSE

Kept(r) == view.projects \ {r.project}

MutOthers(r) == view.cards
Others(r)    == {c \in view.cards : c.id # r.blueprint}

Listed(r) ==
  /\ r.do = "list"
  /\ Show(r, [view EXCEPT !.loading = FALSE, !.projects = IF Heard(r) THEN r.got.projects ELSE @])

\* A 404 is taken for the list of blueprints, which the page cannot draw: React unmounts the
\* whole tree.
DetailLoaded(r) ==
  /\ r.do = "detail"
  /\ \/ /\ ~(r.on /\ r.got.missing)
        /\ Show(r, IF Heard(r) THEN [view EXCEPT !.loading = FALSE, !.shown = r.got.id, !.cards = r.got.cards]
                               ELSE [view EXCEPT !.loading = FALSE])
     \/ /\ r.on /\ r.got.missing
        /\ page' = "blank" /\ view' = Fresh("blank", None, None)
        /\ requests' = {} /\ UNCHANGED <<projectId, blueprintId, astray>>

FormLoaded(r) ==
  /\ r.do = "project"
  /\ Show(r, [view EXCEPT !.loading = FALSE, !.text = IF Heard(r) THEN r.got.text ELSE @])

BlueprintsLoaded(r) ==
  /\ r.do = "blueprints"
  /\ Show(r, [view EXCEPT !.loadingBlueprints = FALSE,
                !.cards = IF Heard(r) /\ ~r.got.missing THEN {c \in r.got.cards : c.active} ELSE @])

ProjectDeleted(r) ==
  /\ r.do = "deleteProject"
  /\ Show(r, IF Heard(r) THEN [view EXCEPT !.busy = FALSE, !.projects = Kept(r), !.modal = None]
                         ELSE [view EXCEPT !.busy = StillBusy(r)])

ProjectSaved(r) ==
  /\ r.do = "save"
  /\ IF Heard(r) THEN navigate("detail", r.got.id, Unset, requests \ {r})
                 ELSE Show(r, [view EXCEPT !.busy = StillBusy(r)])

BlueprintCreated(r) ==
  /\ r.do = "create"
  /\ IF Heard(r) THEN navigate("builder", r.project, r.got.id, requests \ {r})
                 ELSE Show(r, view)

\* One variable says which row is busy, so an answer frees the row of another request too.
BlueprintDeleted(r) ==
  LET archived == {[c EXCEPT !.active = FALSE] : c \in view.cards \ Others(r)} IN
  /\ r.do = "deleteBlueprint"
  /\ Show(r, [view EXCEPT !.busyId = None,
                !.cards = IF ~Heard(r) THEN @
                          ELSE Others(r) \cup (IF r.got.missing THEN {} ELSE archived)])

Uploaded(r) ==
  /\ r.do = "upload"
  /\ IF Heard(r) THEN navigate("processing", Unset, Unset, requests \ {r})
                 ELSE Show(r, [view EXCEPT !.busy = StillBusy(r)])

Continue(r) ==
  /\ r.at \in {"ok", "no"} /\ page # "blank"
  /\ \/ Listed(r) \/ DetailLoaded(r) \/ FormLoaded(r) \/ BlueprintsLoaded(r) \/ ProjectDeleted(r)
     \/ ProjectSaved(r) \/ BlueprintCreated(r) \/ BlueprintDeleted(r) \/ Uploaded(r)
  /\ UNCHANGED <<server, ops, faults>>

-----------------------------------------------------------------------------

Next ==
  \/ User
  \/ \E j \in DOMAIN jobs : SaveResult(j)
  \/ \E r \in requests : Serve(r) \/ Fail(r) \/ Continue(r)

\* Every request is answered, and the browser runs what waits for an answer.
Spec == Init /\ [][Next]_vars
          /\ WF_vars(\E r \in requests : Serve(r)) /\ WF_vars(\E r \in requests : Continue(r))

-----------------------------------------------------------------------------
(* Properties. *)

\* A job's blueprint is one of the job's project, although the upload page may offer the
\* blueprints of another (late answers, a list that failed to load): upload_files compares them.
JobOfItsProject ==
  \A j \in DOMAIN jobs : jobs[j].blueprint \in DOMAIN blueprints
     => blueprints[jobs[j].blueprint].project = jobs[j].project

\* The app is not left blank (ProjectsList's filter against ProjectDetail's load), the upload
\* page would not send a blueprint of another project than the one it would send, and when
\* nothing is under way the lists of projects and of blueprints, and the description of a form
\* that nobody typed into, are what the server has, unless a request failed, answers of two
\* choices crossed or a change was left behind.
ListAgrees ==
  ~astray => /\ page # "blank"
             /\ (page = "upload" /\ view.choice \in DOMAIN blueprints)
                   => blueprints[view.choice].project = view.pick
             /\ requests = {} =>
                  CASE page = "projects" -> view.projects = DOMAIN projects
                    [] page = "detail"   -> view.shown = projectId /\ view.cards = CardsOf(projectId)
                    [] page = "form"     -> projectId # None /\ ~view.typed
                                              => view.text = projects[projectId]
                    [] page = "upload"   -> /\ view.projects = DOMAIN projects
                                            /\ view.pick # None =>
                                                 view.cards = {c \in CardsOf(view.pick) : c.active}
                    [] OTHER             -> TRUE

Waits == view.loading \/ view.busy \/ view.loadingBlueprints \/ view.busyId # None

\* Whatever fails, no page loads for ever and no button stays disabled.
WaitEnds == Waits ~> ~Waits
=============================================================================
