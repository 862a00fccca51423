------------------------------- MODULE Session -------------------------------
(***************************************************************************)
(* Who is signed in, and which job is in progress, in one browser tab: the *)
(* session that AuthContext keeps in localStorage and in React state, the  *)
(* key of the active job that App, Sidebar, Upload and Processing share,   *)
(* and the endpoints they call.  localStorage and the state made of it are *)
(* written together, so one variable stands for both.  The handlers of a   *)
(* page run on after the page is left, and after the session is: what they *)
(* write to localStorage, and what they call of AuthContext and App, still *)
(* happens.                                                                *)
(*                                                                         *)
(* A profile is a name and a company, each with one of two values.         *)
(***************************************************************************)
EXTENDS Naturals, Sequences

CONSTANTS
  MaxAccounts,   \* bound: accounts; the first one exists at the start
  MaxTokens,     \* bound: sessions ever opened
  MaxJobs,       \* bound: jobs ever started, the first one before the start
  MaxOps,        \* bound: what the user does, typing apart
  MaxFaults      \* bound: requests, or answers, that are lost

ASSUME SessionAssumption ==
  {MaxAccounts, MaxTokens, MaxJobs} \subseteq Nat \ {0} /\ {MaxOps, MaxFaults} \subseteq Nat

None    == 0
Account == 1 .. MaxAccounts
Token   == 1 .. MaxTokens
JobId   == 1 .. MaxJobs

Profile == [name : 0 .. 1, company : 0 .. 1]
User    == [of : 0 .. MaxAccounts, name : 0 .. 1, company : 0 .. 1]
Page    == {"dashboard", "results", "upload", "profile", "processing"}
SignIn  == {"login", "signup"}
Save    == {"saveName", "saveCompany"}
Answer  == [token : 0 .. MaxTokens, user : User, job : 0 .. MaxJobs, ended : BOOLEAN]
Request == [do : SignIn \cup Save \cup {"upload", "delete", "poll", "retry"}, n : Nat,
            \* whose the handler is: the page that is mounted, one that was left (spent once
            \* its job was seen to end), or a tab that was reloaded
            to : {"page", "left", "spent", "gone"},
            at : {"asked", "ok", "no", "unauthorized", "missing"},
            token : 0 .. MaxTokens, of : 0 .. MaxAccounts, value : 0 .. 1, job : 0 .. MaxJobs, got : Answer]
View    == [name : 0 .. 1, company : 0 .. 1, saving : BOOLEAN, savingCompany : BOOLEAN,
            busy : BOOLEAN, finished : BOOLEAN]

VARIABLES
  \* the server
  profiles,     \* the accounts there are, each with its profile
  owners,       \* the account of each token
  expired,      \* the tokens that have expired
  jobs,         \* the owner of each job, and whether it runs, was interrupted by a restart (its
                \* row still says queued or processing), has ended or was deleted
  \* AuthContext
  token, user,
  \* App, and the key of the active job
  key, page, jobId, authPage,
  \* the page that is mounted: the one App shows, or Login or Signup
  view,
  \* what is under way
  requests,
  \* what has happened
  crossed,      \* requests of two sessions, forms or jobs crossed
  ops, faults

server  == <<profiles, owners, expired, jobs>>
session == <<token, user>>
app     == <<key, page, jobId, authPage>>
vars    == <<server, session, app, view, requests, crossed, ops, faults>>

NoUser == [of |-> None, name |-> 0, company |-> 0]

\* A page is processing only with the job it is about.
TypeOK ==
  /\ DOMAIN profiles \subseteq Account /\ \A a \in DOMAIN profiles : profiles[a] \in Profile
  /\ Len(owners) <= MaxTokens /\ \A t \in DOMAIN owners : owners[t] \in DOMAIN profiles
  /\ expired \subseteq DOMAIN owners
  /\ Len(jobs) <= MaxJobs
  /\ \A j \in DOMAIN jobs : jobs[j] \in [owner : Account, at : {"running", "interrupted", "ended", "gone"}]
  /\ token \in {None} \cup DOMAIN owners /\ user \in User
  /\ key \in {None} \cup DOMAIN jobs /\ jobId \in {None} \cup DOMAIN jobs
  /\ page \in Page /\ authPage \in SignIn /\ (page = "processing" => jobId # None)
  /\ view \in View /\ requests \subseteq Request
  /\ crossed \in BOOLEAN /\ ops \in 0 .. MaxOps /\ faults \in 0 .. MaxFaults

-----------------------------------------------------------------------------
(* Requests, pages and sessions. *)

Nothing == [token |-> None, user |-> NoUser, job |-> None, ended |-> FALSE]

\* apiFetch sends the token that is stored when it is called.
apiFetch(do, n, tok) ==
  [do |-> do, n |-> n, to |-> "page", at |-> "asked", token |-> tok, of |-> None,
   value |-> 0, job |-> None, got |-> Nothing]

\* What a page starts with; Profile's fields are copies of the user's.
Fresh(usr) ==
  [name |-> usr.name, company |-> usr.company, saving |-> FALSE, savingCompany |-> FALSE,
   busy |-> FALSE, finished |-> FALSE]

\* Processing affirms the key and polls, when it is mounted and when its job changes.
Poll(j, tok) == [apiFetch("poll", 0, tok) EXCEPT !.job = j]
Polls(new, j, tok) == IF new = "processing" THEN {Poll(j, tok)} ELSE {}
Affirmed(new, j, k) == IF new = "processing" THEN j ELSE k

Leave(rest) ==
  {[r EXCEPT !.to = IF @ # "page" THEN @
                    ELSE IF r.do = "poll" /\ view.finished THEN "spent" ELSE "left"] : r \in rest}

\* navigate, with the requests that remain and the key as the handler leaves it.  While nobody
\* is signed in App shows no page, and it is mounted later.
navigate(new, j, k, rest) ==
  LET shown == user # NoUser
      same  == new = page
  IN
  /\ page' = new /\ jobId' = j
  /\ view' = IF same \/ ~shown THEN view ELSE Fresh(user)
  /\ key' = IF shown /\ ~(same /\ j = jobId) THEN Affirmed(new, j, k) ELSE k
  /\ requests' = IF ~shown \/ (same /\ j = jobId) THEN rest
                 ELSE (IF same THEN rest ELSE Leave(rest)) \cup Polls(new, j, token)

\* The token and the user are set, and App shows Login, or the page it was on, accordingly.
Become(tok, usr, rest) ==
  LET same == (user = NoUser) = (usr = NoUser)
      in   == ~same /\ usr # NoUser
  IN
  /\ token' = tok /\ user' = usr
  /\ view' = IF same THEN view ELSE Fresh(usr)
  /\ key' = IF in THEN Affirmed(page, jobId, key) ELSE key
  /\ requests' = IF same THEN rest
                 ELSE Leave(rest) \cup (IF in THEN Polls(page, jobId, tok) ELSE {})
  /\ UNCHANGED <<page, jobId, authPage>>

_store(tok, usr, rest) == Become(tok, usr, rest)
_clear(rest)           == Become(None, NoUser, rest)

\* A change outlives the session it was asked in.
Outlived(rest) == \E r \in rest : r.do \in Save \cup {"upload"}

-----------------------------------------------------------------------------
(* What the user does. *)

\* App restores the Processing page from the key.
MutStartPage(k) == "processing"                           \* whatever is stored
StartPage(k)    == IF k = None THEN "dashboard" ELSE "processing"

\* A tab is opened on what an earlier one has stored; logging out leaves the key.
Init ==
  /\ profiles = [a \in {1} |-> [name |-> 0, company |-> 0]]
  /\ owners = <<1>> /\ expired = {} /\ jobs = <<[owner |-> 1, at |-> "running"]>>
  /\ token \in {None, 1} /\ user = [NoUser EXCEPT !.of = token]
  /\ key \in {None, 1} /\ jobId = key /\ page = StartPage(key) /\ authPage = "login"
  /\ view = Fresh(user)
  /\ requests = IF token = None THEN {} ELSE Polls(page, jobId, token)
  /\ crossed = FALSE /\ ops = 0 /\ faults = 0

\* Bound: what follows a crossing is not explored beyond what was under way.
Operation == ops < MaxOps /\ ~crossed /\ ops' = ops + 1
On(where) == user # NoUser /\ page = where
Send(r) == requests' = requests \cup {r}
Local == UNCHANGED <<server, session, app, crossed, faults>>

\* The form is submitted for account a; its button is disabled while it loads.
handleSubmit(a) ==
  /\ Operation /\ user = NoUser /\ ~view.busy
  /\ Send([apiFetch(authPage, ops, None) EXCEPT !.of = a])
  /\ view' = [view EXCEPT !.busy = TRUE]
  /\ crossed' = (crossed \/ \E r \in requests : r.do \in SignIn)
  /\ UNCHANGED <<server, session, app, faults>>

\* Login asks for both fields; the account it names may not exist yet.
handleLogin == authPage = "login" /\ \E a \in Account : handleSubmit(a)

\* Signup sends nothing while the two passwords differ or are short, which is no step.
handleSignup == authPage = "signup" /\ \E a \in Account : handleSubmit(a)

onSwitch ==
  /\ Operation /\ user = NoUser
  /\ authPage' = IF authPage = "login" THEN "signup" ELSE "login"
  /\ view' = Fresh(NoUser) /\ requests' = Leave(requests)
  /\ UNCHANGED <<server, session, key, page, jobId, crossed, faults>>

logout ==
  /\ Operation /\ user # NoUser /\ _clear(requests)
  /\ crossed' = (crossed \/ Outlived(requests))
  /\ UNCHANGED <<server, faults>>

Calm == UNCHANGED <<server, session, authPage, crossed, faults>>

Sidebar ==
  /\ Operation /\ user # NoUser /\ Calm
  /\ \/ \E new \in {"dashboard", "upload", "profile"} : navigate(new, jobId, key, requests)
     \/ key # None /\ navigate("processing", key, key, requests)

\* Dashboard deletes a job of its list, which may be gone by now, once the modal has confirmed.
\* The modal covers the rows, but the keyboard reaches what is under it.
handleDelete ==
  /\ Operation /\ On("dashboard") /\ ~view.busy /\ token # None
  /\ view' = [view EXCEPT !.busy = TRUE]
  /\ \E j \in DOMAIN jobs :
       jobs[j].owner = owners[token] /\ Send([apiFetch("delete", ops, token) EXCEPT !.job = j])
  /\ Local

\* Dashboard's rows, the results button of Processing: App's jobId becomes another job.
OpenResults ==
  /\ Operation /\ user # NoUser /\ Calm
  /\ \/ page = "dashboard" /\ token # None
          /\ \E j \in DOMAIN jobs : jobs[j].owner = owners[token] /\ navigate("results", j, key, requests)
     \/ page = "processing" /\ view.finished /\ navigate("results", jobId, key, requests)

\* A field is changed, by typing or by Cancel, which puts the user's value back.
Type ==
  /\ On("profile") /\ Local /\ UNCHANGED <<requests, ops>>
  /\ \/ view' = [view EXCEPT !.name = 1 - @]
     \/ view' = [view EXCEPT !.company = 1 - @]

\* Two forms of Profile, each with a flag of its own; an answer brings both parts.
Crossing == crossed' = (crossed \/ \E r \in requests : r.do \in Save)
saveProfile ==
  /\ Operation /\ On("profile") /\ ~view.saving
  /\ view' = [view EXCEPT !.saving = TRUE]
  /\ Send([apiFetch("saveName", ops, token) EXCEPT !.value = view.name])
  /\ Crossing /\ UNCHANGED <<server, session, app, faults>>

saveCompany ==
  /\ Operation /\ On("profile") /\ ~view.savingCompany
  /\ view' = [view EXCEPT !.savingCompany = TRUE]
  /\ Send([apiFetch("saveCompany", ops, token) EXCEPT !.value = view.company])
  /\ Crossing /\ UNCHANGED <<server, session, app, faults>>

\* The page that has finished offers to retry the pages that failed; which have is left out.
handleInlineRetry ==
  /\ Operation /\ On("processing") /\ view.finished /\ ~view.busy
  /\ view' = [view EXCEPT !.busy = TRUE]
  /\ Send([apiFetch("retry", ops, token) EXCEPT !.job = jobId]) /\ Local

\* Upload's handleSubmit, once a project, a blueprint and files are chosen.
handleUpload ==
  /\ Operation /\ On("upload") /\ ~view.busy
  /\ view' = [view EXCEPT !.busy = TRUE]
  /\ Send(apiFetch("upload", ops, token)) /\ Local

\* The tab is reloaded: requests that are under way may still reach the server.
Reload ==
  /\ Operation
  /\ page' = StartPage(key) /\ jobId' = key /\ authPage' = "login" /\ view' = Fresh(user)
  /\ requests' = {[r EXCEPT !.to = "gone"] : r \in {q \in requests : q.do # "poll"}}
                   \cup (IF user = NoUser THEN {} ELSE Polls(page', jobId', token))
  /\ crossed' = (crossed \/ Outlived(requests))
  /\ UNCHANGED <<server, session, key, faults>>

\* The status is polled every STATUS_POLL_MS, here once the last answer has come.
Tick ==
  /\ On("processing") /\ ~view.finished
  /\ ~\E r \in requests : r.do = "poll" /\ r.job = jobId /\ r.to = "page"
  /\ Send(Poll(jobId, token)) /\ Local /\ UNCHANGED <<view, ops>>

Browser ==
  \/ handleLogin \/ handleSignup \/ onSwitch \/ logout \/ Sidebar
  \/ handleDelete \/ OpenResults \/ Type \/ saveProfile \/ saveCompany \/ handleUpload \/ handleInlineRetry
  \/ Reload \/ Tick

-----------------------------------------------------------------------------
(* What the server does. *)

Reply(r, at, got) == requests' = (requests \ {r}) \cup {[r EXCEPT !.at = at, !.got = got]}
_user_dict(a, p) == [of |-> a, name |-> p.name, company |-> p.company]

\* get_current_user: HTTPBearer refuses a request without a token with 403, which no page and
\* not apiFetch take for the end of the session; a token that has expired is a 401.
Allowed(r) == r.token # None /\ r.token \notin expired
Refuse(r) ==
  /\ r.do \notin SignIn /\ ~Allowed(r)
  /\ Reply(r, IF r.token = None THEN "no" ELSE "unauthorized", Nothing) /\ UNCHANGED server

\* A session is opened for account a.
Open(r, a, p) ==
  /\ Len(owners) < MaxTokens /\ owners' = Append(owners, a)
  /\ Reply(r, "ok", [Nothing EXCEPT !.token = Len(owners) + 1, !.user = _user_dict(a, p)])
  /\ UNCHANGED <<expired, jobs>>

signup(r) ==
  LET p == [name |-> 0, company |-> 0] IN
  /\ r.do = "signup" /\ r.of \notin DOMAIN profiles
  /\ profiles' = [a \in DOMAIN profiles \cup {r.of} |-> IF a = r.of THEN p ELSE profiles[a]]
  /\ Open(r, r.of, p)

login(r) ==
  /\ r.do = "login" /\ r.of \in DOMAIN profiles
  /\ Open(r, r.of, profiles[r.of]) /\ UNCHANGED profiles

\* A wrong password, an address that is taken, or the limiter.
SignInRefused(r) == r.do \in SignIn /\ Reply(r, "no", Nothing) /\ UNCHANGED server

\* The fields the request has are written; the answer is the row after the commit.
MutAnswered(old, new) == old                              \* no refresh
Answered(old, new)    == new
update_profile(r) ==
  LET a   == owners[r.token]
      new == IF r.do = "saveName" THEN [profiles[a] EXCEPT !.name = r.value]
                                  ELSE [profiles[a] EXCEPT !.company = r.value]
  IN
  /\ r.do \in Save /\ Allowed(r)
  /\ profiles' = [profiles EXCEPT ![a] = new]
  /\ Reply(r, "ok", [Nothing EXCEPT !.user = _user_dict(a, Answered(profiles[a], new))])
  /\ UNCHANGED <<owners, expired, jobs>>

upload_files(r) ==
  /\ r.do = "upload" /\ Allowed(r) /\ Len(jobs) < MaxJobs
  /\ jobs' = Append(jobs, [owner |-> owners[r.token], at |-> "running"])
  /\ Reply(r, "ok", [Nothing EXCEPT !.job = Len(jobs) + 1])
  /\ UNCHANGED <<profiles, owners, expired>>

\* Files that are refused or gone, a job that is processing or not the asker's, no page that
\* failed, or a bound of this model.
Declined(r) == r.do \in {"upload", "retry"} /\ Allowed(r) /\ Reply(r, "no", Nothing) /\ UNCHANGED server

Watching(j) == On("processing") /\ jobId = j

\* The news that the job had ended is still under way: the answer to a poll, or the event of a
\* stream that another page opened on the job.
StaleNews(r) ==
  \/ \E q \in requests : q.do = "poll" /\ q.job = r.job /\ q.got.ended
  \/ Watching(r.job) /\ r.to # "page"

\* The pages that failed are queued, the store is reset and the job runs again; what a restart
\* left queued is not refused either.
retry_job(r) ==
  /\ r.do = "retry" /\ Allowed(r)
  /\ jobs[r.job].owner = owners[r.token] /\ jobs[r.job].at \in {"ended", "interrupted"}
  /\ jobs' = [jobs EXCEPT ![r.job].at = "running"]
  /\ Reply(r, "ok", Nothing)
  /\ crossed' = (crossed \/ StaleNews(r))
  /\ UNCHANGED <<profiles, owners, expired>>

get_status(r) ==
  LET j == jobs[r.job] IN
  /\ r.do = "poll" /\ Allowed(r)
  /\ IF j.owner # owners[r.token] \/ j.at = "gone"
       THEN Reply(r, "missing", Nothing)
       ELSE Reply(r, "ok", [Nothing EXCEPT !.ended = j.at = "ended"])
  /\ UNCHANGED server

delete_job(r) ==
  LET j == jobs[r.job] IN
  /\ r.do = "delete" /\ Allowed(r)
  /\ IF j.owner # owners[r.token] \/ j.at = "gone"
       THEN Reply(r, "no", Nothing) /\ UNCHANGED jobs
       ELSE Reply(r, "ok", Nothing) /\ jobs' = [jobs EXCEPT ![r.job].at = "gone"]
  /\ UNCHANGED <<profiles, owners, expired>>

Serve(r) ==
  /\ r.at = "asked"
  /\ \/ /\ \/ Refuse(r) \/ signup(r) \/ login(r) \/ SignInRefused(r) \/ update_profile(r)
           \/ upload_files(r) \/ Declined(r) \/ get_status(r) \/ delete_job(r)
        /\ UNCHANGED crossed
     \/ retry_job(r)
  /\ UNCHANGED <<session, app, view, ops, faults>>

\* A request is lost on its way, or its answer is.
Lose(r) ==
  /\ r.at \in {"asked", "ok", "missing"} /\ faults < MaxFaults
  /\ faults' = faults + 1
  /\ Reply(r, "no", Nothing)
  /\ crossed' = (crossed \/ (r.do \in Save /\ r.at = "ok"))
  /\ UNCHANGED <<server, session, app, view, ops>>

\* ACCESS_TOKEN_EXPIRE_MINUTES pass.
Expire(t) ==
  /\ t \notin expired /\ expired' = expired \cup {t}
  /\ UNCHANGED <<profiles, owners, jobs, session, app, view, requests, crossed, ops, faults>>

Elsewhere == UNCHANGED <<profiles, owners, expired, session, app, view, requests, crossed, ops, faults>>

\* The pipeline ends a job, or startup recovery one that was interrupted.
JobEnds(j) ==
  /\ jobs[j].at \in {"running", "interrupted"} /\ jobs' = [jobs EXCEPT ![j].at = "ended"]
  /\ Elsewhere

\* The process is restarted: nobody works on the jobs that ran, and job_store is empty.
Restart ==
  /\ \E j \in DOMAIN jobs : jobs[j].at = "running"
  /\ jobs' = [j \in DOMAIN jobs |->
                [jobs[j] EXCEPT !.at = IF @ = "running" THEN "interrupted" ELSE @]]
  /\ Elsewhere

-----------------------------------------------------------------------------
(* What the browser does with the answer to a request. *)

Rest(r) == requests \ {r}
Stay(r) == requests' = Rest(r) /\ UNCHANGED <<session, app>>
Show(r, new) == Stay(r) /\ view' = IF r.to = "page" THEN new ELSE view

\* The finally clause of the handler.
Idle(r, v) ==
  CASE r.do = "saveName"    -> [v EXCEPT !.saving = FALSE]
    [] r.do = "saveCompany" -> [v EXCEPT !.savingCompany = FALSE]
    [] r.do = "poll"        -> v
    [] OTHER                -> [v EXCEPT !.busy = FALSE]

\* The event of a 401 ends whatever session there is by then.
Unauthorized(r) ==
  /\ r.at = "unauthorized" /\ _clear(Rest(r))
  /\ crossed' = (crossed \/ r.token # token \/ Outlived(Rest(r)))

Refused(r) ==
  /\ r.at = "no" /\ Show(r, Idle(r, view)) /\ UNCHANGED crossed

SignedIn(r) ==
  /\ r.at = "ok" /\ r.do \in SignIn
  /\ _store(r.got.token, r.got.user, Rest(r))
  /\ crossed' = (crossed \/ Outlived(Rest(r)))

\* updateUser, also when nobody is signed in any more: App then shows its pages to a user
\* without a token.
updateUser(r) ==
  /\ r.at = "ok" /\ r.do \in Save
  /\ IF user = NoUser
       THEN Become(token, r.got.user, Rest(r))
       ELSE /\ user' = r.got.user /\ requests' = Rest(r)
            /\ view' = IF r.to = "page" THEN Idle(r, view) ELSE view
            /\ UNCHANGED <<token, app>>
  /\ crossed' = (crossed \/ r.token # token)

\* Upload's handler stores the key and navigates, from wherever the user is by then; a
\* Processing page that is mounted keeps its finishedRef.
Uploaded(r) ==
  /\ r.at = "ok" /\ r.do = "upload"
  /\ navigate("processing", r.got.job, r.got.job, Rest(r))
  /\ crossed' = (crossed \/ page = "processing" \/ r.token # token)
  /\ UNCHANGED <<session, authPage>>

\* finish and the 404 branch remove the key whatever job it names.
MutCleared(k) == k                                        \* removeItem dropped
Cleared(k)    == None
Strays(r) == crossed \/ r.token # token \/ key \notin {None, r.job}

\* get_status answered 404: the page gives up, and App goes to the dashboard.
Missing(r) ==
  /\ r.at = "missing"
  /\ navigate("dashboard", jobId, Cleared(key), Rest(r))
  /\ crossed' = Strays(r) /\ UNCHANGED <<session, authPage>>

\* poll: a terminal status finishes the page, once.
MutTerminal(r) == TRUE                                    \* TERMINAL_STATUSES not looked at
Terminal(r)    == r.got.ended
Polled(r) ==
  LET done == IF r.to = "page" THEN view.finished ELSE r.to = "spent" IN
  /\ r.at = "ok" /\ r.do = "poll"
  /\ IF Terminal(r) /\ ~done
       THEN /\ key' = Cleared(key) /\ requests' = Rest(r)
            /\ view' = IF r.to = "page" THEN [view EXCEPT !.finished = TRUE] ELSE view
            /\ crossed' = Strays(r) /\ UNCHANGED <<session, page, jobId, authPage>>
       ELSE Stay(r) /\ UNCHANGED <<view, crossed>>

\* Dashboard drops the row; the key, if it names the job, stays.
Deleted(r) ==
  /\ r.at = "ok" /\ r.do = "delete" /\ Show(r, Idle(r, view)) /\ UNCHANGED crossed

\* The page that asked watches its job again: the effects of sseRevision affirm the key and poll.
\* A page that was left has only its finishedRef reset: its polls under way may finish it again.
Retried(r) ==
  /\ r.at = "ok" /\ r.do = "retry"
  /\ IF r.to = "page"
       THEN /\ view' = [view EXCEPT !.finished = FALSE, !.busy = FALSE]
            /\ key' = Affirmed(page, jobId, key)
            /\ requests' = Rest(r) \cup Polls(page, jobId, token)
       ELSE /\ requests' = {[q EXCEPT !.to = IF @ = "spent" /\ q.do = "poll" /\ q.job = r.job
                                               THEN "left" ELSE @] : q \in Rest(r)}
            /\ UNCHANGED <<view, key>>
  /\ UNCHANGED <<session, page, jobId, authPage, crossed>>

Dropped(r) == r.to = "gone" /\ requests' = Rest(r) /\ UNCHANGED <<session, app, view, crossed>>

Deliver(r) ==
  /\ r.at # "asked"
  /\ \/ /\ r.to # "gone"
        /\ \/ Unauthorized(r) \/ Refused(r) \/ SignedIn(r) \/ updateUser(r) \/ Uploaded(r)
           \/ Missing(r) \/ Polled(r) \/ Deleted(r) \/ Retried(r)
     \/ Dropped(r)
  /\ UNCHANGED <<server, ops, faults>>

\* The stream of a job that this process knows tells whoever asks of its end; of a job it does
\* not know it tells the owner at once that it has ended, also of one that was interrupted.
Streamed(j) ==
  \/ jobs[j].at \in {"ended", "gone"}
  \/ jobs[j].at = "interrupted" /\ jobs[j].owner = owners[token]

\* The event of the stream may tell the page of the end first.
processing_complete ==
  /\ On("processing") /\ ~view.finished /\ token # None /\ Streamed(jobId)
  /\ key' = Cleared(key) /\ view' = [view EXCEPT !.finished = TRUE]
  /\ crossed' = (crossed \/ key # jobId)
  /\ UNCHANGED <<server, session, page, jobId, authPage, requests, ops, faults>>

-----------------------------------------------------------------------------

Next ==
  \/ Browser \/ processing_complete \/ Restart
  \/ \E r \in requests : Serve(r) \/ Lose(r) \/ Deliver(r)
  \/ \E t \in DOMAIN owners : Expire(t)
  \/ \E j \in DOMAIN jobs : JobEnds(j)

\* The interval fires, requests are answered, and the browser runs what waits for an answer.
Spec == Init /\ [][Next]_vars
          /\ WF_vars(Tick)
          /\ WF_vars(\E r \in requests : Serve(r)) /\ WF_vars(\E r \in requests : Deliver(r))

-----------------------------------------------------------------------------
(* Properties. *)

\* The tab shows the account its token belongs to, with the profile the server has, across
\* sign-ins, reloads, expiry and saves, unless requests of two sessions or forms crossed
\* (AuthContext's _store, _clear and updateUser).
UserAgrees ==
  ~crossed =>
    /\ (token = None) = (user = NoUser)
    /\ (token # None /\ ~\E r \in requests : r.do \in Save)
         => user = _user_dict(owners[token], profiles[owners[token]])

\* The way back to a job that is worked on is not lost, by finish nor by the 404 branch of
\* Processing, also when a job that had ended is retried and runs again: the key is removed only
\* when its job has ended, was interrupted by a restart (the stream says so, though startup
\* recovery has not ended the job), was deleted or is another account's.  Two cases are excepted,
\* and fail: an answer that comes to another session or job, and a retry that the server takes
\* while the news of the end is still under way (the comments at App.jsx:25 and 32).
Over(j) == jobs[j].at # "running" \/ jobs[j].owner # owners[token]
KeyKept == [][(key # None /\ key' = None /\ ~crossed') => Over(key)]_vars

\* A page that watches a job which has ended, was deleted or is another account's, or that
\* polls with an expired token, does not go on for ever: the key is removed or the page goes,
\* unless the job is retried.
Ended(j) == jobs[j].at \in {"ended", "gone"} \/ jobs[j].owner # owners[token]
WatchEnds ==
  \A j \in JobId :
    (Watching(j) /\ ~crossed /\ (Ended(j) \/ token \in expired))
       ~> (crossed \/ ~Watching(j) \/ key # j \/ ~(Ended(j) \/ token \in expired))
=============================================================================
