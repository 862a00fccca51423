---------------------------- MODULE Session_proofs ----------------------------
(***************************************************************************)
(* Proofs about Session: the types, the account and the profile the tab    *)
(* shows, and the way back to a running job, for any number of accounts,   *)
(* sessions, jobs, requests and losses.                                    *)
(***************************************************************************)
EXTENDS Session, SequenceTheorems, TLAPS

\* The tuples of variables the UNCHANGED conjuncts name.
USE DEF server, session, app

-----------------------------------------------------------------------------
(* Types.  What a handler does with an answer is well typed because of what *)
(* the server knew when it answered, and still knows.                       *)

Job == [owner : Account, at : {"running", "interrupted", "ended", "gone"}]

ServerType ==
  /\ DOMAIN profiles \subseteq Account /\ \A a \in DOMAIN profiles : profiles[a] \in Profile
  /\ owners \in Seq(Account) /\ Len(owners) <= MaxTokens
  /\ \A t \in DOMAIN owners : owners[t] \in DOMAIN profiles
  /\ expired \subseteq DOMAIN owners
  /\ jobs \in Seq(Job) /\ Len(jobs) <= MaxJobs

AppType ==
  /\ key \in {None} \cup DOMAIN jobs /\ jobId \in {None} \cup DOMAIN jobs
  /\ page \in Page /\ (page = "processing" => jobId # None)

TabType ==
  /\ token \in {None} \cup DOMAIN owners /\ user \in User
  /\ AppType
  /\ authPage \in SignIn
  /\ view \in View
  /\ crossed \in BOOLEAN /\ ops \in 0 .. MaxOps /\ faults \in 0 .. MaxFaults

\* A job the session of token t has not, and will not have again.
OverFor(j, t) == jobs[j].at = "gone" \/ jobs[j].owner # owners[t]

Sound(r) ==
  /\ r \in Request
  /\ r.token \in {None} \cup DOMAIN owners
  /\ r.do \in SignIn => r.of \in Account
  /\ r.do \in {"poll", "delete", "retry"} => r.job \in DOMAIN jobs
  /\ r.at = "missing" => r.do = "poll" /\ r.token # None /\ OverFor(r.job, r.token)
  /\ r.at = "ok" =>
       /\ r.do \in SignIn => r.got.token \in DOMAIN owners /\ r.got.user.of \in Account
       /\ r.do \in Save => r.got.user.of \in Account
       /\ r.do = "upload" => r.got.job \in DOMAIN jobs

AllSound == \A r \in requests : Sound(r)

Types == ServerType /\ TabType /\ AllSound

LEMMA TypesAreTypeOK == Types => TypeOK
<1> SUFFICES ASSUME Types PROVE TypeOK
  OBVIOUS
<1>1. requests \subseteq Request
  BY DEF Types, AllSound, Sound
<1>2. \A j \in DOMAIN jobs : jobs[j] \in Job
  BY DEF Types, ServerType
<1>3. ServerType /\ TabType
  BY DEF Types
<1>4. /\ DOMAIN profiles \subseteq Account /\ \A a \in DOMAIN profiles : profiles[a] \in Profile
      /\ Len(owners) <= MaxTokens /\ \A t \in DOMAIN owners : owners[t] \in DOMAIN profiles
      /\ expired \subseteq DOMAIN owners
      /\ Len(jobs) <= MaxJobs
  BY <1>3 DEF ServerType
<1>5. /\ token \in {None} \cup DOMAIN owners /\ user \in User
      /\ key \in {None} \cup DOMAIN jobs /\ jobId \in {None} \cup DOMAIN jobs
      /\ page \in Page /\ authPage \in SignIn /\ (page = "processing" => jobId # None)
      /\ view \in View
      /\ crossed \in BOOLEAN /\ ops \in 0 .. MaxOps /\ faults \in 0 .. MaxFaults
  BY <1>3 DEF TabType, AppType
<1> QED
  BY <1>1, <1>2, <1>4, <1>5 DEF TypeOK, Job

\* What the server knows it goes on knowing.
Grows ==
  /\ DOMAIN owners \subseteq DOMAIN owners' /\ DOMAIN jobs \subseteq DOMAIN jobs'
  /\ \A t \in DOMAIN owners : owners'[t] = owners[t]
  /\ \A j \in DOMAIN jobs : /\ jobs'[j].owner = jobs[j].owner
                            /\ jobs[j].at = "gone" => jobs'[j].at = "gone"

LEMMA UnchangedGrows == UNCHANGED server => Grows
  BY DEF Grows

LEMMA SoundGrows ==
  ASSUME Grows, NEW r, Sound(r)
  PROVE  Sound(r)'
  BY DEF Grows, Sound, OverFor

LEMMA UsersAre ==
  /\ NoUser \in User /\ Nothing \in Answer
  /\ \A u \in User : Fresh(u) \in View
  /\ \A a \in Account, p \in Profile : _user_dict(a, p) \in User /\ _user_dict(a, p).of = a
  BY SessionAssumption DEF NoUser, User, Nothing, Answer, Fresh, View, _user_dict, Account, Profile, None

\* A request as its page leaves it.
LeftBy(r) ==
  [r EXCEPT !.to = IF @ # "page" THEN @
                    ELSE IF r.do = "poll" /\ view.finished THEN "spent" ELSE "left"]

LEMMA LeaveIs == \A rest : Leave(rest) = {LeftBy(r) : r \in rest}
  BY DEF Leave, LeftBy

LEMMA LeftSound ==
  ASSUME NEW r, Sound(r)
  PROVE  /\ Sound(LeftBy(r))
         /\ \E to \in {"page", "left", "spent", "gone"} :
              LeftBy(r) = [r EXCEPT !.to = to] /\ (r.to # "gone" => to # "gone")
<1>1. r \in Request
  BY DEF Sound
<1>2. PICK to \in {"page", "left", "spent", "gone"} :
        LeftBy(r) = [r EXCEPT !.to = to] /\ (r.to # "gone" => to # "gone")
  BY <1>1 DEF LeftBy, Request
<1>3. LeftBy(r) \in Request
  BY <1>1, <1>2 DEF Request
<1> QED
  BY <1>1, <1>2, <1>3 DEF Sound, Request

LEMMA AskSound ==
  ASSUME ServerType, NEW do \in SignIn \cup Save \cup {"upload", "delete", "poll", "retry"}, NEW n \in Nat,
         NEW tok \in {None} \cup DOMAIN owners
  PROVE  /\ apiFetch(do, n, tok) \in Request
         /\ do \in Save \cup {"upload"} => Sound(apiFetch(do, n, tok))
<1>1. {None} \cup DOMAIN owners \subseteq 0 .. MaxTokens
  BY SessionAssumption DEF ServerType, None
<1>2. apiFetch(do, n, tok) \in Request
  BY <1>1, UsersAre, SessionAssumption DEF apiFetch, Request, None
<1> QED
  BY <1>2 DEF Sound, apiFetch, Save, SignIn

LEMMA PollSound ==
  ASSUME ServerType, NEW j \in DOMAIN jobs, NEW tok \in {None} \cup DOMAIN owners
  PROVE  Sound(Poll(j, tok))
<1>1. apiFetch("poll", 0, tok) \in Request
  BY AskSound
<1>2. j \in 0 .. MaxJobs
  BY SessionAssumption DEF ServerType
<1>3. Poll(j, tok) \in Request
  BY <1>1, <1>2 DEF Poll, Request
<1> QED
  BY <1>1, <1>3 DEF Sound, Poll, apiFetch, SignIn, Save

\* What navigate and Become do, wherever they are called.
LEMMA NavigateTypes ==
  ASSUME Types, UNCHANGED server, NEW new \in Page, NEW j \in {None} \cup DOMAIN jobs,
         NEW k \in {None} \cup DOMAIN jobs, NEW rest, \A r \in rest : Sound(r),
         new = "processing" => j # None, navigate(new, j, k, rest)
  PROVE  AppType' /\ view' \in View /\ AllSound'
<1>1. ServerType /\ TabType /\ Grows
  BY UnchangedGrows DEF Types
<1>2. \A r : Sound(r) => Sound(r)'
  BY <1>1, SoundGrows
<1>3. AppType' /\ view' \in View
  BY <1>1, UsersAre DEF navigate, Affirmed, TabType, AppType
<1>4. \A r \in Polls(new, j, token) : Sound(r)
  <2>1. new = "processing" => j \in DOMAIN jobs
    OBVIOUS
  <2> QED
    BY <1>1, <2>1, PollSound DEF Polls, TabType
<1>5. \A r \in Leave(rest) : Sound(r)
  BY LeaveIs, LeftSound
<1>6. requests' \subseteq rest \cup Leave(rest) \cup Polls(new, j, token)
  BY DEF navigate
<1>7. AllSound'
  BY <1>2, <1>4, <1>5, <1>6 DEF AllSound
<1> QED
  BY <1>3, <1>7

LEMMA BecomeTypes ==
  ASSUME Types, UNCHANGED server, NEW tok \in {None} \cup DOMAIN owners, NEW usr \in User,
         NEW rest, \A r \in rest : Sound(r), Become(tok, usr, rest)
  PROVE  /\ AppType' /\ view' \in View /\ AllSound'
         /\ token' \in {None} \cup DOMAIN owners /\ user' \in User /\ authPage' = authPage
<1>1. ServerType /\ TabType /\ Grows
  BY UnchangedGrows DEF Types
<1>2. \A r : Sound(r) => Sound(r)'
  BY <1>1, SoundGrows
<1>3. AppType' /\ view' \in View
  BY <1>1, UsersAre DEF Become, Affirmed, TabType, AppType
<1>4. \A r \in Polls(page, jobId, tok) : Sound(r)
  <2>1. page = "processing" => jobId \in DOMAIN jobs
    BY <1>1 DEF TabType, AppType
  <2> QED
    BY <1>1, <2>1, PollSound DEF Polls
<1>5. \A r \in Leave(rest) : Sound(r)
  BY LeaveIs, LeftSound
<1>6. requests' \subseteq rest \cup Leave(rest) \cup Polls(page, jobId, tok)
  BY DEF Become
<1>7. AllSound'
  BY <1>2, <1>4, <1>5, <1>6 DEF AllSound
<1> QED
  BY <1>3, <1>7 DEF Become

LEMMA ServerStays == ASSUME Types, UNCHANGED server PROVE ServerType' /\ \A r : Sound(r) => Sound(r)'
<1>1. ServerType'
  BY DEF Types, ServerType
<1>2. \A r : Sound(r) => Sound(r)'
  BY UnchangedGrows, SoundGrows
<1> QED
  BY <1>1, <1>2

\* One request more.
LEMMA SendTypes ==
  ASSUME Types, UNCHANGED server, NEW r, Sound(r), Send(r)
  PROVE  AllSound'
  BY ServerStays DEF Send, AllSound, Types

LEMMA BrowserTypes == ASSUME Types, Browser PROVE Types'
<1>ty. ServerType /\ TabType /\ AllSound
  BY DEF Types
<1>ops. Operation => ops' \in 0 .. MaxOps
  BY <1>ty, SessionAssumption DEF Operation, TabType
<1>n. ops \in Nat
  BY <1>ty DEF TabType
<1>none. None \in {None} \cup DOMAIN owners /\ NoUser \in User
  BY UsersAre
<1>1. ASSUME NEW a \in Account, handleSubmit(a) PROVE Types'
  <2>1. UNCHANGED server
    BY <1>1 DEF handleSubmit
  <2> DEFINE ask == apiFetch(authPage, ops, None)
  <2>2. ask \in Request /\ ask.do \in SignIn /\ ask.at = "asked" /\ ask.token = None
    BY <1>ty, <1>n, <1>none, AskSound DEF TabType, apiFetch
  <2>3. Sound([ask EXCEPT !.of = a])
    <3>1. [ask EXCEPT !.of = a] \in Request
      BY <2>2 DEF Request, Account
    <3> QED
      BY <2>2, <3>1 DEF Sound, Request, SignIn
  <2>4. AllSound'
    BY <1>1, <2>1, <2>3, SendTypes DEF handleSubmit
  <2>5. TabType'
    BY <1>1, <1>ty, <1>ops DEF handleSubmit, TabType, AppType, View
  <2> QED
    BY <2>1, <2>4, <2>5, ServerStays DEF Types
<1>2. CASE onSwitch
  <2>1. UNCHANGED server
    BY <1>2 DEF onSwitch
  <2>2. AllSound'
    BY <1>2, <1>ty, <2>1, ServerStays, LeaveIs, LeftSound DEF onSwitch, AllSound
  <2>3. TabType'
    BY <1>2, <1>ty, <1>ops, UsersAre DEF onSwitch, TabType, AppType, SignIn
  <2> QED
    BY <2>1, <2>2, <2>3, ServerStays DEF Types
<1>3. CASE logout
  <2>1. UNCHANGED server /\ Become(None, NoUser, requests)
    BY <1>3 DEF logout, _clear
  <2>2. /\ AppType' /\ view' \in View /\ AllSound'
        /\ token' \in {None} \cup DOMAIN owners /\ user' \in User /\ authPage' = authPage
    BY <2>1, <1>ty, <1>none, BecomeTypes DEF AllSound
  <2>3. TabType'
    BY <1>3, <1>ty, <1>ops, <2>1, <2>2 DEF logout, TabType, Outlived
  <2> QED
    BY <2>1, <2>2, <2>3, ServerStays DEF Types
<1>4. CASE Sidebar \/ OpenResults
  <2>1. PICK new \in Page, j \in {None} \cup DOMAIN jobs :
          navigate(new, j, key, requests) /\ (new = "processing" => j # None)
    BY <1>4, <1>ty DEF Sidebar, OpenResults, TabType, AppType, Page
  <2>2. UNCHANGED <<server, session, authPage, crossed, faults>> /\ Operation
    BY <1>4 DEF Sidebar, OpenResults, Calm
  <2>3. AppType' /\ view' \in View /\ AllSound'
    BY <2>1, <2>2, <1>ty, NavigateTypes DEF AllSound, TabType, AppType
  <2>4. TabType'
    BY <1>ty, <1>ops, <2>2, <2>3 DEF TabType
  <2> QED
    BY <2>2, <2>3, <2>4, ServerStays DEF Types
<1>5. CASE handleDelete \/ handleInlineRetry
  <2>1. UNCHANGED server
    BY <1>5 DEF handleDelete, handleInlineRetry, Local
  <2>2. PICK do \in {"delete", "retry"}, j \in DOMAIN jobs :
          Send([apiFetch(do, ops, token) EXCEPT !.job = j])
    <3>1. CASE handleDelete
      BY <3>1 DEF handleDelete
    <3>2. CASE handleInlineRetry
      <4>1. jobId \in DOMAIN jobs
        BY <3>2, <1>ty DEF handleInlineRetry, On, TabType, AppType
      <4> QED
        BY <3>2, <4>1 DEF handleInlineRetry
    <3> QED
      BY <1>5, <3>1, <3>2
  <2>3. Sound([apiFetch(do, ops, token) EXCEPT !.job = j])
    <3>1. apiFetch(do, ops, token) \in Request
      BY <1>ty, <1>n, AskSound DEF TabType
    <3>2. j \in 0 .. MaxJobs
      BY <1>ty, SessionAssumption DEF ServerType
    <3>3. [apiFetch(do, ops, token) EXCEPT !.job = j] \in Request
      BY <3>1, <3>2 DEF Request
    <3> QED
      BY <1>ty, <3>1, <3>3 DEF Sound, apiFetch, TabType, SignIn, Save
  <2>4. TabType'
    BY <1>5, <1>ty, <1>ops DEF handleDelete, handleInlineRetry, Local, TabType, AppType, View
  <2> QED
    BY <2>1, <2>2, <2>3, <2>4, SendTypes, ServerStays DEF Types
<1>6. CASE Type
  <2>1. UNCHANGED <<server, requests>>
    BY <1>6 DEF Type, Local
  <2>2. TabType'
    BY <1>6, <1>ty DEF Type, Local, TabType, AppType, View
  <2> QED
    BY <2>1, <2>2, <1>ty, ServerStays DEF Types, AllSound
<1>7. CASE saveProfile \/ saveCompany
  <2>1. UNCHANGED server
    BY <1>7 DEF saveProfile, saveCompany
  <2>2. PICK do \in Save, value \in 0 .. 1 :
          Send([apiFetch(do, ops, token) EXCEPT !.value = value])
    BY <1>7, <1>ty DEF saveProfile, saveCompany, Save, TabType, View
  <2>3. Sound([apiFetch(do, ops, token) EXCEPT !.value = value])
    <3>1. apiFetch(do, ops, token) \in Request
      BY <1>ty, <1>n, AskSound DEF TabType
    <3>2. [apiFetch(do, ops, token) EXCEPT !.value = value] \in Request
      BY <3>1 DEF Request
    <3> QED
      BY <1>ty, <3>1, <3>2 DEF Sound, apiFetch, TabType, SignIn, Save
  <2>4. TabType'
    BY <1>7, <1>ty, <1>ops DEF saveProfile, saveCompany, Crossing, TabType, AppType, View
  <2> QED
    BY <2>1, <2>2, <2>3, <2>4, SendTypes, ServerStays DEF Types
<1>8. CASE handleUpload
  <2>1. UNCHANGED server
    BY <1>8 DEF handleUpload, Local
  <2>2. Sound(apiFetch("upload", ops, token))
    BY <1>ty, <1>n, AskSound DEF TabType
  <2>3. TabType'
    BY <1>8, <1>ty, <1>ops DEF handleUpload, Local, TabType, AppType, View
  <2> QED
    BY <1>8, <2>1, <2>2, <2>3, SendTypes, ServerStays DEF Types, handleUpload
<1>9. CASE Reload
  <2>1. UNCHANGED server
    BY <1>9 DEF Reload
  <2>2. AppType'
    BY <1>9, <1>ty DEF Reload, StartPage, TabType, AppType, Page
  <2>3. TabType'
    BY <1>9, <1>ty, <1>ops, <2>2, UsersAre DEF Reload, Outlived, TabType, SignIn
  <2>4. \A r \in Polls(page', jobId', token) : Sound(r)
    BY <1>ty, <2>2, PollSound, <2>1 DEF Polls, AppType, TabType
  <2>5. \A r \in requests : Sound([r EXCEPT !.to = "gone"])
    BY <1>ty DEF AllSound, Sound, Request
  <2>6. AllSound'
    BY <1>9, <2>1, <2>4, <2>5, ServerStays DEF Reload, AllSound
  <2> QED
    BY <2>1, <2>3, <2>6, ServerStays DEF Types
<1>10. CASE Tick
  <2>1. UNCHANGED server
    BY <1>10 DEF Tick, Local
  <2>2. Sound(Poll(jobId, token))
    BY <1>10, <1>ty, PollSound DEF Tick, On, TabType, AppType
  <2>3. TabType'
    BY <1>10, <1>ty DEF Tick, Local, TabType, AppType
  <2> QED
    BY <1>10, <2>1, <2>2, <2>3, SendTypes, ServerStays DEF Types, Tick
<1> QED
  BY <1>1, <1>2, <1>3, <1>4, <1>5, <1>6, <1>7, <1>8, <1>9, <1>10 DEF Browser, handleLogin, handleSignup

\* An answer with what the server knew is sound.
LEMMA AnsweredSound ==
  ASSUME NEW r, Sound(r)', NEW got \in Answer,
         r.do \in SignIn => got.token \in DOMAIN owners' /\ got.user.of \in Account,
         r.do \in Save => got.user.of \in Account,
         r.do = "upload" => got.job \in DOMAIN jobs'
  PROVE  Sound([r EXCEPT !.at = "ok", !.got = got])'
<1>1. r \in Request
  BY DEF Sound
<1> DEFINE ans == [r EXCEPT !.at = "ok", !.got = got]
<1>2. ans \in Request
  BY <1>1 DEF Request
<1>3. /\ ans.at = "ok" /\ ans.got = got
      /\ ans.do = r.do /\ ans.token = r.token /\ ans.of = r.of /\ ans.job = r.job
  BY <1>1 DEF Request
<1> HIDE DEF ans
<1>4. Sound(ans)'
  BY <1>2, <1>3 DEF Sound
<1> QED
  BY <1>4 DEF ans

\* An answer that is sound puts a sound request in the place of the one it answers.
LEMMA ReplyTypes ==
  ASSUME AllSound, Grows, NEW r \in requests, NEW at, NEW got, Reply(r, at, got),
         Sound([r EXCEPT !.at = at, !.got = got])'
  PROVE  AllSound'
<1>1. \A q \in requests : Sound(q)'
  BY SoundGrows DEF AllSound
<1> QED
  BY <1>1 DEF Reply, AllSound

\* An answer that tells nothing is sound.
LEMMA PlainTypes ==
  ASSUME AllSound, Grows, NEW r \in requests, NEW at \in {"no", "unauthorized"},
         Reply(r, at, Nothing)
  PROVE  AllSound'
<1>1. Sound(r)'
  BY SoundGrows DEF AllSound
<1>2. [r EXCEPT !.at = at, !.got = Nothing] \in Request
  BY <1>1, UsersAre DEF Sound, Request
<1>3. Sound([r EXCEPT !.at = at, !.got = Nothing])'
  BY <1>1, <1>2 DEF Sound, Request, OverFor
<1> QED
  BY <1>3, ReplyTypes

\* A session more: the sequence of owners grows by one.
LEMMA OpenGrows ==
  ASSUME Types, NEW r \in requests, NEW a \in Account, NEW p, Open(r, a, p)
  PROVE  /\ Grows /\ owners' \in Seq(Account) /\ Len(owners') <= MaxTokens
         /\ Len(owners') = Len(owners) + 1 /\ owners'[Len(owners')] = a
         /\ DOMAIN owners' = DOMAIN owners \cup {Len(owners')}
<1>1. owners \in Seq(Account) /\ Len(owners) < MaxTokens /\ owners' = Append(owners, a)
  BY DEF Open, Types, ServerType
<1>2. jobs' = jobs
  BY DEF Open
<1> QED
  BY <1>1, <1>2, SessionAssumption DEF Grows

LEMMA OpenTypes ==
  ASSUME Types, NEW r \in requests, r.do \in SignIn, NEW a \in Account, NEW p \in Profile,
         Open(r, a, p), DOMAIN profiles' = DOMAIN profiles \cup {a},
         \A b \in DOMAIN profiles' : profiles'[b] \in Profile
  PROVE  ServerType' /\ AllSound' /\ Grows
<1>ty. ServerType /\ AllSound
  BY DEF Types
<1>1. /\ Grows /\ owners' \in Seq(Account) /\ Len(owners') <= MaxTokens
      /\ Len(owners') = Len(owners) + 1 /\ owners'[Len(owners')] = a
      /\ DOMAIN owners' = DOMAIN owners \cup {Len(owners')}
  BY OpenGrows
<1>2. UNCHANGED <<expired, jobs>>
  BY DEF Open
<1>3. \A t \in DOMAIN owners' : owners'[t] \in DOMAIN profiles'
  BY <1>1, <1>ty DEF ServerType, Grows
<1>4. ServerType'
  BY <1>1, <1>2, <1>3, <1>ty DEF ServerType
<1>5. Len(owners) + 1 \in 0 .. MaxTokens
  BY <1>1, <1>ty, SessionAssumption DEF ServerType
<1>6. PICK got \in Answer : /\ Reply(r, "ok", got) /\ got.token = Len(owners) + 1
                            /\ got.user = _user_dict(a, p)
  <2> DEFINE got == [Nothing EXCEPT !.token = Len(owners) + 1, !.user = _user_dict(a, p)]
  <2>1. got \in Answer /\ got.token = Len(owners) + 1 /\ got.user = _user_dict(a, p)
    BY <1>5, UsersAre DEF Answer, Nothing
  <2> QED
    BY <2>1 DEF Open
<1>7. Sound(r)' /\ r \in Request
  BY <1>1, <1>ty, SoundGrows DEF AllSound, Sound
<1>8. got.token \in DOMAIN owners' /\ got.user.of = a
  BY <1>1, <1>6, <1>ty, UsersAre DEF ServerType
<1>9. Sound([r EXCEPT !.at = "ok", !.got = got])'
  BY <1>6, <1>7, <1>8, AnsweredSound DEF SignIn, Save
<1>10. AllSound'
  BY <1>1, <1>6, <1>9, <1>ty, ReplyTypes
<1> QED
  BY <1>1, <1>4, <1>10

LEMMA ServeTypes == ASSUME Types, NEW r \in requests, Serve(r) PROVE ServerType' /\ AllSound' /\ Grows
<1>ty. ServerType /\ AllSound /\ Sound(r)
  BY DEF Types, AllSound
<1>req. r \in Request
  BY <1>ty DEF Sound
<1>1. CASE Refuse(r) \/ SignInRefused(r) \/ Declined(r)
  <2>1. UNCHANGED server /\ \E at \in {"no", "unauthorized"} : Reply(r, at, Nothing)
    BY <1>1 DEF Refuse, SignInRefused, Declined
  <2> QED
    BY <2>1, <1>ty, UnchangedGrows, PlainTypes, ServerStays
<1>2. CASE signup(r)
  <2> DEFINE p == [name |-> 0, company |-> 0]
  <2>1. /\ r.of \in Account /\ p \in Profile /\ r.do \in SignIn /\ Open(r, r.of, p)
        /\ profiles' = [a \in DOMAIN profiles \cup {r.of} |-> IF a = r.of THEN p ELSE profiles[a]]
    BY <1>2, <1>ty DEF signup, Sound, Profile, SignIn
  <2>2. /\ DOMAIN profiles' = DOMAIN profiles \cup {r.of}
        /\ \A b \in DOMAIN profiles' : profiles'[b] \in Profile
    BY <2>1, <1>ty DEF ServerType
  <2> QED
    BY <2>1, <2>2, OpenTypes
<1>3. CASE login(r)
  <2>1. /\ r.of \in Account /\ profiles[r.of] \in Profile /\ r.do \in SignIn
        /\ Open(r, r.of, profiles[r.of]) /\ profiles' = profiles /\ r.of \in DOMAIN profiles
    BY <1>3, <1>ty DEF login, ServerType, SignIn
  <2>2. /\ DOMAIN profiles' = DOMAIN profiles \cup {r.of}
        /\ \A b \in DOMAIN profiles' : profiles'[b] \in Profile
    BY <2>1, <1>ty DEF ServerType
  <2> QED
    BY <2>1, <2>2, OpenTypes
<1>4. CASE update_profile(r)
  <2> DEFINE a   == owners[r.token]
             new == IF r.do = "saveName" THEN [profiles[a] EXCEPT !.name = r.value]
                                         ELSE [profiles[a] EXCEPT !.company = r.value]
  <2>1. /\ r.do \in Save /\ r.token # None /\ profiles' = [profiles EXCEPT ![a] = new]
        /\ Reply(r, "ok", [Nothing EXCEPT !.user = _user_dict(a, new)])
        /\ UNCHANGED <<owners, expired, jobs>>
    BY <1>4 DEF update_profile, Allowed, Answered
  <2>2. a \in Account /\ a \in DOMAIN profiles /\ profiles[a] \in Profile
    BY <2>1, <1>ty DEF Sound, ServerType
  <2>3. new \in Profile
    BY <2>2, <1>req DEF Profile, Request
  <2>4. Grows
    BY <2>1 DEF Grows
  <2>5. DOMAIN profiles' = DOMAIN profiles /\ \A b \in DOMAIN profiles' : profiles'[b] \in Profile
    BY <2>1, <2>2, <2>3, <1>ty DEF ServerType
  <2>6. ServerType'
    BY <2>1, <2>5, <1>ty DEF ServerType
  <2>7. PICK got \in Answer : Reply(r, "ok", got) /\ got.user.of \in Account
    <3> DEFINE got == [Nothing EXCEPT !.user = _user_dict(a, new)]
    <3>1. got \in Answer /\ got.user.of = a
      BY <2>2, <2>3, UsersAre DEF Answer, Nothing
    <3> QED
      BY <2>1, <2>2, <3>1
  <2>8. Sound(r)'
    BY <2>4, <1>ty, SoundGrows
  <2>9. Sound([r EXCEPT !.at = "ok", !.got = got])'
    BY <2>1, <2>7, <2>8, AnsweredSound DEF SignIn, Save
  <2> QED
    BY <2>4, <2>6, <2>7, <2>9, <1>ty, ReplyTypes
<1>5. CASE upload_files(r)
  <2> DEFINE job == [owner |-> owners[r.token], at |-> "running"]
  <2>1. /\ r.do = "upload" /\ r.token # None /\ Len(jobs) < MaxJobs /\ jobs' = Append(jobs, job)
        /\ Reply(r, "ok", [Nothing EXCEPT !.job = Len(jobs) + 1])
        /\ UNCHANGED <<profiles, owners, expired>>
    BY <1>5 DEF upload_files, Allowed
  <2>2. job \in Job
    BY <2>1, <1>ty DEF Sound, ServerType, Job
  <2>3. /\ jobs' \in Seq(Job) /\ Len(jobs') = Len(jobs) + 1 /\ Len(jobs') <= MaxJobs
        /\ DOMAIN jobs \subseteq DOMAIN jobs' /\ Len(jobs) + 1 \in DOMAIN jobs'
        /\ \A j \in DOMAIN jobs : jobs'[j] = jobs[j]
    BY <2>1, <2>2, <1>ty, SessionAssumption DEF ServerType
  <2>4. Grows /\ ServerType'
    BY <2>1, <2>3, <1>ty DEF Grows, ServerType
  <2>5. Len(jobs) + 1 \in 0 .. MaxJobs
    BY <2>3, <1>ty, SessionAssumption DEF ServerType
  <2>6. PICK got \in Answer : Reply(r, "ok", got) /\ got.job \in DOMAIN jobs'
    <3> DEFINE got == [Nothing EXCEPT !.job = Len(jobs) + 1]
    <3>1. got \in Answer /\ got.job = Len(jobs) + 1
      BY <2>5, UsersAre DEF Answer, Nothing
    <3> QED
      BY <2>1, <2>3, <3>1
  <2>7. Sound(r)'
    BY <2>4, <1>ty, SoundGrows
  <2>8. Sound([r EXCEPT !.at = "ok", !.got = got])'
    BY <2>1, <2>6, <2>7, AnsweredSound DEF SignIn, Save
  <2> QED
    BY <2>4, <2>6, <2>8, <1>ty, ReplyTypes
<1>6. CASE get_status(r)
  <2>1. UNCHANGED server /\ r.do = "poll" /\ r.token # None
    BY <1>6 DEF get_status, Allowed
  <2>2. Grows /\ ServerType' /\ Sound(r)'
    BY <2>1, UnchangedGrows, ServerStays, <1>ty
  <2>3. CASE OverFor(r.job, r.token) /\ Reply(r, "missing", Nothing)
    <3>1. [r EXCEPT !.at = "missing", !.got = Nothing] \in Request
      BY <1>req, UsersAre DEF Request
    <3>2. Sound([r EXCEPT !.at = "missing", !.got = Nothing])'
      BY <1>req, <2>1, <2>2, <2>3, <3>1 DEF Sound, Request, SignIn, OverFor
    <3> QED
      BY <2>2, <2>3, <3>2, <1>ty, ReplyTypes
  <2>4. CASE Reply(r, "ok", [Nothing EXCEPT !.ended = jobs[r.job].at = "ended"])
    <3>1. PICK got \in Answer : Reply(r, "ok", got)
      <4>1. [Nothing EXCEPT !.ended = jobs[r.job].at = "ended"] \in Answer
        BY UsersAre DEF Answer, Nothing
      <4> QED
        BY <2>4, <4>1
    <3>2. Sound([r EXCEPT !.at = "ok", !.got = got])'
      BY <2>1, <2>2, <3>1, AnsweredSound DEF SignIn, Save
    <3> QED
      BY <2>2, <3>1, <3>2, <1>ty, ReplyTypes
  <2> QED
    BY <1>6, <2>2, <2>3, <2>4 DEF get_status, OverFor
<1>7. CASE delete_job(r) \/ retry_job(r)
  <2>1. /\ r.do \in {"delete", "retry"} /\ UNCHANGED <<profiles, owners, expired>> /\ r.job \in DOMAIN jobs
        /\ \/ jobs' = jobs
           \/ jobs' = [jobs EXCEPT ![r.job].at = "gone"]
           \/ jobs[r.job].at # "gone" /\ jobs' = [jobs EXCEPT ![r.job].at = "running"]
        /\ \E at \in {"no", "ok"} : Reply(r, at, Nothing)
    BY <1>7, <1>ty DEF delete_job, retry_job, Sound
  <2>2. /\ jobs' \in Seq(Job) /\ Len(jobs') = Len(jobs) /\ DOMAIN jobs' = DOMAIN jobs
        /\ \A j \in DOMAIN jobs : /\ jobs'[j].owner = jobs[j].owner
                                  /\ jobs[j].at = "gone" => jobs'[j].at = "gone"
    <3>0. jobs \in Seq(Job) /\ r.job \in 1 .. Len(jobs)
      BY <2>1, <1>ty DEF ServerType
    <3>1. /\ [jobs[r.job] EXCEPT !.at = "gone"] \in Job
          /\ [jobs[r.job] EXCEPT !.at = "running"] \in Job
      <4>1. jobs[r.job] \in Job
        BY <3>0
      <4> QED
        BY <4>1 DEF Job
    <3> QED
      BY <2>1, <3>0, <3>1, ExceptSeq DEF Job
  <2>3. Grows /\ ServerType'
    BY <2>1, <2>2, <1>ty DEF Grows, ServerType
  <2>4. Sound(r)'
    BY <2>3, <1>ty, SoundGrows
  <2>5. \A at \in {"no", "ok"} : [r EXCEPT !.at = at, !.got = Nothing] \in Request
    BY <1>req, UsersAre DEF Request
  <2>6. \A at \in {"no", "ok"} : Sound([r EXCEPT !.at = at, !.got = Nothing])'
    BY <1>req, <2>1, <2>4, <2>5 DEF Sound, Request, SignIn, Save
  <2> QED
    BY <2>1, <2>3, <2>6, <1>ty, ReplyTypes
<1> QED
  BY <1>1, <1>2, <1>3, <1>4, <1>5, <1>6, <1>7 DEF Serve

LEMMA ServeKeepsTypes == ASSUME Types, NEW r \in requests, Serve(r) PROVE Types'
<1>1. ServerType' /\ AllSound' /\ Grows
  BY ServeTypes
<1>2. TabType'
  <2>1. TabType /\ UNCHANGED <<session, app, view, ops, faults>>
    BY DEF Types, Serve
  <2>2. crossed' \in BOOLEAN
    BY <2>1 DEF Serve, retry_job, StaleNews, Watching, On, TabType
  <2> QED
    BY <1>1, <2>1, <2>2 DEF TabType, AppType, Grows
<1> QED
  BY <1>1, <1>2 DEF Types

LEMMA OtherTypes ==
  ASSUME Types,
         \/ \E r \in requests : Lose(r)
         \/ \E t \in DOMAIN owners : Expire(t)
         \/ \E j \in DOMAIN jobs : JobEnds(j)
         \/ Restart
         \/ processing_complete
  PROVE  Types'
<1>ty. ServerType /\ TabType /\ AllSound
  BY DEF Types
<1>1. ASSUME NEW r \in requests, Lose(r) PROVE Types'
  <2>1. UNCHANGED server
    BY <1>1 DEF Lose
  <2>2. AllSound'
    BY <1>1, <2>1, <1>ty, UnchangedGrows, PlainTypes DEF Lose
  <2>3. TabType'
    BY <1>1, <1>ty, SessionAssumption DEF Lose, TabType, AppType
  <2> QED
    BY <2>1, <2>2, <2>3, ServerStays DEF Types
<1>2. ASSUME NEW t \in DOMAIN owners, Expire(t) PROVE Types'
  <2>1. Grows
    BY <1>2 DEF Expire, Grows
  <2>2. ServerType' /\ TabType'
    BY <1>2, <1>ty DEF Expire, ServerType, TabType, AppType
  <2>3. AllSound'
    BY <1>2, <2>1, <1>ty, SoundGrows DEF Expire, AllSound
  <2> QED
    BY <2>2, <2>3 DEF Types
<1>3. CASE (\E j \in DOMAIN jobs : JobEnds(j)) \/ Restart
  <2>0. UNCHANGED <<profiles, owners, expired, session, app, view, requests, crossed, ops, faults>>
    BY <1>3 DEF JobEnds, Restart, Elsewhere
  <2>1. /\ jobs' \in Seq(Job) /\ Len(jobs') = Len(jobs) /\ DOMAIN jobs' = DOMAIN jobs
        /\ \A i \in DOMAIN jobs : /\ jobs'[i].owner = jobs[i].owner
                                  /\ jobs[i].at = "gone" => jobs'[i].at = "gone"
    <3>0. jobs \in Seq(Job) /\ \A i \in 1 .. Len(jobs) : jobs[i] \in Job
      BY <1>ty DEF ServerType
    <3>1. ASSUME NEW j \in DOMAIN jobs, JobEnds(j)
          PROVE  /\ jobs' \in Seq(Job) /\ Len(jobs') = Len(jobs) /\ DOMAIN jobs' = DOMAIN jobs
                 /\ \A i \in DOMAIN jobs : /\ jobs'[i].owner = jobs[i].owner
                                           /\ jobs[i].at = "gone" => jobs'[i].at = "gone"
      <4>1. j \in 1 .. Len(jobs) /\ [jobs[j] EXCEPT !.at = "ended"] \in Job
        BY <3>0 DEF Job
      <4> QED
        BY <3>0, <3>1, <4>1, ExceptSeq DEF JobEnds, Job
    <3>2. CASE Restart
      <4> DEFINE new == [j \in 1 .. Len(jobs) |->
                          [jobs[j] EXCEPT !.at = IF @ = "running" THEN "interrupted" ELSE @]]
      <4>1. jobs' = new /\ Len(jobs) \in Nat
        BY <3>0, <3>2 DEF Restart
      <4>2. \A j \in 1 .. Len(jobs) : /\ new[j] \in Job /\ new[j].owner = jobs[j].owner
                                      /\ jobs[j].at = "gone" => new[j].at = "gone"
        BY <3>0 DEF Job
      <4> HIDE DEF new
      <4>3. DOMAIN new = 1 .. Len(jobs) /\ new \in Seq(Job)
        <5>1. new = [j \in 1 .. Len(jobs) |-> new[j]]
          BY DEF new
        <5> QED
          BY <4>1, <4>2, <5>1
      <4> QED
        BY <3>0, <4>1, <4>2, <4>3
    <3> QED
      BY <1>3, <3>1, <3>2
  <2>2. Grows
    BY <2>0, <2>1 DEF Grows
  <2>3. ServerType' /\ TabType'
    BY <2>0, <2>1, <1>ty DEF ServerType, TabType, AppType
  <2>4. AllSound'
    BY <2>0, <2>2, <1>ty, SoundGrows DEF AllSound
  <2> QED
    BY <2>3, <2>4 DEF Types
<1>4. CASE processing_complete
  <2>1. UNCHANGED <<server, requests>>
    BY <1>4 DEF processing_complete
  <2>2. TabType'
    BY <1>4, <1>ty DEF processing_complete, Cleared, TabType, AppType, View
  <2> QED
    BY <2>1, <2>2, <1>ty, ServerStays DEF Types, AllSound
<1> QED
  BY <1>1, <1>2, <1>3, <1>4

LEMMA DeliverTypes == ASSUME Types, NEW r \in requests, Deliver(r) PROVE Types'
<1>ty. ServerType /\ TabType /\ AllSound /\ Sound(r)
  BY DEF Types, AllSound
<1>un. UNCHANGED <<server, ops, faults>>
  BY DEF Deliver
<1>rest. \A q \in Rest(r) : Sound(q)
  BY <1>ty DEF Rest, AllSound
<1>same. requests' = Rest(r) => AllSound'
  BY <1>un, <1>rest, ServerStays DEF AllSound
<1>idle. Idle(r, view) \in View
  BY <1>ty DEF Idle, TabType, View
<1>got. r \in Request /\ r.got \in Answer /\ r.got.user \in User
  BY <1>ty DEF Sound, Request, Answer
<1>1. CASE Unauthorized(r)
  <2>1. Become(None, NoUser, Rest(r)) /\ NoUser \in User /\ crossed' \in BOOLEAN
    BY <1>1, <1>ty, UsersAre DEF Unauthorized, _clear, TabType, Outlived
  <2> QED
    BY <2>1, <1>un, <1>rest, <1>ty, BecomeTypes, ServerStays DEF Types, TabType
<1>2. CASE Refused(r) \/ Deleted(r)
  <2>1. requests' = Rest(r) /\ view' \in View /\ UNCHANGED <<session, app, crossed>>
    BY <1>2, <1>idle, <1>ty DEF Refused, Deleted, Show, Stay, TabType
  <2> QED
    BY <2>1, <1>un, <1>same, <1>ty, ServerStays DEF Types, TabType, AppType
<1>3. CASE SignedIn(r)
  <2>1. /\ Become(r.got.token, r.got.user, Rest(r)) /\ r.got.token \in DOMAIN owners
        /\ crossed' \in BOOLEAN
    BY <1>3, <1>ty DEF SignedIn, _store, TabType, Outlived, Sound
  <2> QED
    BY <2>1, <1>un, <1>rest, <1>ty, <1>got, BecomeTypes, ServerStays DEF Types, TabType
<1>4. CASE updateUser(r)
  <2>1. crossed' \in BOOLEAN
    BY <1>4, <1>ty DEF updateUser, TabType
  <2>2. CASE user = NoUser
    <3>1. Become(token, r.got.user, Rest(r))
      BY <1>4, <2>2 DEF updateUser
    <3> QED
      BY <2>1, <3>1, <1>un, <1>rest, <1>ty, <1>got, BecomeTypes, ServerStays DEF Types, TabType
  <2>3. CASE user # NoUser
    <3>1. /\ user' = r.got.user /\ requests' = Rest(r) /\ view' \in View /\ UNCHANGED <<token, app>>
      BY <1>4, <2>3, <1>idle, <1>ty DEF updateUser, TabType
    <3> QED
      BY <2>1, <3>1, <1>un, <1>same, <1>ty, <1>got, ServerStays DEF Types, TabType, AppType
  <2> QED
    BY <2>2, <2>3
<1>5. CASE Uploaded(r)
  <2>1. /\ navigate("processing", r.got.job, r.got.job, Rest(r)) /\ r.got.job \in DOMAIN jobs
        /\ UNCHANGED <<session, authPage>> /\ crossed' \in BOOLEAN
    BY <1>5, <1>ty DEF Uploaded, Sound, TabType
  <2>2. r.got.job # None /\ "processing" \in Page
    BY <2>1, <1>ty DEF ServerType, None, Page
  <2> QED
    BY <2>1, <2>2, <1>un, <1>rest, <1>ty, NavigateTypes, ServerStays DEF Types, TabType
<1>6. CASE Missing(r)
  <2>1. /\ navigate("dashboard", jobId, None, Rest(r)) /\ "dashboard" \in Page
        /\ UNCHANGED <<session, authPage>> /\ crossed' \in BOOLEAN
    BY <1>6, <1>ty DEF Missing, Cleared, Strays, TabType, Page
  <2> QED
    BY <2>1, <1>un, <1>rest, <1>ty, NavigateTypes, ServerStays DEF Types, TabType, AppType
<1>7. CASE Polled(r)
  <2>1. /\ requests' = Rest(r) /\ view' \in View /\ UNCHANGED <<session, page, jobId, authPage>>
        /\ key' \in {key, None} /\ crossed' \in BOOLEAN
    BY <1>7, <1>ty DEF Polled, Stay, Cleared, Strays, TabType, View
  <2> QED
    BY <2>1, <1>un, <1>same, <1>ty, ServerStays DEF Types, TabType, AppType
<1>8. CASE Dropped(r)
  <2>1. requests' = Rest(r) /\ UNCHANGED <<session, app, view, crossed>>
    BY <1>8 DEF Dropped
  <2> QED
    BY <2>1, <1>un, <1>same, <1>ty, ServerStays DEF Types, TabType, AppType
<1>9. CASE Retried(r)
  <2>1. AppType' /\ view' \in View /\ UNCHANGED <<session, authPage, crossed>>
    BY <1>9, <1>un, <1>ty DEF Retried, Affirmed, TabType, AppType, View
  <2>2. \A p \in Polls(page, jobId, token) : Sound(p)
    <3>1. page = "processing" => jobId \in DOMAIN jobs
      BY <1>ty DEF TabType, AppType
    <3> QED
      BY <1>ty, <3>1, PollSound DEF Polls, TabType
  <2>3. \A q \in Rest(r) : Sound(q) /\ Sound([q EXCEPT !.to = "left"]) /\ [q EXCEPT !.to = q.to] = q
    BY <1>rest DEF Sound, Request
  <2>4. AllSound'
    <3>0. \A q \in Rest(r) : [q EXCEPT !.to = q.to] = q
      BY <2>3
    <3>1. \A a \in requests' : \/ a \in Rest(r) \/ a \in Polls(page, jobId, token)
                               \/ \E q \in Rest(r) : a = [q EXCEPT !.to = "left"]
      BY <1>9, <3>0 DEF Retried
    <3> QED
      BY <3>1, <2>2, <2>3, <1>un, ServerStays DEF AllSound
  <2> QED
    BY <2>1, <2>4, <1>un, <1>ty, ServerStays DEF Types, TabType
<1> QED
  BY <1>1, <1>2, <1>3, <1>4, <1>5, <1>6, <1>7, <1>8, <1>9 DEF Deliver

LEMMA InitTypes == Init => Types
<1> SUFFICES ASSUME Init PROVE Types
  OBVIOUS
<1>1. 1 \in Account /\ 1 \in Nat /\ MaxTokens >= 1 /\ MaxJobs >= 1
  BY SessionAssumption DEF Account
<1>2. DOMAIN profiles = {1} /\ profiles[1] \in Profile
  BY DEF Init, Profile
<1>3. owners = <<1>> /\ owners \in Seq(Account) /\ DOMAIN owners = {1} /\ owners[1] = 1
  BY <1>1 DEF Init
<1>4. /\ jobs = <<[owner |-> 1, at |-> "running"]>> /\ jobs \in Seq(Job) /\ Len(jobs) = 1
      /\ DOMAIN jobs = {1}
  BY <1>1 DEF Init, Job
<1>5. ServerType
  BY <1>1, <1>2, <1>3, <1>4 DEF Init, ServerType
<1>6. user \in User
  BY <1>1, SessionAssumption DEF Init, User, NoUser, None
<1>7. AppType
  BY <1>4 DEF Init, AppType, StartPage, Page, None
<1>8. TabType
  <2>1. token \in {None} \cup DOMAIN owners /\ view \in View
    BY <1>3, <1>6, UsersAre DEF Init
  <2>2. 0 \in 0 .. MaxOps /\ 0 \in 0 .. MaxFaults
    BY SessionAssumption
  <2>3. authPage \in SignIn /\ crossed \in BOOLEAN /\ ops = 0 /\ faults = 0
    BY DEF Init, SignIn
  <2> QED
    BY <1>6, <1>7, <2>1, <2>2, <2>3 DEF TabType
<1>9. AllSound
  BY <1>5, <1>7, <1>8, PollSound DEF Init, AllSound, Polls, AppType, TabType
<1> QED
  BY <1>5, <1>8, <1>9 DEF Types

LEMMA NextTypes == Types /\ [Next]_vars => Types'
<1> SUFFICES ASSUME Types, [Next]_vars PROVE Types'
  OBVIOUS
<1>1. CASE UNCHANGED vars
  <2>1. UNCHANGED server /\ TabType' /\ requests' = requests
    BY <1>1 DEF vars, Types, TabType, AppType
  <2> QED
    BY <2>1, ServerStays DEF Types, AllSound
<1>2. CASE Next
  BY <1>2, BrowserTypes, ServeKeepsTypes, DeliverTypes, OtherTypes DEF Next
<1> QED
  BY <1>1, <1>2

\* The tab's state is well typed in every reachable state: the page that watches a job has
\* one, a token that is stored was issued, and what every late answer does is defined.
THEOREM TypeCorrect == Spec => []TypeOK
  BY InitTypes, NextTypes, TypesAreTypeOK, PTL DEF Spec

-----------------------------------------------------------------------------
(* The account and the profile the tab shows.  UserAgrees is about states   *)
(* with nothing under way; the invariant says what a save or a sign-in that *)
(* is under way will bring, and that there is one of them at a time.        *)

\* What the server has of the account of session t.
Of(t) == _user_dict(owners[t], profiles[owners[t]])

Talk == Save \cup SignIn

OneSave   == \A r, q \in requests : r.do \in Save /\ q.do \in Save => r = q
OneSignIn == \A r, q \in requests : r.do \in SignIn /\ q.do \in SignIn => r = q

\* Whoever signs in is not signed in; whoever saves is, in the session that is saved.
OwnRequests ==
  /\ \A r \in requests : r.do \in Save => r.token = token /\ token # None /\ r.to # "gone"
  /\ \A r \in requests : r.do \in SignIn => token = None

\* An answer under way says what the server has.
TrueAnswers ==
  /\ \A r \in requests : r.do \in Save /\ r.at = "ok" => r.got.user = Of(token)
  /\ \A r \in requests : r.do \in SignIn /\ r.at = "ok" => r.got.user = Of(r.got.token)

Shown ==
  /\ (token = None) <=> (user = NoUser)
  /\ (token # None /\ ~\E r \in requests : r.do \in Save /\ r.at = "ok") => user = Of(token)

Agree == OneSave /\ OneSignIn /\ OwnRequests /\ TrueAnswers /\ Shown

LEMMA TalkIs ==
  /\ Talk = {"login", "signup", "saveName", "saveCompany"} /\ Save \cap SignIn = {}
  /\ Save \subseteq Talk /\ SignIn \subseteq Talk
  BY DEF Talk, Save, SignIn

\* A request that goes on is the same to everyone but its page.
Same(a, q) ==
  /\ a.do = q.do /\ a.token = q.token /\ a.at = q.at /\ a.got = q.got
  /\ q.to # "gone" => a.to # "gone"

LEMMA LeftSame == ASSUME NEW r, Sound(r) PROVE Same(LeftBy(r), r)
<1>1. r \in Request
  BY DEF Sound
<1>2. PICK to \in {"page", "left", "spent", "gone"} :
        LeftBy(r) = [r EXCEPT !.to = to] /\ (r.to # "gone" => to # "gone")
  BY LeftSound
<1> QED
  BY <1>1, <1>2 DEF Same, Request

\* The talk that goes on is the talk of S.
Kept(S) == S \subseteq requests' /\ \A a \in requests' : a.do \in Talk => a \in S

\* Pages are left and requests of other kinds are sent: the talk of rest goes on.
LEMMA TalkGoesOn ==
  ASSUME AllSound, OneSave, OneSignIn, NEW rest \in SUBSET requests,
         Kept(rest) \/ Kept(Leave(rest))
  PROVE  /\ \A a \in requests' : a.do \in Talk => \E q \in rest : Same(a, q)
         /\ \A q \in rest : q.do \in Talk => \E a \in requests' : Same(a, q)
         /\ OneSave' /\ OneSignIn'
<1>1. CASE Kept(rest)
  <2>1. \A q : Same(q, q)
    BY DEF Same
  <2> QED
    BY <1>1, <2>1, TalkIs DEF OneSave, OneSignIn, Kept
<1>2. CASE Kept(Leave(rest))
  <2>1. \A q \in rest : LeftBy(q) \in requests' /\ Same(LeftBy(q), q)
    BY <1>2, LeaveIs, LeftSame DEF AllSound, Kept
  <2>2. \A a \in requests' : a.do \in Talk => \E q \in rest : a = LeftBy(q) /\ Same(a, q)
    BY <1>2, <2>1, LeaveIs DEF Kept
  <2>3. \A a \in requests' : a.do \in Talk => \E q \in rest : a = LeftBy(q) /\ a.do = q.do
    BY <2>2 DEF Same
  <2>4. OneSave' /\ OneSignIn'
    BY <2>3, TalkIs DEF OneSave, OneSignIn
  <2> QED
    BY <2>1, <2>2, <2>4
<1> QED
  BY <1>1, <1>2

\* Nothing happens to the session, nor to what the server has of it.
LEMMA AgreeGoesOn ==
  ASSUME Types, Agree, UNCHANGED <<session, owners, profiles>>, NEW rest \in SUBSET requests,
         \A q \in requests : q.do \in Save /\ q.at = "ok" => q \in rest,
         Kept(rest) \/ Kept(Leave(rest))
  PROVE  Agree'
<1>1. /\ \A a \in requests' : a.do \in Talk => \E q \in requests : Same(a, q)
      /\ \A q \in rest : q.do \in Talk => \E a \in requests' : Same(a, q)
      /\ OneSave' /\ OneSignIn'
  BY TalkGoesOn DEF Types, Agree
<1>2. OwnRequests'
  BY <1>1, TalkIs DEF Agree, OwnRequests, Same
<1>3. \A t : Of(t)' = Of(t)
  BY DEF Of, _user_dict
<1>4. TrueAnswers'
  <2>1. \A r \in requests' : r.do \in Save /\ r.at = "ok" => r.got.user = Of(token)
    <3> TAKE r \in requests'
    <3>1. HAVE r.do \in Save /\ r.at = "ok"
    <3>2. PICK q \in requests : Same(r, q)
      BY <1>1, <3>1, TalkIs
    <3> QED
      BY <3>1, <3>2 DEF Agree, TrueAnswers, Same
  <2>2. \A r \in requests' : r.do \in SignIn /\ r.at = "ok" => r.got.user = Of(r.got.token)
    <3> TAKE r \in requests'
    <3>1. HAVE r.do \in SignIn /\ r.at = "ok"
    <3>2. PICK q \in requests : Same(r, q)
      BY <1>1, <3>1, TalkIs
    <3> QED
      BY <3>1, <3>2 DEF Agree, TrueAnswers, Same
  <2> QED
    BY <1>3, <2>1, <2>2 DEF TrueAnswers
<1>5. Shown'
  <2>1. ASSUME ~\E a \in requests' : a.do \in Save /\ a.at = "ok"
        PROVE  ~\E q \in requests : q.do \in Save /\ q.at = "ok"
    <3> SUFFICES ASSUME NEW q \in requests, q.do \in Save, q.at = "ok" PROVE FALSE
      OBVIOUS
    <3>1. PICK a \in requests' : Same(a, q)
      BY <1>1, TalkIs
    <3> QED
      BY <2>1, <3>1 DEF Same
  <2> QED
    BY <1>3, <2>1 DEF Agree, Shown
<1> QED
  BY <1>1, <1>2, <1>4, <1>5 DEF Agree

\* A request of another kind is sent.
LEMMA SendAgrees ==
  ASSUME Types, Agree, UNCHANGED <<session, owners, profiles>>, NEW r, r.do \notin Talk, Send(r)
  PROVE  Agree'
<1>1. Kept(requests)
  BY DEF Send, Kept
<1> QED
  BY <1>1, AgreeGoesOn

LEMMA PollsAre == \A new, j, tok : \A p \in Polls(new, j, tok) : p.do \notin Talk
<1>1. \A j, tok : Poll(j, tok).do = "poll"
  BY DEF Poll, apiFetch
<1> QED
  BY <1>1, TalkIs DEF Polls

LEMMA NavigateAgrees ==
  ASSUME Types, Agree, UNCHANGED <<session, owners, profiles>>, NEW rest \in SUBSET requests,
         \A q \in requests : q.do \in Save /\ q.at = "ok" => q \in rest,
         NEW new, NEW j, NEW k, navigate(new, j, k, rest)
  PROVE  Agree'
<1>1. Kept(rest) \/ Kept(Leave(rest))
  BY PollsAre DEF navigate, Kept
<1> QED
  BY <1>1, AgreeGoesOn

\* What Become leaves of the requests.
LEMMA BecomeRequests ==
  ASSUME NEW tok, NEW usr, NEW rest, Become(tok, usr, rest)
  PROVE  Kept(rest) \/ Kept(Leave(rest))
<1>1. \/ requests' = rest
      \/ requests' = Leave(rest)
      \/ requests' = Leave(rest) \cup Polls(page, jobId, tok)
  BY DEF Become
<1> QED
  BY <1>1, PollsAre DEF Kept

\* The session ends, and no save is under way.
LEMMA ClearAgrees ==
  ASSUME Types, Agree, UNCHANGED <<owners, profiles>>, NEW rest \in SUBSET requests,
         \A q \in rest : q.do \notin Save, _clear(rest)
  PROVE  Agree'
<1>1. token' = None /\ user' = NoUser
  BY DEF _clear, Become
<1>2. /\ \A a \in requests' : a.do \in Talk => \E q \in rest : Same(a, q)
      /\ OneSave' /\ OneSignIn'
  BY BecomeRequests, TalkGoesOn DEF _clear, Types, Agree
<1>3. \A a \in requests' : a.do \notin Save
  BY <1>2, TalkIs DEF Same
<1>4. \A t : Of(t)' = Of(t)
  BY DEF Of, _user_dict
<1>5. \A a \in requests' : a.do \in SignIn /\ a.at = "ok" => a.got.user = Of(a.got.token)
  <2> TAKE a \in requests'
  <2>1. HAVE a.do \in SignIn /\ a.at = "ok"
  <2>2. PICK q \in rest : Same(a, q)
    BY <2>1, <1>2, TalkIs
  <2> QED
    BY <2>1, <2>2 DEF Same, Agree, TrueAnswers
<1>6. TrueAnswers'
  BY <1>3, <1>4, <1>5 DEF TrueAnswers
<1>7. OwnRequests' /\ Shown'
  BY <1>1, <1>3 DEF OwnRequests, Shown
<1> QED
  BY <1>2, <1>6, <1>7 DEF Agree

\* A sign-in, or a save, is sent while there is none.
LEMMA AskAgrees ==
  ASSUME Types, Agree, UNCHANGED <<session, owners, profiles>>, NEW r, Send(r), r.at = "asked",
         \/ r.do \in SignIn /\ token = None /\ \A q \in requests : q.do \notin SignIn
         \/ /\ r.do \in Save /\ token # None /\ r.token = token /\ r.to # "gone"
            /\ \A q \in requests : q.do \notin Save
  PROVE  Agree'
<1>1. requests' = requests \cup {r}
  BY DEF Send
<1>2. OneSave' /\ OneSignIn'
  BY <1>1, TalkIs DEF Agree, OneSave, OneSignIn
<1>3. OwnRequests'
  BY <1>1, TalkIs DEF Agree, OwnRequests
<1>4. \A t : Of(t)' = Of(t)
  BY DEF Of, _user_dict
<1>5. TrueAnswers' /\ Shown'
  BY <1>1, <1>4 DEF Agree, TrueAnswers, Shown
<1> QED
  BY <1>2, <1>3, <1>5 DEF Agree

LEMMA BrowserAgrees == ASSUME Types, Agree, Browser, ~crossed' PROVE Agree'
<1>sh. (token = None) <=> (user = NoUser)
  BY DEF Agree, Shown
<1>1. ASSUME NEW a \in Account, handleSubmit(a), authPage \in SignIn PROVE Agree'
  <2> DEFINE ask == [apiFetch(authPage, ops, None) EXCEPT !.of = a]
  <2>1. ask.do = authPage /\ ask.at = "asked"
    BY DEF apiFetch
  <2>2. /\ Send(ask) /\ token = None /\ \A q \in requests : q.do \notin SignIn
        /\ UNCHANGED <<server, session>>
    BY <1>1, <1>sh DEF handleSubmit
  <2> HIDE DEF ask
  <2> QED
    BY <1>1, <2>1, <2>2, AskAgrees
<1>2. CASE onSwitch
  <2>1. Kept(Leave(requests)) /\ UNCHANGED <<server, session>>
    BY <1>2 DEF onSwitch, Kept
  <2> QED
    BY <2>1, AgreeGoesOn
<1>3. CASE logout
  <2>1. _clear(requests) /\ UNCHANGED server /\ \A q \in requests : q.do \notin Save
    BY <1>3 DEF logout, Outlived
  <2> QED
    BY <2>1, ClearAgrees
<1>4. CASE Sidebar \/ OpenResults
  <2>1. PICK new, j : navigate(new, j, key, requests)
    BY <1>4 DEF Sidebar, OpenResults
  <2>2. UNCHANGED <<server, session>>
    BY <1>4 DEF Sidebar, OpenResults, Calm
  <2> QED
    BY <2>1, <2>2, NavigateAgrees
<1>5. CASE handleDelete \/ handleInlineRetry
  <2>1. UNCHANGED <<server, session>>
    BY <1>5 DEF handleDelete, handleInlineRetry, Local
  <2>2. PICK do \in {"delete", "retry"} : \E j : Send([apiFetch(do, ops, token) EXCEPT !.job = j])
    BY <1>5 DEF handleDelete, handleInlineRetry
  <2>4. PICK j : Send([apiFetch(do, ops, token) EXCEPT !.job = j])
    BY <2>2
  <2>3. [apiFetch(do, ops, token) EXCEPT !.job = j].do \notin Talk
    BY TalkIs DEF apiFetch
  <2> QED
    BY <2>1, <2>3, <2>4, SendAgrees
<1>6. CASE Type
  <2>1. Kept(requests) /\ UNCHANGED <<server, session>>
    BY <1>6 DEF Type, Local, Kept
  <2> QED
    BY <2>1, AgreeGoesOn
<1>7. CASE saveProfile \/ saveCompany
  <2>1. UNCHANGED <<server, session>> /\ \A q \in requests : q.do \notin Save
    BY <1>7 DEF saveProfile, saveCompany, Crossing
  <2>2. PICK do \in Save : \E value : Send([apiFetch(do, ops, token) EXCEPT !.value = value])
    <3>1. CASE saveProfile
      BY <3>1 DEF saveProfile, Save
    <3>2. CASE saveCompany
      BY <3>2 DEF saveCompany, Save
    <3> QED
      BY <1>7, <3>1, <3>2
  <2>6. PICK value : Send([apiFetch(do, ops, token) EXCEPT !.value = value])
    BY <2>2
  <2> DEFINE ask == [apiFetch(do, ops, token) EXCEPT !.value = value]
  <2>3. ask.do = do /\ ask.at = "asked" /\ ask.token = token /\ ask.to = "page"
    BY DEF apiFetch
  <2>4. token # None
    BY <1>7, <1>sh DEF saveProfile, saveCompany, On
  <2>5. Send(ask)
    BY <2>6
  <2> HIDE DEF ask
  <2> QED
    BY <2>1, <2>3, <2>4, <2>5, AskAgrees
<1>8. CASE handleUpload
  <2>1. apiFetch("upload", ops, token).do \notin Talk
    BY TalkIs DEF apiFetch
  <2> QED
    BY <1>8, <2>1, SendAgrees DEF handleUpload, Local
<1>9. CASE Reload
  <2>1. \A q \in requests : q.do \notin Save
    BY <1>9 DEF Reload, Outlived
  <2>2. UNCHANGED <<server, session>>
    BY <1>9 DEF Reload
  <2>3. \A a \in requests' : a.do \in Talk =>
          \E q \in requests : a = [q EXCEPT !.to = "gone"] /\ a.do = q.do /\ a.at = q.at /\ a.got = q.got
    <3>1. \A q \in requests : /\ [q EXCEPT !.to = "gone"].do = q.do
                              /\ [q EXCEPT !.to = "gone"].at = q.at
                              /\ [q EXCEPT !.to = "gone"].got = q.got
      BY DEF Types, AllSound, Sound, Request
    <3>2. \A a \in requests' : \/ \E q \in requests : a = [q EXCEPT !.to = "gone"]
                               \/ a \in Polls(page', jobId', token)
      BY <1>9 DEF Reload
    <3>3. ASSUME NEW a \in requests', a.do \in Talk
          PROVE  \E q \in requests : a = [q EXCEPT !.to = "gone"]
      BY <3>2, <3>3, PollsAre
    <3> QED
      BY <3>1, <3>3
  <2>4. \A a \in requests' : a.do \notin Save
    BY <2>1, <2>3, TalkIs
  <2>5. OneSave' /\ OneSignIn' /\ OwnRequests'
    BY <2>2, <2>3, <2>4, TalkIs DEF Agree, OneSave, OneSignIn, OwnRequests
  <2>6. \A t : Of(t)' = Of(t)
    BY <2>2 DEF Of, _user_dict
  <2>7. TrueAnswers'
    BY <2>3, <2>4, <2>6, TalkIs DEF Agree, TrueAnswers
  <2>8. Shown'
    BY <2>1, <2>2, <2>4, <2>6 DEF Agree, Shown
  <2> QED
    BY <2>5, <2>7, <2>8 DEF Agree
<1>10. CASE Tick
  <2>1. Poll(jobId, token).do \notin Talk
    BY TalkIs DEF Poll, apiFetch
  <2> QED
    BY <1>10, <2>1, SendAgrees DEF Tick, Local
<1>11. ASSUME handleLogin \/ handleSignup PROVE Agree'
  BY <1>1, <1>11 DEF handleLogin, handleSignup, SignIn
<1> QED
  BY <1>2, <1>3, <1>4, <1>5, <1>6, <1>7, <1>8, <1>9, <1>10, <1>11 DEF Browser

\* The answer to a request of another kind, or an answer that tells nothing: no save is
\* answered "ok" by it, nor was.
LEMMA ReplyAgrees ==
  ASSUME Types, Agree, UNCHANGED <<session, owners, profiles>>, NEW r \in requests, NEW at, NEW got,
         Reply(r, at, got), r.do \in Talk => at \in {"no", "unauthorized"} /\ (r.do \in Save => r.at # "ok")
  PROVE  Agree'
<1> DEFINE ans == [r EXCEPT !.at = at, !.got = got]
<1>1. /\ ans.do = r.do /\ ans.token = r.token /\ ans.to = r.to /\ ans.at = at
      /\ requests' = (requests \ {r}) \cup {ans}
  BY DEF Reply, Types, AllSound, Sound, Request
<1> HIDE DEF ans
<1>2. OneSave' /\ OneSignIn'
  BY <1>1 DEF Agree, OneSave, OneSignIn
<1>3. OwnRequests'
  BY <1>1 DEF Agree, OwnRequests
<1>4. \A t : Of(t)' = Of(t)
  BY DEF Of, _user_dict
<1>5. TrueAnswers'
  BY <1>1, <1>4, TalkIs DEF Agree, TrueAnswers
<1>6. Shown'
  <2>1. ASSUME NEW q \in requests, q.do \in Save, q.at = "ok"
        PROVE  q \in requests'
    BY <1>1, <2>1, TalkIs
  <2> QED
    BY <1>4, <2>1 DEF Agree, Shown
<1> QED
  BY <1>2, <1>3, <1>5, <1>6 DEF Agree

\* A session more, while nobody saves.
LEMMA OpenAgrees ==
  ASSUME Types, Agree, UNCHANGED session, NEW r \in requests, r.do \in SignIn, NEW a \in Account,
         NEW p \in Profile, Open(r, a, p), profiles'[a] = p,
         \A b \in DOMAIN profiles : profiles'[b] = profiles[b]
  PROVE  Agree'
<1>ty. ServerType /\ TabType /\ AllSound
  BY DEF Types
<1>1. token = None /\ user = NoUser
  BY DEF Agree, OwnRequests, Shown
<1>2. \A q \in requests : q.do \notin Save /\ (q.do \in SignIn => q = r)
  BY <1>1 DEF Agree, OwnRequests, OneSignIn
<1>3. Len(owners) + 1 \in 0 .. MaxTokens /\ owners'[Len(owners) + 1] = a
  <2>1. owners' = Append(owners, a) /\ owners \in Seq(Account) /\ Len(owners) < MaxTokens
    BY <1>ty DEF Open, ServerType
  <2> QED
    BY <2>1, SessionAssumption
<1>4. PICK got \in Answer : /\ Reply(r, "ok", got) /\ got.token = Len(owners) + 1
                            /\ got.user = _user_dict(a, p)
  <2> DEFINE got == [Nothing EXCEPT !.token = Len(owners) + 1, !.user = _user_dict(a, p)]
  <2>1. got \in Answer /\ got.token = Len(owners) + 1 /\ got.user = _user_dict(a, p)
    BY <1>3, UsersAre DEF Answer, Nothing
  <2> QED
    BY <2>1 DEF Open
<1> DEFINE ans == [r EXCEPT !.at = "ok", !.got = got]
<1>5. ans.do = r.do /\ ans.got = got /\ requests' = (requests \ {r}) \cup {ans}
  BY <1>4, <1>ty DEF Reply, AllSound, Sound, Request
<1> HIDE DEF ans
<1>6. got.user = Of(got.token)'
  BY <1>3, <1>4 DEF Of
<1>7. \A q \in requests' : q.do \notin Save /\ (q.do \in SignIn => q = ans)
  BY <1>2, <1>5, TalkIs
<1> QED
  BY <1>1, <1>5, <1>6, <1>7 DEF Agree, OneSave, OneSignIn, OwnRequests, TrueAnswers, Shown

LEMMA UpdateAgrees ==
  ASSUME Types, Agree, UNCHANGED session, NEW r \in requests, r.at = "asked", update_profile(r)
  PROVE  Agree'
<1>ty. ServerType /\ TabType /\ AllSound /\ Sound(r)
  BY DEF Types, AllSound
<1> DEFINE a   == owners[r.token]
           new == IF r.do = "saveName" THEN [profiles[a] EXCEPT !.name = r.value]
                                       ELSE [profiles[a] EXCEPT !.company = r.value]
<1>1. /\ r.do \in Save /\ profiles' = [profiles EXCEPT ![a] = new]
      /\ Reply(r, "ok", [Nothing EXCEPT !.user = _user_dict(a, new)])
      /\ UNCHANGED <<owners, expired, jobs>>
  BY DEF update_profile, Answered
<1>2. r.token = token /\ token # None /\ r.to # "gone"
  BY <1>1 DEF Agree, OwnRequests
<1>3. \A q \in requests : q.do \notin SignIn /\ (q.do \in Save => q = r)
  BY <1>1, <1>2 DEF Agree, OwnRequests, OneSave
<1>4. a \in DOMAIN profiles /\ profiles[a] \in Profile
  BY <1>2, <1>ty DEF ServerType, TabType
<1>5. PICK got : Reply(r, "ok", got) /\ got.user = _user_dict(a, new)
  <2> DEFINE got == [Nothing EXCEPT !.user = _user_dict(a, new)]
  <2>1. got.user = _user_dict(a, new)
    BY DEF Nothing
  <2> HIDE DEF new
  <2> QED
    BY <1>1, <2>1
<1>6. profiles'[a] = new
  BY <1>1, <1>4
<1>7. got.user = Of(token)'
  <2> HIDE DEF new
  <2> QED
    BY <1>1, <1>2, <1>5, <1>6 DEF Of
<1> DEFINE ans == [r EXCEPT !.at = "ok", !.got = got]
<1>8. /\ ans.do = r.do /\ ans.token = r.token /\ ans.to = r.to /\ ans.at = "ok" /\ ans.got = got
      /\ requests' = (requests \ {r}) \cup {ans}
  BY <1>5, <1>ty DEF Reply, Sound, Request
<1> HIDE DEF ans, new
<1>9. /\ \A q \in requests' : q.do \notin SignIn /\ (q.do \in Save => q = ans)
      /\ ans \in requests'
  BY <1>1, <1>3, <1>8, TalkIs
<1> QED
  BY <1>1, <1>2, <1>7, <1>8, <1>9
  DEF Agree, OneSave, OneSignIn, OwnRequests, TrueAnswers, Shown

LEMMA ServeAgrees == ASSUME Types, Agree, NEW r \in requests, Serve(r) PROVE Agree'
<1>ty. ServerType /\ Sound(r) /\ r.at = "asked" /\ UNCHANGED session
  BY DEF Types, AllSound, Serve
<1>1. CASE Refuse(r) \/ SignInRefused(r) \/ Declined(r)
  <2>1. UNCHANGED server /\ \E at \in {"no", "unauthorized"} : Reply(r, at, Nothing)
    BY <1>1 DEF Refuse, SignInRefused, Declined
  <2> QED
    BY <2>1, <1>ty, ReplyAgrees
<1>2. CASE signup(r)
  <2> DEFINE p == [name |-> 0, company |-> 0]
  <2>1. /\ r.of \in Account /\ p \in Profile /\ r.do \in SignIn /\ Open(r, r.of, p)
        /\ profiles' = [a \in DOMAIN profiles \cup {r.of} |-> IF a = r.of THEN p ELSE profiles[a]]
        /\ r.of \notin DOMAIN profiles
    BY <1>2, <1>ty DEF signup, Sound, Profile, SignIn
  <2>2. profiles'[r.of] = p /\ \A b \in DOMAIN profiles : profiles'[b] = profiles[b]
    BY <2>1
  <2> QED
    BY <2>1, <2>2, <1>ty, OpenAgrees
<1>3. CASE login(r)
  <2>1. /\ r.of \in Account /\ profiles[r.of] \in Profile /\ r.do \in SignIn
        /\ Open(r, r.of, profiles[r.of]) /\ profiles' = profiles /\ r.of \in DOMAIN profiles
    BY <1>3, <1>ty DEF login, ServerType, SignIn
  <2> QED
    BY <2>1, <1>ty, OpenAgrees
<1>4. CASE update_profile(r)
  BY <1>4, <1>ty, UpdateAgrees
<1>5. CASE upload_files(r) \/ get_status(r) \/ delete_job(r) \/ retry_job(r)
  <2>1. r.do \notin Talk /\ UNCHANGED <<owners, profiles>>
    BY <1>5, TalkIs DEF upload_files, get_status, delete_job, retry_job
  <2>2. PICK at, got : Reply(r, at, got)
    BY <1>5 DEF upload_files, get_status, delete_job, retry_job
  <2> QED
    BY <2>1, <2>2, <1>ty, ReplyAgrees
<1> QED
  BY <1>1, <1>2, <1>3, <1>4, <1>5 DEF Serve

LEMMA OtherAgrees ==
  ASSUME Types, Agree, ~crossed',
         \/ \E r \in requests : Lose(r)
         \/ \E t \in DOMAIN owners : Expire(t)
         \/ \E j \in DOMAIN jobs : JobEnds(j)
         \/ Restart
         \/ processing_complete
         \/ UNCHANGED vars
  PROVE  Agree'
<1>1. ASSUME NEW r \in requests, Lose(r) PROVE Agree'
  <2>1. UNCHANGED <<server, session>> /\ Reply(r, "no", Nothing) /\ ~(r.do \in Save /\ r.at = "ok")
    BY <1>1 DEF Lose
  <2> QED
    BY <2>1, ReplyAgrees
<1>2. CASE \/ \E t \in DOMAIN owners : Expire(t)
           \/ \E j \in DOMAIN jobs : JobEnds(j)
           \/ Restart
           \/ processing_complete
           \/ UNCHANGED vars
  <2>1. UNCHANGED <<session, owners, profiles>> /\ Kept(requests)
    BY <1>2 DEF Expire, JobEnds, Restart, Elsewhere, processing_complete, vars, Kept
  <2> QED
    BY <2>1, AgreeGoesOn
<1> QED
  BY <1>1, <1>2

\* A sign-in is answered, and a save: what the answer says is what the tab shows.
LEMMA SignedInAgrees ==
  ASSUME Types, Agree, UNCHANGED <<owners, profiles>>, NEW r \in requests, SignedIn(r), ~crossed'
  PROVE  Agree'
<1>1. /\ r.at = "ok" /\ r.do \in SignIn /\ Become(r.got.token, r.got.user, Rest(r))
      /\ \A q \in Rest(r) : q.do \notin Save
  BY DEF SignedIn, _store, Outlived
<1>2. \A q \in Rest(r) : q.do \notin Talk
  BY <1>1 DEF Agree, OneSignIn, Rest, Talk
<1>3. \A q \in requests' : q.do \notin Talk
  <2>1. \A a \in requests' : a.do \in Talk => \E q \in Rest(r) : Same(a, q)
    BY <1>1, BecomeRequests, TalkGoesOn DEF Types, Agree, Rest
  <2> QED
    BY <1>2, <2>1 DEF Same
<1>4. token' = r.got.token /\ user' = r.got.user
  BY <1>1 DEF Become
<1>5. token' # None /\ user' # NoUser
  BY <1>1, <1>4 DEF Types, AllSound, Sound, ServerType, None, NoUser, Account
<1>6. user' = Of(token')
  BY <1>1, <1>4 DEF Agree, TrueAnswers
<1>7. Of(token)' = Of(token')
  BY DEF Of, _user_dict
<1> QED
  BY <1>3, <1>5, <1>6, <1>7, TalkIs
  DEF Agree, OneSave, OneSignIn, OwnRequests, TrueAnswers, Shown

LEMMA UserUpdatedAgrees ==
  ASSUME Types, Agree, UNCHANGED <<owners, profiles>>, NEW r \in requests, updateUser(r), ~crossed'
  PROVE  Agree'
<1>1. r.at = "ok" /\ r.do \in Save /\ token # None /\ r.token = token /\ r.got.user = Of(token)
  BY DEF updateUser, Agree, OwnRequests, TrueAnswers
<1>2. user # NoUser
  BY <1>1 DEF Agree, Shown
<1>3. user' = r.got.user /\ requests' = Rest(r) /\ token' = token
  BY <1>2 DEF updateUser
<1>4. \A q \in requests' : q.do \notin Talk
  BY <1>1, <1>3 DEF Agree, OneSave, OwnRequests, Rest, Talk
<1>5. user' # NoUser
  BY <1>1, <1>3 DEF Types, AllSound, Sound, None, NoUser, Account
<1>6. Of(token)' = Of(token)
  BY <1>3 DEF Of, _user_dict
<1> QED
  BY <1>1, <1>3, <1>4, <1>5, <1>6, TalkIs
  DEF Agree, OneSave, OneSignIn, OwnRequests, TrueAnswers, Shown

LEMMA DeliverAgrees == ASSUME Types, Agree, NEW r \in requests, Deliver(r), ~crossed' PROVE Agree'
<1>un. UNCHANGED server /\ Rest(r) \in SUBSET requests
  BY DEF Deliver, Rest
<1>1. CASE Unauthorized(r)
  <2>1. _clear(Rest(r)) /\ \A q \in Rest(r) : q.do \notin Save
    BY <1>1 DEF Unauthorized, Outlived
  <2> QED
    BY <2>1, <1>un, ClearAgrees
<1>2. CASE SignedIn(r)
  BY <1>2, <1>un, SignedInAgrees
<1>3. CASE updateUser(r)
  BY <1>3, <1>un, UserUpdatedAgrees
<1>4. CASE Uploaded(r) \/ Missing(r)
  <2>1. UNCHANGED session /\ \E new, j, k : navigate(new, j, k, Rest(r))
    BY <1>4 DEF Uploaded, Missing
  <2>2. r.do \notin Save
    BY <1>4 DEF Uploaded, Missing, Types, AllSound, Sound, Save
  <2> QED
    BY <2>1, <2>2, <1>un, NavigateAgrees DEF Rest
<1>5. CASE Refused(r) \/ Polled(r) \/ Deleted(r) \/ Dropped(r)
  <2>1. UNCHANGED session /\ requests' = Rest(r)
    BY <1>5 DEF Refused, Polled, Deleted, Dropped, Show, Stay
  <2>2. ~(r.do \in Save /\ r.at = "ok")
    BY <1>5 DEF Refused, Polled, Deleted, Dropped, Agree, OwnRequests, Save
  <2>3. Kept(Rest(r))
    BY <2>1 DEF Kept
  <2> QED
    BY <2>1, <2>2, <2>3, <1>un, AgreeGoesOn DEF Rest
<1>6. CASE Retried(r)
  <2> DEFINE S == {q \in Rest(r) : q.do \in Talk}
  <2>1. UNCHANGED session /\ r.do \notin Save
    BY <1>6 DEF Retried, Save
  <2>2. \A q \in Rest(r) : [q EXCEPT !.to = q.to] = q /\ [q EXCEPT !.to = "left"].do = q.do
    BY <1>un DEF Types, AllSound, Sound, Request
  <2>3. \A a \in requests' : \/ a \in Rest(r) \/ a \in Polls(page, jobId, token)
                             \/ \E q \in Rest(r) : q.do = "poll" /\ a = [q EXCEPT !.to = "left"]
    BY <1>6, <2>2 DEF Retried
  <2>4. \A q \in Rest(r) : q.do # "poll" => q \in requests'
    BY <1>6, <2>2 DEF Retried
  <2>5. Kept(S)
    BY <2>2, <2>3, <2>4, PollsAre, TalkIs DEF Kept
  <2>6. S \in SUBSET requests /\ \A q \in requests : q.do \in Save /\ q.at = "ok" => q \in S
    BY <1>un, <2>1, TalkIs DEF Rest
  <2> HIDE DEF S
  <2> QED
    BY <2>1, <2>5, <2>6, <1>un, AgreeGoesOn
<1> QED
  BY <1>1, <1>2, <1>3, <1>4, <1>5, <1>6 DEF Deliver

\* Once two sessions, forms or jobs have crossed, they have.
LEMMA CrossedStays == ASSUME Types, [Next]_vars, crossed PROVE crossed'
<1>1. CASE Browser
  BY <1>1 DEF Browser, handleLogin, handleSignup, handleSubmit, onSwitch, logout, Sidebar, Calm,
              handleDelete, Local, OpenResults, Type, saveProfile, saveCompany, Crossing,
              handleUpload, handleInlineRetry, Reload, Tick
<1>2. ASSUME NEW r \in requests, Serve(r) \/ Lose(r) \/ Deliver(r) PROVE crossed'
  <2>1. CASE Serve(r) \/ Lose(r)
    BY <2>1 DEF Serve, retry_job, Lose
  <2>2. CASE Deliver(r)
    BY <2>2 DEF Deliver, Unauthorized, Refused, SignedIn, updateUser, Uploaded, Missing, Strays,
                Polled, Deleted, Retried, Dropped
  <2> QED
    BY <1>2, <2>1, <2>2
<1>3. CASE \/ \E t \in DOMAIN owners : Expire(t)
           \/ \E j \in DOMAIN jobs : JobEnds(j)
           \/ Restart
           \/ processing_complete
           \/ UNCHANGED vars
  BY <1>3 DEF Expire, JobEnds, Restart, Elsewhere, processing_complete, vars
<1> QED
  BY <1>1, <1>2, <1>3 DEF Next

\* Until sessions, forms or jobs cross, what the tab shows and what is under way agree.
SessionInv == Types /\ (~crossed => Agree)

LEMMA InitSession == Init => SessionInv
<1> SUFFICES ASSUME Init PROVE Agree
  BY InitTypes DEF SessionInv
<1>1. \A r \in requests : r.do \notin Talk
  BY PollsAre DEF Init
<1>2. owners[1] = 1 /\ profiles[1] = [name |-> 0, company |-> 0]
  BY DEF Init
<1>3. Of(1) = [NoUser EXCEPT !.of = 1] /\ [NoUser EXCEPT !.of = None] = NoUser
  BY <1>2 DEF Of, _user_dict, NoUser
<1>4. Shown
  BY <1>3 DEF Init, Shown, NoUser, None
<1> QED
  BY <1>1, <1>4, TalkIs DEF Agree, OneSave, OneSignIn, OwnRequests, TrueAnswers

LEMMA NextSession == SessionInv /\ [Next]_vars => SessionInv'
<1> SUFFICES ASSUME SessionInv, [Next]_vars PROVE SessionInv'
  OBVIOUS
<1>1. Types /\ Types'
  BY NextTypes DEF SessionInv
<1>2. ASSUME ~crossed' PROVE Agree'
  <2>1. Agree
    BY <1>1, <1>2, CrossedStays DEF SessionInv
  <2> QED
    BY <1>1, <1>2, <2>1, BrowserAgrees, ServeAgrees, DeliverAgrees, OtherAgrees DEF Next
<1> QED
  BY <1>1, <1>2 DEF SessionInv

\* The tab shows the account its token belongs to, with the profile the server has, until
\* requests of two sessions or forms cross: _store, _clear and updateUser of AuthContext bring
\* token and user to the same account, whatever is answered, lost, expired or reloaded between.
THEOREM UserAgreesAlways == Spec => []UserAgrees
<1>1. SessionInv => UserAgrees
  BY DEF SessionInv, UserAgrees, Agree, Shown, Of
<1> QED
  BY <1>1, InitSession, NextSession, PTL DEF Spec

-----------------------------------------------------------------------------
(* The way back to a running job.                                           *)

KeyStep == (key # None /\ key' = None /\ ~crossed') => Over(key)

\* navigate and Become keep the key, or set it to the job of the page they show.
LEMMA NavigateKeeps ==
  ASSUME NEW new, NEW j, NEW k, NEW rest, navigate(new, j, k, rest), k # None,
         new = "processing" => j # None
  PROVE  key' # None
  BY DEF navigate, Affirmed

LEMMA BecomeKeeps ==
  ASSUME Types, NEW tok, NEW usr, NEW rest, Become(tok, usr, rest), key # None
  PROVE  key' # None
  BY DEF Become, Affirmed, Types, TabType, AppType

LEMMA BrowserKeeps == ASSUME Types, Browser, key # None PROVE key' # None
<1>1. CASE logout
  BY <1>1, BecomeKeeps DEF logout, _clear
<1>2. CASE Sidebar \/ OpenResults
  <2>1. PICK new, j : navigate(new, j, key, requests) /\ (new = "processing" => j # None)
    BY <1>2 DEF Sidebar, OpenResults, Types, TabType, AppType
  <2> QED
    BY <2>1, NavigateKeeps
<1>3. CASE ~(logout \/ Sidebar \/ OpenResults)
  BY <1>3 DEF Browser, handleLogin, handleSignup, handleSubmit, onSwitch, handleDelete, Local, Type,
              saveProfile, saveCompany, handleUpload, handleInlineRetry, Reload, Tick
<1> QED
  BY <1>1, <1>2, <1>3

\* An answer under way says that a job has ended.
News(r) == r.do = "poll" /\ r.got.ended

\* Until sessions, forms or jobs cross, or a retry overtakes it, the news is true: the job does
\* not run.
Told == ~crossed => \A r \in requests : News(r) => jobs[r.job].at # "running"

\* The news under way after a step was under way before it.
OldNews == \A a \in requests' : News(a) => \E q \in requests : News(q) /\ q.job = a.job

LEMMA ToldGoesOn ==
  ASSUME Types, Told, ~crossed, OldNews,
         \A j \in DOMAIN jobs : jobs'[j].at = "running" => jobs[j].at = "running"
  PROVE  Told'
<1>1. \A q \in requests : News(q) => q.job \in DOMAIN jobs
  BY DEF Types, AllSound, Sound, News
<1> QED
  BY <1>1 DEF Told, OldNews, News

\* Requests are dropped or left by their page, and requests without an answer are sent.
LEMMA NewsGoesOn ==
  ASSUME Types,
         \A a \in requests' : \/ a \in requests \/ a \in Leave(requests) \/ ~News(a)
                              \/ \E q \in requests, to \in {"page", "left", "spent", "gone"} :
                                   a = [q EXCEPT !.to = to]
  PROVE  OldNews
<1>1. \A q \in requests, to \in {"page", "left", "spent", "gone"} :
        News([q EXCEPT !.to = to]) => News(q) /\ [q EXCEPT !.to = to].job = q.job
  BY DEF Types, AllSound, Sound, Request, News
<1>2. \A a \in Leave(requests) : \E q \in requests, to \in {"page", "left", "spent", "gone"} :
                                   a = [q EXCEPT !.to = to]
  BY LeaveIs, LeftSound DEF Types, AllSound
<1> SUFFICES ASSUME NEW a \in requests', News(a)
             PROVE  \E q \in requests : News(q) /\ q.job = a.job
  BY DEF OldNews
<1>3. CASE a \in requests
  BY <1>3
<1>4. ASSUME NEW q \in requests, NEW to \in {"page", "left", "spent", "gone"}, a = [q EXCEPT !.to = to]
      PROVE  \E p \in requests : News(p) /\ p.job = a.job
  BY <1>1, <1>4
<1> QED
  BY <1>2, <1>3, <1>4

LEMMA AsksAreNoNews ==
  /\ \A do, n, tok : ~News(apiFetch(do, n, tok))
  /\ \A do, n, tok, x : /\ ~News([apiFetch(do, n, tok) EXCEPT !.of = x])
                        /\ ~News([apiFetch(do, n, tok) EXCEPT !.value = x])
                        /\ ~News([apiFetch(do, n, tok) EXCEPT !.job = x])
  /\ \A new, j, tok : \A p \in Polls(new, j, tok) : ~News(p)
  BY DEF News, apiFetch, Nothing, Polls, Poll

LEMMA LeaveLess == \A rest, all : rest \subseteq all => Leave(rest) \subseteq Leave(all)
  BY LeaveIs

LEMMA NavigateNews ==
  ASSUME Types, NEW rest \in SUBSET requests, NEW new, NEW j, NEW k, navigate(new, j, k, rest)
  PROVE  OldNews
<1>1. requests' \subseteq rest \cup Leave(rest) \cup Polls(new, j, token)
  BY DEF navigate
<1> QED
  BY <1>1, LeaveLess, AsksAreNoNews, NewsGoesOn

LEMMA BecomeNews ==
  ASSUME Types, NEW rest \in SUBSET requests, NEW tok, NEW usr, Become(tok, usr, rest)
  PROVE  OldNews
<1>1. requests' \subseteq rest \cup Leave(rest) \cup Polls(page, jobId, tok)
  BY DEF Become
<1> QED
  BY <1>1, LeaveLess, AsksAreNoNews, NewsGoesOn

LEMMA BrowserNews == ASSUME Types, Browser PROVE OldNews
<1>1. CASE logout
  BY <1>1, BecomeNews DEF logout, _clear
<1>2. CASE Sidebar \/ OpenResults
  <2>1. PICK new, j : navigate(new, j, key, requests)
    BY <1>2 DEF Sidebar, OpenResults
  <2> QED
    BY <2>1, NavigateNews
<1>3. CASE onSwitch \/ Type
  <2>1. requests' = requests \/ requests' = Leave(requests)
    BY <1>3 DEF onSwitch, Type
  <2> QED
    BY <2>1, NewsGoesOn
<1>4. CASE Reload
  <2>1. \A a \in requests' : \/ \E q \in requests : a = [q EXCEPT !.to = "gone"]
                             \/ a \in Polls(page', jobId', token)
    BY <1>4 DEF Reload
  <2> QED
    BY <2>1, AsksAreNoNews, NewsGoesOn
<1>5. CASE \/ handleLogin \/ handleSignup \/ handleDelete \/ saveProfile \/ saveCompany
           \/ handleUpload \/ handleInlineRetry \/ Tick
  <2>1. PICK r : Send(r) /\ ~News(r)
    BY <1>5, AsksAreNoNews DEF handleLogin, handleSignup, handleSubmit, handleDelete, saveProfile,
                               saveCompany, handleUpload, handleInlineRetry, Tick, Poll
  <2> QED
    BY <2>1, NewsGoesOn DEF Send
<1> QED
  BY <1>1, <1>2, <1>3, <1>4, <1>5 DEF Browser

LEMMA DeliverNews == ASSUME Types, NEW r \in requests, Deliver(r) PROVE OldNews
<1>rest. Rest(r) \in SUBSET requests
  BY DEF Rest
<1>1. CASE Unauthorized(r) \/ SignedIn(r)
  BY <1>1, <1>rest, BecomeNews DEF Unauthorized, SignedIn, _clear, _store
<1>2. CASE Uploaded(r) \/ Missing(r)
  BY <1>2, <1>rest, NavigateNews DEF Uploaded, Missing
<1>3. CASE updateUser(r)
  <2>1. CASE user = NoUser
    BY <1>3, <2>1, <1>rest, BecomeNews DEF updateUser
  <2>2. CASE user # NoUser
    <3>1. requests' = Rest(r)
      BY <1>3, <2>2 DEF updateUser
    <3> QED
      BY <3>1, <1>rest, NewsGoesOn
  <2> QED
    BY <2>1, <2>2
<1>4. CASE Refused(r) \/ Polled(r) \/ Deleted(r) \/ Dropped(r)
  <2>1. requests' = Rest(r)
    BY <1>4 DEF Refused, Polled, Deleted, Dropped, Show, Stay
  <2> QED
    BY <2>1, <1>rest, NewsGoesOn
<1>5. CASE Retried(r)
  <2>1. \A q \in Rest(r) : [q EXCEPT !.to = q.to] = q
    BY <1>rest DEF Types, AllSound, Sound, Request
  <2>2. \A a \in requests' : \/ a \in Rest(r) \/ a \in Polls(page, jobId, token)
                             \/ \E q \in Rest(r) : a = [q EXCEPT !.to = "left"]
    BY <1>5, <2>1 DEF Retried
  <2> QED
    BY <2>2, <1>rest, AsksAreNoNews, NewsGoesOn
<1> QED
  BY <1>1, <1>2, <1>3, <1>4, <1>5 DEF Deliver

\* The server tells of an end when there is one, and a retry finds no news of one.
LEMMA ServeTold == ASSUME Types, Told, NEW r \in requests, Serve(r), ~crossed' PROVE Told'
<1>r. r \in Request /\ Sound(r) /\ jobs \in Seq(Job)
  BY DEF Types, AllSound, Sound, ServerType
<1>un. ~crossed
  BY DEF Serve, retry_job
<1>all. \A q \in requests : News(q) => q.job \in DOMAIN jobs /\ jobs[q.job].at # "running"
  BY <1>un DEF Told, Types, AllSound, Sound, News
<1>ans. ASSUME NEW at, NEW got, Reply(r, at, got)
       PROVE  \A a \in requests' : a \in requests \/ (a.do = r.do /\ a.job = r.job /\ a.got = got)
  <2> DEFINE ans == [r EXCEPT !.at = at, !.got = got]
  <2>1. ans.do = r.do /\ ans.job = r.job /\ ans.got = got
    BY <1>r DEF Request
  <2>2. requests' = (requests \ {r}) \cup {ans}
    BY <1>ans DEF Reply
  <2> HIDE DEF ans
  <2>3. \A a \in requests' : a \in requests \/ a = ans
    BY <2>2
  <2> QED
    BY <2>1, <2>3
<1>1. CASE Refuse(r) \/ SignInRefused(r) \/ Declined(r) \/ get_status(r)
  <2>1. jobs' = jobs
    BY <1>1 DEF Refuse, SignInRefused, Declined, get_status
  <2>2. PICK at, got : Reply(r, at, got) /\ (got.ended => jobs[r.job].at = "ended")
    <3>1. ~Nothing.ended /\ \A b \in BOOLEAN : [Nothing EXCEPT !.ended = b].ended = b
      BY DEF Nothing
    <3>2. CASE get_status(r)
      BY <3>1, <3>2 DEF get_status
    <3>3. CASE Refuse(r) \/ SignInRefused(r) \/ Declined(r)
      <4>1. PICK at : Reply(r, at, Nothing)
        BY <3>3 DEF Refuse, SignInRefused, Declined
      <4> QED
        BY <3>1, <4>1
    <3> QED
      BY <1>1, <3>2, <3>3
  <2>3. \A a \in requests' : a \in requests \/ (a.do = r.do /\ a.job = r.job /\ a.got = got)
    BY <2>2, <1>ans
  <2>4. ASSUME NEW a \in requests', News(a) PROVE jobs[a.job].at # "running"
    <3>1. CASE a \in requests
      BY <2>4, <3>1, <1>all
    <3>2. CASE a.do = r.do /\ a.job = r.job /\ a.got = got
      BY <2>2, <2>4, <3>2 DEF News
    <3> QED
      BY <2>3, <3>1, <3>2
  <2> QED
    BY <2>1, <2>4 DEF Told, News
<1>2. CASE signup(r) \/ login(r) \/ update_profile(r) \/ upload_files(r) \/ delete_job(r)
  <2>1. r.do # "poll" /\ \E at, got : Reply(r, at, got)
    BY <1>2 DEF signup, login, Open, update_profile, upload_files, delete_job, SignIn, Save
  <2>2. \A j \in DOMAIN jobs : jobs'[j].at = "running" => jobs[j].at = "running"
    <3>1. CASE signup(r) \/ login(r) \/ update_profile(r)
      BY <3>1 DEF signup, login, Open, update_profile
    <3>2. CASE upload_files(r)
      <4>1. PICK new : jobs' = Append(jobs, new)
        BY <3>2 DEF upload_files
      <4>2. \A j \in DOMAIN jobs : jobs'[j] = jobs[j]
        BY <4>1, <1>r
      <4> QED
        BY <4>2
    <3>3. CASE delete_job(r)
      <4>1. jobs' = jobs \/ jobs' = [jobs EXCEPT ![r.job].at = "gone"]
        BY <3>3 DEF delete_job
      <4>2. \A j \in DOMAIN jobs : jobs[j] \in Job
        BY <1>r
      <4> QED
        BY <4>1, <4>2 DEF Job
    <3> QED
      BY <1>2, <3>1, <3>2, <3>3
  <2>3. OldNews
    <3>1. PICK at, got : Reply(r, at, got)
      BY <2>1
    <3>2. \A a \in requests' : a \in requests \/ a.do = r.do
      BY <3>1, <1>ans
    <3> QED
      BY <2>1, <3>2 DEF OldNews, News
  <2> QED
    BY <2>2, <2>3, <1>un, ToldGoesOn
<1>3. CASE retry_job(r)
  <2>1. /\ r.do = "retry" /\ Reply(r, "ok", Nothing) /\ ~StaleNews(r)
        /\ jobs' = [jobs EXCEPT ![r.job].at = "running"]
    BY <1>3 DEF retry_job
  <2>2. \A q \in requests : News(q) => q.job # r.job
    BY <2>1 DEF StaleNews, News
  <2>3. \A a \in requests' : News(a) => a \in requests
    <3>1. \A a \in requests' : a \in requests \/ a.do = r.do
      BY <2>1, <1>ans
    <3> QED
      BY <2>1, <3>1 DEF News
  <2> QED
    BY <2>1, <2>2, <2>3, <1>all DEF Told
<1> QED
  BY <1>1, <1>2, <1>3 DEF Serve

LEMMA InitTold == Init => Told
  BY AsksAreNoNews DEF Init, Told

LEMMA NextTold == Types /\ Told /\ [Next]_vars => Told'
<1> SUFFICES ASSUME Types, Told, [Next]_vars, ~crossed' PROVE Told'
  BY DEF Told
<1>un. ~crossed
  BY CrossedStays
<1>1. CASE Browser
  <2>1. jobs' = jobs
    BY <1>1 DEF Browser, handleLogin, handleSignup, handleSubmit, onSwitch, logout, Sidebar, Calm,
                handleDelete, Local, OpenResults, Type, saveProfile, saveCompany,
                handleUpload, handleInlineRetry, Reload, Tick
  <2> QED
    BY <1>1, <2>1, <1>un, BrowserNews, ToldGoesOn
<1>2. ASSUME NEW r \in requests, Deliver(r) PROVE Told'
  <2>1. jobs' = jobs
    BY <1>2 DEF Deliver
  <2> QED
    BY <1>2, <2>1, <1>un, DeliverNews, ToldGoesOn
<1>3. ASSUME NEW r \in requests, Lose(r) PROVE Told'
  <2>1. jobs' = jobs /\ requests' = (requests \ {r}) \cup {[r EXCEPT !.at = "no", !.got = Nothing]}
    BY <1>3 DEF Lose, Reply
  <2>2. ~News([r EXCEPT !.at = "no", !.got = Nothing])
    BY DEF News, Nothing, Types, AllSound, Sound, Request
  <2> QED
    BY <2>1, <2>2, <1>un, NewsGoesOn, ToldGoesOn
<1>4. CASE \/ \E t \in DOMAIN owners : Expire(t)
           \/ \E j \in DOMAIN jobs : JobEnds(j)
           \/ Restart
           \/ processing_complete
           \/ UNCHANGED vars
  <2>1. requests' = requests
    BY <1>4 DEF Expire, JobEnds, Restart, Elsewhere, processing_complete, vars
  <2>2. \A j \in DOMAIN jobs : jobs[j] \in Job
    BY DEF Types, ServerType
  <2>3. \A j \in DOMAIN jobs : jobs'[j].at = "running" => jobs[j].at = "running"
    BY <1>4, <2>2 DEF Expire, JobEnds, Restart, processing_complete, vars, Job
  <2> QED
    BY <2>1, <2>3, <1>un, NewsGoesOn, ToldGoesOn
<1> QED
  BY <1>1, <1>2, <1>3, <1>4, ServeTold DEF Next

LEMMA DeliverKeeps == ASSUME Types, Told, NEW r \in requests, Deliver(r) PROVE KeyStep
<1> SUFFICES ASSUME key # None, key' = None, ~crossed' PROVE Over(key)
  BY DEF KeyStep
<1>ty. ServerType /\ Sound(r)
  BY DEF Types, AllSound
<1>1. CASE Unauthorized(r) \/ SignedIn(r)
  BY <1>1, BecomeKeeps DEF Unauthorized, SignedIn, _clear, _store
<1>2. CASE updateUser(r)
  BY <1>2, BecomeKeeps DEF updateUser
<1>3. CASE Uploaded(r)
  <2>1. r.got.job # None
    BY <1>3, <1>ty DEF Uploaded, Sound, ServerType, None
  <2> QED
    BY <1>3, <2>1, NavigateKeeps DEF Uploaded
<1>4. CASE Missing(r)
  BY <1>4, <1>ty DEF Missing, Strays, Sound, OverFor, Over
<1>5. CASE Polled(r)
  <2>1. r.do = "poll" /\ r.got.ended /\ ~crossed /\ key = r.job
    BY <1>5 DEF Polled, Terminal, Strays, Stay
  <2> QED
    BY <2>1 DEF Told, News, Over
<1>6. CASE Refused(r) \/ Deleted(r) \/ Dropped(r)
  BY <1>6 DEF Refused, Deleted, Dropped, Show, Stay
<1>7. CASE Retried(r)
  BY <1>7, <1>ty DEF Retried, Affirmed, Types, TabType, AppType
<1> QED
  BY <1>1, <1>2, <1>3, <1>4, <1>5, <1>6, <1>7 DEF Deliver

LEMMA StepKeeps == ASSUME Types, Told, [Next]_vars PROVE KeyStep
<1>1. CASE Browser
  BY <1>1, BrowserKeeps DEF KeyStep
<1>2. CASE processing_complete
  BY <1>2 DEF processing_complete, Streamed, KeyStep, Over
<1>3. CASE \/ \E r \in requests : Serve(r) \/ Lose(r)
           \/ \E t \in DOMAIN owners : Expire(t)
           \/ \E j \in DOMAIN jobs : JobEnds(j)
           \/ Restart
           \/ UNCHANGED vars
  BY <1>3 DEF Serve, Lose, Expire, JobEnds, Restart, Elsewhere, vars, KeyStep
<1> QED
  BY <1>1, <1>2, <1>3, DeliverKeeps DEF Next

\* The key of the active job is removed only when nobody works on that job for the account that
\* is signed in: it has ended, was interrupted by a restart, was deleted or is another account's.
\* It is so through retries that make an ended job run again, unless an answer came to another
\* session or job, or the retry overtook the news of the end: finish and the 404 branch of
\* Processing act on what the server knew of the job when it answered.
THEOREM KeyKeptAlways == Spec => KeyKept
<1>1. Types /\ Told /\ [Next]_vars => [KeyStep]_vars
  BY StepKeeps
<1>2. [KeyStep]_vars <=> [(key # None /\ key' = None /\ ~crossed') => Over(key)]_vars
  BY DEF KeyStep
<1> QED
  BY <1>1, <1>2, InitTypes, NextTypes, InitTold, NextTold, PTL DEF Spec, KeyKept
=============================================================================
