----------------------------- MODULE Workbench -----------------------------
(***************************************************************************)
(* The web client, packages/web/src, of one browser: the session, the page *)
(* of a case with its task overview and the panel of one of its tabs, and  *)
(* the requests that are under way.  The answers come in any order, or not *)
(* at all.  The server is what the client can tell of it.                  *)
(*                                                                         *)
(* A behaviour stays with one tab: the tabs share the case and the session *)
(* and nothing else.  "plain" are the pages that load once and show: cases,*)
(* overview, audit, report, findings and most of the administration;       *)
(* "prompts" is its page of prompts, which is opened like a case.          *)
(***************************************************************************)
EXTENDS Naturals, Sequences, FiniteSets, SequencesExt

CONSTANTS
  Cases, Pieces,   \* the cases, and the materials each may have, or the prompts
  MaxSessions(_),  \* sessions, by tab; this and what follows bounds the model
  MaxJobs, MaxQuestions, MaxUploaded, MaxDeleted, MaxCalls,
  None

(* Nothing is neither a case, nor a material, nor a way to ask.            *)
ASSUME NoneAssumption == None \notin Cases \cup Pieces \cup {"ask", "deep"}

VARIABLES
  tab,
  \* The server.
  sessions,   \* the tokens that are good
  logins,     \* sessions opened so far
  jobs,       \* the last job of a case
  started,    \* jobs started so far
  found,      \* the job whose result a case has on disk
  there, gone, \* the materials a case has, and those that were deleted
  asked,      \* inquiries.jsonl
  posed,      \* inquiries so far
  tasks,      \* the cases that have a task run
  \* The browser.
  token,      \* sessionToken, and what sessionStorage has
  user,       \* the session whose user is shown
  restoring,  \* loading: the token that was stored is being checked
  calls,      \* the requests under way, as they were sent
  page,       \* the case whose workbench is open
  panel,      \* the state of the panel
  overview,   \* the state of TaskOverview
  crossed     \* history: an answer about a session came when it was another's turn

serverVars == <<sessions, logins, jobs, started, found, there, gone, asked, posed, tasks>>
sessionVars == <<token, user, restoring>>
clientVars == <<tab, serverVars, sessionVars, calls, page, panel, overview, crossed>>

Tabs == {"jobs", "materials", "inquiry", "tasks", "prompts", "plain"}
NoJob == [id |-> 0, state |-> "none", case |-> None]
JobEnded == {"done", "error", "cancelled"}

(* The state of a panel that has just been mounted.                        *)
Jobs0 ==
  [job |-> NoJob, timer |-> FALSE, notified |-> 0, jobError |-> FALSE, list |-> 0,
   listError |-> FALSE, followed |-> 0, mounted |-> FALSE, overtaken |-> FALSE,
   late |-> FALSE, outdated |-> FALSE]
Materials0 ==
  [listed |-> FALSE, active |-> None, content |-> None, working |-> {},
   strayed |-> FALSE, failed |-> FALSE]
Prompts0 == [listed |-> FALSE, active |-> None, content |-> None, draft |-> None, working |-> {}]
Inquiry0 == [history |-> <<>>, live |-> None, told |-> {}, overlapped |-> FALSE]
Fresh ==
  CASE tab = "jobs" -> Jobs0
    [] tab = "materials" -> Materials0
    [] tab = "prompts" -> Prompts0
    [] tab = "inquiry" -> Inquiry0
    [] OTHER -> None
NoOverview == [snapshot |-> None, acting |-> {}, polled |-> FALSE, strayed |-> FALSE]

(* The body of an answer has one field, named for what it is about.        *)
Failure == [error |-> "fail"]
Rejected == [error |-> "401"]
Done == [done |-> TRUE]
Ok(x) == "error" \notin DOMAIN x

(* A request has the token of the moment it is sent.  Its answer is heeded *)
(* unless what sent it is gone by then.                                    *)
Request(act, key) ==
  [act |-> act, key |-> key, case |-> page, heeded |-> TRUE, token |-> token, answer |-> None]
Room(n) == Len(calls) + n <= MaxCalls
Send(act, key) == Room(1) /\ calls' = Append(calls, Request(act, key))
Without(i) == RemoveAt(calls, i)

Forget(s, acts) == [i \in DOMAIN s |-> [s[i] EXCEPT !.heeded = @ /\ s[i].act \notin acts]]

(* The stream, streamControllerRef, is aborted when its panel is unmounted *)
(* or it is stopped.  Of other requests only the answer is ignored.        *)
Streams(s) == {i \in DOMAIN s : s[i].act = "ask"}
Aborted(s) == IF Streams(s) = {} THEN s ELSE RemoveAt(s, CHOOSE i \in Streams(s) : TRUE)
Unmounted(s, kept) ==
  LET left == Aborted(s)
  IN  [i \in DOMAIN left |-> [left[i] EXCEPT !.heeded = @ /\ left[i].act \in kept]]

Leave == page' = None /\ panel' = None /\ overview' = NoOverview
Stay == UNCHANGED <<page, panel, overview, crossed>>

-----------------------------------------------------------------------------
(* The session.  A token that was stored is checked when the page is       *)
(* loaded anew.                                                            *)
SignIn ==
  /\ user = None
  /\ \A i \in DOMAIN calls : calls[i].act # "login"
  /\ Send("login", None)
  /\ UNCHANGED <<tab, serverVars, sessionVars>> /\ Stay

SignOut ==
  /\ user # None
  /\ Room(1)
  /\ calls' = Append(Unmounted(calls, {}), Request("logout", None))
  /\ token' = None /\ user' = None
  /\ Leave
  /\ UNCHANGED <<tab, serverVars, restoring, crossed>>

ChangePassword ==
  /\ user # None /\ tab = "plain" /\ page = None
  /\ Send("change", None)
  /\ UNCHANGED <<tab, serverVars, sessionVars>> /\ Stay

Reload ==
  /\ user # None
  /\ user' = None /\ restoring' = (token # None)
  /\ calls' = IF token = None THEN <<>> ELSE <<Request("me", None)>>
  /\ Leave
  /\ UNCHANGED <<tab, serverVars, token, crossed>>

(* The workbench of a case is opened.  Its panel is mounted anew, also     *)
(* when it is the one of another case: Outlet has the case as its key.  A  *)
(* mutant forgets the key.                                                 *)
Reused == panel
Mounted == Fresh

FirstRequests ==
  CASE tab = "jobs" -> <<"list", "status">>
    [] tab = "tasks" -> <<"task">>
    [] OTHER -> <<"list">>

Clicks == {"begin", "confirm", "advance"}

OpenCase ==
  \E c \in Cases \ {page} :
    /\ user # None /\ ~restoring /\ Room(Len(FirstRequests))
    /\ page' = c
    /\ panel' = IF page = None THEN Fresh ELSE Mounted
    /\ overview' = [overview EXCEPT !.polled = FALSE]
    /\ calls' = Unmounted(calls, Clicks) \o
         [i \in DOMAIN FirstRequests |-> [Request(FirstRequests[i], None) EXCEPT !.case = c]]
    /\ UNCHANGED <<tab, serverVars, sessionVars, crossed>>

LeaveCase ==
  /\ page # None
  /\ calls' = Unmounted(calls, {})
  /\ Leave
  /\ UNCHANGED <<tab, serverVars, sessionVars, crossed>>

-----------------------------------------------------------------------------
(* What the user does in a panel, and its timers.                          *)
At(t) == page # None /\ tab = t
Acts(t, act, key) == At(t) /\ Send(act, key)
PanelOnly == UNCHANGED <<tab, serverVars, sessionVars, page, overview, crossed>>

Start ==
  /\ Acts("jobs", "start", None) /\ panel.job.state # "running"
  /\ panel' = [panel EXCEPT !.timer = FALSE, !.jobError = FALSE]
  /\ PanelOnly

CancelJob ==
  /\ Acts("jobs", "cancel", None) /\ panel.job.state = "running"
  /\ panel' = [panel EXCEPT !.jobError = FALSE]
  /\ PanelOnly

Tick ==
  /\ Acts("jobs", "poll", None) /\ panel.timer
  /\ UNCHANGED panel /\ PanelOnly

(* The request for what was selected before is forgotten.                  *)
Select ==
  \E m \in Pieces :
    /\ At("materials") \/ At("prompts")
    /\ panel.listed /\ m # panel.active /\ Room(1)
    /\ tab = "prompts" \/ <<page, m>> \in there \cup gone
    /\ calls' = Append(Forget(calls, {"content"}), Request("content", m))
    /\ panel' =
         IF tab = "prompts"
           THEN [Prompts0 EXCEPT !.listed = TRUE, !.active = m, !.working = panel.working]
           ELSE [panel EXCEPT !.active = m]
    /\ PanelOnly

(* handleReindex (handleProcess is like it), handleDelete, of the material *)
(* that is shown, and handleFiles.  handleDelete goes by what was selected *)
(* when it was clicked: to "drop" is to delete what was not.               *)
WorkOn ==
  \E act \in {"reindex", "delete", "drop", "upload"}, m \in Pieces :
    /\ Acts("materials", act, m)
    /\ \/ /\ act = "upload" /\ "upload" \notin panel.working
          /\ <<page, m>> \notin there \cup gone
          /\ Cardinality(there \cup gone) < Cardinality(Cases) + MaxUploaded
       \/ /\ act # "upload" /\ m = panel.content /\ panel.working \subseteq {"upload"}
          /\ act = "delete" => m = panel.active
          /\ act = "drop" => m # panel.active
          /\ act # "reindex" => Cardinality(gone) < MaxDeleted
    /\ panel' = [panel EXCEPT !.working = @ \cup {act}]
    /\ PanelOnly

(* handleSave, and loadVersionBody for what is taken back into the draft.  *)
Edit ==
  \E act \in {"save", "version"} :
    /\ Acts("prompts", act, panel.active) /\ panel.content # None /\ act \notin panel.working
    /\ panel' = [panel EXCEPT !.working = @ \cup {act}]
    /\ PanelOnly

Pose ==
  \E act \in {"ask", "deep"} :
    /\ Acts("inquiry", act, None) /\ panel.live = None
    /\ panel' = [panel EXCEPT !.live = act]
    /\ PanelOnly

Stop ==
  /\ At("inquiry") /\ panel.live = "ask"
  /\ calls' = Aborted(calls)
  /\ panel' = [panel EXCEPT !.live = None]
  /\ PanelOnly

(* TaskOverview polls, and its buttons act on the run it shows.            *)
PollTask ==
  /\ Acts("tasks", "task", None)
  /\ UNCHANGED panel /\ PanelOnly

ActOnTask ==
  \E act \in IF overview.snapshot = None THEN {"begin"} ELSE {"confirm", "advance"} :
    /\ Acts("tasks", act, overview.snapshot) /\ act \notin overview.acting
    /\ overview' = [overview EXCEPT !.acting = @ \cup {act}]
    /\ UNCHANGED <<tab, serverVars, sessionVars, page, panel, crossed>>

-----------------------------------------------------------------------------
(* The server.  A job ends however it does; another user starts one; a     *)
(* session expires; a new process has neither jobs nor sessions.           *)
ServerOnly == UNCHANGED <<tab, logins, there, gone, asked, posed, tasks, sessionVars, calls>> /\ Stay

NewJob(c) ==
  /\ jobs[c].state # "running" /\ started < MaxJobs
  /\ started' = started + 1
  /\ jobs' = [jobs EXCEPT ![c] = [id |-> started + 1, state |-> "running", case |-> c]]

OthersStart ==
  /\ tab = "jobs"
  /\ \E c \in Cases : NewJob(c)
  /\ UNCHANGED <<sessions, found>> /\ ServerOnly

EndJob(c) ==
  /\ jobs[c].state = "running"
  /\ \E state \in JobEnded :
       /\ jobs' = [jobs EXCEPT ![c].state = state]
       /\ found' = IF state = "done" THEN [found EXCEPT ![c] = jobs[c].id] ELSE found
  /\ UNCHANGED <<sessions, started>> /\ ServerOnly

SessionExpires ==
  /\ \E t \in sessions : sessions' = sessions \ {t}
  /\ UNCHANGED <<jobs, started, found>> /\ ServerOnly

ServerRestarts ==
  /\ sessions # {}
  /\ sessions' = {}
  /\ jobs' = [c \in Cases |-> NoJob]
  /\ UNCHANGED <<started, found>> /\ ServerOnly

(* A request is served: its answer is that of the moment.                  *)
Answers(i, body) == calls' = [calls EXCEPT ![i].answer = body]

ServeSession(call, i) ==
  \/ /\ call.act = "login" /\ logins < MaxSessions(tab)
     /\ logins' = logins + 1
     /\ sessions' = sessions \cup {logins + 1}
     /\ Answers(i, [session |-> logins + 1])
  \/ /\ call.act \in {"me", "change"}
     /\ Answers(i, Done) /\ UNCHANGED <<sessions, logins>>
  \/ /\ call.act = "change"  \* a wrong current password is a 401 too
     /\ Answers(i, Rejected) /\ UNCHANGED <<sessions, logins>>
  \/ /\ call.act = "logout"
     /\ sessions' = sessions \ {call.token}
     /\ Answers(i, Done) /\ UNCHANGED logins

Listed(c) ==
  CASE tab = "jobs" -> found[c]
    [] tab = "prompts" -> Pieces
    [] tab = "materials" -> {m \in Pieces : <<c, m>> \in there}
    [] tab = "inquiry" -> asked[c]
    [] OTHER -> None

ServeJob(call, i) ==
  \/ /\ call.act = "start"
     /\ IF jobs[call.case].state = "running" THEN UNCHANGED <<jobs, started>>
                                            ELSE NewJob(call.case)
     /\ Answers(i, [job |-> jobs'[call.case]])
  \/ /\ call.act \in {"status", "poll"} /\ Answers(i, [job |-> jobs[call.case]])
     /\ UNCHANGED <<jobs, started>>
  \/ /\ call.act = "cancel" /\ Answers(i, Done) /\ UNCHANGED <<jobs, started>>

ServeMaterial(call, i) ==
  LET m == <<call.case, call.key>>
  IN
  /\ tab = "materials" /\ call.act \in {"content", "reread", "reindex", "delete", "drop", "upload"}
  /\ Answers(i, IF m \in there \/ call.act = "upload" THEN Done ELSE Failure)
  /\ there' = CASE call.act \in {"delete", "drop"} -> there \ {m}
                [] call.act = "upload" -> there \cup {m}
                [] OTHER -> there
  /\ gone' = IF call.act \in {"delete", "drop"} THEN gone \cup {m} ELSE gone

ServePrompt(call, i) ==
  tab = "prompts" /\ call.act \in {"content", "reread", "save", "version"} /\ Answers(i, Done)

ServeTask(call, i) ==
  \/ call.act = "task" /\ UNCHANGED tasks
     /\ Answers(i, [task |-> IF call.case \in tasks THEN call.case ELSE None])
  \/ call.act = "begin" /\ tasks' = tasks \cup {call.case} /\ Answers(i, [task |-> call.case])
  \/ /\ call.act \in {"confirm", "advance"} /\ UNCHANGED tasks
     /\ Answers(i, IF call.key = call.case THEN [task |-> call.case] ELSE Failure)

Serve(i) ==
  LET call == calls[i]
  IN
  /\ i \in DOMAIN calls /\ call.answer = None
  /\ \/ /\ call.act # "login" /\ call.token \notin sessions
        /\ Answers(i, Rejected) /\ UNCHANGED serverVars
     \/ /\ call.token \in sessions \/ call.act = "login"
        /\ \/ /\ ServeSession(call, i)
              /\ UNCHANGED <<jobs, started, found, there, gone, asked, posed, tasks>>
           \/ /\ \/ call.act = "list" /\ Answers(i, [list |-> Listed(call.case)])
                 \/ ServePrompt(call, i)
              /\ UNCHANGED serverVars
           \/ /\ ServeJob(call, i)
              /\ UNCHANGED <<sessions, logins, found, there, gone, asked, posed, tasks>>
           \/ /\ ServeMaterial(call, i)
              /\ UNCHANGED <<sessions, logins, jobs, started, found, asked, posed, tasks>>
           \/ /\ call.act \in {"ask", "deep"} /\ posed < MaxQuestions
              /\ posed' = posed + 1
              /\ asked' = [asked EXCEPT ![call.case] = Append(@, posed + 1)]
              /\ Answers(i, [inquiry |-> posed + 1])
              /\ UNCHANGED <<sessions, logins, jobs, started, found, there, gone, tasks>>
           \/ /\ ServeTask(call, i)
              /\ UNCHANGED <<sessions, logins, jobs, started, found, there, gone, asked, posed>>
  /\ UNCHANGED <<tab, sessionVars>> /\ Stay

-----------------------------------------------------------------------------
(* The answers.  A request or an answer that is lost is a failure.         *)
Outcome(call) == IF call.answer = None THEN Failure ELSE call.answer
Then(i, act, key) == Append(Without(i), Request(act, key))

(* Any 401 but that of a login or a logout ends the session, whoever's it  *)
(* is now.                                                                 *)
Unauthorized(i) ==
  /\ token' = None /\ user' = None
  /\ restoring' = (restoring /\ calls[i].act # "me")
  /\ calls' = Unmounted(Without(i), {})
  /\ Leave
  /\ crossed' = (crossed \/ calls[i].token # token)

InSession == {"me", "change", "login", "logout"}
SessionArrives(i, x) ==
  LET call == calls[i]
  IN
  /\ calls' = Without(i)
  /\ \/ call.act = "login" /\ token' = (IF Ok(x) THEN x.session ELSE token)
        /\ user' = (IF Ok(x) THEN x.session ELSE user) /\ UNCHANGED <<restoring, crossed>>
     \/ call.act = "logout" /\ UNCHANGED <<sessionVars, crossed>>
     \/ /\ call.act = "change"
        /\ user' = (IF Ok(x) THEN call.token ELSE user)
        /\ crossed' = (crossed \/ (Ok(x) /\ call.token # token))
        /\ UNCHANGED <<token, restoring>>
     \/ /\ call.act = "me"
        /\ restoring' = FALSE
        /\ user' = (IF Ok(x) THEN call.token ELSE user)
        /\ token' = (IF Ok(x) THEN token ELSE None)
        /\ crossed' = (crossed \/ call.token # token)
  /\ UNCHANGED <<page, panel, overview>>

(* A mutant tells of the first job only.                                   *)
FirstOnly(job) == job.state = "done" /\ panel.job.state # "done" /\ panel.notified = 0
Tells(job) == job.state = "done" /\ panel.job.state # "done" /\ panel.notified # job.id

(* The state after applyJob.  followed, mounted and overtaken are          *)
(* histories: the last job that was shown as running; the status asked for *)
(* at mounting is what is shown, and it was of no running job; it came     *)
(* when a job was shown, and none was shown as running since.              *)
Applied(job) ==
  [panel EXCEPT
     !.job = job,
     !.followed = IF job.state = "running" /\ @ < job.id THEN job.id ELSE @,
     !.mounted = FALSE,
     !.overtaken = @ /\ job.state # "running",
     !.timer = @ /\ job.state \notin JobEnded,
     !.notified = IF Tells(job) THEN job.id ELSE @,
     !.jobError = @ \/ job.state = "error"]

(* A mutant does not begin to poll.                                        *)
PollingNot(shown) == shown
Polling(shown) == [shown EXCEPT !.timer = TRUE]

JobArrives(i, x) ==
  LET call == calls[i]
      applies == Ok(x) /\ x.job # NoJob
      told == applies /\ Tells(x.job) /\ (call.act = "status" => x.job.state = "running")
  IN
  /\ call.act \in {"status", "poll", "start"}
  /\ \/ /\ ~Ok(x)
        /\ panel' = [panel EXCEPT !.timer = @ /\ call.act # "poll", !.jobError = TRUE]
     \/ /\ Ok(x) /\ ~applies /\ UNCHANGED panel
     \/ /\ applies /\ call.act = "poll"
        /\ panel' = [Applied(x.job) EXCEPT
             !.late = @ \/ ~panel.timer \/ x.job.id < panel.followed]
     \/ /\ applies /\ call.act # "poll" /\ x.job.state = "running"
        /\ panel' = Polling(Applied(x.job))
     \/ /\ applies /\ call.act = "start" /\ x.job.state # "running"
        /\ panel' = Applied(x.job)
     \/ /\ applies /\ call.act = "status" /\ x.job.state # "running"
        /\ panel' = [panel EXCEPT
             !.job = x.job,
             !.mounted = TRUE,
             !.overtaken = @ \/ panel.job # NoJob,
             !.jobError = @ \/ x.job.state = "error"]
  /\ calls' = IF told THEN Then(i, "list", None) ELSE Without(i)

CancelArrives(i, x) ==
  /\ calls[i].act = "cancel"
  /\ panel' = IF ~Ok(x) THEN [panel EXCEPT !.jobError = TRUE]
              ELSE IF panel.job.state = "running" THEN Polling(panel) ELSE panel
  /\ calls' = Without(i)

JobListArrives(i, x) ==
  /\ tab = "jobs" /\ calls[i].act = "list"
  /\ panel' = IF Ok(x) THEN [panel EXCEPT !.list = x.list, !.outdated = @ \/ x.list < panel.list]
                       ELSE [panel EXCEPT !.listError = TRUE]
  /\ calls' = Without(i)

(* The first of the list is selected if none is, and its content asked for.*)
MaterialListArrives(i, x) ==
  LET first == CHOOSE m \in x.list : TRUE
      shown == [panel EXCEPT !.listed = @ \/ Ok(x)]
  IN
  /\ tab \in {"materials", "prompts"} /\ calls[i].act = "list"
  /\ IF Ok(x) /\ panel.active = None /\ x.list # {}
       THEN panel' = [shown EXCEPT !.active = first] /\ calls' = Then(i, "content", first)
       ELSE panel' = shown /\ calls' = Without(i)

ContentArrives(i, x) ==
  LET call == calls[i]
  IN
  /\ tab = "materials" /\ call.act \in {"content", "reread"}
  /\ panel' = [panel EXCEPT
       !.content = IF Ok(x) THEN call.key ELSE @,
       !.strayed = @ \/ (Ok(x) /\ call.key # panel.active),
       !.failed = @ \/ ~Ok(x)]
  /\ calls' = Without(i)

(* An answer about a prompt that is not selected any more is dropped.      *)
PromptArrives(i, x) ==
  LET call == calls[i]
      heeds == Ok(x) /\ call.key = panel.active /\ call.act # "save"
      saved == Ok(x) /\ call.act = "save"
  IN
  /\ tab = "prompts" /\ call.act \in {"content", "reread", "save", "version"}
  /\ panel' = [panel EXCEPT
       !.content = IF heeds /\ call.act # "version" THEN call.key ELSE @,
       !.draft = IF heeds THEN call.key ELSE @,
       !.working = IF saved THEN @
                   ELSE @ \ {IF call.act = "reread" THEN "save" ELSE call.act}]
  /\ calls' = IF saved THEN Then(i, "reread", call.key) ELSE Without(i)

WorkArrives(i, x) ==
  LET call == calls[i]
      idle == [panel EXCEPT !.working = @ \ {call.act}]
      refreshed == Append(Without(i), Request("list", None))
      unselected == Forget(refreshed, {"content"})
  IN
  /\ call.act \in {"reindex", "delete", "drop", "upload"}
  /\ \/ /\ ~Ok(x) /\ panel' = idle
        /\ calls' = IF call.act = "upload" THEN refreshed ELSE Without(i)
     \/ /\ Ok(x) /\ call.act = "drop"
        /\ panel' = idle /\ calls' = refreshed
     \/ /\ Ok(x) /\ call.act = "reindex" /\ Room(1)
        /\ panel' = idle /\ calls' = Append(refreshed, Request("reread", call.key))
     \/ /\ Ok(x) /\ call.act = "delete"
        /\ panel' = [idle EXCEPT !.active = None, !.content = None] /\ calls' = unselected
     \/ /\ Ok(x) /\ call.act = "upload" /\ Room(1)
        /\ panel' = [idle EXCEPT !.active = call.key]
        /\ calls' = Append(unselected, Request("content", call.key))

InquiryArrives(i, x) ==
  LET call == calls[i]
  IN
  /\ \/ /\ call.act \in {"ask", "deep"}
        /\ panel' = [panel EXCEPT
             !.history = IF Ok(x) THEN Append(@, x.inquiry) ELSE @,
             !.told = IF Ok(x) THEN @ \cup {x.inquiry} ELSE @,
             !.live = None]
     \/ /\ tab = "inquiry" /\ call.act = "list"
        /\ panel' = IF ~Ok(x) THEN panel
                    ELSE [panel EXCEPT
                            !.history = x.list,
                            !.overlapped = @ \/ panel.live # None \/ panel.told # {}]
  /\ calls' = Without(i)

(* What polls is forgotten when the case changes, what was clicked is not. *)
TaskArrives(i, x) ==
  LET call == calls[i]
      clicked == call.act \in Clicks
  IN
  /\ call.act \in {"task"} \cup Clicks
  /\ overview' = [overview EXCEPT
       !.snapshot = IF Ok(x) THEN x.task ELSE @,
       !.acting = @ \ {call.act},
       !.polled = @ \/ (Ok(x) /\ ~clicked),
       !.strayed = IF Ok(x) THEN clicked /\ call.case # page ELSE @]
  /\ calls' = Without(i)

Arrive(i) ==
  LET call == calls[i]
  IN
  /\ i \in DOMAIN calls
  /\ \E x \in {Outcome(call), Failure} :
       IF x = Rejected /\ call.act # "logout" THEN Unauthorized(i)
       ELSE
         \/ SessionArrives(i, x)
         \/ /\ call.act \notin InSession /\ ~call.heeded
            /\ calls' = Without(i) /\ UNCHANGED sessionVars /\ Stay
         \/ /\ call.heeded /\ TaskArrives(i, x)
            /\ UNCHANGED <<sessionVars, page, panel, crossed>>
         \/ /\ call.heeded
            /\ \/ JobArrives(i, x) \/ CancelArrives(i, x) \/ JobListArrives(i, x)
               \/ MaterialListArrives(i, x) \/ ContentArrives(i, x) \/ WorkArrives(i, x)
               \/ PromptArrives(i, x) \/ InquiryArrives(i, x)
               \/ tab = "plain" /\ call.act = "list"
                  /\ calls' = Without(i) /\ UNCHANGED panel
            /\ UNCHANGED <<sessionVars, page, overview, crossed>>
  /\ UNCHANGED <<tab, serverVars>>

ClientInit ==
  /\ tab \in Tabs
  /\ sessions = {} /\ logins = 0
  /\ jobs = [c \in Cases |-> NoJob] /\ started = 0 /\ found = [c \in Cases |-> 0]
  /\ there = Cases \X {CHOOSE m \in Pieces : TRUE} /\ gone = {}
  /\ asked = [c \in Cases |-> <<>>] /\ posed = 0 /\ tasks = {}
  /\ token = None /\ user = None /\ restoring = FALSE /\ calls = <<>>
  /\ page = None /\ panel = None /\ overview = NoOverview
  /\ crossed = FALSE

ClientNext ==
  \/ SignIn \/ SignOut \/ ChangePassword \/ Reload \/ OpenCase \/ LeaveCase
  \/ Start \/ CancelJob \/ Tick \/ Select \/ WorkOn \/ Edit \/ Pose \/ Stop \/ PollTask \/ ActOnTask
  \/ OthersStart \/ SessionExpires \/ ServerRestarts
  \/ \E c \in Cases : EndJob(c)
  \/ \E i \in 1..MaxCalls : Serve(i) \/ Arrive(i)

ClientSpec == ClientInit /\ [][ClientNext]_clientVars

-----------------------------------------------------------------------------
Asking(act, key) ==
  \E i \in DOMAIN calls : calls[i].heeded /\ calls[i].act = act /\ calls[i].key = key

(* Whatever is shown is shown where it belongs, in whatever order answers  *)
(* come while the user goes from one case or one session to another: the   *)
(* user is the one of the token; the job, the task and the inquiries are   *)
(* those of the case, each inquiry once and none that was answered here    *)
(* missing; the content is that of the selected material, unless it could  *)
(* not be had; no prompt is edited or saved with the text of another.      *)
(* The exceptions: an answer about a session that is over (crossed); the   *)
(* task of the case before, which TaskOverview keeps, with its buttons,    *)
(* until a poll of this case has answered, for ever if none does (polled); *)
(* a button of TaskOverview pressed in another case (strayed); a material  *)
(* worked on while another was selected (strayed); a list of inquiries     *)
(* that comes when one is live or was answered (overlapped).               *)
ShownBelongs ==
  /\ user # None /\ ~crossed => user = token
  /\ At("tasks") => overview.snapshot \in {None, page} \/ ~overview.polled \/ overview.strayed
  /\ At("jobs") => panel.job.case \in {None, page}
  /\ At("inquiry") =>
       /\ Range(panel.history) \subseteq Range(asked[page])
       /\ \/ IsInjective(panel.history) /\ panel.told \subseteq Range(panel.history)
          \/ panel.overlapped
  /\ At("materials") =>
       \/ panel.content = panel.active \/ panel.strayed \/ panel.failed
       \/ Asking("content", panel.active)
  /\ At("prompts") =>
       /\ panel.content \in {None, panel.active}
       /\ panel.content # None => panel.draft = panel.content

(* onDone: when a job is shown as done, the list next to it has its        *)
(* results or is being fetched.  The exceptions: fetching failed, or two   *)
(* lists came in the wrong order; the job was over when the panel was      *)
(* mounted, or between the answers to the list and to the status that are  *)
(* asked for then, so that nothing is fetched again (mounted); that status *)
(* came when another job was shown already, and the end of that one is     *)
(* taken for one that is known (overtaken); the answer of a poll came when *)
(* polling had stopped, or was of an older job (late).                     *)
DoneIsListed ==
  (At("jobs") /\ panel.job.state = "done" /\ ~panel.mounted) =>
    \/ panel.list >= panel.job.id \/ Asking("list", None)
    \/ panel.listError \/ panel.outdated \/ panel.overtaken \/ panel.late

(* A job that is shown as running is being followed or cancelled, or an    *)
(* error is shown: the panel does not stay at "running" for ever.  And it  *)
(* does not lose sight of the last job it showed as running while that     *)
(* still runs.  The exceptions: the answer of a poll that comes when       *)
(* polling has stopped since it was sent, or that is of an older job than  *)
(* the one followed (late); the status asked for at mounting that comes    *)
(* when a job is shown (overtaken).                                        *)
JobIsFollowed ==
  At("jobs") =>
    /\ panel.job.state = "running" =>
         panel.timer \/ Asking("cancel", None) \/ panel.jobError \/ panel.late
    /\ jobs[page].state = "running" /\ jobs[page].id = panel.followed =>
         panel.job.state = "running" \/ panel.late \/ panel.overtaken

=============================================================================
