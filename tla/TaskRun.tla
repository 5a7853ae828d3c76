------------------------------ MODULE TaskRun -------------------------------
(***************************************************************************)
(* The guided task of one case: TaskService of                             *)
(* src/packages/server/src/task/task-service.ts.                           *)
(*                                                                         *)
(* A task stores, per stage of its template, the verdict it was advanced   *)
(* with and whether its checkpoint was confirmed.  What a stage is, done,  *)
(* active or pending, is computed from that and from the facts of the      *)
(* case, which other services change at any time and which can go back.    *)
(* Requests that change the task wait for each other in the queue of       *)
(* task-runs.json; inside it they read the facts file by file.             *)
(***************************************************************************)
EXTENDS Naturals, Sequences

CONSTANTS
  Requests,      \* the HTTP requests of a behaviour
  Creates,       \* those that ask for the creation of the task
  Template,      \* the keys of the stages, in order
  InitialFacts,  \* what the case may be like when the first request comes
  MaxChanges,    \* bound on the changes of the facts
  MaxCrashes,    \* bound on the restarts
  NoRun          \* task-runs.json holds no task; a request holds nothing

Keys ==
  {"material-ingest", "quality-check", "evidence-units", "entity-merge",
   "proposition-extraction", "contradiction-detection", "assessment",
   "report-generation", "review-export"}

Facts ==
  [materials : BOOLEAN, quality : BOOLEAN,  \* the manifest
   detection : {"none", "usable", "failed"},
   report : {"open", "approved", "exported"},
   elements : BOOLEAN, findings : BOOLEAN]

ASSUME RequestAssumption == Creates \subseteq Requests
ASSUME TemplateAssumption ==
  /\ Template \in Seq(Keys)
  /\ \A i, j \in DOMAIN Template : Template[i] = Template[j] => i = j
ASSUME FactsAssumption == InitialFacts \subseteq Facts
ASSUME BoundAssumption == MaxChanges \in Nat /\ MaxCrashes \in Nat

VARIABLES
  facts,    \* the state of the case the stages are derived from
  run,      \* task-runs.json
  pc,       \* where each request is
  copy,     \* the task a request has read in the queue, and changes
  known     \* the facts it has read so far

(* Bounds and history, which no code reads. *)
VARIABLES
  changes,   \* changes of the facts so far
  crashes,   \* restarts so far
  target,    \* the stage a request has changed in its copy
  seen,      \* the facts there were since a request entered the queue
  accepted   \* the task as the accepted requests made it, one after another

vars == <<facts, run, pc, copy, known, changes, crashes, target, seen, accepted>>

Stages == DOMAIN Template
Checkpoint(i) == Template[i] \in {"entity-merge", "contradiction-detection"}
Verdicts == {"done", "failed", "skipped"}
Runs ==
  [by : Requests, verdict : [Stages -> Verdicts \cup {"open"}],
   confirmed : SUBSET {i \in Stages : Checkpoint(i)}]

ASSUME NoRunAssumption == NoRun \notin Runs

(* The task with a verdict on one stage, and its confirmations.            *)
Decided(t, i, verdict, confirmed) ==
  [by |-> t.by, verdict |-> [t.verdict EXCEPT ![i] = verdict], confirmed |-> confirmed]

ReadPlaces == {"manifest", "detection", "report", "elements", "findings"}
QueuePlaces == {"create", "decide", "write"} \cup ReadPlaces
Ended == {"resolved", "refused", "rejected", "lost"}
Places == {"idle", "audit"} \cup QueuePlaces \cup Ended

Goto(r, place) == pc' = [pc EXCEPT ![r] = place]

(* A request that leaves the queue needs nothing it has read any more.     *)
Leave(r, place) ==
  /\ Goto(r, place)
  /\ copy' = [copy EXCEPT ![r] = NoRun]
  /\ known' = [known EXCEPT ![r] = NoRun]
  /\ target' = [target EXCEPT ![r] = 0]
  /\ seen' = [seen EXCEPT ![r] = {}]

-----------------------------------------------------------------------------
(* computeStages *)

(* derivedDone: a stage that a fact of the case completes. *)
DerivedDone(i, f) ==
  CASE Template[i] = "material-ingest" -> f.materials
    [] Template[i] = "quality-check" -> f.quality
    [] Template[i] = "evidence-units" -> f.elements
    [] Template[i] = "assessment" -> f.findings
    [] Template[i] = "report-generation" -> f.report \in {"approved", "exported"}
    [] Template[i] = "review-export" -> f.report = "exported"
    [] OTHER -> FALSE

(* checkpointReady: there is something to confirm. *)
CheckpointReady(i, f) ==
  CASE Template[i] = "entity-merge" -> f.elements
    [] Template[i] = "contradiction-detection" -> f.detection = "usable"
    [] OTHER -> FALSE

(* The status of a stage when no stage before it blocks it. *)
OwnStatus(t, i, f) ==
  IF t.verdict[i] \in {"failed", "skipped"} THEN t.verdict[i]
  ELSE IF Template[i] = "contradiction-detection" /\ f.detection = "failed" THEN "failed"
  ELSE IF Checkpoint(i) THEN (IF i \in t.confirmed THEN "done" ELSE "active")
  ELSE IF t.verdict[i] = "done" \/ DerivedDone(i, f) THEN "done"
  ELSE "active"

Passed(t, i, f) == OwnStatus(t, i, f) \in {"done", "skipped"}

(* A plausible bug, used by a mutant: only the stage in front is looked at.*)
BlockedByLast(t, i, f) == i > 1 /\ ~Passed(t, i - 1, f)

(* A stage that is neither done nor skipped blocks all that follow.        *)
Blocked(t, i, f) == \E j \in 1 .. (i - 1) : ~Passed(t, j, f)

StageStatus(t, i, f) == IF Blocked(t, i, f) THEN "pending" ELSE OwnStatus(t, i, f)

-----------------------------------------------------------------------------
Init ==
  /\ facts \in InitialFacts
  /\ run = NoRun
  /\ pc = [r \in Requests |-> "idle"]
  /\ copy = [r \in Requests |-> NoRun]
  /\ known = [r \in Requests |-> NoRun]
  /\ changes = 0
  /\ crashes = 0
  /\ target = [r \in Requests |-> 0]
  /\ seen = [r \in Requests |-> {}]
  /\ accepted = NoRun

Counters == <<changes, crashes>>
History == <<target, seen, accepted>>

-----------------------------------------------------------------------------
(* The queue of task-runs.json. *)

(* A plausible bug, used by a mutant: nobody waits. *)
NobodyWaits == TRUE

(* runExclusive: the requests in front have left the queue. *)
MyTurn == \A r \in Requests : pc[r] \notin QueuePlaces

(* mutateRun finds the task it is to change; createRun needs none. *)
Found(r) == r \in Creates \/ run # NoRun

(* A request's turn: it reads the file. *)
Enter(r) ==
  /\ pc[r] = "idle"
  /\ MyTurn
  /\ Found(r)
  /\ Goto(r, IF r \in Creates THEN "create" ELSE "manifest")
  /\ copy' = [copy EXCEPT ![r] = run]
  /\ known' = [known EXCEPT ![r] = facts]
  /\ seen' = [seen EXCEPT ![r] = {facts}]
  /\ UNCHANGED <<facts, run, Counters, target, accepted>>

(* 404: there is no task to change. *)
NoTask(r) ==
  /\ pc[r] = "idle"
  /\ MyTurn
  /\ ~Found(r)
  /\ Goto(r, "refused")
  /\ UNCHANGED <<facts, run, copy, known, Counters, History>>

(* writeFileAtomic, and the next request's turn. *)
Write(r) ==
  /\ pc[r] = "write"
  /\ run' = copy[r]
  /\ Leave(r, "audit")
  /\ accepted' =
       LET i == target[r] IN
       IF i \notin Stages
       THEN (IF accepted = NoRun THEN copy[r] ELSE accepted)
       ELSE Decided(accepted, i, copy[r].verdict[i],
                    accepted.confirmed \cup (copy[r].confirmed \cap {i}))
  /\ UNCHANGED <<facts, Counters>>

(* The change stands, the caller is told that it failed. *)
Audit(r) ==
  /\ pc[r] = "audit"
  /\ \E end \in {"resolved", "rejected"} : Goto(r, end)
  /\ UNCHANGED <<facts, run, copy, known, Counters, History>>

-----------------------------------------------------------------------------
(* createRun *)

NewRun(r) == [by |-> r, verdict |-> [i \in Stages |-> "open"], confirmed |-> {}]

Create(r) ==
  /\ pc[r] = "create"
  /\ copy[r] = NoRun
  /\ copy' = [copy EXCEPT ![r] = NewRun(r)]
  /\ Goto(r, "write")
  /\ UNCHANGED <<facts, run, known, Counters, History>>

(* The stored status is "active" for ever: the task there is is the answer.*)
AlreadyCreated(r) ==
  /\ pc[r] = "create"
  /\ copy[r] # NoRun
  /\ Leave(r, "resolved")
  /\ UNCHANGED <<facts, run, Counters, accepted>>

-----------------------------------------------------------------------------
(* advanceStage and confirmStage *)

FactsIn ==
  [manifest |-> {"materials", "quality"}, detection |-> {"detection"},
   report |-> {"report"}, elements |-> {"elements"}, findings |-> {"findings"}]

PlaceAfter ==
  [manifest |-> "detection", detection |-> "report", report |-> "elements",
   elements |-> "findings", findings |-> "decide"]

(* readFacts, one file after another. *)
ReadFacts(r) ==
  /\ pc[r] \in ReadPlaces
  /\ known' = [known EXCEPT ![r] =
                 [x \in DOMAIN @ |-> IF x \in FactsIn[pc[r]] THEN facts[x] ELSE @[x]]]
  /\ Goto(r, PlaceAfter[pc[r]])
  /\ UNCHANGED <<facts, run, copy, Counters, History>>

(* A plausible bug, used by a mutant: a failed stage counts as current.    *)
MayAdvanceFailed(t, i, v, f) ==
  /\ StageStatus(t, i, f) \in {"active", "failed"}
  /\ Checkpoint(i) => v = "failed"

(* Only the active stage, and no checkpoint is passed without its          *)
(* confirmation, which makes it done: an active one can only fail.         *)
MayAdvance(t, i, v, f) ==
  /\ StageStatus(t, i, f) = "active"
  /\ Checkpoint(i) => v # "skipped" /\ (v = "done" => i \in t.confirmed)

Change(r, i, changed) ==
  /\ copy' = [copy EXCEPT ![r] = changed]
  /\ target' = [target EXCEPT ![r] = i]
  /\ Goto(r, "write")
  /\ UNCHANGED <<facts, run, known, Counters, seen, accepted>>

Advance(r) ==
  /\ pc[r] = "decide"
  /\ \E i \in Stages, v \in Verdicts :
       /\ MayAdvance(copy[r], i, v, known[r])
       /\ Change(r, i, Decided(copy[r], i, v, copy[r].confirmed))

(* A plausible bug, used by a mutant: the order of the stages is ignored.  *)
MayConfirmUnreached(t, i, f) == Checkpoint(i) /\ CheckpointReady(i, f)

MayConfirm(t, i, f) ==
  /\ Checkpoint(i)
  /\ StageStatus(t, i, f) \in {"active", "done"}
  /\ CheckpointReady(i, f)

Confirm(r) ==
  /\ pc[r] = "decide"
  /\ \E i \in Stages :
       /\ MayConfirm(copy[r], i, known[r])
       /\ Change(r, i, Decided(copy[r], i, "done", copy[r].confirmed \cup {i}))

(* 400, 404, 409: the stage asked for is none of those above.              *)
Refuse(r) ==
  /\ pc[r] = "decide"
  /\ Leave(r, "refused")
  /\ UNCHANGED <<facts, run, Counters, accepted>>

(* A file of the case cannot be read, or the task cannot be written: the   *)
(* file stays as it is, and the next request's turn comes.                 *)
Fail(r) ==
  /\ pc[r] \in {"write"} \cup ReadPlaces
  /\ Leave(r, "rejected")
  /\ UNCHANGED <<facts, run, Counters, accepted>>

-----------------------------------------------------------------------------
(* Materials, analyses, findings and reports change; the server restarts.  *)

FactsChange ==
  /\ changes < MaxChanges
  /\ changes' = changes + 1
  /\ \E x \in DOMAIN facts, f \in Facts :
       /\ \A y \in DOMAIN facts \ {x} : f[y] = facts[y]
       /\ f # facts /\ (f.quality => f.materials)
       /\ facts' = f
  /\ seen' = [r \in Requests |-> IF seen[r] = {} THEN {} ELSE seen[r] \cup {facts'}]
  /\ UNCHANGED <<run, pc, copy, known, crashes, target, accepted>>

Restart ==
  /\ crashes < MaxCrashes
  /\ crashes' = crashes + 1
  /\ pc' = [r \in Requests |->
              IF pc[r] \in {"audit"} \cup QueuePlaces THEN "lost" ELSE pc[r]]
  /\ copy' = [r \in Requests |-> NoRun]
  /\ known' = [r \in Requests |-> NoRun]
  /\ target' = [r \in Requests |-> 0]
  /\ seen' = [r \in Requests |-> {}]
  /\ UNCHANGED <<facts, run, changes, accepted>>

Step(r) ==
  \/ Enter(r) \/ NoTask(r) \/ Create(r) \/ AlreadyCreated(r) \/ ReadFacts(r)
  \/ Advance(r) \/ Confirm(r) \/ Refuse(r) \/ Fail(r) \/ Write(r) \/ Audit(r)

Next == (\E r \in Requests : Step(r)) \/ FactsChange \/ Restart

Spec == Init /\ [][Next]_vars

-----------------------------------------------------------------------------
(* The correctness properties. *)

(* Every variable has its type; a request that writes has a task to write, *)
(* and what it confirmed is a checkpoint.                                  *)
TypeOK ==
  /\ facts \in Facts
  /\ run \in Runs \cup {NoRun}
  /\ pc \in [Requests -> Places]
  /\ copy \in [Requests -> Runs \cup {NoRun}]
  /\ known \in [Requests -> Facts \cup {NoRun}]
  /\ target \in [Requests -> Stages \cup {0}]
  /\ \A r \in Requests :
       /\ pc[r] \in {"decide", "write"} \cup ReadPlaces => copy[r] \in Runs
       /\ pc[r] \in {"decide"} \cup ReadPlaces => known[r] \in Facts

(* No creation, verdict or confirmation that was written is lost to        *)
(* another request or a crash: the file is the task the accepted requests  *)
(* made one after another.                                                 *)
NothingLost == run = accepted

(* A stage behind a checkpoint carries a verdict only if a person has      *)
(* confirmed that checkpoint, whatever became of the facts since: neither  *)
(* skipping, failing nor a changing case leads around a confirmation.      *)
CheckpointsHold ==
  run # NoRun =>
    \A i \in Stages :
      run.verdict[i] # "open" =>
        \A j \in 1 .. (i - 1) : Checkpoint(j) => j \in run.confirmed

(* The facts are read one file after another and may go back meanwhile,    *)
(* yet what a verdict or a confirmation rests on was so: each stage before *)
(* it was passed, and what was confirmed was there, at some moment since   *)
(* the request's turn came.                                                *)
GroundsHeld ==
  \A r \in Requests :
    pc[r] = "write" /\ target[r] # 0 =>
      /\ \A j \in 1 .. (target[r] - 1) : \E f \in seen[r] : Passed(copy[r], j, f)
      /\ target[r] \in copy[r].confirmed => \E f \in seen[r] : CheckpointReady(target[r], f)

(* A verdict stands: two requests never decide one stage, a failed or      *)
(* skipped stage is never done later, and a confirmation is never undone.  *)
(* (So a failed stage ends the task, and no other one can be created.)     *)
VerdictStands ==
  [][ run # NoRun =>
        /\ run' # NoRun /\ run'.by = run.by
        /\ \A i \in Stages : run.verdict[i] # "open" => run'.verdict[i] = run.verdict[i]
        /\ run.confirmed \subseteq run'.confirmed ]_vars

=============================================================================
