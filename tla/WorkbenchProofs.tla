-------------------------- MODULE WorkbenchProofs --------------------------
(***************************************************************************)
(* Proofs about the batched analysis, for any number of runs, batches and  *)
(* calls at once, and about the client in which it is followed, for any    *)
(* number of cases, sessions, jobs and requests under way.                 *)
(*                                                                         *)
(* The analysis.  What a job or a file says rests on counters that other   *)
(* steps have set: the invariant ties them to the phase of the run.        *)
(* WorkFits: a run that got past its map did so with every batch ended and *)
(* none with an error.  JobFits and ResultFits: who is called done, or     *)
(* succeeded, is past it.  FilesFit: the files part only between the two   *)
(* writes of one run.                                                      *)
(*                                                                         *)
(* The contract (JobContract) that the registry keeps with its callers.    *)
(* RegistryFits: who is at work for the registry is its running job.       *)
(* AuthorFits: once what GET gives is written, it is of that job, or of    *)
(* the direct route.  The server of the client's model keeps the contract, *)
(* too.                                                                    *)
(*                                                                         *)
(* The client.  What is shown is right because of what is still to come:   *)
(* the invariant says of every request under way what its answer may be    *)
(* (AnswerFits), whose it is (PageFits, Sound) and what the panel still    *)
(* expects of it (JobsFit, MaterialsFit, InquiryFits).  A lemma for each   *)
(* action shows that it keeps ClientFits.                                  *)
(***************************************************************************)
EXTENDS AnalysisJob, Workbench, TLAPS

Resolved == {"judge", "list", "result", "audit", "returned"}
Written ==
  {"audit", "caught", "failed list", "failed result", "error audit", "returned", "thrown"}
Halfway == {"result", "failed result"}

(* Every batch that was sent out has ended, and none with an error.        *)
Complete(w) == ~w.firstError /\ w.next \in {0, Batches}

WorkFits ==
  \A r \in Runs : phase[r] \in {"idle", "load"} \cup Resolved => Complete(work[r])

JobFits == \A r \in Runs : job[r] = "done" => phase[r] = "returned" /\ ~aborted[r]

ResultFits ==
  result # NoFile =>
    /\ phase[result.run] \in Written
    /\ result.status = "succeeded" =>
         Complete(work[result.run]) /\ ~work[result.run].skipped

OneActive == \A q, r \in Runs : Active(q) /\ Active(r) => q = r

Between ==
  /\ \A r \in Runs : /\ phase[r] = "result" => list = [run |-> r, status |-> StatusOf(r)]
                     /\ phase[r] = "failed result" => list = Failed(r)
  /\ (\A r \in Runs : phase[r] \notin Halfway) => list = result

FilesFit == kind = "contradictions" /\ ~overlapped => OneActive /\ Between

IInv == TypeOK /\ OneJob /\ SettledIsQuiet /\ WorkFits /\ JobFits /\ ResultFits /\ FilesFit

RegistryType ==
  /\ job \in [Runs -> JobStates]
  /\ current \in Runs \cup {NoRun} /\ controller \in Runs \cup {NoRun}
DiskType == list \in Results \cup {NoFile} /\ result \in Results \cup {NoFile}

LEMMA TypeParts ==
  TypeOK <=>
    /\ kind \in Kinds /\ overlapped \in BOOLEAN /\ RegistryType /\ DiskType
    /\ aborted \in [Runs -> BOOLEAN] /\ phase \in [Runs -> Phases] /\ work \in [Runs -> Work]
BY DEF TypeOK, RegistryType, DiskType

-----------------------------------------------------------------------------
(* The operators of mapWithConcurrency. *)

LEMMA NoWorkType == NoWork \in Work /\ Complete(NoWork) /\ NoWork.inFlight = 0
BY BatchAssumption DEF NoWork, Work, Complete

(* launchMore fills the room there is, and no more, with batches there are.*)
LEMMA LaunchMoreType ==
  ASSUME NEW w \in Work
  PROVE  /\ LaunchMore(w) \in Work
         /\ LaunchMore(w).firstError = w.firstError /\ LaunchMore(w).skipped = w.skipped
<1> DEFINE n == Least(Concurrency - w.inFlight, Batches - w.next)
<1>1. /\ n \in Nat /\ w.next + n \in 0 .. Batches /\ w.inFlight + n \in 0 .. Concurrency
  BY BatchAssumption DEF Work, Least
<1>2. CASE w.stopped
  BY <1>2 DEF LaunchMore, Launch
<1>3. CASE ~w.stopped
  <2>1. LaunchMore(w) = [w EXCEPT !.next = @ + n, !.inFlight = @ + n]
    BY <1>3 DEF LaunchMore, Launch
  <2> HIDE DEF n
  <2> QED  BY <1>1, <2>1 DEF Work
<1> QED  BY <1>2, <1>3

(* A worker that ends makes room for one.                                  *)
LEMMA WorkerLeaves ==
  ASSUME NEW w \in Work, w.inFlight > 0
  PROVE  [w EXCEPT !.inFlight = @ - 1] \in Work
BY BatchAssumption DEF Work

(* The map settles only when it is quiet, and resolves only what is whole. *)
LEMMA SettleMapFits ==
  ASSUME NEW r \in Runs, NEW w \in Work
  PROVE  /\ SettleMap(r, w) \in {"map", "judge", "list", "caught"}
         /\ SettleMap(r, w) # "map" => w.inFlight = 0
         /\ SettleMap(r, w) \in Resolved => Complete(w) /\ ~aborted[r]
BY DEF SettleMap, AfterMap, Quiet, Whole, Complete, Resolved

-----------------------------------------------------------------------------
(* What the parts of the invariant need of a step of one run. *)

(* The run moves to p and its counters become w.                           *)
LEMMA RunStepKeepsWork ==
  ASSUME phase \in [Runs -> Phases], work \in [Runs -> Work], SettledIsQuiet, WorkFits,
         NEW r \in Runs, NEW p \in Phases, Goto(r, p),
         NEW w \in Work, work' = [work EXCEPT ![r] = w],
         p # "map" => w.inFlight = 0, p \in {"idle", "load"} \cup Resolved => Complete(w)
  PROVE  /\ phase' \in [Runs -> Phases] /\ work' \in [Runs -> Work]
         /\ SettledIsQuiet' /\ WorkFits'
<1>1. \A q \in Runs : phase'[q] = IF q = r THEN p ELSE phase[q]
  BY DEF Goto
<1>2. \A q \in Runs : work'[q] = IF q = r THEN w ELSE work[q]
  OBVIOUS
<1>3. SettledIsQuiet'
  BY <1>1, <1>2 DEF SettledIsQuiet
<1>4. WorkFits'
  BY <1>1, <1>2 DEF WorkFits
<1> QED  BY <1>3, <1>4 DEF Goto

(* The run moves and nothing is written: it does not enter or leave the    *)
(* place between two writes.                                               *)
LEMMA MoveKeepsDisk ==
  ASSUME TypeOK, ResultFits, FilesFit, UNCHANGED <<kind, disk, overlapped>>,
         NEW r \in Runs, NEW p \in Phases, Goto(r, p), Active(r),
         phase[r] \notin Halfway, p \notin Halfway,
         NEW w \in Work, work' = [work EXCEPT ![r] = w],
         phase[r] \in Written => p \in Written /\ w = work[r]
  PROVE  ResultFits' /\ FilesFit'
<1>0. phase \in [Runs -> Phases] /\ work \in [Runs -> Work] /\ result \in Results \cup {NoFile}
  BY DEF TypeOK
<1>1. \A q \in Runs : phase'[q] = IF q = r THEN p ELSE phase[q]
  BY <1>0 DEF Goto
<1>2. \A q \in Runs : work'[q] = IF q = r THEN w ELSE work[q]
  BY <1>0
<1>3. list' = list /\ result' = result /\ kind' = kind /\ overlapped' = overlapped
  BY DEF disk
<1>4. ResultFits'
  <2> SUFFICES ASSUME result # NoFile PROVE ResultFits'
    BY <1>3 DEF ResultFits
  <2>1. result.run \in Runs /\ phase[result.run] \in Written
    BY <1>0 DEF ResultFits, Results
  <2>2. phase'[result.run] \in Written /\ work'[result.run] = work[result.run]
    BY <1>1, <1>2, <2>1
  <2> QED  BY <1>3, <2>2 DEF ResultFits
<1>5. FilesFit'
  <2> SUFFICES ASSUME kind = "contradictions", ~overlapped PROVE FilesFit'
    BY <1>3 DEF FilesFit
  <2>1. \A q \in Runs : Active(q)' => Active(q)
    BY <1>1 DEF Active, Ended
  <2>2. OneActive'
    BY <2>1 DEF OneActive, FilesFit
  <2>3. \A q \in Runs : phase'[q] \in Halfway <=> phase[q] \in Halfway
    BY <1>1
  <2>4. \A q \in Runs : phase'[q] \in Halfway => phase'[q] = phase[q] /\ work'[q] = work[q]
    BY <1>1, <1>2
  <2>5. \A q \in Runs : phase'[q] = "result" => list' = [run |-> q, status |-> StatusOf(q)']
    BY <1>3, <2>4 DEF FilesFit, Between, StatusOf, Halfway
  <2>6. \A q \in Runs : phase'[q] = "failed result" => list' = Failed(q)
    BY <1>3, <2>4 DEF FilesFit, Between, Failed, Halfway
  <2>7. (\A q \in Runs : phase'[q] \notin Halfway) => list' = result'
    BY <1>3, <2>3 DEF FilesFit, Between
  <2> QED  BY <2>2, <2>5, <2>6, <2>7 DEF FilesFit, Between, Failed
<1> QED  BY <1>4, <1>5

(* The registry stays as it is while a run moves.                          *)
LEMMA MoveKeepsRegistry ==
  ASSUME TypeOK, OneJob, JobFits, UNCHANGED <<registry, aborted>>,
         NEW r \in Runs, NEW p \in Phases, Goto(r, p), Active(r)
  PROVE  kind' \in Kinds /\ RegistryType' /\ aborted' \in [Runs -> BOOLEAN] /\ OneJob' /\ JobFits'
<1>0. phase \in [Runs -> Phases]
  BY DEF TypeOK
<1>1. kind' = kind /\ job' = job /\ current' = current /\ controller' = controller /\ aborted' = aborted
  BY DEF registry
<1>2. kind' \in Kinds /\ RegistryType' /\ aborted' \in [Runs -> BOOLEAN] /\ OneJob'
  BY <1>1 DEF TypeOK, RegistryType, OneJob
<1>3. \A q \in Runs : phase[q] = "returned" => phase'[q] = "returned"
  BY <1>0 DEF Goto, Active, Ended
<1>4. JobFits'
  BY <1>1, <1>3 DEF JobFits
<1> QED  BY <1>2, <1>4

-----------------------------------------------------------------------------
(* The steps, one kind after the other. *)

LEMMA InvParts ==
  ASSUME IInv
  PROVE  /\ RegistryType /\ DiskType /\ kind \in Kinds /\ overlapped \in BOOLEAN
         /\ aborted \in [Runs -> BOOLEAN] /\ phase \in [Runs -> Phases] /\ work \in [Runs -> Work]
BY TypeParts DEF IInv

(* A step that only moves a run.                                           *)
LEMMA MoveKeepsInv ==
  ASSUME IInv, NEW r \in Runs, NEW p \in Phases, Goto(r, p), Active(r),
         UNCHANGED <<registry, aborted, work, disk, overlapped>>,
         phase[r] \notin Halfway, p \notin Halfway, p \notin {"idle", "load", "map"},
         phase[r] # "map", p \in Resolved => Complete(work[r]),
         phase[r] \in Written => p \in Written
  PROVE  IInv'
<1>0. phase \in [Runs -> Phases] /\ work \in [Runs -> Work] /\ RegistryType /\ DiskType
  BY InvParts
<1>1. work[r] \in Work /\ work' = [work EXCEPT ![r] = work[r]] /\ work[r].inFlight = 0
  BY <1>0 DEF IInv, SettledIsQuiet
<1>2. phase' \in [Runs -> Phases] /\ work' \in [Runs -> Work] /\ SettledIsQuiet' /\ WorkFits'
  BY <1>0, <1>1, RunStepKeepsWork DEF IInv
<1>3. ResultFits' /\ FilesFit'
  <2>1. UNCHANGED <<kind, disk, overlapped>>
    BY DEF registry
  <2> QED  BY <1>1, <2>1, MoveKeepsDisk DEF IInv
<1>4. kind' \in Kinds /\ RegistryType' /\ aborted' \in [Runs -> BOOLEAN] /\ OneJob' /\ JobFits'
  BY MoveKeepsRegistry DEF IInv
<1>5. DiskType' /\ overlapped' \in BOOLEAN
  BY <1>0, InvParts DEF DiskType, disk
<1> QED  BY <1>2, <1>3, <1>4, <1>5 DEF IInv, TypeOK, RegistryType, DiskType

LEMMA OnlyMoves ==
  ASSUME IInv, NEW r \in Runs,
         \/ MapRefused(r) \/ LoadsNothing(r) \/ LoadFails(r) \/ JudgeEnds(r) \/ JudgeFails(r)
         \/ AuditFails(r) \/ CaughtError(r)
  PROVE  IInv'
<1>0. WorkFits
  BY DEF IInv
<1> USE DEF Phases, Active, Ended, Halfway, Written, Resolved
<1>1. ASSUME LoadsNothing(r) PROVE IInv'
  <2>1. Complete(work[r])
    BY <1>0, <1>1 DEF LoadsNothing, WorkFits
  <2> QED  BY <1>1, <2>1, MoveKeepsInv DEF LoadsNothing
<1>2. ASSUME JudgeEnds(r) PROVE IInv'
  <2>1. Complete(work[r])
    BY <1>0, <1>2 DEF JudgeEnds, WorkFits
  <2> QED  BY <1>2, <2>1, MoveKeepsInv DEF JudgeEnds
<1>3. ASSUME CaughtError(r) PROVE IInv'
  <2> DEFINE p == IF kind = "contradictions" THEN "failed list" ELSE "error audit"
  <2>1. p \in Phases /\ p \notin Halfway /\ p \in Written /\ p \notin Resolved
        /\ p \notin {"idle", "load", "map"} /\ Goto(r, p)
    BY <1>3 DEF CaughtError
  <2> HIDE DEF p
  <2> QED  BY <1>3, <2>1, MoveKeepsInv DEF CaughtError
<1>4. ASSUME MapRefused(r) PROVE IInv'
  BY <1>4, MoveKeepsInv DEF MapRefused
<1>5. ASSUME LoadFails(r) PROVE IInv'
  BY <1>5, MoveKeepsInv DEF LoadFails
<1>6. ASSUME JudgeFails(r) PROVE IInv'
  BY <1>6, MoveKeepsInv DEF JudgeFails
<1>7. ASSUME AuditFails(r) PROVE IInv'
  BY <1>7, MoveKeepsInv DEF AuditFails
<1> QED  BY <1>1, <1>2, <1>3, <1>4, <1>5, <1>6, <1>7

(* A step of the map: the counters of the run change.                      *)
LEMMA MapKeepsInv ==
  ASSUME IInv, NEW r \in Runs, phase[r] \in {"load", "map"},
         NEW p \in {"map", "judge", "list", "caught"}, Goto(r, p),
         NEW w \in Work, work' = [work EXCEPT ![r] = w],
         UNCHANGED <<registry, aborted, disk, overlapped>>,
         p # "map" => w.inFlight = 0, p \in Resolved => Complete(w)
  PROVE  IInv'
<1>0. phase \in [Runs -> Phases] /\ work \in [Runs -> Work] /\ RegistryType /\ DiskType
  BY InvParts
<1>1. p \in Phases /\ p \notin Halfway /\ p \notin {"idle", "load"} /\ Active(r)
      /\ phase[r] \notin Halfway \cup Written
  BY DEF Phases, Halfway, Written, Active, Ended
<1>2. phase' \in [Runs -> Phases] /\ work' \in [Runs -> Work] /\ SettledIsQuiet' /\ WorkFits'
  BY <1>0, <1>1, RunStepKeepsWork DEF IInv
<1>3. ResultFits' /\ FilesFit'
  <2>1. UNCHANGED <<kind, disk, overlapped>>
    BY DEF registry
  <2> QED  BY <1>1, <2>1, MoveKeepsDisk DEF IInv
<1>4. kind' \in Kinds /\ RegistryType' /\ aborted' \in [Runs -> BOOLEAN] /\ OneJob' /\ JobFits'
  BY <1>1, MoveKeepsRegistry DEF IInv
<1>5. DiskType' /\ overlapped' \in BOOLEAN
  BY <1>0, InvParts DEF DiskType, disk
<1> QED  BY <1>2, <1>3, <1>4, <1>5 DEF IInv, TypeOK, RegistryType, DiskType

LEMMA WorkerEndsKeepsInv ==
  ASSUME IInv, NEW r \in Runs, NEW w \in Work, WorkerEnds(r, w)
  PROVE  IInv'
<1> DEFINE left == [w EXCEPT !.inFlight = @ - 1]
           after == LaunchMore(left)
<1>1. after \in Work
  <2>1. left \in Work
    BY WorkerLeaves DEF WorkerEnds
  <2> HIDE DEF left
  <2> QED  BY <2>1, LaunchMoreType
<1>2. phase[r] = "map" /\ work' = [work EXCEPT ![r] = after] /\ Goto(r, SettleMap(r, after))
      /\ UNCHANGED <<registry, aborted, disk, overlapped>>
  BY DEF WorkerEnds
<1> HIDE DEF after
<1> DEFINE p == SettleMap(r, after)
<1>3. /\ p \in {"map", "judge", "list", "caught"}
      /\ p # "map" => after.inFlight = 0
      /\ p \in Resolved => Complete(after)
  BY <1>1, SettleMapFits
<1> HIDE DEF p
<1>4. Goto(r, p)
  BY <1>2 DEF p
<1> QED  BY <1>1, <1>2, <1>3, <1>4, MapKeepsInv

LEMMA Maps ==
  ASSUME IInv, NEW r \in Runs,
         MapBegins(r) \/ WorkerSucceeds(r) \/ WorkerSkips(r) \/ WorkerFails(r)
  PROVE  IInv'
<1>0. work[r] \in Work
  BY InvParts
<1>1. ASSUME MapBegins(r) PROVE IInv'
  <2>1. LaunchMore(work[r]) \in Work /\ work' = [work EXCEPT ![r] = LaunchMore(work[r])]
    BY <1>0, <1>1, LaunchMoreType DEF MapBegins
  <2>2. "map" \in {"map", "judge", "list", "caught"} /\ "map" \notin Resolved
    BY DEF Resolved
  <2> QED  BY <1>1, <2>1, <2>2, MapKeepsInv DEF MapBegins
<1>2. ASSUME WorkerSucceeds(r) PROVE IInv'
  BY <1>0, <1>2, WorkerEndsKeepsInv DEF WorkerSucceeds
<1>3. ASSUME WorkerSkips(r) PROVE IInv'
  <2>1. [work[r] EXCEPT !.skipped = TRUE] \in Work
    BY <1>0 DEF Work
  <2> QED  BY <1>3, <2>1, WorkerEndsKeepsInv DEF WorkerSkips
<1>4. ASSUME WorkerFails(r) PROVE IInv'
  <2>1. [work[r] EXCEPT !.stopped = TRUE, !.firstError = TRUE] \in Work
    BY <1>0 DEF Work
  <2> QED  BY <1>4, <2>1, WorkerEndsKeepsInv DEF WorkerFails
<1> QED  BY <1>1, <1>2, <1>3, <1>4

(* A runner settles: its job ends, and its controller goes with it.        *)
LEMMA SettleKeepsInv ==
  ASSUME IInv, NEW r \in Runs, NEW ending \in {"returned", "thrown"},
         NEW state \in {"done", "error"}, Settle(r, ending, state),
         phase[r] \in {"audit", "caught", "error audit"},
         state = "done" => ending = "returned", ending = "returned" => phase[r] = "audit"
  PROVE  IInv'
<1>0. /\ phase \in [Runs -> Phases] /\ work \in [Runs -> Work] /\ RegistryType /\ DiskType
      /\ kind \in Kinds /\ overlapped \in BOOLEAN /\ aborted \in [Runs -> BOOLEAN]
  BY InvParts
<1>1. /\ ending \in Phases /\ ending \notin Halfway /\ Active(r) /\ phase[r] \notin Halfway
      /\ ending \notin {"idle", "load", "map"} /\ phase[r] \in Written /\ ending \in Written
  BY DEF Phases, Halfway, Active, Ended, Written
<1>2. /\ Goto(r, ending) /\ kind' = kind /\ current' = current /\ aborted' = aborted /\ work' = work
      /\ UNCHANGED disk /\ overlapped' = overlapped
  BY DEF Settle
<1>3. work[r] \in Work /\ work' = [work EXCEPT ![r] = work[r]] /\ work[r].inFlight = 0
  BY <1>0, <1>1, <1>2 DEF IInv, SettledIsQuiet
<1>4. ending \in Resolved => Complete(work[r])
  BY DEF IInv, WorkFits, Resolved
<1>5. phase' \in [Runs -> Phases] /\ work' \in [Runs -> Work] /\ SettledIsQuiet' /\ WorkFits'
  BY <1>0, <1>1, <1>2, <1>3, <1>4, RunStepKeepsWork DEF IInv
<1>6. ResultFits' /\ FilesFit'
  BY <1>1, <1>2, <1>3, MoveKeepsDisk DEF IInv
<1>7. \/ job' = job /\ controller' = controller
      \/ /\ job[r] = "running" /\ controller' = NoRun
         /\ job' = [job EXCEPT ![r] = IF aborted[r] THEN "cancelled" ELSE state]
  BY DEF Settle
<1>8. job' \in [Runs -> JobStates] /\ controller' \in Runs \cup {NoRun}
  BY <1>0, <1>7 DEF RegistryType, JobStates
<1>9. OneJob'
  BY <1>0, <1>2, <1>7 DEF IInv, OneJob, RegistryType
<1>10. JobFits'
  <2>1. \A q \in Runs : phase[q] = "returned" => phase'[q] = "returned"
    BY <1>0, <1>1, <1>2 DEF Goto, Active, Ended
  <2>2. phase'[r] = ending
    BY <1>0, <1>2 DEF Goto
  <2>3. \A q \in Runs : job'[q] = job[q] \/ (q = r /\ (job'[r] = "done" => ~aborted[r] /\ state = "done"))
    BY <1>0, <1>7 DEF RegistryType
  <2> QED  BY <1>2, <2>1, <2>2, <2>3 DEF IInv, JobFits
<1> QED  BY <1>0, <1>2, <1>5, <1>6, <1>8, <1>9, <1>10
         DEF IInv, TypeOK, RegistryType, DiskType, disk

LEMMA Settles ==
  ASSUME IInv, NEW r \in Runs, Audited(r) \/ CaughtAbort(r) \/ ErrorAudited(r)
  PROVE  IInv'
<1>1. CASE Audited(r)
  BY <1>1, SettleKeepsInv DEF Audited, Returns
<1>2. CASE CaughtAbort(r)
  BY <1>2, SettleKeepsInv DEF CaughtAbort, Throws
<1>3. CASE ErrorAudited(r)
  BY <1>3, SettleKeepsInv DEF ErrorAudited, Throws
<1> QED  BY <1>1, <1>2, <1>3

(* Everything but the files, when a run writes one and moves on.           *)
LEMMA WriteKeepsRun ==
  ASSUME IInv, NEW r \in Runs, phase[r] \in {"list", "result", "failed list", "failed result"},
         NEW p \in {"result", "audit", "failed result", "error audit"}, Goto(r, p),
         p \in Resolved => phase[r] \in Resolved,
         UNCHANGED <<registry, aborted, work, overlapped>>
  PROVE  /\ kind' \in Kinds /\ overlapped' \in BOOLEAN /\ RegistryType'
         /\ aborted' \in [Runs -> BOOLEAN]
         /\ phase' \in [Runs -> Phases] /\ work' \in [Runs -> Work]
         /\ SettledIsQuiet' /\ WorkFits' /\ OneJob' /\ JobFits'
<1>0. phase \in [Runs -> Phases] /\ work \in [Runs -> Work]
  BY InvParts
<1>1. p \in Phases /\ p \notin {"idle", "load", "map"} /\ Active(r) /\ phase[r] # "map"
  BY DEF Phases, Active, Ended
<1>2. work[r] \in Work /\ work' = [work EXCEPT ![r] = work[r]] /\ work[r].inFlight = 0
  BY <1>0, <1>1 DEF IInv, SettledIsQuiet
<1>3. p \in Resolved => Complete(work[r])
  BY DEF IInv, WorkFits
<1>4. phase' \in [Runs -> Phases] /\ work' \in [Runs -> Work] /\ SettledIsQuiet' /\ WorkFits'
  BY <1>0, <1>1, <1>2, <1>3, RunStepKeepsWork DEF IInv
<1>5. kind' \in Kinds /\ RegistryType' /\ aborted' \in [Runs -> BOOLEAN] /\ OneJob' /\ JobFits'
  BY <1>1, MoveKeepsRegistry DEF IInv
<1> QED  BY <1>4, <1>5, InvParts

(* While one run is between its two writes, no other is.                   *)
LEMMA AloneHalfway ==
  ASSUME OneActive, phase \in [Runs -> Phases], NEW r \in Runs, Active(r)
  PROVE  \A q \in Runs : phase[q] \in Halfway => q = r
BY DEF OneActive, Active, Ended, Halfway

LEMMA StatusType ==
  ASSUME work \in [Runs -> Work], NEW r \in Runs
  PROVE  /\ [run |-> r, status |-> StatusOf(r)] \in Results /\ Failed(r) \in Results
         /\ StatusOf(r) = "succeeded" => ~work[r].skipped
BY DEF StatusOf, Results, Failed, Work

(* The first write of a run leaves the files apart until the second; an    *)
(* extraction has one file only.                                           *)
LEMMA FirstWrite ==
  ASSUME IInv, NEW r \in Runs, WriteList(r) \/ WriteFailedList(r)
  PROVE  IInv'
<1>0. phase \in [Runs -> Phases] /\ work \in [Runs -> Work] /\ DiskType
  BY InvParts
<1> DEFINE p == IF WriteFailedList(r) THEN "failed result"
                ELSE IF kind = "contradictions" THEN "result" ELSE "audit"
<1>1. Goto(r, p) /\ phase[r] \in {"list", "failed list"} /\ result' = result
      /\ UNCHANGED <<registry, aborted, work, overlapped>> /\ (p = "failed result" \/ phase[r] = "list")
  BY DEF WriteList, WriteFailedList
<1>2. /\ p = "failed result" => list' = Failed(r)
      /\ p # "failed result" => list' = [run |-> r, status |-> StatusOf(r)]
  BY DEF WriteList, WriteFailedList
<1>3. p \in {"result", "audit", "failed result"} /\ (kind = "contradictions" => p \in Halfway)
  BY DEF Halfway
<1> HIDE DEF p
<1>4. Active(r) /\ (p \in Resolved => phase[r] \in Resolved)
  BY <1>1, <1>3 DEF Active, Ended, Resolved
<1>5. DiskType'
  BY <1>0, <1>1, <1>2, StatusType DEF DiskType
<1>6. ResultFits'
  <2> SUFFICES ASSUME result # NoFile PROVE ResultFits'
    BY <1>1 DEF ResultFits
  <2>1. result.run \in Runs /\ phase[result.run] \in Written
    BY <1>0 DEF IInv, ResultFits, DiskType, Results
  <2>2. result.run = r => p \in Written
    BY <1>1, <2>1 DEF Written
  <2>3. phase'[result.run] \in Written
    BY <1>0, <1>1, <2>1, <2>2 DEF Goto
  <2> QED  BY <1>1, <2>1, <2>3 DEF IInv, ResultFits
<1>7. FilesFit'
  <2>1. kind' = kind /\ overlapped' = overlapped /\ work' = work
    BY <1>1 DEF registry
  <2> SUFFICES ASSUME kind = "contradictions", ~overlapped PROVE OneActive' /\ Between'
    BY <2>1 DEF FilesFit
  <2>2. OneActive /\ \A q \in Runs : phase[q] \in Halfway => q = r
    BY <1>0, <1>4, AloneHalfway DEF IInv, FilesFit
  <2>3. \A q \in Runs : phase'[q] = IF q = r THEN p ELSE phase[q]
    BY <1>0, <1>1 DEF Goto
  <2>4. \A q \in Runs : Active(q)' => Active(q)
    BY <1>4, <2>3 DEF Active, Ended
  <2>5. OneActive'
    BY <2>2, <2>4 DEF OneActive
  <2>6. phase'[r] \in Halfway /\ \A q \in Runs : phase'[q] \in Halfway => q = r
    BY <1>3, <2>2, <2>3
  <2>7. \A q \in Runs : phase'[q] \in {"result", "failed result"} => q = r /\ phase'[q] = p
    BY <2>3, <2>6 DEF Halfway
  <2>8. /\ p = "result" => list' = [run |-> r, status |-> StatusOf(r)']
        /\ p = "failed result" => list' = Failed(r)
    BY <1>2, <2>1 DEF StatusOf
  <2>9. Between'
    BY <2>6, <2>7, <2>8 DEF Between, Failed
  <2> QED  BY <2>5, <2>9
<1>8. p \in {"result", "audit", "failed result", "error audit"}
      /\ phase[r] \in {"list", "result", "failed list", "failed result"}
  BY <1>1, <1>3
<1> QED  BY <1>1, <1>4, <1>5, <1>6, <1>7, <1>8, WriteKeepsRun
         DEF IInv, TypeOK, RegistryType, DiskType

(* The second write makes the files agree again.                           *)
LEMMA SecondWrite ==
  ASSUME IInv, NEW r \in Runs, WriteResult(r) \/ WriteFailedResult(r)
  PROVE  IInv'
<1>0. phase \in [Runs -> Phases] /\ work \in [Runs -> Work] /\ DiskType
  BY InvParts
<1> DEFINE p == IF WriteResult(r) THEN "audit" ELSE "error audit"
<1>1. Goto(r, p) /\ phase[r] \in Halfway /\ list' = list
      /\ UNCHANGED <<registry, aborted, work, overlapped>>
  BY DEF WriteResult, WriteFailedResult, Halfway
<1>2. /\ phase[r] = "result" => result' = [run |-> r, status |-> StatusOf(r)]
      /\ phase[r] = "failed result" => result' = Failed(r)
      /\ p = "audit" => phase[r] = "result"
  BY DEF WriteResult, WriteFailedResult
<1>3. p \in {"audit", "error audit"}
  OBVIOUS
<1> HIDE DEF p
<1>4. Active(r) /\ (p \in Resolved => phase[r] \in Resolved) /\ p \in Written /\ p \notin Halfway
  BY <1>1, <1>2, <1>3 DEF Active, Ended, Resolved, Written, Halfway
<1>5. DiskType'
  BY <1>0, <1>1, <1>2, StatusType DEF DiskType, Halfway
<1>6. result'.run = r /\ (result'.status = "succeeded" => phase[r] = "result" /\ ~work[r].skipped)
  <2>1. CASE phase[r] = "result"
    BY <1>0, <1>2, <2>1, StatusType
  <2>2. CASE phase[r] = "failed result"
    <3>1. result' = [run |-> r, status |-> "failed"]
      BY <1>2, <2>2 DEF Failed
    <3> QED  BY <3>1
  <2> QED  BY <1>1, <2>1, <2>2 DEF Halfway
<1>7. ResultFits'
  <2>1. phase[r] = "result" => Complete(work[r])
    BY DEF IInv, WorkFits, Resolved
  <2>2. phase'[r] = p /\ work' = work
    BY <1>0, <1>1 DEF Goto
  <2> QED  BY <1>4, <1>6, <2>1, <2>2 DEF ResultFits
<1>8. FilesFit'
  <2>1. kind' = kind /\ overlapped' = overlapped /\ work' = work
    BY <1>1 DEF registry
  <2> SUFFICES ASSUME kind = "contradictions", ~overlapped PROVE OneActive' /\ Between'
    BY <2>1 DEF FilesFit
  <2>2. OneActive /\ Between /\ \A q \in Runs : phase[q] \in Halfway => q = r
    BY <1>0, <1>4, AloneHalfway DEF IInv, FilesFit
  <2>3. \A q \in Runs : phase'[q] = IF q = r THEN p ELSE phase[q]
    BY <1>0, <1>1 DEF Goto
  <2>4. \A q \in Runs : Active(q)' => Active(q)
    BY <1>4, <2>3 DEF Active, Ended
  <2>5. OneActive'
    BY <2>2, <2>4 DEF OneActive
  <2>6. \A q \in Runs : phase'[q] \notin Halfway
    BY <1>4, <2>2, <2>3
  <2>7. list' = result'
    BY <1>1, <1>2, <2>2 DEF Between, Halfway
  <2>8. Between'
    BY <2>6, <2>7 DEF Between, Halfway
  <2> QED  BY <2>5, <2>8
<1>9. p \in {"result", "audit", "failed result", "error audit"}
      /\ phase[r] \in {"list", "result", "failed list", "failed result"}
  BY <1>1, <1>3 DEF Halfway
<1> QED  BY <1>1, <1>4, <1>5, <1>7, <1>8, <1>9, WriteKeepsRun
         DEF IInv, TypeOK, RegistryType, DiskType

(* A run begins: it is at work, alone or overlapping another.              *)
LEMMA BeginKeepsRun ==
  ASSUME IInv, NEW r \in Runs, phase[r] = "idle", Begin(r), kind' = kind
  PROVE  /\ overlapped' \in BOOLEAN /\ aborted' = aborted /\ DiskType'
         /\ phase' \in [Runs -> Phases] /\ work' \in [Runs -> Work]
         /\ SettledIsQuiet' /\ WorkFits' /\ ResultFits' /\ FilesFit'
         /\ \A q \in Runs : phase[q] = "returned" => phase'[q] = "returned"
<1>0. phase \in [Runs -> Phases] /\ work \in [Runs -> Work] /\ DiskType /\ overlapped \in BOOLEAN
  BY InvParts
<1>1. /\ Goto(r, "load") /\ aborted' = aborted /\ work' = work /\ list' = list /\ result' = result
      /\ overlapped' = (overlapped \/ \E q \in Runs : Active(q))
  BY DEF Begin, disk
<1>2. overlapped' \in BOOLEAN /\ DiskType'
  BY <1>0, <1>1 DEF DiskType
<1>3. /\ work[r] \in Work /\ work' = [work EXCEPT ![r] = work[r]]
      /\ work[r].inFlight = 0 /\ Complete(work[r])
  BY <1>0, <1>1 DEF IInv, WorkFits, SettledIsQuiet
<1>4. phase' \in [Runs -> Phases] /\ work' \in [Runs -> Work] /\ SettledIsQuiet' /\ WorkFits'
  <2>1. "load" \in Phases /\ "load" \notin Resolved
    BY DEF Phases, Resolved
  <2> QED  BY <1>0, <1>1, <1>3, <2>1, RunStepKeepsWork DEF IInv
<1>5. \A q \in Runs : phase'[q] = IF q = r THEN "load" ELSE phase[q]
  BY <1>0, <1>1 DEF Goto
<1>6. ResultFits'
  <2> SUFFICES ASSUME result # NoFile PROVE ResultFits'
    BY <1>1 DEF ResultFits
  <2>1. result.run \in Runs /\ phase[result.run] \in Written
    BY <1>0 DEF IInv, ResultFits, DiskType, Results
  <2>2. phase'[result.run] = phase[result.run]
    BY <1>5, <2>1 DEF Written
  <2> QED  BY <1>1, <2>1, <2>2 DEF IInv, ResultFits
<1>7. FilesFit'
  <2> SUFFICES ASSUME kind = "contradictions", ~overlapped' PROVE OneActive' /\ Between'
    BY DEF FilesFit
  <2>1. ~overlapped /\ \A q \in Runs : ~Active(q)
    BY <1>1
  <2>2. \A q \in Runs : Active(q)' => q = r
    BY <1>5, <2>1 DEF Active, Ended
  <2>3. \A q \in Runs : phase[q] \notin Halfway /\ phase'[q] \notin Halfway
    BY <1>5, <2>1 DEF Halfway, Active, Ended
  <2>4. list' = result'
    BY <1>1, <2>1, <2>3 DEF IInv, FilesFit, Between
  <2>5. Between'
    BY <2>3, <2>4 DEF Between, Halfway
  <2> QED  BY <2>2, <2>5 DEF OneActive
<1> QED  BY <1>1, <1>2, <1>4, <1>5, <1>6, <1>7

LEMMA Starts ==
  ASSUME IInv, NEW r \in Runs, StartJob(r) \/ StartDirect(r)
  PROVE  IInv'
<1>0. /\ RegistryType /\ kind \in Kinds /\ aborted \in [Runs -> BOOLEAN]
  BY InvParts
<1>1. phase[r] = "idle" /\ Begin(r) /\ kind' = kind
  BY DEF StartJob, StartDirect, registry
<1>2. /\ overlapped' \in BOOLEAN /\ aborted' = aborted /\ DiskType'
      /\ phase' \in [Runs -> Phases] /\ work' \in [Runs -> Work]
      /\ SettledIsQuiet' /\ WorkFits' /\ ResultFits' /\ FilesFit'
      /\ \A q \in Runs : phase[q] = "returned" => phase'[q] = "returned"
  BY <1>1, BeginKeepsRun
<1>3. RegistryType' /\ OneJob' /\ JobFits'
  <2>1. CASE StartJob(r)
    <3>1. job' = [job EXCEPT ![r] = "running"] /\ current' = r /\ controller' = r /\ Free
      BY <2>1 DEF StartJob
    <3>2. RegistryType'
      BY <1>0, <3>1 DEF RegistryType, JobStates
    <3>3. \A q \in Runs : job[q] # "running"
      BY <3>1 DEF IInv, OneJob, Free
    <3>4. \A q \in Runs : job'[q] = job[q] \/ (q = r /\ job'[q] = "running")
      BY <1>0, <3>1 DEF RegistryType
    <3> QED  BY <1>2, <3>1, <3>2, <3>3, <3>4 DEF IInv, OneJob, JobFits
  <2>2. CASE StartDirect(r)
    <3>1. job' = job /\ current' = current /\ controller' = controller
      BY <2>2 DEF StartDirect, registry
    <3> QED  BY <1>0, <1>2, <3>1 DEF IInv, RegistryType, OneJob, JobFits
  <2> QED  BY <2>1, <2>2
<1> QED  BY <1>0, <1>1, <1>2, <1>3 DEF IInv, TypeOK, RegistryType, DiskType

(* A job that is cancelled is running: nothing has called it done.         *)
LEMMA CancelKeepsInv ==
  ASSUME IInv, Cancel
  PROVE  IInv'
<1>0. /\ phase \in [Runs -> Phases] /\ work \in [Runs -> Work] /\ RegistryType /\ DiskType
      /\ kind \in Kinds /\ overlapped \in BOOLEAN /\ aborted \in [Runs -> BOOLEAN]
  BY InvParts
<1>1. /\ current \in Runs /\ job[current] = "running"
      /\ aborted' = [aborted EXCEPT ![current] = TRUE] /\ kind' = kind /\ job' = job
      /\ current' = current /\ controller' = controller /\ phase' = phase /\ list' = list
      /\ result' = result /\ overlapped' = overlapped
  BY <1>0 DEF Cancel, RegistryType, registry, disk
<1> DEFINE w == [work[current] EXCEPT !.stopped = @ \/ phase[current] = "map"]
<1>2. w \in Work /\ w.next = work[current].next /\ w.inFlight = work[current].inFlight
      /\ w.firstError = work[current].firstError /\ w.skipped = work[current].skipped
  BY <1>0, <1>1 DEF Work
<1>3. work' = [work EXCEPT ![current] = w]
  BY DEF Cancel
<1> HIDE DEF w
<1>4. work' \in [Runs -> Work] /\ \A q \in Runs :
        /\ work'[q].inFlight = work[q].inFlight /\ work'[q].skipped = work[q].skipped
        /\ Complete(work'[q]) = Complete(work[q])
  BY <1>0, <1>1, <1>2, <1>3 DEF Complete
<1>5. SettledIsQuiet' /\ WorkFits'
  BY <1>1, <1>4 DEF IInv, SettledIsQuiet, WorkFits
<1>6. OneJob' /\ JobFits'
  BY <1>0, <1>1 DEF IInv, OneJob, JobFits
<1>7. ResultFits'
  <2> SUFFICES ASSUME result # NoFile PROVE ResultFits'
    BY <1>1 DEF ResultFits
  <2>1. result.run \in Runs
    BY <1>0 DEF DiskType, Results
  <2> QED  BY <1>1, <1>4, <2>1 DEF IInv, ResultFits
<1>8. FilesFit'
  <2>1. OneActive' = OneActive
    BY <1>1 DEF OneActive, Active, Ended
  <2>2. \A q \in Runs : StatusOf(q)' = StatusOf(q)
    BY <1>4 DEF StatusOf
  <2>3. Between => Between'
    BY <1>1, <2>2 DEF Between, Failed
  <2> QED  BY <1>1, <2>1, <2>3 DEF IInv, FilesFit
<1>9. aborted' \in [Runs -> BOOLEAN]
  BY <1>0, <1>1
<1> QED  BY <1>0, <1>1, <1>4, <1>5, <1>6, <1>7, <1>8, <1>9 DEF IInv, TypeOK, RegistryType, DiskType

-----------------------------------------------------------------------------
(* The invariant, and what follows from it. *)

LEMMA InitInv == Init => IInv
<1> SUFFICES ASSUME Init PROVE IInv
  OBVIOUS
<1>1. TypeOK
  <2>1. phase \in [Runs -> Phases] /\ job \in [Runs -> JobStates]
    BY DEF Init, Phases, JobStates
  <2>2. work \in [Runs -> Work]
    BY NoWorkType DEF Init
  <2> QED  BY <2>1, <2>2 DEF Init, TypeOK
<1>2. OneJob /\ SettledIsQuiet /\ JobFits
  BY NoWorkType DEF Init, OneJob, SettledIsQuiet, JobFits
<1>3. WorkFits
  BY NoWorkType DEF Init, WorkFits
<1>4. ResultFits
  BY DEF Init, ResultFits
<1>5. FilesFit
  BY DEF Init, FilesFit, OneActive, Between, Active
<1> QED  BY <1>1, <1>2, <1>3, <1>4, <1>5 DEF IInv

LEMMA StutterKeepsInv ==
  ASSUME IInv, UNCHANGED vars
  PROVE  IInv'
<1>1. TypeOK' /\ OneJob' /\ SettledIsQuiet'
  BY DEF IInv, TypeOK, OneJob, SettledIsQuiet, vars, registry, disk
<1>2. WorkFits' /\ JobFits' /\ ResultFits'
  BY DEF IInv, WorkFits, JobFits, ResultFits, vars, registry, disk
<1>3. FilesFit'
  BY DEF IInv, FilesFit, OneActive, Between, Active, Ended, StatusOf, Failed, vars, registry, disk
<1> QED  BY <1>1, <1>2, <1>3 DEF IInv

LEMMA RunStepKeepsInv ==
  ASSUME IInv, NEW r \in Runs, RunStep(r)
  PROVE  IInv'
<1>1. CASE \/ MapRefused(r) \/ LoadsNothing(r) \/ LoadFails(r) \/ JudgeEnds(r) \/ JudgeFails(r)
           \/ AuditFails(r) \/ CaughtError(r)
  BY <1>1, OnlyMoves
<1>2. CASE MapBegins(r) \/ WorkerSucceeds(r) \/ WorkerSkips(r) \/ WorkerFails(r)
  BY <1>2, Maps
<1>3. CASE WriteList(r) \/ WriteFailedList(r)
  BY <1>3, FirstWrite
<1>4. CASE WriteResult(r) \/ WriteFailedResult(r)
  BY <1>4, SecondWrite
<1>5. CASE Audited(r) \/ CaughtAbort(r) \/ ErrorAudited(r)
  BY <1>5, Settles
<1> QED  BY <1>1, <1>2, <1>3, <1>4, <1>5 DEF RunStep

LEMMA StepKeepsInv == IInv /\ [Next]_vars => IInv'
<1> SUFFICES ASSUME IInv, [Next]_vars PROVE IInv'
  OBVIOUS
<1>1. CASE \E r \in Runs : StartJob(r) \/ StartDirect(r)
  BY <1>1, Starts
<1>2. CASE \E r \in Runs : RunStep(r)
  BY <1>2, RunStepKeepsInv
<1>3. CASE Cancel
  BY <1>3, CancelKeepsInv
<1>4. CASE UNCHANGED vars
  BY <1>4, StutterKeepsInv
<1> QED  BY <1>1, <1>2, <1>3, <1>4 DEF Next

LEMMA InvHolds == Spec => []IInv
BY InitInv, StepKeepsInv, PTL DEF Spec

(* Every variable has its type: never more model calls of a run in flight  *)
(* than the concurrency, never a batch sent out that does not exist.       *)
THEOREM TypeCorrect == Spec => []TypeOK
<1>1. IInv => TypeOK
  BY DEF IInv
<1> QED  BY <1>1, InvHolds, PTL

(* JobRegistry.start: at most one job of a case and kind runs, and as long *)
(* as it runs cancel() finds its controller.                               *)
THEOREM OneJobRuns == Spec => []OneJob
<1>1. IInv => OneJob
  BY DEF IInv
<1> QED  BY <1>1, InvHolds, PTL

(* mapWithConcurrency: once it has settled, however it has, no model call  *)
(* of the run is under way.                                                *)
THEOREM QuietWhenSettled == Spec => []SettledIsQuiet
<1>1. IInv => SettledIsQuiet
  BY DEF IInv
<1> QED  BY <1>1, InvHolds, PTL

(* The poller and the next reader are told the truth: done is whole and    *)
(* not cancelled, and a result called succeeded left no batch out.         *)
THEOREM TruthTold == Spec => []ToldTheTruth
<1>1. IInv => ToldTheTruth
  <2> SUFFICES ASSUME IInv PROVE ToldTheTruth
    OBVIOUS
  <2>1. \A r \in Runs : job[r] = "done" => ~aborted[r] /\ Complete(work[r])
    BY DEF IInv, JobFits, WorkFits, Resolved
  <2> QED  BY <2>1 DEF IInv, ResultFits, ToldTheTruth, Complete
<1> QED  BY <1>1, InvHolds, PTL

(* contradictions.json and contradictions.result.json are written one      *)
(* after the other: at rest they come from the same run all the same.      *)
THEOREM FilesAgreeAtRest == Spec => []FilesAgree
<1>1. IInv => FilesAgree
  <2> SUFFICES ASSUME IInv, kind = "contradictions", ~overlapped, \A r \in Runs : ~Active(r)
               PROVE  list = result
    BY DEF FilesAgree
  <2>1. \A r \in Runs : phase[r] \notin Halfway
    BY DEF Active, Ended, Halfway
  <2> QED  BY <2>1 DEF IInv, FilesFit, Between
<1> QED  BY <1>1, InvHolds, PTL

(* mapWithConcurrency: an aborted run does not resolve, even when all the  *)
(* workers it launched have succeeded.                                     *)
THEOREM AbortedNeverResolves == Spec => AbortNeverResolves
<1> DEFINE Step == \A r \in Runs : phase[r] = "map" /\ phase'[r] \in {"judge", "list"} => ~aborted[r]
<1>1. IInv /\ [Next]_vars => [Step]_vars
  <2> SUFFICES ASSUME IInv, Next,
                      NEW r \in Runs, phase[r] = "map", phase'[r] \in {"judge", "list"}
               PROVE  ~aborted[r]
    OBVIOUS
  <2>0. phase \in [Runs -> Phases] /\ work[r] \in Work
    BY InvParts
  <2>1. ~Cancel
    BY DEF Cancel
  <2>2. PICK q \in Runs : StartJob(q) \/ StartDirect(q) \/ RunStep(q)
    BY <2>1 DEF Next
  <2>3. \E p \in Phases : Goto(q, p)
    BY <2>0, <2>2
       DEF StartJob, StartDirect, Begin, RunStep, MapBegins, MapRefused, WorkerSucceeds, WorkerSkips,
           WorkerFails, WorkerEnds, LoadsNothing, LoadFails, JudgeEnds, JudgeFails, WriteList,
           WriteResult, Audited, AuditFails, CaughtAbort, CaughtError, WriteFailedList,
           WriteFailedResult, ErrorAudited, Returns, Throws, Settle, Phases, SettleMap, AfterMap
  <2>4. q = r
    BY <2>0, <2>3 DEF Goto
  <2>5. WorkerSucceeds(r) \/ WorkerSkips(r) \/ WorkerFails(r)
    BY <2>2, <2>4
       DEF StartJob, StartDirect, RunStep, MapBegins, MapRefused, LoadsNothing, LoadFails, JudgeEnds,
           JudgeFails, WriteList, WriteResult, Audited, AuditFails, CaughtAbort, CaughtError,
           WriteFailedList, WriteFailedResult, ErrorAudited
  <2>6. PICK w \in Work : WorkerEnds(r, w)
    BY <2>0, <2>5 DEF WorkerSucceeds, WorkerSkips, WorkerFails, Work
  <2>7. PICK after \in Work : Goto(r, SettleMap(r, after))
    <3>1. [w EXCEPT !.inFlight = @ - 1] \in Work
      BY <2>6, WorkerLeaves DEF WorkerEnds
    <3> QED  BY <2>6, <3>1, LaunchMoreType DEF WorkerEnds
  <2>8. phase'[r] = SettleMap(r, after)
    BY <2>0, <2>7 DEF Goto
  <2> QED  BY <2>8, SettleMapFits DEF Resolved
<1> QED  BY <1>1, InvHolds, PTL DEF Spec, AbortNeverResolves

-----------------------------------------------------------------------------
(* The contract of the registry with its callers (JobContract).  Who is at *)
(* work for the registry is its running job, and once what GET gives is    *)
(* written it is of that job, unless the direct route writes too.          *)
RegistryFits ==
  /\ \A r \in Runs : /\ phase[r] = "idle" => job[r] = "none"
                     /\ job[r] # "none" => (job[r] = "running" <=> Active(r))
  /\ current # NoRun => job[current] # "none"
AuthorFits ==
  /\ Fetched # NoFile => phase[Fetched.run] # "idle"
  /\ \A r \in Runs :
       /\ phase[r] = "result" => kind = "contradictions"
       /\ phase[r] = "audit" /\ job[r] = "running" => Author \in {r, "direct"}
EInv == IInv /\ RegistryFits /\ AuthorFits

Told(k) == IF k = kind THEN Shown ELSE [id |-> NoRun, state |-> "none"]
Given == {r \in Runs : job[r] # "none"}
Read(k) == IF k = kind THEN Author ELSE NoRun

LEMMA EParts ==
  ASSUME EInv
  PROVE  /\ kind \in Kinds /\ phase \in [Runs -> Phases] /\ work \in [Runs -> Work]
         /\ job \in [Runs -> JobStates] /\ current \in Runs \cup {NoRun}
         /\ Fetched \in Results \cup {NoFile} /\ (Fetched # NoFile => Fetched.run \in Runs)
         /\ \A r \in Runs : job[r] = "running" => current = r
BY InvParts DEF EInv, IInv, RegistryType, DiskType, OneJob, Results, Fetched

(* What touches neither the registry nor what GET gives, the callers are   *)
(* not told of.                                                            *)
LEMMA ContractUntouched ==
  ASSUME kind' = kind, job' = job, current' = current, Fetched' = Fetched
  PROVE  UNCHANGED Contract!vars
BY DEF Contract!vars, Shown, Author

LEMMA AtWork ==
  ASSUME EInv, NEW r \in Runs, Active(r), NEW p \in Phases, p # "idle", Goto(r, p)
  PROVE  /\ \A q \in Runs : phase'[q] = IF q = r THEN p ELSE phase[q]
         /\ \A q \in Runs : phase[q] # "idle" => phase'[q] # "idle"
         /\ \A q \in Runs : (phase[q] = "idle") = (phase'[q] = "idle")
<1>1. phase \in [Runs -> Phases] /\ phase[r] # "idle"
  BY EParts DEF Active
<1> QED BY <1>1 DEF Goto

LEMMA FetchedStays == ASSUME UNCHANGED <<kind, disk>> PROVE Fetched' = Fetched
BY DEF disk, Fetched

(* A run at work that moves on, and writes nothing a reader sees.          *)
LEMMA MovesOn ==
  ASSUME EInv, NEW r \in Runs, Active(r), NEW p \in Phases, Goto(r, p),
         p \notin {"idle", "audit", "returned", "thrown"},
         p = "result" => kind = "contradictions",
         UNCHANGED registry, Fetched' = Fetched
  PROVE  RegistryFits' /\ AuthorFits' /\ UNCHANGED Contract!vars
<1>1. kind' = kind /\ job' = job /\ current' = current
  BY DEF registry
<1>2. \A q \in Runs : phase'[q] = IF q = r THEN p ELSE phase[q]
  BY AtWork
<1>3. \A q \in Runs : Active(q)' = Active(q)
  BY <1>2 DEF Active, Ended
<1>4. RegistryFits'
  BY <1>1, <1>2, <1>3 DEF EInv, RegistryFits, Active
<1>5. AuthorFits'
  <2>1. Author' = Author
    BY <1>1 DEF Author
  <2>2. Fetched # NoFile => phase'[Fetched.run] # "idle"
    BY <1>2, EParts DEF EInv, AuthorFits
  <2> QED BY <1>1, <1>2, <2>1, <2>2 DEF EInv, AuthorFits
<1> QED BY <1>1, <1>4, <1>5, ContractUntouched

LEMMA QuietSteps ==
  ASSUME EInv, NEW r \in Runs,
         \/ MapRefused(r) \/ MapBegins(r) \/ WorkerSucceeds(r) \/ WorkerSkips(r) \/ WorkerFails(r)
         \/ LoadsNothing(r) \/ LoadFails(r) \/ JudgeEnds(r) \/ JudgeFails(r)
         \/ AuditFails(r) \/ CaughtError(r)
  PROVE  RegistryFits' /\ AuthorFits' /\ UNCHANGED Contract!vars
<1>1. \E p \in Phases :
        Goto(r, p) /\ Active(r) /\ p \notin {"idle", "result", "audit", "returned", "thrown"}
  <2>1. CASE WorkerSucceeds(r) \/ WorkerSkips(r) \/ WorkerFails(r)
    <3>1. \A w : SettleMap(r, w) \in {"map", "judge", "list", "caught"}
      BY DEF SettleMap, AfterMap
    <3>2. PICK w : Goto(r, SettleMap(r, w)) /\ phase[r] = "map"
      BY <2>1 DEF WorkerSucceeds, WorkerSkips, WorkerFails, WorkerEnds
    <3> QED BY <3>1, <3>2 DEF Phases, Active, Ended
  <2>2. CASE MapRefused(r) \/ MapBegins(r) \/ LoadsNothing(r) \/ LoadFails(r)
    BY <2>2 DEF MapRefused, MapBegins, LoadsNothing, LoadFails, Phases, Active, Ended
  <2>3. CASE JudgeEnds(r) \/ JudgeFails(r) \/ AuditFails(r) \/ CaughtError(r)
    BY <2>3 DEF JudgeEnds, JudgeFails, AuditFails, CaughtError, Phases, Active, Ended
  <2> QED BY <2>1, <2>2, <2>3
<1>2. UNCHANGED <<registry, disk>>
  BY DEF MapRefused, MapBegins, WorkerSucceeds, WorkerSkips, WorkerFails, WorkerEnds, LoadsNothing,
         LoadFails, JudgeEnds, JudgeFails, AuditFails, CaughtError
<1>3. Fetched' = Fetched
  BY <1>2, FetchedStays DEF registry
<1> QED BY <1>1, <1>2, <1>3, MovesOn

(* What GET gives is written by the running job, or beside it.             *)
LEMMA FetchedWritten ==
  ASSUME EInv, NEW r \in Runs, Active(r), NEW p \in Phases, Goto(r, p),
         p \notin {"idle", "returned", "thrown"},
         NEW status, Fetched' = [run |-> r, status |-> status],
         p = "audit" => status # "failed", p = "result" => kind = "contradictions",
         UNCHANGED registry, NoFile # Fetched'
  PROVE  RegistryFits' /\ AuthorFits' /\ [Contract!Next]_(Contract!vars)
<1>1. kind' = kind /\ job' = job /\ current' = current /\ kind \in Kinds
  BY EParts DEF registry
<1>2. \A q \in Runs : phase'[q] = IF q = r THEN p ELSE phase[q]
  BY AtWork
<1>3. \A q \in Runs : Active(q)' = Active(q)
  BY <1>2 DEF Active, Ended
<1>4. RegistryFits'
  BY <1>1, <1>2, <1>3 DEF EInv, RegistryFits, Active
<1>5. Fetched'.run = r /\ Fetched'.status = status /\ Fetched' # NoFile
  OBVIOUS
<1>6. Author' = IF job[r] = "none" THEN "direct" ELSE IF status = "failed" THEN NoRun ELSE r
  BY <1>1, <1>5 DEF Author
<1>7. job[r] # "none" => job[r] = "running" /\ current = r
  BY EParts DEF EInv, RegistryFits
<1>8. AuthorFits'
  <2>1. phase'[r] # "idle"
    BY <1>2
  <2>3. \A q \in Runs : phase'[q] = "result" => kind' = "contradictions"
    BY <1>1, <1>2 DEF EInv, AuthorFits
  <2>2. ASSUME NEW q \in Runs, phase'[q] = "audit", job'[q] = "running"
        PROVE  Author' \in {q, "direct"}
    <3>1. current = q
      BY <1>1, <2>2, EParts
    <3>2. job[r] # "none" => q = r
      BY <1>7, <3>1
    <3> QED BY <1>2, <1>6, <2>2, <3>2
  <2> QED BY <1>5, <2>1, <2>2, <2>3 DEF AuthorFits
<1> DEFINE told == [x \in Kinds |-> Told(x)]
           results == [x \in Kinds |-> Read(x)]
<1>0. PICK k \in Kinds : k = kind
  BY <1>1
<1>9. told' = told /\ Given' = Given
  BY <1>1 DEF Told, Shown, Given
<1>10. results' = [results EXCEPT ![k] = Author']
  BY <1>0, <1>1 DEF Read
<1>11. CASE job[r] = "none"
  <2>1. Author' = "direct"
    BY <1>6, <1>11
  <2>2. Contract!Bypass(k)
    BY <1>9, <1>10, <2>1 DEF Contract!Bypass, Told, Read, Given
  <2> QED BY <1>4, <1>8, <2>2 DEF Contract!Next
<1>12. CASE job[r] # "none"
  <2>1. told[k].state = "running" /\ told[k].id = r /\ Author' \in {told[k].id, NoRun}
    <3>1. told[k] = [id |-> r, state |-> "running"]
      BY <1>0, <1>1, <1>7, <1>12, RunAssumption DEF Told, Shown
    <3> QED BY <1>6, <1>12, <3>1
  <2>2. Contract!Write(k)
    BY <1>9, <1>10, <2>1 DEF Contract!Write, Contract!Running, Told, Read, Given
  <2> QED BY <1>4, <1>8, <2>2 DEF Contract!Next
<1> QED BY <1>11, <1>12

(* The running job ends.                                                   *)
LEMMA JobEndsWell ==
  ASSUME NEW k \in Kinds, k = kind, kind' = kind, NEW r \in Runs, current = r, current' = current,
         job[r] = "running", NEW to \in {"done", "error", "cancelled"}, job'[r] = to,
         Author' = Author, Given' = Given, to = "done" => Author \in {r, "direct"}
  PROVE  Contract!End(k)
<1>1. Told(k) = [id |-> r, state |-> "running"] /\ Read(k) = Author
  BY RunAssumption DEF Told, Shown, Read
<1>2. Told(k)' = [id |-> r, state |-> to]
  BY RunAssumption DEF Told, Shown
<1>3. \A x \in Kinds \ {k} : Told(x)' = Told(x)
  BY DEF Told
<1>4. \A x \in Kinds : Read(x)' = Read(x)
  BY DEF Read
<1> DEFINE told == [x \in Kinds |-> Told(x)]
           results == [x \in Kinds |-> Read(x)]
<1>5. told[k] = [id |-> r, state |-> "running"] /\ results[k] = Author
  BY <1>1
<1>6. told' = [told EXCEPT ![k] = [id |-> r, state |-> to]]
  BY <1>2, <1>3
<1>7. results' = [results EXCEPT ![k] = Author]
  BY <1>1, <1>4
<1>8. told[k].id = r /\ told[k].state = "running"
  BY <1>5
<1> QED
  BY <1>5, <1>6, <1>7, <1>8 DEF Contract!End, Contract!Running, Told, Read, Given

(* A runner settles: its job is told as ended, as done only if it has      *)
(* written its results.                                                    *)
LEMMA JobSettles ==
  ASSUME EInv, NEW r \in Runs, NEW ending \in {"returned", "thrown"},
         NEW outcome \in {"done", "error"}, Settle(r, ending, outcome),
         phase[r] \in {"audit", "caught", "error audit"}, outcome = "done" => phase[r] = "audit"
  PROVE  RegistryFits' /\ AuthorFits' /\ [Contract!Next]_(Contract!vars)
<1>1. kind' = kind /\ current' = current /\ Fetched' = Fetched /\ Goto(r, ending) /\ kind \in Kinds
  BY EParts, FetchedStays DEF Settle
<1>2. Active(r) /\ ending \in Phases /\ ending # "idle"
  BY DEF Active, Ended, Phases
<1>3. \A q \in Runs : phase'[q] = IF q = r THEN ending ELSE phase[q]
  BY <1>1, <1>2, AtWork
<1>4. \A q \in Runs : Active(q)' = (Active(q) /\ q # r)
  BY <1>2, <1>3 DEF Active, Ended
<1>5. CASE job[r] # "running"
  <2>1. job' = job /\ job[r] = "none"
    BY <1>2, <1>5 DEF Settle, EInv, RegistryFits
  <2>2. RegistryFits'
    BY <1>1, <1>2, <1>3, <1>4, <2>1 DEF EInv, RegistryFits, Active
  <2>3. Author' = Author
    BY <1>1, <2>1 DEF Author
  <2>4. AuthorFits'
    BY <1>1, <1>2, <1>3, <2>1, <2>3, EParts DEF EInv, AuthorFits
  <2> QED BY <1>1, <2>1, <2>2, <2>4, ContractUntouched
<1>6. CASE job[r] = "running"
  <2> DEFINE told == IF aborted[r] THEN "cancelled" ELSE outcome
  <2>1. job' = [job EXCEPT ![r] = told] /\ told \in {"done", "error", "cancelled"}
    BY <1>6 DEF Settle
  <2>2. told = "done" => Author \in {r, "direct"}
    BY <1>6 DEF EInv, AuthorFits
  <2> HIDE DEF told
  <2>3. current = r /\ job \in [Runs -> JobStates]
    BY <1>6, EParts
  <2>4. \A q \in Runs : job'[q] = IF q = r THEN told ELSE job[q]
    BY <2>1, <2>3
  <2>5. \A q \in Runs : (job'[q] = "none") = (job[q] = "none")
    BY <1>6, <2>1, <2>4
  <2>6. RegistryFits'
    BY <1>1, <1>2, <1>3, <1>4, <2>1, <2>3, <2>4 DEF EInv, RegistryFits, Active
  <2>7. Author' = Author
    BY <1>1, <2>5, EParts DEF Author
  <2>8. AuthorFits'
    BY <1>1, <1>2, <1>3, <2>1, <2>4, <2>7, EParts DEF EInv, AuthorFits
  <2>9. PICK k \in Kinds : k = kind
    BY <1>1
  <2>10. Given' = Given
    BY <2>5 DEF Given
  <2>11. job'[r] = told
    BY <2>4
  <2>13. Contract!End(k)
    BY <1>1, <1>6, <2>1, <2>2, <2>3, <2>7, <2>9, <2>10, <2>11, JobEndsWell
  <2> QED BY <2>6, <2>8, <2>13 DEF Contract!Next
<1> QED BY <1>5, <1>6

LEMMA RunBegins ==
  ASSUME EInv, NEW r \in Runs, StartJob(r) \/ StartDirect(r)
  PROVE  RegistryFits' /\ AuthorFits' /\ [Contract!Next]_(Contract!vars)
<1>1. /\ phase[r] = "idle" /\ Goto(r, "load")
      /\ kind' = kind /\ Fetched' = Fetched /\ kind \in Kinds
  BY EParts, FetchedStays DEF StartJob, StartDirect, Begin, registry
<1>2. \A q \in Runs : phase'[q] = IF q = r THEN "load" ELSE phase[q]
  BY <1>1, EParts DEF Goto
<1>3. \A q \in Runs : Active(q)' = (Active(q) \/ q = r)
  BY <1>1, <1>2 DEF Active, Ended
<1>4. job[r] = "none" /\ (Fetched # NoFile => Fetched.run # r)
  BY <1>1 DEF EInv, RegistryFits, AuthorFits
<1>5. CASE StartDirect(r)
  <2>1. job' = job /\ current' = current
    BY <1>5 DEF StartDirect, registry
  <2>2. RegistryFits'
    BY <1>2, <1>3, <1>4, <2>1 DEF EInv, RegistryFits
  <2>3. AuthorFits'
    <3>1. Author' = Author
      BY <1>1, <2>1 DEF Author
    <3> QED BY <1>1, <1>2, <2>1, <3>1, EParts DEF EInv, AuthorFits
  <2> QED BY <1>1, <2>1, <2>2, <2>3, ContractUntouched
<1>6. CASE StartJob(r)
  <2>1. job' = [job EXCEPT ![r] = "running"] /\ current' = r /\ Free
    BY <1>6 DEF StartJob
  <2>2. \A q \in Runs : job'[q] = IF q = r THEN "running" ELSE job[q]
    BY <2>1, EParts
  <2>3. \A q \in Runs : job[q] # "running"
    BY <2>1, EParts DEF Free
  <2>4. RegistryFits'
    <3>1. ASSUME NEW q \in Runs
          PROVE  /\ phase'[q] = "idle" => job'[q] = "none"
                 /\ job'[q] # "none" => (job'[q] = "running" <=> Active(q)')
      <4>1. CASE q = r
        BY <1>2, <1>3, <2>2, <4>1
      <4>2. CASE q # r
        BY <1>2, <1>3, <2>2, <4>2 DEF EInv, RegistryFits
      <4> QED BY <4>1, <4>2
    <3>2. job'[r] = "running" /\ current' = r
      BY <2>1, <2>2
    <3> QED BY <3>1, <3>2 DEF RegistryFits
  <2>5. Author' = Author
    BY <1>1, <1>4, <2>2, EParts DEF Author
  <2>6. AuthorFits'
    BY <1>1, <1>2, <2>2, <2>3, <2>5, EParts DEF EInv, AuthorFits
  <2> DEFINE tale == [x \in Kinds |-> Told(x)]
             results == [x \in Kinds |-> Read(x)]
  <2>7. PICK k \in Kinds : k = kind
    BY <1>1
  <2>8. tale[k].state # "running"
    BY <2>3, <2>7, EParts DEF Told, Shown
  <2>9. tale' = [tale EXCEPT ![k] = [id |-> r, state |-> "running"]]
    BY <1>1, <2>1, <2>2, <2>7, RunAssumption DEF Told, Shown
  <2>10. results' = results /\ Given' = Given \cup {r} /\ r \notin Given
    BY <1>1, <1>4, <2>2, <2>5 DEF Read, Given
  <2>11. Contract!Start(k)
    BY <2>8, <2>9, <2>10 DEF Contract!Start, Contract!Running, Told, Read, Given
  <2> QED BY <2>4, <2>6, <2>11 DEF Contract!Next
<1> QED BY <1>5, <1>6

LEMMA Writes ==
  ASSUME EInv, NEW r \in Runs,
         WriteList(r) \/ WriteResult(r) \/ WriteFailedList(r) \/ WriteFailedResult(r)
  PROVE  RegistryFits' /\ AuthorFits' /\ [Contract!Next]_(Contract!vars)
<1>1. UNCHANGED registry /\ kind' = kind /\ Active(r)
  BY DEF WriteList, WriteResult, WriteFailedList, WriteFailedResult, registry, Active, Ended
<1>2. CASE WriteList(r)
  <2> DEFINE p == IF kind = "contradictions" THEN "result" ELSE "audit"
  <2>1. p \in Phases /\ p \notin {"idle", "returned", "thrown"} /\ Goto(r, p)
    BY <1>2 DEF WriteList, Phases
  <2>2. list' = [run |-> r, status |-> StatusOf(r)] /\ result' = result
    BY <1>2 DEF WriteList
  <2>3. StatusOf(r) # "failed" /\ list' # NoFile
    BY <2>2, EParts, StatusType, FileAssumption DEF StatusOf
  <2>4. \/ Fetched' = list'
        \/ Fetched' = Fetched /\ p = "result"
    BY <1>1, <2>2, EParts DEF Fetched, Kinds
  <2>5. p = "result" => kind = "contradictions"
    OBVIOUS
  <2> HIDE DEF p
  <2>6. CASE Fetched' = list'
    BY <1>1, <2>1, <2>2, <2>3, <2>5, <2>6, FetchedWritten
  <2>7. CASE Fetched' = Fetched /\ p = "result"
    BY <1>1, <2>1, <2>5, <2>7, MovesOn
  <2> QED BY <2>4, <2>6, <2>7
<1>3. CASE WriteResult(r)
  <2>1. "audit" \in Phases /\ Goto(r, "audit") /\ kind = "contradictions"
    BY <1>3 DEF WriteResult, Phases, EInv, AuthorFits
  <2>2. result' = [run |-> r, status |-> StatusOf(r)]
    BY <1>3 DEF WriteResult
  <2>3. StatusOf(r) # "failed" /\ result' # NoFile
    BY <2>2, EParts, StatusType, FileAssumption DEF StatusOf
  <2>4. Fetched' = result'
    BY <1>1, <2>1, <2>3 DEF Fetched
  <2> QED BY <1>1, <2>1, <2>2, <2>3, <2>4, FetchedWritten
<1>4. CASE WriteFailedList(r)
  <2>1. "failed result" \in Phases /\ Goto(r, "failed result")
    BY <1>4 DEF WriteFailedList, Phases
  <2>2. list' = [run |-> r, status |-> "failed"] /\ result' = result
    BY <1>4 DEF WriteFailedList, Failed
  <2>3. list' # NoFile
    BY <2>2, FileAssumption DEF Results
  <2>4. Fetched' = list' \/ Fetched' = Fetched
    BY <1>1, <2>2 DEF Fetched
  <2>5. CASE Fetched' = list'
    BY <1>1, <2>1, <2>2, <2>3, <2>5, FetchedWritten
  <2>6. CASE Fetched' = Fetched
    BY <1>1, <2>1, <2>6, MovesOn
  <2> QED BY <2>4, <2>5, <2>6
<1>5. CASE WriteFailedResult(r)
  <2>1. "error audit" \in Phases /\ Goto(r, "error audit")
    BY <1>5 DEF WriteFailedResult, Phases
  <2>2. result' = [run |-> r, status |-> "failed"] /\ list' = list
    BY <1>5 DEF WriteFailedResult, Failed
  <2>3. result' # NoFile
    BY <2>2, FileAssumption DEF Results
  <2>4. Fetched' = result' \/ Fetched' = Fetched
    BY <1>1, <2>2, <2>3 DEF Fetched
  <2>5. CASE Fetched' = result'
    BY <1>1, <2>1, <2>2, <2>3, <2>5, FetchedWritten
  <2>6. CASE Fetched' = Fetched
    BY <1>1, <2>1, <2>6, MovesOn
  <2> QED BY <2>4, <2>5, <2>6
<1> QED BY <1>2, <1>3, <1>4, <1>5

LEMMA ContractKept ==
  ASSUME EInv, [Next]_vars
  PROVE  RegistryFits' /\ AuthorFits' /\ [Contract!Next]_(Contract!vars)
<1>1. ASSUME NEW r \in Runs, StartJob(r) \/ StartDirect(r)
      PROVE  RegistryFits' /\ AuthorFits' /\ [Contract!Next]_(Contract!vars)
  BY <1>1, RunBegins
<1>2. ASSUME NEW r \in Runs,
             WriteList(r) \/ WriteResult(r) \/ WriteFailedList(r) \/ WriteFailedResult(r)
      PROVE  RegistryFits' /\ AuthorFits' /\ [Contract!Next]_(Contract!vars)
  BY <1>2, Writes
<1>3. ASSUME NEW r \in Runs, Audited(r) \/ CaughtAbort(r) \/ ErrorAudited(r)
      PROVE  RegistryFits' /\ AuthorFits' /\ [Contract!Next]_(Contract!vars)
  BY <1>3, JobSettles DEF Audited, CaughtAbort, ErrorAudited, Returns, Throws
<1>4. ASSUME NEW r \in Runs, RunStep(r)
      PROVE  RegistryFits' /\ AuthorFits' /\ [Contract!Next]_(Contract!vars)
  BY <1>2, <1>3, <1>4, QuietSteps DEF RunStep
<1>5. CASE Cancel \/ UNCHANGED vars
  <2>1. UNCHANGED <<registry, phase, disk>>
    BY <1>5 DEF Cancel, vars
  <2>2. kind' = kind /\ job' = job /\ current' = current /\ Fetched' = Fetched /\ phase' = phase
    BY <2>1, FetchedStays DEF registry
  <2>3. RegistryFits' /\ AuthorFits'
    BY <2>2 DEF EInv, RegistryFits, AuthorFits, Active, Ended, Author
  <2> QED BY <2>2, <2>3, ContractUntouched
<1> QED BY <1>1, <1>4, <1>5 DEF Next

(* JobRegistry and the services it runs keep their contract with those who *)
(* start jobs, poll and fetch: one job of a pair at a time, and the        *)
(* results of a job that is told as done are there, wherever a batch, a    *)
(* write, an audit fails or a cancel comes, unless the direct route has    *)
(* replaced them.                                                          *)
THEOREM ContractHolds == Spec => RefinesContract
<1>1. Init => EInv /\ Contract!Init
  <2> SUFFICES ASSUME Init PROVE EInv /\ Contract!Init
    OBVIOUS
  <2>1. RegistryFits /\ AuthorFits
    BY DEF Init, RegistryFits, AuthorFits, Active, Fetched
  <2>2. [k \in Kinds |-> Told(k)] = [k \in Kinds |-> [id |-> NoRun, state |-> "none"]]
    BY DEF Init, Told, Shown
  <2>3. [k \in Kinds |-> Read(k)] = [k \in Kinds |-> NoRun] /\ Given = {}
    BY DEF Init, Read, Author, Given, Fetched
  <2> QED BY <2>1, <2>2, <2>3, InitInv DEF EInv, Contract!Init, Contract!Untold, Told, Read, Given
<1>2. EInv /\ [Next]_vars => EInv' /\ [Contract!Next]_(Contract!vars)
  BY ContractKept, StepKeepsInv DEF EInv
<1> QED BY <1>1, <1>2, PTL DEF Spec, RefinesContract, Contract!Spec

-----------------------------------------------------------------------------
(* The requests, by what they are about.                                   *)
JobActs == {"start", "status", "poll"}
PieceActs == {"content", "reread", "reindex", "delete", "drop", "upload", "save", "version"}
Questions == {"ask", "deep"}
ActNames == InSession \cup JobActs \cup PieceActs \cup Questions \cup Clicks \cup {"list", "task", "cancel"}

(* The state of a panel by its tab, and what a request can be answered.    *)
JobStatesShown == {"none", "running"} \cup JobEnded
ShownJob == [id : Nat, state : JobStatesShown, case : Cases \cup {None}]
JobsPanel ==
  [job : ShownJob, timer : BOOLEAN, notified : Nat, jobError : BOOLEAN, list : Nat,
   listError : BOOLEAN, followed : Nat, mounted : BOOLEAN, overtaken : BOOLEAN,
   late : BOOLEAN, outdated : BOOLEAN]
MaterialsPanel ==
  [listed : BOOLEAN, active : Pieces \cup {None}, content : Pieces \cup {None},
   working : SUBSET ActNames, strayed : BOOLEAN, failed : BOOLEAN]
PromptsPanel ==
  [listed : BOOLEAN, active : Pieces \cup {None}, content : Pieces \cup {None},
   draft : Pieces \cup {None}, working : SUBSET ActNames]
InquiryPanel ==
  [history : Seq(Nat), live : Questions \cup {None}, told : SUBSET Nat, overlapped : BOOLEAN]
Overview ==
  [snapshot : Cases \cup {None}, acting : SUBSET ActNames, polled : BOOLEAN, strayed : BOOLEAN]

Errors == {Failure, Rejected}
Answer ==
  {None} \cup Errors \cup [done : BOOLEAN] \cup [session : Nat] \cup [job : ShownJob]
    \cup [list : Nat \cup (SUBSET Pieces) \cup Seq(Nat) \cup {None}] \cup [inquiry : Nat]
    \cup [task : Cases \cup {None}]
Call ==
  [act : ActNames, key : Pieces \cup Cases \cup {None}, case : Cases \cup {None}, heeded : BOOLEAN,
   token : Nat \cup {None}, answer : Answer]

(* What the server's files and memory have in common with each other.      *)
ServerFits ==
  /\ tab \in Tabs
  /\ logins \in Nat /\ started \in Nat /\ posed \in Nat
  /\ jobs \in [Cases -> ShownJob] /\ found \in [Cases -> Nat]
  /\ asked \in [Cases -> Seq(Nat)]
  /\ tasks \subseteq Cases
  /\ \A c \in Cases :
       /\ jobs[c].case \in {None, c}
       /\ found[c] <= started /\ jobs[c].id <= started
       /\ jobs[c].state = "running" => found[c] <= jobs[c].id /\ 0 < jobs[c].id
       /\ jobs[c].state = "done" => jobs[c].id <= found[c]
       /\ Range(asked[c]) \subseteq 1..posed /\ IsInjective(asked[c])

(* A request is one its tab sends; its answer is one of what it was asked. *)
Sendable(act) ==
  \/ act \in InSession
  \/ tab = "jobs" /\ act \in JobActs \cup {"list", "cancel"}
  \/ tab = "materials" /\ act \in {"list", "content", "reread", "reindex", "delete", "drop", "upload"}
  \/ tab = "prompts" /\ act \in {"list", "content", "reread", "save", "version"}
  \/ tab = "inquiry" /\ act \in {"list"} \cup Questions
  \/ tab = "tasks" /\ act \in {"task"} \cup Clicks
  \/ tab = "plain" /\ act = "list"

(* A job that is told is not newer than the one that runs, and runs if it  *)
(* is that one.                                                            *)
JobOf(b, c) ==
  /\ b.case \in {None, c} /\ (b.state = "done" => b.id <= found[c])
  /\ b.id <= started
  /\ jobs[c].state = "running" => b.id < jobs[c].id \/ b.state = "running"
HistoryOf(h, c) == Range(h) \subseteq Range(asked[c]) /\ IsInjective(h)
AnswerFits(k) ==
  /\ k.act = "login" => k.answer \in [session : 0..logins]
  /\ k.act \in JobActs => k.answer \in [job : ShownJob] /\ JobOf(k.answer.job, k.case)
  /\ k.act = "start" => k.answer.job.state = "running"
  /\ k.act = "list" /\ tab = "jobs" => k.answer \in [list : Nat]
  /\ k.act = "list" /\ tab \in {"materials", "prompts"} => k.answer \in [list : SUBSET Pieces]
  /\ k.act = "list" /\ tab = "inquiry" =>
       k.answer \in [list : Seq(Nat)] /\ HistoryOf(k.answer.list, k.case)
  /\ k.act \in Questions => k.answer \in [inquiry : Nat] /\ k.answer.inquiry \in Range(asked[k.case])
  /\ k.act \in {"task"} \cup Clicks => k.answer \in [task : {None, k.case}]

CallFits(k) ==
  /\ Sendable(k.act)
  /\ k.act \notin InSession => k.case \in Cases
  /\ k.act \in PieceActs => k.key \in Pieces \cup {None}
  /\ k.token \in 0..logins \cup {None}
  /\ k.act = "me" => k.token \in 0..logins
  /\ k.answer = None \/ k.answer \in Errors \/ AnswerFits(k)
Fitting == {k \in Call : CallFits(k)}

(* Of the stored token's check there is one, behind a reload.  No login    *)
(* gives its session again, nor is a password changed with it before it is *)
(* checked.                                                                *)
Newer(login, me) ==
  login.act = "login" /\ login.answer \notin {None} \cup Errors => me.token < login.answer.session
OtherSession(change, me) == change.act = "change" => change.token # me.token
Sound(s) ==
  /\ s \in Seq(Fitting)
  /\ \A j \in DOMAIN s : s[j].act = "me" => j = 1
  /\ \A j, k \in DOMAIN s : s[j].act = "me" => Newer(s[k], s[j]) /\ (crossed \/ OtherSession(s[k], s[j]))

SessionFits ==
  /\ token \in 0..logins \cup {None} /\ user \in 0..logins \cup {None}
  /\ restoring \in BOOLEAN /\ crossed \in BOOLEAN
  /\ ~crossed =>
       /\ user # None => user = token
       /\ \A j \in DOMAIN calls : calls[j].act = "me" /\ calls[j].token = token => user = None

(* What is heeded was asked for the case that is open, but for the buttons *)
(* of TaskOverview.                                                        *)
Heeds(s, c) == \A j \in DOMAIN s : s[j].heeded /\ s[j].act \notin InSession \cup Clicks => s[j].case = c

PageFits == page \in Cases \cup {None} /\ Heeds(calls, page)

(* A request for the list that is not answered with less than job n's.     *)
Brings(k, n) ==
  /\ k.heeded /\ k.act = "list" /\ k.key = None
  /\ k.answer \in {None} \cup Errors \/ k.answer.list >= n

(* A job that is done was told to the list, and one that was shown as      *)
(* running is not lost sight of, but for what the histories name.          *)
DoneTold(q) ==
  /\ q.timer => q.job # NoJob /\ (q.job.state \in JobEnded => q.overtaken)
  /\ q.job.state = "done" /\ ~q.mounted => q.job.id <= q.notified \/ q.overtaken \/ q.late
InSight(q) ==
  /\ q.followed <= started
  /\ jobs[page].state = "running" /\ jobs[page].id = q.followed =>
       q.job.state = "running" \/ q.late \/ q.overtaken

JobsFit ==
  At("jobs") =>
    /\ panel \in JobsPanel
    /\ panel.job.case \in {None, page}
    /\ panel.job.state = "running" =>
         panel.timer \/ Asking("cancel", None) \/ panel.jobError \/ panel.late
    /\ DoneTold(panel) /\ InSight(panel)
    /\ panel.notified <= found[page]
    /\ \/ panel.notified <= panel.list \/ panel.listError \/ panel.outdated
       \/ \E j \in DOMAIN calls : Brings(calls[j], panel.notified)

MaterialsFit ==
  At("materials") =>
    /\ panel \in MaterialsPanel
    /\ \/ panel.content = panel.active \/ panel.strayed \/ panel.failed
       \/ Asking("content", panel.active)

PromptsFit ==
  At("prompts") =>
    /\ panel \in PromptsPanel
    /\ panel.content \in {None, panel.active}
    /\ panel.content # None => panel.draft = panel.content

(* One question at a time; its answer is not in the history yet.           *)
Asked(k) == k.heeded /\ k.act \in Questions
AllShown(h, told) == IsInjective(h) /\ told \subseteq Range(h)
InquiryFits ==
  At("inquiry") =>
    /\ panel \in InquiryPanel
    /\ Range(panel.history) \subseteq Range(asked[page])
    /\ AllShown(panel.history, panel.told) \/ panel.overlapped
    /\ \A j \in DOMAIN calls :
         Asked(calls[j]) =>
           /\ panel.live = calls[j].act
           /\ calls[j].answer \in {None} \cup Errors \/ panel.overlapped
                \/ calls[j].answer.inquiry \notin Range(panel.history)
    /\ \A j, k \in DOMAIN calls : Asked(calls[j]) /\ Asked(calls[k]) => j = k

(* There is one stream, and its panel is mounted.                           *)
OneStream(s) == \A j, k \in Streams(s) : j = k /\ s[j].heeded

TasksFit ==
  /\ overview \in Overview
  /\ At("tasks") /\ overview.polled /\ ~overview.strayed => overview.snapshot \in {None, page}

ClientFits ==
  /\ ServerFits /\ Sound(calls) /\ SessionFits /\ PageFits
  /\ JobsFit /\ MaterialsFit /\ PromptsFit /\ InquiryFits /\ OneStream(calls) /\ TasksFit
-----------------------------------------------------------------------------
(* Requests come and go.                                                   *)

(* What is left of requests when some were forgotten and one may be over.  *)
SameCall(a, b) ==
  /\ a.act = b.act /\ a.key = b.key /\ a.case = b.case /\ a.token = b.token /\ a.answer = b.answer
  /\ a.heeded => b.heeded
Left(t, s) == \A j \in DOMAIN t : \E k \in DOMAIN s : j <= k /\ SameCall(t[j], s[k])

LEMMA RemovedAt ==
  ASSUME NEW S, NEW s \in Seq(S), NEW i \in DOMAIN s
  PROVE  /\ RemoveAt(s, i) \in Seq(S)
         /\ Len(RemoveAt(s, i)) = Len(s) - 1
         /\ \A j \in 1..(Len(s) - 1) : RemoveAt(s, i)[j] = s[IF j < i THEN j ELSE j + 1]
<1>1. i \in 1..Len(s) /\ Len(s) \in Nat /\ i - 1 \in Nat
  OBVIOUS
<1>2. SubSeq(s, 1, i - 1) \in Seq(S) /\ Len(SubSeq(s, 1, i - 1)) = i - 1
      /\ \A j \in 1..(i - 1) : SubSeq(s, 1, i - 1)[j] = s[j]
  BY <1>1
<1>3. SubSeq(s, i + 1, Len(s)) \in Seq(S) /\ Len(SubSeq(s, i + 1, Len(s))) = Len(s) - i
      /\ \A j \in 1..(Len(s) - i) : SubSeq(s, i + 1, Len(s))[j] = s[i + j]
  BY <1>1
<1> DEFINE a == SubSeq(s, 1, i - 1)
           b == SubSeq(s, i + 1, Len(s))
<1>4. RemoveAt(s, i) = a \o b
  BY DEF RemoveAt
<1>5. a \in Seq(S) /\ b \in Seq(S) /\ Len(a) = i - 1 /\ Len(b) = Len(s) - i
  BY <1>2, <1>3
<1> HIDE DEF a, b
<1>6. a \o b \in Seq(S) /\ Len(a \o b) = Len(s) - 1
  BY <1>1, <1>5
<1>7. ASSUME NEW j \in 1..(Len(s) - 1) PROVE (a \o b)[j] = s[IF j < i THEN j ELSE j + 1]
  <2>1. CASE j < i
    <3>1. (a \o b)[j] = a[j]
      BY <2>1, <1>1, <1>5
    <3> QED
      BY <3>1, <2>1, <1>1, <1>2 DEF a
  <2>2. CASE ~(j < i)
    <3>1. (a \o b)[j] = b[j - (i - 1)]
      BY <2>2, <1>1, <1>5
    <3>2. j - (i - 1) \in 1..(Len(s) - i) /\ i + (j - (i - 1)) = j + 1
      BY <2>2, <1>1
    <3>3. b[j - (i - 1)] = s[i + (j - (i - 1))]
      BY <3>2, <1>3 DEF b
    <3> QED
      BY <3>1, <3>2, <3>3, <2>2
  <2> QED
    BY <2>1, <2>2
<1> QED
  BY <1>4, <1>6, <1>7

LEMMA RemovedFrom ==
  ASSUME NEW S, NEW s \in Seq(S), NEW i \in DOMAIN s
  PROVE  /\ \A j \in DOMAIN RemoveAt(s, i) :
              \E k \in DOMAIN s : k # i /\ j <= k /\ RemoveAt(s, i)[j] = s[k]
         /\ \A k \in DOMAIN s \ {i} : \E j \in DOMAIN RemoveAt(s, i) : RemoveAt(s, i)[j] = s[k]
<1> DEFINE t == RemoveAt(s, i)
<1>1. t \in Seq(S) /\ Len(t) = Len(s) - 1
      /\ \A j \in 1..(Len(s) - 1) : t[j] = s[IF j < i THEN j ELSE j + 1]
  BY RemovedAt
<1> HIDE DEF t
<1>2. i \in 1..Len(s) /\ Len(s) \in Nat /\ DOMAIN t = 1..(Len(s) - 1)
  BY <1>1
<1>3. ASSUME NEW j \in DOMAIN t PROVE \E k \in DOMAIN s : k # i /\ j <= k /\ t[j] = s[k]
  <2>1. CASE j < i
    BY <2>1, <1>1, <1>2
  <2>2. CASE ~(j < i)
    <3>1. j + 1 \in DOMAIN s /\ j + 1 # i /\ j <= j + 1 /\ t[j] = s[j + 1]
      BY <2>2, <1>1, <1>2
    <3> QED
      BY <3>1
  <2> QED
    BY <2>1, <2>2
<1>4. ASSUME NEW k \in DOMAIN s, k # i PROVE \E j \in DOMAIN t : t[j] = s[k]
  <2>1. CASE k < i
    BY <2>1, <1>1, <1>2
  <2>2. CASE k > i
    <3>1. k - 1 \in DOMAIN t /\ t[k - 1] = s[k]
      BY <2>2, <1>1, <1>2
    <3> QED
      BY <3>1
  <2> QED
    BY <2>1, <2>2, <1>2, <1>4
<1> QED
  BY <1>3, <1>4 DEF t

(* Two of what is left were two before.                                    *)
LEMMA RemovedApart ==
  ASSUME NEW S, NEW s \in Seq(S), NEW i \in DOMAIN s,
         NEW j \in DOMAIN RemoveAt(s, i), NEW k \in DOMAIN RemoveAt(s, i), j # k
  PROVE  \E p, q \in DOMAIN s :
           p # q /\ p # i /\ q # i /\ RemoveAt(s, i)[j] = s[p] /\ RemoveAt(s, i)[k] = s[q]
<1> DEFINE t == RemoveAt(s, i)
           at(n) == IF n < i THEN n ELSE n + 1
<1>1. t \in Seq(S) /\ Len(t) = Len(s) - 1
      /\ \A n \in 1..(Len(s) - 1) : t[n] = s[IF n < i THEN n ELSE n + 1]
  BY RemovedAt
<1>2. j \in DOMAIN t /\ k \in DOMAIN t
  OBVIOUS
<1> HIDE DEF t
<1>3. j \in 1..(Len(s) - 1) /\ k \in 1..(Len(s) - 1) /\ i \in 1..Len(s) /\ Len(s) \in Nat
  BY <1>1, <1>2
<1>4. at(j) \in DOMAIN s /\ at(k) \in DOMAIN s /\ at(j) # at(k) /\ at(j) # i /\ at(k) # i
  BY <1>3
<1>5. t[j] = s[at(j)] /\ t[k] = s[at(k)]
  BY <1>1, <1>3
<1> HIDE DEF at
<1>6. \E p, q \in DOMAIN s : p # q /\ p # i /\ q # i /\ t[j] = s[p] /\ t[k] = s[q]
  BY <1>4, <1>5
<1> QED
  BY <1>6 DEF t

LEMMA LeftSame == ASSUME NEW S, NEW s \in Seq(S) PROVE Left(s, s)
BY DEF Left, SameCall

LEMMA LeftRemoved ==
  ASSUME NEW S, NEW s \in Seq(S), NEW i \in DOMAIN s
  PROVE  Left(RemoveAt(s, i), s)
BY RemovedFrom DEF Left, SameCall

LEMMA LeftTwice ==
  ASSUME NEW S, NEW r \in Seq(S), NEW s \in Seq(S), NEW t \in Seq(S), Left(t, s), Left(s, r)
  PROVE  Left(t, r)
<1> SUFFICES ASSUME NEW j \in DOMAIN t PROVE \E k \in DOMAIN r : j <= k /\ SameCall(t[j], r[k])
  BY DEF Left
<1>1. PICK m \in DOMAIN s : j <= m /\ SameCall(t[j], s[m])
  BY DEF Left
<1>2. PICK k \in DOMAIN r : m <= k /\ SameCall(s[m], r[k])
  BY DEF Left
<1>3. j <= k
  <2>1. j \in Nat /\ m \in Nat /\ k \in Nat
    OBVIOUS
  <2> QED
    BY <1>1, <1>2, <2>1
<1> QED
  BY <1>1, <1>2, <1>3 DEF SameCall

(* A failure is not an answer; any other is one that fits what was asked.  *)
LEMMA Heard ==
  ASSUME NEW k \in Fitting, NEW x \in {Outcome(k), Failure}, Ok(x)
  PROVE  x = k.answer /\ k.answer \notin {None} \cup Errors /\ AnswerFits(k)
<1>1. ~Ok(Failure) /\ ~Ok(Rejected)
  BY DEF Ok, Failure, Rejected
<1>2. x = k.answer /\ k.answer # None /\ k.answer \notin Errors
  BY <1>1 DEF Outcome, Errors
<1> QED
  BY <1>2 DEF Fitting, CallFits

(* A job that runs ran before, or is newer than all that were.             *)
JobsGoOn ==
  /\ started \in Nat /\ started' \in Nat /\ started <= started'
  /\ \A c \in Cases :
       /\ jobs'[c].id \in Nat
       /\ jobs'[c].state = "running" => jobs'[c] = jobs[c] \/ started < jobs'[c].id

LEMMA JobsStay == ASSUME ServerFits, UNCHANGED <<jobs, started>> PROVE JobsGoOn
BY DEF ServerFits, JobsGoOn, ShownJob

LEMMA FitsLater ==
  ASSUME tab' = tab, logins \in Nat, logins' \in Nat, logins <= logins', JobsGoOn,
         \A c \in Cases : /\ found[c] \in Nat /\ found'[c] \in Nat /\ found[c] <= found'[c]
                          /\ Range(asked[c]) \subseteq Range(asked'[c])
  PROVE  Fitting \subseteq Fitting'
<1> SUFFICES ASSUME NEW k \in Fitting PROVE k \in Fitting'
  OBVIOUS
<1>1. k \in Call /\ k \in Call'
  BY DEF Fitting, Call, Answer, Errors, Failure, Rejected, ShownJob, JobStatesShown, JobEnded
<1>2. Sendable(k.act) /\ Sendable(k.act)' /\ CallFits(k)
  BY DEF Fitting, CallFits, Sendable, InSession, JobActs, Questions, Clicks
<1>3. 0..logins \subseteq 0..logins'
  OBVIOUS
<1>4. ASSUME AnswerFits(k) PROVE AnswerFits(k)'
  <2>1. k.act = "login" => k.answer \in [session : 0..logins']
    BY <1>4, <1>3 DEF AnswerFits
  <2>2. ASSUME k.act \in JobActs PROVE k.answer \in [job : ShownJob] /\ JobOf(k.answer.job, k.case)'
    <3>1. k.case \in Cases
      BY <1>2, <2>2 DEF CallFits, JobActs, InSession
    <3>2. k.answer \in [job : ShownJob] /\ JobOf(k.answer.job, k.case)
      BY <1>4, <2>2 DEF AnswerFits
    <3> PICK b : b = k.answer.job
      OBVIOUS
    <3>3. b.id \in Nat
      BY <3>2 DEF ShownJob
    <3>4. b.id <= started /\ started <= started' /\ started \in Nat /\ started' \in Nat
      BY <3>2 DEF JobOf, JobsGoOn
    <3>5. jobs'[k.case].state = "running" => b.id < jobs'[k.case].id \/ b.state = "running"
      <4>1. CASE jobs'[k.case] = jobs[k.case]
        BY <3>2, <4>1 DEF JobOf
      <4>2. CASE started < jobs'[k.case].id
        BY <3>1, <3>3, <3>4, <4>2 DEF JobsGoOn
      <4> QED
        BY <3>1, <4>1, <4>2 DEF JobsGoOn
    <3>6. b.case \in {None, k.case} /\ (b.state = "done" => b.id <= found'[k.case])
      BY <3>1, <3>2, <3>3 DEF JobOf
    <3>7. JobOf(b, k.case)'
      BY <3>3, <3>4, <3>5, <3>6 DEF JobOf
    <3> QED
      BY <3>2, <3>7
  <2>3. ASSUME k.act = "list", tab = "inquiry"
        PROVE  k.answer \in [list : Seq(Nat)] /\ HistoryOf(k.answer.list, k.case)'
    <3>1. k.case \in Cases
      BY <1>2, <2>3 DEF CallFits, InSession
    <3> QED
      BY <1>4, <2>3, <3>1 DEF AnswerFits, HistoryOf
  <2>4. ASSUME k.act \in Questions
        PROVE  k.answer \in [inquiry : Nat] /\ k.answer.inquiry \in Range(asked'[k.case])
    <3>1. k.case \in Cases
      BY <1>2, <2>4 DEF CallFits, InSession, Questions
    <3> QED
      BY <1>4, <2>4, <3>1 DEF AnswerFits
  <2> QED
    BY <1>4, <2>1, <2>2, <2>3, <2>4
       DEF AnswerFits, JobActs, Questions, Clicks, ShownJob, JobStatesShown, JobEnded
<1> QED
  BY <1>1, <1>2, <1>3, <1>4 DEF Fitting, CallFits, InSession, PieceActs, Errors, Failure, Rejected

LEMMA SoundLater ==
  ASSUME NEW s, Sound(s), Fitting \subseteq Fitting', crossed => crossed'
  PROVE  Sound(s)'
<1>1. s \in Seq(Fitting) /\ s \in Seq(Fitting')
  BY DEF Sound
<1> QED
  BY <1>1 DEF Sound, Newer, OtherSession, Errors, Failure, Rejected

LEMMA SoundLeft ==
  ASSUME NEW s, NEW t \in Seq(Call), Sound(s), Left(t, s)
  PROVE  Sound(t)
<1>1. s \in Seq(Fitting)
  BY DEF Sound
<1>2. ASSUME NEW j \in DOMAIN t PROVE t[j] \in Fitting
  <2>1. PICK k \in DOMAIN s : SameCall(t[j], s[k])
    BY DEF Left
  <2>2. s[k] \in Fitting /\ t[j] \in Call
    BY <1>1
  <2> QED
    BY <2>1, <2>2 DEF SameCall, Fitting, CallFits, AnswerFits
<1>3. t \in Seq(Fitting)
  BY <1>2
<1>4. ASSUME NEW j \in DOMAIN t, t[j].act = "me" PROVE j = 1
  <2>1. PICK k \in DOMAIN s : j <= k /\ SameCall(t[j], s[k])
    BY DEF Left
  <2>2. k = 1
    BY <2>1, <1>4 DEF Sound, SameCall
  <2> QED
    BY <2>1, <2>2
<1>5. ASSUME NEW j \in DOMAIN t, NEW k \in DOMAIN t, t[j].act = "me"
      PROVE  Newer(t[k], t[j]) /\ (crossed \/ OtherSession(t[k], t[j]))
  <2>1. PICK p \in DOMAIN s : SameCall(t[j], s[p])
    BY DEF Left
  <2>2. PICK q \in DOMAIN s : SameCall(t[k], s[q])
    BY DEF Left
  <2>3. Newer(s[q], s[p]) /\ (crossed \/ OtherSession(s[q], s[p]))
    BY <2>1, <1>5 DEF Sound, SameCall
  <2> QED
    BY <2>1, <2>2, <2>3 DEF SameCall, Newer, OtherSession
<1> QED
  BY <1>3, <1>4, <1>5 DEF Sound

LEMMA SoundAppend ==
  ASSUME NEW s, Sound(s), NEW r \in Fitting, r.act # "me", r.answer = None,
         r.act = "change" => crossed \/ \A j \in DOMAIN s : s[j].act = "me" => s[j].token # r.token
  PROVE  Sound(Append(s, r))
<1> DEFINE t == Append(s, r)
<1>1. s \in Seq(Fitting)
  BY DEF Sound
<1>2. t \in Seq(Fitting) /\ Len(t) = Len(s) + 1 /\ t[Len(s) + 1] = r
      /\ \A j \in DOMAIN s : t[j] = s[j]
  BY <1>1
<1>3. DOMAIN t = DOMAIN s \cup {Len(s) + 1}
  BY <1>1, <1>2
<1> HIDE DEF t
<1>4. \A j \in DOMAIN t : t[j].act = "me" => j \in DOMAIN s /\ t[j] = s[j] /\ j = 1
  BY <1>2, <1>3 DEF Sound
<1>5. ASSUME NEW j \in DOMAIN t, NEW k \in DOMAIN t, t[j].act = "me"
      PROVE  Newer(t[k], t[j]) /\ (crossed \/ OtherSession(t[k], t[j]))
  <2>1. j \in DOMAIN s /\ t[j] = s[j] /\ s[j].act = "me"
    BY <1>4, <1>5
  <2>2. CASE k \in DOMAIN s
    BY <2>1, <2>2, <1>2 DEF Sound
  <2>3. CASE k = Len(s) + 1
    BY <2>1, <2>3, <1>2 DEF Newer, OtherSession
  <2> QED
    BY <2>2, <2>3, <1>3
<1>6. Sound(t)
  BY <1>2, <1>4, <1>5 DEF Sound
<1> QED
  BY <1>6 DEF t

LEMMA RequestFits ==
  ASSUME SessionFits, PageFits,
         NEW act \in ActNames, NEW key \in Pieces \cup Cases \cup {None}, Sendable(act),
         act \notin InSession => page \in Cases, act \in PieceActs => key \in Pieces \cup {None},
         act = "me" => token # None, logins \in Nat
  PROVE  /\ Request(act, key) \in Fitting
         /\ Request(act, key).act = act /\ Request(act, key).key = key
         /\ Request(act, key).case = page /\ Request(act, key).heeded
         /\ Request(act, key).token = token /\ Request(act, key).answer = None
<1> DEFINE r == Request(act, key)
<1>1. r.act = act /\ r.key = key /\ r.case = page /\ r.heeded = TRUE /\ r.token = token /\ r.answer = None
  BY DEF Request
<1>2. r \in Call
  <2>1. page \in Cases \cup {None} /\ token \in Nat \cup {None} /\ None \in Answer
    BY DEF PageFits, SessionFits, Answer
  <2> QED
    BY <2>1 DEF Request, Call
<1>3. CallFits(r)
  BY <1>1 DEF CallFits, SessionFits
<1> QED
  BY <1>1, <1>2, <1>3 DEF Fitting

LEMMA Forgotten ==
  ASSUME NEW s \in Seq(Call), NEW acts
  PROVE  /\ Forget(s, acts) \in Seq(Call) /\ Left(Forget(s, acts), s)
         /\ DOMAIN Forget(s, acts) = DOMAIN s
         /\ \A j \in DOMAIN s : /\ SameCall(Forget(s, acts)[j], s[j])
                                /\ s[j].act \notin acts => Forget(s, acts)[j].heeded = s[j].heeded
<1> DEFINE t == Forget(s, acts)
<1>1. DOMAIN t = 1..Len(s) /\ DOMAIN s = 1..Len(s) /\ Len(s) \in Nat
  BY DEF Forget
<1>2. ASSUME NEW j \in DOMAIN s
      PROVE  t[j] \in Call /\ SameCall(t[j], s[j]) /\ (s[j].act \notin acts => t[j].heeded = s[j].heeded)
  <2>1. s[j] \in Call
    OBVIOUS
  <2>2. t[j] = [s[j] EXCEPT !.heeded = @ /\ s[j].act \notin acts]
    BY DEF Forget
  <2> HIDE DEF t
  <2>3. (s[j].heeded /\ s[j].act \notin acts) \in BOOLEAN /\ s[j].heeded \in BOOLEAN
    BY <2>1 DEF Call
  <2>4. t[j] \in Call
    BY <2>1, <2>2, <2>3 DEF Call
  <2>5. t[j].heeded = (s[j].heeded /\ s[j].act \notin acts)
    BY <2>1, <2>2 DEF Call
  <2>6. t[j].act = s[j].act /\ t[j].key = s[j].key /\ t[j].case = s[j].case /\ t[j].token = s[j].token
        /\ t[j].answer = s[j].answer
    BY <2>1, <2>2 DEF Call
  <2> QED
    BY <2>3, <2>4, <2>5, <2>6 DEF SameCall
<1> HIDE DEF t
<1>3. t \in [1..Len(s) -> Call]
  <2>1. t = [j \in 1..Len(s) |-> t[j]]
    BY <1>1 DEF t, Forget
  <2> QED
    BY <1>1, <1>2, <2>1
<1>4. t \in Seq(Call)
  BY <1>1, <1>3
<1>5. Left(t, s)
  BY <1>1, <1>2 DEF Left
<1> QED
  BY <1>1, <1>2, <1>4, <1>5 DEF t

LEMMA AbortedLeft ==
  ASSUME NEW s \in Seq(Call)
  PROVE  /\ Aborted(s) \in Seq(Call) /\ Left(Aborted(s), s)
         /\ OneStream(s) => Streams(Aborted(s)) = {}
<1>1. CASE Streams(s) = {}
  BY <1>1, LeftSame DEF Aborted
<1>2. CASE Streams(s) # {}
  <2>1. PICK i \in Streams(s) : Aborted(s) = RemoveAt(s, i)
    BY <1>2 DEF Aborted
  <2>2. i \in DOMAIN s
    BY DEF Streams
  <2>3. Aborted(s) \in Seq(Call) /\ Left(Aborted(s), s)
    BY <2>1, <2>2, RemovedAt, LeftRemoved
  <2>4. \A j \in DOMAIN Aborted(s) : \E k \in DOMAIN s : k # i /\ Aborted(s)[j] = s[k]
    BY <2>1, <2>2, RemovedFrom
  <2>5. OneStream(s) => Streams(Aborted(s)) = {}
    BY <2>4 DEF OneStream, Streams
  <2> QED
    BY <2>3, <2>5
<1> QED
  BY <1>1, <1>2

LEMMA UnmountedLeft ==
  ASSUME NEW s \in Seq(Call), NEW kept
  PROVE  /\ Unmounted(s, kept) \in Seq(Call) /\ Left(Unmounted(s, kept), s)
         /\ \A j \in DOMAIN Unmounted(s, kept) :
              Unmounted(s, kept)[j].heeded => Unmounted(s, kept)[j].act \in kept
         /\ OneStream(s) => Streams(Unmounted(s, kept)) = {}
<1> DEFINE a == Aborted(s)
           t == Unmounted(s, kept)
<1>1. a \in Seq(Call) /\ Left(a, s) /\ (OneStream(s) => Streams(a) = {})
  BY AbortedLeft
<1>2. t = [j \in DOMAIN a |-> [a[j] EXCEPT !.heeded = @ /\ a[j].act \in kept]]
  BY DEF Unmounted
<1> HIDE DEF a, t
<1>3. DOMAIN t = 1..Len(a) /\ DOMAIN a = 1..Len(a) /\ Len(a) \in Nat
  BY <1>1, <1>2
<1>4. ASSUME NEW j \in DOMAIN a
      PROVE  t[j] \in Call /\ SameCall(t[j], a[j]) /\ (t[j].heeded => t[j].act \in kept)
  <2>1. a[j] \in Call
    BY <1>1
  <2>2. t[j] = [a[j] EXCEPT !.heeded = @ /\ a[j].act \in kept]
    BY <1>2
  <2>3. (a[j].heeded /\ a[j].act \in kept) \in BOOLEAN /\ a[j].heeded \in BOOLEAN
    BY <2>1 DEF Call
  <2>4. t[j] \in Call
    BY <2>1, <2>2, <2>3 DEF Call
  <2>5. t[j].heeded = (a[j].heeded /\ a[j].act \in kept)
    BY <2>1, <2>2 DEF Call
  <2>6. t[j].act = a[j].act /\ t[j].key = a[j].key /\ t[j].case = a[j].case /\ t[j].token = a[j].token
        /\ t[j].answer = a[j].answer
    BY <2>1, <2>2 DEF Call
  <2> QED
    BY <2>3, <2>4, <2>5, <2>6 DEF SameCall
<1>5. t \in [1..Len(a) -> Call]
  BY <1>2, <1>3, <1>4
<1>6. t \in Seq(Call)
  BY <1>3, <1>5
<1>7. Left(t, a)
  BY <1>3, <1>4 DEF Left
<1>8. Left(t, s)
  BY <1>1, <1>6, <1>7, LeftTwice
<1>9. OneStream(s) => Streams(t) = {}
  BY <1>1, <1>3, <1>4 DEF Streams, SameCall
<1> QED
  BY <1>3, <1>4, <1>6, <1>8, <1>9 DEF t

-----------------------------------------------------------------------------
(* What a step leaves alone.                                               *)

LEMMA PageIsCase == ASSUME PageFits, NEW t, At(t) PROVE page \in Cases /\ tab = t
BY DEF PageFits, At

LEMMA TypesKept ==
  /\ ActNames' = ActNames /\ Errors' = Errors /\ ShownJob' = ShownJob
  /\ JobsPanel' = JobsPanel /\ MaterialsPanel' = MaterialsPanel /\ PromptsPanel' = PromptsPanel
  /\ InquiryPanel' = InquiryPanel /\ Overview' = Overview /\ Call' = Call
BY DEF ActNames, InSession, JobActs, PieceActs, Questions, Clicks, Errors, Failure, Rejected, ShownJob,
   JobStatesShown, JobEnded, JobsPanel, MaterialsPanel, PromptsPanel, InquiryPanel, Overview, Call, Answer

LEMMA ServerKept ==
  ASSUME ServerFits, UNCHANGED <<tab, serverVars>>
  PROVE  ServerFits' /\ Fitting \subseteq Fitting'
<1>1. UNCHANGED <<tab, sessions, logins, jobs, started, found, there, gone, asked, posed, tasks>>
  BY DEF serverVars
<1>2. ServerFits'
  BY <1>1 DEF ServerFits, ShownJob, JobStatesShown, JobEnded
<1>3. \A c \in Cases : found[c] \in Nat
  BY DEF ServerFits
<1> QED
  BY <1>1, <1>2, <1>3, JobsStay, FitsLater DEF ServerFits

LEMMA CallsKept ==
  ASSUME ServerFits, UNCHANGED <<tab, serverVars>>, crossed => crossed',
         NEW s, calls' = s, Sound(s), page' \in Cases \cup {None}, Heeds(s, page')
  PROVE  ServerFits' /\ Sound(calls)' /\ PageFits'
<1>1. ServerFits' /\ Fitting \subseteq Fitting'
  BY ServerKept
<1>2. Sound(s)'
  BY <1>1, SoundLater
<1>3. Sound(calls)'
  BY <1>2
<1>4. PageFits'
  BY DEF PageFits, Heeds, InSession, Clicks
<1> QED
  BY <1>1, <1>3, <1>4

LEMMA SessionKept ==
  ASSUME SessionFits, UNCHANGED <<logins, sessionVars, crossed>>,
         \A j \in DOMAIN calls' : calls'[j].act = "me" =>
           \E k \in DOMAIN calls : calls[k].act = "me" /\ calls[k].token = calls'[j].token
  PROVE  SessionFits'
BY DEF SessionFits, sessionVars

(* The requests a panel waits for are still there, and no other question.  *)
Awaited == {"list", "content", "cancel"}
Keeps(t, s) ==
  \A k \in DOMAIN s : s[k].heeded /\ s[k].act \in Awaited => \E j \in DOMAIN t : t[j] = s[k]
AsksNoMore(t, s) ==
  /\ \A j \in DOMAIN t : t[j].act \in Questions => \E k \in DOMAIN s : s[k] = t[j]
  /\ \A j, k \in DOMAIN t : j # k /\ t[j].act \in Questions /\ t[k].act \in Questions =>
       \E p, q \in DOMAIN s : p # q /\ s[p] = t[j] /\ s[q] = t[k]

LEMMA AppendKeeps ==
  ASSUME NEW S, NEW s \in Seq(S), NEW r
  PROVE  /\ Keeps(Append(s, r), s)
         /\ r.act \notin Questions => AsksNoMore(Append(s, r), s)
         /\ \E j \in DOMAIN Append(s, r) : Append(s, r)[j] = r
<1> DEFINE t == Append(s, r)
<1>1. Len(s) \in Nat /\ DOMAIN s = 1..Len(s)
  OBVIOUS
<1>2. DOMAIN t = 1..(Len(s) + 1) /\ t[Len(s) + 1] = r /\ \A j \in DOMAIN s : t[j] = s[j]
  OBVIOUS
<1> HIDE DEF t
<1>3. DOMAIN s \subseteq DOMAIN t /\ DOMAIN t = DOMAIN s \cup {Len(s) + 1} /\ Len(s) + 1 \in DOMAIN t
  BY <1>1, <1>2
<1>4. Keeps(t, s)
  BY <1>2, <1>3 DEF Keeps
<1>5. ASSUME r.act \notin Questions PROVE AsksNoMore(t, s)
  <2>1. \A j \in DOMAIN t : t[j].act \in Questions => j \in DOMAIN s /\ s[j] = t[j]
    BY <1>2, <1>3, <1>5
  <2> QED
    BY <2>1 DEF AsksNoMore
<1> QED
  BY <1>2, <1>3, <1>4, <1>5 DEF t

LEMMA RemoveKeeps ==
  ASSUME NEW S, NEW s \in Seq(S), NEW i \in DOMAIN s
  PROVE  /\ ~(s[i].heeded /\ s[i].act \in Awaited) => Keeps(RemoveAt(s, i), s)
         /\ AsksNoMore(RemoveAt(s, i), s)
<1>1. ASSUME ~(s[i].heeded /\ s[i].act \in Awaited) PROVE Keeps(RemoveAt(s, i), s)
  BY <1>1, RemovedFrom DEF Keeps
<1>2. \A j \in DOMAIN RemoveAt(s, i) : \E k \in DOMAIN s : s[k] = RemoveAt(s, i)[j]
  BY RemovedFrom
<1>3. \A j, k \in DOMAIN RemoveAt(s, i) : j # k =>
        \E p, q \in DOMAIN s : p # q /\ s[p] = RemoveAt(s, i)[j] /\ s[q] = RemoveAt(s, i)[k]
  BY RemovedApart
<1> QED
  BY <1>1, <1>2, <1>3 DEF AsksNoMore

LEMMA StreamKept ==
  ASSUME OneStream(calls), AsksNoMore(calls', calls)
  PROVE  OneStream(calls)'
<1>1. \A j \in Streams(calls)' : \E k \in Streams(calls) : calls[k] = calls'[j]
  BY DEF Streams, AsksNoMore, Questions
<1>2. \A j, k \in Streams(calls)' : j # k =>
        \E p, q \in Streams(calls) : p # q /\ calls[p] = calls'[j] /\ calls[q] = calls'[k]
  BY DEF Streams, AsksNoMore, Questions
<1> QED
  BY <1>1, <1>2 DEF OneStream, Streams

LEMMA PanelKept ==
  ASSUME PageFits, OneStream(calls), JobsFit, MaterialsFit, PromptsFit, InquiryFits,
         UNCHANGED <<tab, serverVars, page, panel>>, Keeps(calls', calls), AsksNoMore(calls', calls)
  PROVE  JobsFit' /\ MaterialsFit' /\ PromptsFit' /\ InquiryFits' /\ OneStream(calls)'
<1>1. found' = found /\ asked' = asked /\ jobs' = jobs /\ started' = started
  BY DEF serverVars
<1>2. \A t : At(t)' <=> At(t)
  BY DEF At
<1>3. \A act, key : act \in Awaited /\ Asking(act, key) => Asking(act, key)'
  BY DEF Keeps, Asking
<1>4. JobsFit'
  <2> SUFFICES ASSUME At("jobs") PROVE JobsFit'
    BY <1>2 DEF JobsFit
  <2>1. \A n : (\E j \in DOMAIN calls : Brings(calls[j], n)) => \E j \in DOMAIN calls' : Brings(calls'[j], n)
    BY DEF Keeps, Brings, Awaited
  <2>2. Asking("cancel", None) => Asking("cancel", None)'
    BY <1>3 DEF Awaited
  <2>3. panel' \in JobsPanel'
    BY DEF JobsFit, JobsPanel, ShownJob, JobStatesShown, JobEnded
  <2>4. DoneTold(panel)' /\ InSight(panel)'
    BY <1>1 DEF JobsFit, DoneTold, InSight, JobEnded, NoJob
  <2> QED
    BY <1>1, <2>1, <2>2, <2>3, <2>4 DEF JobsFit, Brings, Errors, Failure, Rejected
<1>5. MaterialsFit'
  <2> SUFFICES ASSUME At("materials") PROVE MaterialsFit'
    BY <1>2 DEF MaterialsFit
  <2>1. Asking("content", panel.active) => Asking("content", panel.active)'
    BY <1>3 DEF Awaited, Asking
  <2> QED
    BY <2>1 DEF MaterialsFit, MaterialsPanel
<1>6. PromptsFit'
  BY <1>2 DEF PromptsFit, PromptsPanel
<1>7. InquiryFits'
  <2> SUFFICES ASSUME At("inquiry") PROVE InquiryFits'
    BY <1>2 DEF InquiryFits
  <2>1. \A j \in DOMAIN calls' : Asked(calls'[j]) =>
          /\ panel.live = calls'[j].act
          /\ calls'[j].answer \in {None} \cup Errors \/ panel.overlapped
               \/ calls'[j].answer.inquiry \notin Range(panel.history)
    BY DEF AsksNoMore, InquiryFits, Asked
  <2>2. \A j, k \in DOMAIN calls' : Asked(calls'[j]) /\ Asked(calls'[k]) => j = k
    BY DEF AsksNoMore, InquiryFits, Asked
  <2> QED
    BY <1>1, <2>1, <2>2 DEF InquiryFits, InquiryPanel, AllShown, Asked, Errors, Failure, Rejected, Questions
<1> QED
  BY <1>4, <1>5, <1>6, <1>7, StreamKept

LEMMA TasksKept ==
  ASSUME TasksFit, UNCHANGED <<tab, page, overview>>
  PROVE  TasksFit'
BY DEF TasksFit, At, Overview

(* A page is left: nobody waits for the answers.                           *)
LEMMA Leaves ==
  ASSUME ServerFits, UNCHANGED <<tab, serverVars>>, crossed => crossed',
         NEW s, calls' = s, Sound(s), Heeds(s, None), Streams(s) = {}, SessionFits', Leave
  PROVE  ClientFits'
<1>1. page' = None /\ overview' = NoOverview
  BY DEF Leave
<1>2. ServerFits' /\ Sound(calls)' /\ PageFits'
  BY <1>1, CallsKept
<1>3. JobsFit' /\ MaterialsFit' /\ PromptsFit' /\ InquiryFits'
  BY <1>1 DEF JobsFit, MaterialsFit, PromptsFit, InquiryFits, At
<1>4. TasksFit'
  BY <1>1 DEF TasksFit, At, NoOverview, Overview
<1>5. OneStream(calls)'
  BY DEF OneStream, Streams
<1> QED
  BY <1>2, <1>3, <1>4, <1>5 DEF ClientFits

LEMMA StartFits == ClientInit => ClientFits
<1> SUFFICES ASSUME ClientInit PROVE ClientFits
  OBVIOUS
<1>1. ServerFits
  <2>1. NoJob \in ShownJob /\ NoJob.case = None /\ NoJob.state = "none" /\ NoJob.id = 0
    BY DEF NoJob, ShownJob, JobStatesShown
  <2>2. <<>> \in Seq(Nat) /\ Range(<<>>) = {} /\ IsInjective(<<>>)
    BY DEF Range, IsInjective
  <2> QED
    BY <2>1, <2>2 DEF ClientInit, ServerFits
<1>2. Sound(calls) /\ PageFits
  BY DEF ClientInit, Sound, PageFits, Heeds
<1>3. SessionFits
  BY DEF ClientInit, SessionFits
<1>4. JobsFit /\ MaterialsFit /\ PromptsFit /\ InquiryFits
  BY DEF ClientInit, JobsFit, MaterialsFit, PromptsFit, InquiryFits, At
<1>5. TasksFit
  BY DEF ClientInit, TasksFit, At, NoOverview, Overview
<1>6. OneStream(calls)
  BY DEF ClientInit, OneStream, Streams
<1> QED
  BY <1>1, <1>2, <1>3, <1>4, <1>5, <1>6 DEF ClientFits

-----------------------------------------------------------------------------
(* The session and the page.                                               *)

LEMMA CallsTyped == ASSUME NEW s, Sound(s) PROVE s \in Seq(Call) /\ s \in Seq(Fitting)
BY DEF Sound, Fitting

LEMMA LeftHeeds ==
  ASSUME NEW s, NEW t, NEW c, Heeds(s, c), Left(t, s)
  PROVE  Heeds(t, c)
BY DEF Heeds, Left, SameCall

LEMMA AppendHeeds ==
  ASSUME NEW S, NEW s \in Seq(S), NEW r, NEW c, Heeds(s, c),
         r.heeded /\ r.act \notin InSession \cup Clicks => r.case = c
  PROVE  Heeds(Append(s, r), c)
<1>1. \A j \in DOMAIN Append(s, r) :
        \/ j \in DOMAIN s /\ Append(s, r)[j] = s[j]
        \/ Append(s, r)[j] = r
  OBVIOUS
<1> QED
  BY <1>1 DEF Heeds

LEMMA SessionLeft ==
  ASSUME SessionFits, UNCHANGED <<logins, sessionVars, crossed>>, NEW s, NEW S, s \in Seq(S),
         Left(s, calls), NEW r, r.act # "me", calls' = Append(s, r)
  PROVE  SessionFits'
<1>1. \A j \in DOMAIN calls' : calls'[j].act = "me" => j \in DOMAIN s /\ calls'[j] = s[j]
  <2>1. \A j \in DOMAIN Append(s, r) :
          \/ j \in DOMAIN s /\ Append(s, r)[j] = s[j]
          \/ Append(s, r)[j] = r
    OBVIOUS
  <2> QED
    BY <2>1
<1>2. \A j \in DOMAIN s : \E k \in DOMAIN calls : s[j].act = calls[k].act /\ s[j].token = calls[k].token
  BY DEF Left, SameCall
<1>3. \A j \in DOMAIN calls' : calls'[j].act = "me" =>
        \E k \in DOMAIN calls : calls[k].act = "me" /\ calls[k].token = calls'[j].token
  BY <1>1, <1>2
<1> QED
  BY <1>3, SessionKept

(* A request is sent from what is open.                                    *)
LEMMA Sent ==
  ASSUME ServerFits, Sound(calls), SessionFits, PageFits,
         UNCHANGED <<tab, serverVars, sessionVars, page, crossed>>,
         NEW s \in Seq(Call), Left(s, calls),
         NEW act \in ActNames, NEW key \in Pieces \cup Cases \cup {None}, Sendable(act), act # "me",
         act \notin InSession => page \in Cases, act \in PieceActs => key \in Pieces \cup {None},
         act = "change" => user # None, calls' = Append(s, Request(act, key))
  PROVE  ServerFits' /\ Sound(calls)' /\ SessionFits' /\ PageFits'
<1> DEFINE r == Request(act, key)
<1>1. logins \in Nat
  BY DEF ServerFits
<1>2. /\ r \in Fitting /\ r.act = act /\ r.case = page /\ r.answer = None /\ r.token = token
  BY <1>1, RequestFits
<1>3. Sound(s) /\ Heeds(s, page)
  BY SoundLeft, LeftHeeds DEF PageFits
<1> HIDE DEF r
<1>4. r.act = "change" => crossed \/ \A j \in DOMAIN s : s[j].act = "me" => s[j].token # r.token
  <2>1. \A j \in DOMAIN s : \E k \in DOMAIN calls : s[j].act = calls[k].act /\ s[j].token = calls[k].token
    BY DEF Left, SameCall
  <2> QED
    BY <1>2, <2>1 DEF SessionFits
<1>5. Sound(Append(s, r))
  BY <1>2, <1>3, <1>4, SoundAppend
<1>6. Heeds(Append(s, r), page)
  BY <1>2, <1>3, AppendHeeds
<1>7. calls' = Append(s, r) /\ page' = page /\ page \in Cases \cup {None} /\ crossed' = crossed
  BY DEF r, PageFits
<1>8. ServerFits' /\ Sound(calls)' /\ PageFits'
  <2>1. PICK t : t = Append(s, r)
    OBVIOUS
  <2>2. calls' = t /\ Sound(t) /\ Heeds(t, page') /\ page' \in Cases \cup {None}
    BY <2>1, <1>5, <1>6, <1>7
  <2>3. UNCHANGED <<tab, serverVars>> /\ (crossed => crossed')
    BY <1>7
  <2> QED
    BY <2>2, <2>3, CallsKept
<1>9. SessionFits'
  BY <1>2, <1>7, SessionLeft DEF serverVars
<1> QED
  BY <1>8, <1>9

LEMMA SignInFits == ASSUME ClientFits, SignIn PROVE ClientFits'
<1>1. calls' = Append(calls, Request("login", None)) /\ UNCHANGED <<tab, serverVars, sessionVars>>
      /\ UNCHANGED <<page, panel, overview, crossed>>
  BY DEF SignIn, Send, Stay
<1>2. calls \in Seq(Call) /\ Left(calls, calls)
  BY CallsTyped, LeftSame DEF ClientFits
<1>3. ServerFits' /\ Sound(calls)' /\ SessionFits' /\ PageFits'
  BY <1>1, <1>2, Sent DEF ClientFits, Sendable, ActNames, InSession, PieceActs
<1>4. Request("login", None).act = "login"
  BY DEF Request
<1>5. Keeps(calls', calls) /\ AsksNoMore(calls', calls)
  BY <1>1, <1>2, <1>4, AppendKeeps DEF Questions
<1>6. JobsFit' /\ MaterialsFit' /\ PromptsFit' /\ InquiryFits' /\ OneStream(calls)'
  BY <1>1, <1>5, PanelKept DEF ClientFits
<1>7. TasksFit'
  BY <1>1, TasksKept DEF ClientFits
<1> QED
  BY <1>3, <1>6, <1>7 DEF ClientFits

LEMMA ChangePasswordFits == ASSUME ClientFits, ChangePassword PROVE ClientFits'
<1>1. calls' = Append(calls, Request("change", None)) /\ UNCHANGED <<tab, serverVars, sessionVars>>
      /\ UNCHANGED <<page, panel, overview, crossed>> /\ user # None
  BY DEF ChangePassword, Send, Stay
<1>2. calls \in Seq(Call) /\ Left(calls, calls)
  BY CallsTyped, LeftSame DEF ClientFits
<1>3. ServerFits' /\ Sound(calls)' /\ SessionFits' /\ PageFits'
  BY <1>1, <1>2, Sent DEF ClientFits, Sendable, ActNames, InSession, PieceActs
<1>4. Request("change", None).act = "change"
  BY DEF Request
<1>5. Keeps(calls', calls) /\ AsksNoMore(calls', calls)
  BY <1>1, <1>2, <1>4, AppendKeeps DEF Questions
<1>6. JobsFit' /\ MaterialsFit' /\ PromptsFit' /\ InquiryFits' /\ OneStream(calls)'
  BY <1>1, <1>5, PanelKept DEF ClientFits
<1>7. TasksFit'
  BY <1>1, TasksKept DEF ClientFits
<1> QED
  BY <1>3, <1>6, <1>7 DEF ClientFits

LEMMA NothingHeeded ==
  ASSUME NEW s \in Seq(Call)
  PROVE  /\ Unmounted(s, {}) \in Seq(Call) /\ Left(Unmounted(s, {}), s)
         /\ \A c : Heeds(Unmounted(s, {}), c)
         /\ OneStream(s) => Streams(Unmounted(s, {})) = {}
BY UnmountedLeft DEF Heeds

LEMMA SignOutFits == ASSUME ClientFits, SignOut PROVE ClientFits'
<1> DEFINE s == Unmounted(calls, {})
           r == Request("logout", None)
<1>1. calls' = Append(s, r) /\ UNCHANGED <<tab, serverVars, restoring, crossed>>
      /\ token' = None /\ user' = None /\ Leave
  BY DEF SignOut
<1>2. calls \in Seq(Call)
  BY CallsTyped DEF ClientFits
<1>3. s \in Seq(Call) /\ Left(s, calls) /\ Heeds(s, None) /\ Streams(s) = {}
  BY <1>2, NothingHeeded DEF ClientFits
<1>4. logins \in Nat
  BY DEF ClientFits, ServerFits
<1>5. r \in Fitting /\ r.act = "logout" /\ r.answer = None
  BY <1>4, RequestFits DEF ClientFits, Sendable, ActNames, InSession, PieceActs
<1> HIDE DEF s, r
<1>6. Sound(s)
  BY <1>3, SoundLeft DEF ClientFits
<1>7. Sound(Append(s, r)) /\ Heeds(Append(s, r), None)
  BY <1>3, <1>5, <1>6, SoundAppend, AppendHeeds DEF InSession
<1>8. SessionFits'
  BY <1>1 DEF SessionFits, ClientFits, serverVars
<1>9. Streams(Append(s, r)) = {}
  <2>1. \A j \in DOMAIN Append(s, r) : (j \in DOMAIN s /\ Append(s, r)[j] = s[j]) \/ Append(s, r)[j] = r
    BY <1>3
  <2> QED
    BY <1>3, <1>5, <2>1 DEF Streams
<1>10. PICK t : t = Append(s, r)
  OBVIOUS
<1> QED
  BY <1>1, <1>7, <1>8, <1>9, <1>10, Leaves DEF ClientFits

LEMMA ReloadFits == ASSUME ClientFits, Reload PROVE ClientFits'
<1>1. UNCHANGED <<tab, serverVars, token, crossed>> /\ user' = None /\ restoring' = (token # None) /\ Leave
      /\ calls' = IF token = None THEN <<>> ELSE <<Request("me", None)>>
  BY DEF Reload
<1>2. SessionFits'
  BY <1>1 DEF SessionFits, ClientFits, serverVars
<1>3. Sound(<<>>) /\ Heeds(<<>>, None) /\ Streams(<<>>) = {}
  BY DEF Sound, Heeds, Streams
<1>4. ASSUME token # None
      PROVE  /\ Sound(<<Request("me", None)>>) /\ Heeds(<<Request("me", None)>>, None)
             /\ Streams(<<Request("me", None)>>) = {}
  <2>1. logins \in Nat
    BY DEF ClientFits, ServerFits
  <2>2. Request("me", None) \in Fitting /\ Request("me", None).act = "me"
    BY <1>4, <2>1, RequestFits DEF ClientFits, Sendable, ActNames, InSession, PieceActs
  <2> QED
    BY <2>2 DEF Sound, Heeds, InSession, Newer, OtherSession, Streams
<1>5. PICK s : s = IF token = None THEN <<>> ELSE <<Request("me", None)>>
  OBVIOUS
<1> QED
  BY <1>1, <1>2, <1>3, <1>4, <1>5, Leaves DEF ClientFits

LEMMA LeaveCaseFits == ASSUME ClientFits, LeaveCase PROVE ClientFits'
<1> DEFINE s == Unmounted(calls, {})
<1>1. calls' = s /\ UNCHANGED <<tab, serverVars, sessionVars, crossed>> /\ Leave
  BY DEF LeaveCase
<1>2. calls \in Seq(Call)
  BY CallsTyped DEF ClientFits
<1>3. s \in Seq(Call) /\ Left(s, calls) /\ Heeds(s, None) /\ Streams(s) = {}
  BY <1>2, NothingHeeded DEF ClientFits
<1> HIDE DEF s
<1>4. Sound(s)
  BY <1>3, SoundLeft DEF ClientFits
<1>5. SessionFits'
  BY <1>1, <1>3, SessionKept DEF ClientFits, serverVars, Left, SameCall
<1>6. PICK t : t = s
  OBVIOUS
<1> QED
  BY <1>1, <1>3, <1>4, <1>5, <1>6, Leaves DEF ClientFits

(* The panel of the case that is opened starts with nothing.               *)
LEMMA FreshPanel ==
  /\ tab = "jobs" => Fresh = Jobs0 /\ Jobs0 \in JobsPanel
  /\ tab = "materials" => Fresh = Materials0 /\ Materials0 \in MaterialsPanel
  /\ tab = "prompts" => Fresh = Prompts0 /\ Prompts0 \in PromptsPanel
  /\ tab = "inquiry" => Fresh = Inquiry0 /\ Inquiry0 \in InquiryPanel
<1>1. NoJob \in ShownJob
  BY DEF NoJob, ShownJob, JobStatesShown
<1> QED
  BY <1>1 DEF Fresh, Jobs0, Materials0, Prompts0, Inquiry0, JobsPanel, MaterialsPanel, PromptsPanel,
     InquiryPanel

LEMMA FirstSent ==
  ASSUME ServerFits, SessionFits, PageFits, NEW c \in Cases
  PROVE  LET n == [i \in DOMAIN FirstRequests |-> [Request(FirstRequests[i], None) EXCEPT !.case = c]]
         IN  n \in Seq(Fitting) /\ \A i \in DOMAIN n : n[i].act \notin InSession \cup Questions /\ n[i].case = c
<1> DEFINE n == [i \in DOMAIN FirstRequests |-> [Request(FirstRequests[i], None) EXCEPT !.case = c]]
<1>1. ASSUME NEW act \in {"list", "status", "task"}, Sendable(act)
      PROVE  LET r == [Request(act, None) EXCEPT !.case = c]
             IN  r \in Fitting /\ r.act = act /\ r.case = c
  <2> DEFINE r == [Request(act, None) EXCEPT !.case = c]
  <2>1. Request(act, None) \in Call
    <3>1. token \in Nat \cup {None} /\ page \in Cases \cup {None} /\ None \in Answer
      BY DEF SessionFits, PageFits, Answer
    <3>2. act \in ActNames
      BY DEF ActNames, JobActs
    <3> QED
      BY <3>1, <3>2 DEF Request, Call
  <2>2. r \in Call
    BY <2>1 DEF Call
  <2>3. CallFits(r)
    <3>1. r.act = act /\ r.case = c /\ r.token = token /\ r.answer = None
      BY DEF Request
    <3>2. act # "me" /\ act \notin PieceActs
      BY DEF PieceActs
    <3> HIDE DEF r
    <3> QED
      BY <1>1, <3>1, <3>2 DEF CallFits, SessionFits
  <2> QED
    <3>1. r.act = act /\ r.case = c
      BY DEF Request
    <3> QED
      BY <2>2, <2>3, <3>1 DEF Fitting
<1>2. FirstRequests \in Seq({"list", "status", "task"})
      /\ \A i \in DOMAIN FirstRequests : Sendable(FirstRequests[i])
  <2>1. CASE tab = "jobs"
    BY <2>1 DEF FirstRequests, Sendable, JobActs
  <2>2. CASE tab = "tasks"
    BY <2>2 DEF FirstRequests, Sendable
  <2>3. CASE tab \notin {"jobs", "tasks"}
    <3>1. FirstRequests = <<"list">>
      BY <2>3 DEF FirstRequests
    <3>2. Sendable("list")
      BY <2>3 DEF Sendable, ServerFits, Tabs
    <3> QED
      BY <3>1, <3>2
  <2> QED
    BY <2>1, <2>2, <2>3
<1>3. ASSUME NEW i \in DOMAIN FirstRequests
      PROVE  n[i] \in Fitting /\ n[i].act \notin InSession \cup Questions /\ n[i].case = c
  <2>1. FirstRequests[i] \in {"list", "status", "task"} /\ Sendable(FirstRequests[i])
    BY <1>2
  <2> QED
    BY <1>1, <2>1 DEF InSession, Questions
<1>4. DOMAIN FirstRequests = 1..Len(FirstRequests) /\ Len(FirstRequests) \in Nat
  BY <1>2
<1>5. n \in Seq(Fitting)
  BY <1>3, <1>4
<1> QED
  BY <1>3, <1>5

LEMMA SoundJoined ==
  ASSUME NEW s, Sound(s), NEW n \in Seq(Fitting), \A j \in DOMAIN n : n[j].act \notin InSession
  PROVE  Sound(s \o n)
<1> DEFINE t == s \o n
<1>1. s \in Seq(Fitting)
  BY DEF Sound
<1>2. t \in Seq(Fitting)
  BY <1>1
<1>3. \A j \in DOMAIN t : (j \in DOMAIN s /\ t[j] = s[j]) \/ \E k \in DOMAIN n : t[j] = n[k]
  <2> SUFFICES ASSUME NEW j \in 1..(Len(s) + Len(n)), j \notin 1..Len(s)
               PROVE  \E k \in DOMAIN n : t[j] = n[k]
    BY <1>1
  <2>1. j - Len(s) \in DOMAIN n /\ t[j] = n[j - Len(s)]
    BY <1>1
  <2> QED
    BY <2>1
<1> HIDE DEF t
<1>4. \A j \in DOMAIN t : t[j].act \in InSession => j \in DOMAIN s /\ t[j] = s[j]
  BY <1>3
<1>5. Sound(t)
  BY <1>2, <1>4 DEF Sound, Newer, OtherSession, InSession
<1> QED
  BY <1>5 DEF t

LEMMA JoinedParts ==
  ASSUME NEW S, NEW s \in Seq(S), NEW n \in Seq(S)
  PROVE  \A j \in DOMAIN (s \o n) :
           \/ \E k \in DOMAIN s : (s \o n)[j] = s[k]
           \/ \E k \in DOMAIN n : (s \o n)[j] = n[k]
<1>1. /\ DOMAIN (s \o n) = 1..(Len(s) + Len(n)) /\ DOMAIN s = 1..Len(s) /\ DOMAIN n = 1..Len(n)
      /\ Len(s) \in Nat /\ Len(n) \in Nat
  OBVIOUS
<1>2. \A j \in 1..Len(s) : (s \o n)[j] = s[j]
  OBVIOUS
<1>3. ASSUME NEW j \in 1..(Len(s) + Len(n)), j \notin 1..Len(s)
      PROVE  j - Len(s) \in 1..Len(n) /\ (s \o n)[j] = n[j - Len(s)]
  BY <1>1, <1>3
<1> QED
  BY <1>1, <1>2, <1>3

LEMMA OpenCaseFits == ASSUME ClientFits, OpenCase PROVE ClientFits'
<1>1. PICK c \in Cases \ {page} :
        /\ page' = c
        /\ panel' = IF page = None THEN Fresh ELSE Mounted
        /\ overview' = [overview EXCEPT !.polled = FALSE]
        /\ calls' = Unmounted(calls, Clicks) \o
             [i \in DOMAIN FirstRequests |-> [Request(FirstRequests[i], None) EXCEPT !.case = c]]
        /\ UNCHANGED <<tab, serverVars, sessionVars, crossed>>
  BY DEF OpenCase
<1> DEFINE s == Unmounted(calls, Clicks)
           n == [i \in DOMAIN FirstRequests |-> [Request(FirstRequests[i], None) EXCEPT !.case = c]]
<1>2. calls \in Seq(Call)
  BY CallsTyped DEF ClientFits
<1>3. /\ s \in Seq(Call) /\ Left(s, calls) /\ Streams(s) = {}
      /\ \A j \in DOMAIN s : s[j].heeded => s[j].act \in Clicks
  BY <1>2, UnmountedLeft DEF ClientFits
<1>4. n \in Seq(Fitting) /\ \A i \in DOMAIN n : n[i].act \notin InSession \cup Questions /\ n[i].case = c
  BY FirstSent DEF ClientFits
<1>5. calls' = s \o n /\ page' = c /\ c \in Cases
  BY <1>1
<1> HIDE DEF s, n
<1>6. Sound(s)
  BY <1>3, SoundLeft DEF ClientFits
<1>7. Sound(s \o n)
  BY <1>4, <1>6, SoundJoined
<1>8. \A j \in DOMAIN (s \o n) :
        \/ \E k \in DOMAIN s : (s \o n)[j] = s[k]
        \/ \E k \in DOMAIN n : (s \o n)[j] = n[k]
  BY <1>3, <1>4, JoinedParts DEF Fitting
<1>9. Heeds(s \o n, c)
  BY <1>3, <1>4, <1>8 DEF Heeds
<1>10. ServerFits' /\ Sound(calls)' /\ PageFits'
  <2> PICK t : t = s \o n
    OBVIOUS
  <2> QED
    BY <1>1, <1>5, <1>7, <1>9, CallsKept DEF ClientFits
<1>11. SessionFits'
  <2>1. \A j \in DOMAIN calls' : calls'[j].act = "me" =>
          \E k \in DOMAIN calls : calls[k].act = "me" /\ calls[k].token = calls'[j].token
    BY <1>3, <1>4, <1>5, <1>8 DEF Left, SameCall, InSession
  <2> QED
    BY <1>1, <2>1, SessionKept DEF ClientFits, serverVars
<1>12. \A j \in DOMAIN calls' : ~Asked(calls'[j])
  BY <1>3, <1>4, <1>5, <1>8 DEF Asked, Clicks, Questions
<1>13. panel' = Fresh /\ tab' = tab
  BY <1>1 DEF Mounted
<1>14. JobsFit'
  <2> SUFFICES ASSUME tab = "jobs" PROVE JobsFit'
    BY <1>13 DEF JobsFit, At
  <2>1. panel' = Jobs0 /\ panel' \in JobsPanel' /\ found'[c] \in Nat /\ started' \in Nat
    BY <1>5, <1>10, <1>13, FreshPanel DEF ServerFits, JobsPanel, ShownJob, JobStatesShown, JobEnded
  <2>2. ~(jobs'[c].state = "running" /\ jobs'[c].id = 0)
    BY <1>5, <1>10 DEF ServerFits
  <2>3. DoneTold(panel)' /\ InSight(panel)'
    BY <1>5, <2>1, <2>2 DEF DoneTold, InSight, Jobs0, NoJob
  <2> QED
    BY <1>5, <2>1, <2>3 DEF JobsFit, Jobs0, NoJob
<1>15. MaterialsFit' /\ PromptsFit' /\ InquiryFits'
  <2>1. MaterialsFit'
    <3> SUFFICES ASSUME tab = "materials" PROVE MaterialsFit'
      BY <1>13 DEF MaterialsFit, At
    <3>a. panel' = Materials0 /\ panel' \in MaterialsPanel'
      BY <1>13, FreshPanel
    <3>1. panel' \in MaterialsPanel' /\ panel'.content = panel'.active
      BY <3>a DEF Materials0
    <3> QED
      BY <3>1 DEF MaterialsFit
  <2>2. PromptsFit'
    <3> SUFFICES ASSUME tab = "prompts" PROVE PromptsFit'
      BY <1>13 DEF PromptsFit, At
    <3>a. panel' = Prompts0 /\ panel' \in PromptsPanel'
      BY <1>13, FreshPanel
    <3>1. panel' \in PromptsPanel' /\ panel'.content = None
      BY <3>a DEF Prompts0
    <3> QED
      BY <3>1 DEF PromptsFit
  <2>3. InquiryFits'
    <3> SUFFICES ASSUME tab = "inquiry" PROVE InquiryFits'
      BY <1>13 DEF InquiryFits, At
    <3>a. panel' = Inquiry0 /\ panel' \in InquiryPanel'
      BY <1>13, FreshPanel
    <3>1. panel' \in InquiryPanel' /\ panel'.history = <<>> /\ panel'.told = {}
      BY <3>a DEF Inquiry0
    <3>2. Range(<<>>) = {} /\ IsInjective(<<>>)
      BY DEF Range, IsInjective
    <3> QED
      BY <3>1, <3>2, <1>12 DEF InquiryFits, AllShown, Asked, Questions
  <2> QED
    BY <2>1, <2>2, <2>3
<1>16. TasksFit'
  BY <1>1, TypesKept DEF TasksFit, ClientFits, Overview
<1>17. OneStream(calls)'
  BY <1>3, <1>4, <1>5, <1>8 DEF OneStream, Streams, Clicks, Questions
<1> QED
  BY <1>10, <1>11, <1>14, <1>15, <1>16, <1>17 DEF ClientFits

-----------------------------------------------------------------------------
(* The server.                                                             *)

(* Its files grow.                                                         *)
Grows ==
  /\ tab' = tab /\ logins <= logins' /\ JobsGoOn
  /\ \A c \in Cases : found[c] <= found'[c] /\ Range(asked[c]) \subseteq Range(asked'[c])
ClientStays == UNCHANGED <<sessionVars, page, panel, overview, crossed>>

(* An answer is that of the moment.                                        *)
Reply(k) ==
  /\ k.act = "list" /\ tab = "jobs" => k.answer.list = found[k.case]
  /\ k.act \in Questions => k.answer.inquiry \notin Range(asked[k.case])
Served(b, a) ==
  /\ b.act = a.act /\ b.key = a.key /\ b.case = a.case /\ b.token = a.token /\ b.heeded = a.heeded
  /\ b.answer = a.answer \/ b.answer \in Errors \/ Reply(b)

LEMMA FitsGrown == ASSUME ServerFits, ServerFits', Grows PROVE Fitting \subseteq Fitting'
<1>1. \A c \in Cases : found[c] \in Nat /\ found'[c] \in Nat
  BY DEF ServerFits
<1>2. logins \in Nat /\ logins' \in Nat
  BY DEF ServerFits
<1> QED
  BY <1>1, <1>2, FitsLater DEF Grows

LEMMA ServerMoves ==
  ASSUME ClientFits, ServerFits', Grows, ClientStays, Sound(calls)', DOMAIN calls' = DOMAIN calls,
         \A j \in DOMAIN calls : Served(calls'[j], calls[j])
  PROVE  ClientFits'
<1>1. tab' = tab /\ UNCHANGED <<sessionVars, page, panel, overview, crossed>>
  BY DEF Grows, ClientStays
<1>2. SessionFits'
  <2>1. logins \in Nat /\ logins' \in Nat /\ logins <= logins'
    BY DEF ClientFits, ServerFits, Grows
  <2>2. 0..logins \subseteq 0..logins'
    BY <2>1
  <2>3. UNCHANGED <<token, user, restoring, crossed>>
    BY <1>1 DEF sessionVars
  <2>4. \A j \in DOMAIN calls' : calls'[j].act = calls[j].act /\ calls'[j].token = calls[j].token
    BY DEF Served
  <2> QED
    BY <2>2, <2>3, <2>4 DEF ClientFits, SessionFits
<1>3. PageFits'
  BY <1>1 DEF ClientFits, PageFits, Heeds, Served, InSession, Clicks
<1>4. \A t : At(t)' <=> At(t)
  BY <1>1 DEF At
<1>5. \A act, key : Asking(act, key) => Asking(act, key)'
  BY DEF Asking, Served
<1>6. JobsFit'
  <2> SUFFICES ASSUME At("jobs") PROVE JobsFit'
    BY <1>4 DEF JobsFit
  <2>1. page \in Cases /\ tab = "jobs" /\ JobsFit
    BY PageIsCase DEF ClientFits
  <2>2. panel' = panel /\ panel \in JobsPanel /\ panel' \in JobsPanel'
    BY <1>1, <2>1, TypesKept DEF JobsFit
  <2>3. panel.notified <= found'[page] /\ panel.notified \in Nat
    <3>1. panel.notified \in Nat /\ found[page] \in Nat /\ found'[page] \in Nat
      BY <2>1, <2>2 DEF ClientFits, ServerFits, JobsPanel
    <3>2. panel.notified <= found[page] /\ found[page] <= found'[page]
      BY <2>1 DEF JobsFit, Grows
    <3> QED
      BY <3>1, <3>2
  <2>4. ASSUME NEW j \in DOMAIN calls, Brings(calls[j], panel.notified)
        PROVE  Brings(calls'[j], panel.notified)
    <3>1. Served(calls'[j], calls[j])
      OBVIOUS
    <3>2. calls'[j].heeded /\ calls'[j].act = "list" /\ calls'[j].key = None
      BY <2>4, <3>1 DEF Brings, Served
    <3>3. calls'[j].answer \in {None} \cup Errors \/ calls'[j].answer.list >= panel.notified
      <4>1. CASE calls'[j].answer = calls[j].answer \/ calls'[j].answer \in Errors
        BY <2>4, <4>1 DEF Brings
      <4>2. CASE Reply(calls'[j])
        <5>1. calls'[j].case = page
          BY <2>4, <3>1 DEF ClientFits, PageFits, Heeds, Brings, Served, InSession, Clicks
        <5>2. calls'[j].answer.list = found[page] /\ found[page] >= panel.notified
          <6>1. found[page] \in Nat /\ panel.notified <= found[page]
            BY <2>1 DEF ClientFits, ServerFits, JobsFit
          <6> QED
            BY <2>1, <2>3, <3>2, <4>2, <5>1, <6>1 DEF Reply
        <5> QED
          BY <5>2
      <4> QED
        BY <3>1, <4>1, <4>2 DEF Served
    <3> QED
      BY <3>2, <3>3 DEF Brings
  <2>5. Asking("cancel", None) => Asking("cancel", None)'
    BY <1>5
  <2>6. (\E j \in DOMAIN calls : Brings(calls[j], panel.notified)) =>
          \E j \in DOMAIN calls' : Brings(calls'[j], panel'.notified)
    BY <2>2, <2>4
  <2>7. InSight(panel)'
    <3>1. panel.followed \in Nat /\ panel.followed <= started
      BY <2>1, <2>2 DEF JobsFit, InSight, JobsPanel
    <3>2. started \in Nat /\ started' \in Nat /\ started <= started' /\ jobs'[page].id \in Nat
      BY <2>1 DEF Grows, JobsGoOn
    <3>3. jobs'[page].state = "running" => jobs'[page] = jobs[page] \/ started < jobs'[page].id
      BY <2>1 DEF Grows, JobsGoOn
    <3>4. jobs'[page].state = "running" /\ jobs'[page].id = panel.followed =>
            panel.job.state = "running" \/ panel.late \/ panel.overtaken
      <4>1. CASE jobs'[page] = jobs[page]
        BY <2>1, <4>1 DEF JobsFit, InSight
      <4>2. CASE started < jobs'[page].id
        BY <3>1, <3>2, <4>2
      <4> QED
        BY <3>3, <4>1, <4>2
    <3>5. panel.followed <= started'
      BY <3>1, <3>2
    <3> QED
      BY <1>1, <2>2, <3>4, <3>5 DEF InSight
  <2>8. DoneTold(panel)'
    BY <2>1, <2>2 DEF JobsFit, DoneTold, JobEnded, NoJob
  <2> QED
    BY <1>1, <2>1, <2>2, <2>3, <2>5, <2>6, <2>7, <2>8, TypesKept DEF JobsFit, Brings
<1>7. MaterialsFit'
  <2> SUFFICES ASSUME At("materials") PROVE MaterialsFit'
    BY <1>4 DEF MaterialsFit
  <2>1. Asking("content", panel.active) => Asking("content", panel.active)'
    BY <1>1, <1>5 DEF Asking
  <2> QED
    BY <1>1, <2>1, TypesKept DEF ClientFits, MaterialsFit
<1>8. PromptsFit'
  BY <1>1, <1>4, TypesKept DEF ClientFits, PromptsFit
<1>9. InquiryFits'
  <2> SUFFICES ASSUME At("inquiry") PROVE InquiryFits'
    BY <1>4 DEF InquiryFits
  <2>1. page \in Cases /\ tab = "inquiry" /\ InquiryFits
    BY PageIsCase DEF ClientFits
  <2>2. panel' = panel /\ page' = page /\ panel' \in InquiryPanel'
    BY <1>1, <2>1, TypesKept DEF InquiryFits
  <2>3. Range(panel.history) \subseteq Range(asked[page])
        /\ Range(asked[page]) \subseteq Range(asked'[page])
    BY <2>1 DEF InquiryFits, Grows
  <2>4. ASSUME NEW j \in DOMAIN calls, Asked(calls'[j])
        PROVE  /\ Asked(calls[j]) /\ panel.live = calls'[j].act
               /\ calls'[j].answer \in {None} \cup Errors \/ panel.overlapped
                    \/ calls'[j].answer.inquiry \notin Range(panel.history)
    <3>1. Served(calls'[j], calls[j])
      OBVIOUS
    <3>2. Asked(calls[j]) /\ calls'[j].act = calls[j].act
      BY <2>4, <3>1 DEF Asked, Served
    <3>3. CASE calls'[j].answer = calls[j].answer \/ calls'[j].answer \in Errors
      BY <2>1, <3>2, <3>3 DEF InquiryFits
    <3>4. CASE Reply(calls'[j])
      <4>1. calls'[j].case = page
        BY <3>1, <3>2 DEF ClientFits, PageFits, Heeds, Asked, Served, InSession, Clicks, Questions
      <4>2. calls'[j].answer.inquiry \notin Range(panel.history)
        BY <2>3, <2>4, <3>4, <4>1 DEF Reply, Asked
      <4> QED
        BY <2>1, <3>2, <4>2 DEF InquiryFits
    <3> QED
      BY <3>1, <3>3, <3>4 DEF Served
  <2>5. \A j, k \in DOMAIN calls' : Asked(calls'[j]) /\ Asked(calls'[k]) => j = k
    BY <2>1, <2>4 DEF InquiryFits
  <2> QED
    BY <2>1, <2>2, <2>3, <2>4, <2>5, TypesKept DEF InquiryFits, AllShown, Asked, Questions
<1>10. TasksFit'
  BY <1>1, TasksKept DEF ClientFits
<1>11. OneStream(calls)'
  BY DEF ClientFits, OneStream, Streams, Served
<1> QED
  BY <1>2, <1>3, <1>6, <1>7, <1>8, <1>9, <1>10, <1>11 DEF ClientFits

(* Nothing is answered.                                                    *)
LEMMA ServerAlone ==
  ASSUME ClientFits, ServerFits', Grows, ClientStays, UNCHANGED calls
  PROVE  ClientFits'
<1>1. Sound(calls)'
  <2>1. Fitting \subseteq Fitting'
    BY FitsGrown DEF ClientFits
  <2>2. PICK s : s = calls
    OBVIOUS
  <2>3. Sound(s) /\ (crossed => crossed')
    BY <2>2 DEF ClientFits, ClientStays
  <2>4. Sound(s)'
    BY <2>1, <2>3, SoundLater
  <2> QED
    BY <2>2, <2>4
<1>2. \A j \in DOMAIN calls : Served(calls'[j], calls[j])
  BY DEF Served
<1> QED
  BY <1>1, <1>2, ServerMoves

LEMMA NoJobFits == NoJob \in ShownJob /\ NoJob.case = None /\ NoJob.state = "none" /\ NoJob.id = 0
BY DEF NoJob, ShownJob, JobStatesShown

(* What the files of the jobs have in common.                              *)
CaseJobFits(c) ==
  /\ jobs[c].case \in {None, c} /\ found[c] <= started /\ jobs[c].id <= started
  /\ jobs[c].state = "running" => found[c] <= jobs[c].id /\ 0 < jobs[c].id
  /\ jobs[c].state = "done" => jobs[c].id <= found[c]

LEMMA NewJobFits ==
  ASSUME ServerFits, NEW c \in Cases, NewJob(c), UNCHANGED found
  PROVE  /\ jobs' \in [Cases -> ShownJob] /\ started' \in Nat
         /\ \A d \in Cases : CaseJobFits(d)'
         /\ JobsGoOn
<1>1. started' = started + 1 /\ started \in Nat
      /\ jobs' = [jobs EXCEPT ![c] = [id |-> started + 1, state |-> "running", case |-> c]]
  BY DEF NewJob, ServerFits
<1>2. [id |-> started + 1, state |-> "running", case |-> c] \in ShownJob
  BY <1>1 DEF ShownJob, JobStatesShown
<1>3. jobs' \in [Cases -> ShownJob]
  BY <1>1, <1>2 DEF ServerFits
<1>4. ASSUME NEW d \in Cases PROVE CaseJobFits(d)'
  <2>1. found[d] \in Nat /\ found[d] <= started
    BY DEF ServerFits
  <2>2. CASE d = c
    <3>1. jobs'[d] = [id |-> started + 1, state |-> "running", case |-> c]
      BY <1>1, <2>2 DEF ServerFits
    <3> QED
      BY <1>1, <2>1, <2>2, <3>1 DEF CaseJobFits
  <2>3. CASE d # c
    <3>1. jobs'[d] = jobs[d] /\ found'[d] = found[d]
      BY <1>1, <2>3 DEF ServerFits
    <3>2. jobs[d].id \in Nat /\ CaseJobFits(d)
      BY DEF ServerFits, ShownJob, CaseJobFits
    <3> QED
      BY <1>1, <2>1, <3>1, <3>2 DEF CaseJobFits
  <2> QED
    BY <2>2, <2>3
<1>5. JobsGoOn
  <2> SUFFICES ASSUME NEW d \in Cases
               PROVE  /\ jobs'[d].id \in Nat
                      /\ jobs'[d] = jobs[d] \/ started < jobs'[d].id
    BY <1>1 DEF JobsGoOn
  <2>1. CASE d = c
    <3>1. jobs'[d].id = started + 1
      BY <1>1, <2>1 DEF ServerFits
    <3> QED
      BY <1>1, <3>1
  <2>2. CASE d # c
    BY <1>1, <1>3, <2>2 DEF ServerFits, ShownJob
  <2> QED
    BY <2>1, <2>2
<1> QED
  BY <1>1, <1>3, <1>4, <1>5

LEMMA JobsMove ==
  ASSUME ClientFits, jobs' \in [Cases -> ShownJob], started' \in Nat, found' \in [Cases -> Nat],
         \A c \in Cases : CaseJobFits(c)' /\ found[c] <= found'[c], JobsGoOn, ServerOnly
  PROVE  ClientFits'
<1>1. UNCHANGED <<tab, logins, there, gone, asked, posed, tasks, calls>> /\ ClientStays
  BY DEF ServerOnly, Stay, ClientStays
<1>2. ServerFits'
  BY <1>1 DEF ClientFits, ServerFits, CaseJobFits
<1>3. Grows
  <2>1. logins \in Nat
    BY DEF ClientFits, ServerFits
  <2> QED
    BY <1>1, <2>1 DEF Grows
<1> QED
  BY <1>1, <1>2, <1>3, ServerAlone

LEMMA OthersStartFits == ASSUME ClientFits, OthersStart PROVE ClientFits'
<1>1. PICK c \in Cases : NewJob(c)
  BY DEF OthersStart
<1>2. found' = found /\ ServerOnly
  BY DEF OthersStart
<1>3. jobs' \in [Cases -> ShownJob] /\ started' \in Nat /\ (\A d \in Cases : CaseJobFits(d)') /\ JobsGoOn
  BY <1>1, <1>2, NewJobFits DEF ClientFits
<1>4. found' \in [Cases -> Nat] /\ \A d \in Cases : found[d] <= found'[d]
  BY <1>2 DEF ClientFits, ServerFits
<1> QED
  BY <1>2, <1>3, <1>4, JobsMove

LEMMA EndJobFits == ASSUME ClientFits, NEW c \in Cases, EndJob(c) PROVE ClientFits'
<1>1. PICK state \in JobEnded :
        /\ jobs' = [jobs EXCEPT ![c].state = state]
        /\ found' = IF state = "done" THEN [found EXCEPT ![c] = jobs[c].id] ELSE found
  BY DEF EndJob
<1>2. jobs[c].state = "running" /\ started' = started /\ ServerOnly
  BY DEF EndJob
<1>3. /\ jobs \in [Cases -> ShownJob] /\ found \in [Cases -> Nat] /\ started \in Nat
      /\ \A d \in Cases : CaseJobFits(d)
  BY DEF ClientFits, ServerFits, CaseJobFits
<1>4. jobs[c] \in ShownJob /\ jobs[c].id \in Nat /\ found[c] \in Nat /\ found[c] <= jobs[c].id
  BY <1>2, <1>3 DEF CaseJobFits, ShownJob
<1>5. state \in JobStatesShown /\ state # "running"
  BY DEF JobStatesShown, JobEnded
<1>6. [jobs[c] EXCEPT !.state = state] \in ShownJob
  BY <1>4, <1>5 DEF ShownJob
<1>7. jobs' \in [Cases -> ShownJob] /\ found' \in [Cases -> Nat]
  BY <1>1, <1>3, <1>4, <1>6
<1>8. ASSUME NEW d \in Cases PROVE CaseJobFits(d)' /\ found[d] <= found'[d]
  <2>1. CASE d = c
    <3>1. jobs'[d].case = jobs[c].case /\ jobs'[d].id = jobs[c].id
          /\ jobs'[d].state = state
      BY <1>1, <1>3, <1>4, <2>1 DEF ShownJob
    <3>2. found'[d] = IF state = "done" THEN jobs[c].id ELSE found[c]
      BY <1>1, <1>3, <2>1
    <3> QED
      BY <1>2, <1>3, <1>4, <1>5, <2>1, <3>1, <3>2 DEF CaseJobFits
  <2>2. CASE d # c
    <3>1. jobs'[d] = jobs[d] /\ found'[d] = found[d] /\ found[d] \in Nat
      BY <1>1, <1>3, <2>2
    <3> QED
      BY <1>2, <1>3, <3>1 DEF CaseJobFits
  <2> QED
    BY <2>1, <2>2
<1>9. JobsGoOn
  <2> SUFFICES ASSUME NEW d \in Cases
               PROVE  jobs'[d].id \in Nat /\ (jobs'[d].state = "running" => jobs'[d] = jobs[d])
    BY <1>2, <1>3 DEF JobsGoOn
  <2>1. CASE d = c
    BY <1>1, <1>3, <1>4, <1>5, <2>1 DEF ShownJob
  <2>2. CASE d # c
    BY <1>1, <1>3, <2>2 DEF ShownJob
  <2> QED
    BY <2>1, <2>2
<1> QED
  BY <1>2, <1>3, <1>7, <1>8, <1>9, JobsMove

LEMMA SessionExpiresFits == ASSUME ClientFits, SessionExpires PROVE ClientFits'
<1>1. UNCHANGED <<jobs, started, found>> /\ ServerOnly
  BY DEF SessionExpires
<1>2. /\ jobs \in [Cases -> ShownJob] /\ found \in [Cases -> Nat] /\ started \in Nat
      /\ \A d \in Cases : CaseJobFits(d)
  BY DEF ClientFits, ServerFits, CaseJobFits
<1>3. jobs' \in [Cases -> ShownJob] /\ found' \in [Cases -> Nat] /\ started' \in Nat
      /\ \A d \in Cases : CaseJobFits(d)' /\ found[d] <= found'[d]
  BY <1>1, <1>2 DEF CaseJobFits
<1>4. JobsGoOn
  BY <1>1, JobsStay DEF ClientFits
<1> QED
  BY <1>1, <1>3, <1>4, JobsMove

LEMMA ServerRestartsFits == ASSUME ClientFits, ServerRestarts PROVE ClientFits'
<1>1. jobs' = [c \in Cases |-> NoJob] /\ UNCHANGED <<started, found>> /\ ServerOnly
  BY DEF ServerRestarts
<1>2. /\ found \in [Cases -> Nat] /\ started \in Nat /\ \A d \in Cases : found[d] <= started
  BY DEF ClientFits, ServerFits
<1>3. jobs' \in [Cases -> ShownJob] /\ found' \in [Cases -> Nat] /\ started' \in Nat
      /\ \A d \in Cases : CaseJobFits(d)' /\ found[d] <= found'[d]
  BY <1>1, <1>2, NoJobFits DEF CaseJobFits
<1>4. JobsGoOn
  BY <1>1, <1>2, NoJobFits DEF JobsGoOn
<1> QED
  BY <1>1, <1>3, <1>4, JobsMove

LEMMA ServedFits ==
  ASSUME ClientFits, NEW i \in DOMAIN calls, NEW body \in Answer, Answers(i, body),
         NEW k, k = [calls[i] EXCEPT !.answer = body], ServerFits', Grows, ClientStays,
         \/ body \in Errors
         \/ AnswerFits(k)' /\ Reply(k) /\ (k.act = "login" => body.session > logins)
  PROVE  ClientFits'
<1>1. calls \in Seq(Call) /\ calls \in Seq(Fitting) /\ calls[i] \in Call /\ calls[i] \in Fitting
  BY CallsTyped DEF ClientFits
<1>2. /\ k \in Call /\ k.answer = body /\ k.act = calls[i].act /\ k.key = calls[i].key
      /\ k.case = calls[i].case /\ k.token = calls[i].token /\ k.heeded = calls[i].heeded
  BY <1>1 DEF Call
<1>3. PICK s : s = [calls EXCEPT ![i] = k]
  OBVIOUS
<1>4. calls' = s /\ DOMAIN s = DOMAIN calls /\ s[i] = k /\ \A j \in DOMAIN s : j # i => s[j] = calls[j]
  <2>1. calls' = [calls EXCEPT ![i] = k]
    BY DEF Answers
  <2> QED
    BY <1>3, <2>1
<1>5. Fitting \subseteq Fitting'
  BY FitsGrown DEF ClientFits
<1>6. k \in Fitting'
  <2>1. tab' = tab /\ logins \in Nat /\ logins' \in Nat /\ logins <= logins'
    BY DEF Grows, ClientFits, ServerFits
  <2>2. 0..logins \subseteq 0..logins'
    BY <2>1
  <2>3. CallFits(calls[i])
    BY <1>1 DEF Fitting
  <2>4. Sendable(k.act)'
    BY <1>2, <2>1, <2>3 DEF CallFits, Sendable, InSession, JobActs, Questions, Clicks
  <2>5. k.answer = None \/ k.answer \in Errors \/ AnswerFits(k)'
    BY <1>2
  <2>6. /\ k.act \notin InSession => k.case \in Cases
        /\ k.act \in PieceActs => k.key \in Pieces \cup {None}
        /\ k.token \in 0..logins' \cup {None}
        /\ k.act = "me" => k.token \in 0..logins'
    BY <1>2, <2>2, <2>3 DEF CallFits
  <2>7. CallFits(k)'
    BY <2>4, <2>5, <2>6, TypesKept DEF CallFits, InSession, PieceActs
  <2> QED
    BY <1>2, <2>7, TypesKept DEF Fitting
<1>7. s \in Seq(Fitting')
  BY <1>1, <1>3, <1>5, <1>6
<1>8. \A j \in DOMAIN s : s[j].act = calls[j].act /\ s[j].token = calls[j].token
  BY <1>2, <1>4
<1>9. ASSUME NEW j \in DOMAIN s, NEW n \in DOMAIN s, s[j].act = "me"
      PROVE  Newer(s[n], s[j]) /\ (crossed \/ OtherSession(s[n], s[j]))
  <2>1. Newer(calls[n], calls[j]) /\ (crossed \/ OtherSession(calls[n], calls[j]))
    BY <1>4, <1>8, <1>9 DEF ClientFits, Sound
  <2>2. OtherSession(s[n], s[j]) <=> OtherSession(calls[n], calls[j])
    BY <1>8 DEF OtherSession
  <2>3. Newer(s[n], s[j])
    <3>1. CASE n # i
      BY <1>4, <1>8, <2>1, <3>1 DEF Newer
    <3>2. CASE n = i
      <4> SUFFICES ASSUME k.act = "login", k.answer \notin {None} \cup Errors
                   PROVE  s[j].token < k.answer.session
        BY <1>4, <3>2 DEF Newer
      <4>1. body.session > logins /\ AnswerFits(k)' /\ logins \in Nat /\ logins' \in Nat
        BY <1>2 DEF ClientFits, ServerFits
      <4>2. body.session \in Nat
        BY <1>2, <4>1 DEF AnswerFits
      <4>3. calls[j].token \in 0..logins
        BY <1>1, <1>4, <1>8, <1>9 DEF Fitting, CallFits
      <4> QED
        BY <1>2, <1>8, <4>1, <4>2, <4>3
    <3> QED
      BY <3>1, <3>2
  <2> QED
    BY <2>1, <2>2, <2>3
<1>10. Sound(s)'
  <2>1. crossed' = crossed
    BY DEF ClientStays
  <2>2. \A j \in DOMAIN s : s[j].act = "me" => j = 1
    BY <1>4, <1>8 DEF ClientFits, Sound
  <2> QED
    BY <1>7, <1>9, <2>1, <2>2, TypesKept DEF Sound, Newer, OtherSession
<1>11. \A j \in DOMAIN calls : Served(calls'[j], calls[j])
  BY <1>2, <1>4 DEF Served
<1> QED
  BY <1>4, <1>10, <1>11, ServerMoves

LEMMA PlainAnswer ==
  ASSUME NEW k, k.act \in {"me", "change", "logout", "cancel"} \cup PieceActs
  PROVE  AnswerFits(k)' /\ Reply(k) /\ k.act # "login"
BY DEF AnswerFits, Reply, JobActs, PieceActs, Questions, Clicks

LEMMA AnswerTypes ==
  /\ Failure \in Answer /\ Rejected \in Answer /\ Done \in Answer
  /\ Failure \in Errors /\ Rejected \in Errors
BY DEF Answer, Errors, Done

LEMMA FilesStay ==
  ASSUME ServerFits, tab' = tab, logins' = logins, found' = found, asked' = asked, JobsGoOn
  PROVE  Grows
BY DEF ServerFits, Grows

LEMMA ServeFits == ASSUME ClientFits, NEW i, Serve(i) PROVE ClientFits'
<1> PICK call : call = calls[i]
  OBVIOUS
<1>1. /\ i \in DOMAIN calls /\ call.answer = None
      /\ UNCHANGED <<tab, sessionVars>> /\ Stay
  BY DEF Serve
<1>2. ClientStays
  BY <1>1 DEF Stay, ClientStays
<1>3. call \in Fitting /\ call \in Call /\ CallFits(call)
  <2>1. calls \in Seq(Fitting)
    BY CallsTyped DEF ClientFits
  <2>2. call \in Fitting
    BY <1>1, <2>1
  <2> QED
    BY <2>2 DEF Fitting
<1>4. ServerFits /\ tab' = tab
  BY <1>1 DEF ClientFits
<1>5. ASSUME NEW body PROVE [call EXCEPT !.answer = body].act = call.act
                            /\ [call EXCEPT !.answer = body].case = call.case
                            /\ [call EXCEPT !.answer = body].answer = body
  BY <1>3 DEF Call
<1>6. ASSUME UNCHANGED serverVars PROVE ServerFits' /\ Grows
  BY <1>4, <1>6, ServerKept, JobsStay, FilesStay DEF serverVars
<1>7. ASSUME NEW body \in Errors, Answers(i, body), ServerFits', Grows PROVE ClientFits'
  <2>1. body \in Answer
    BY AnswerTypes DEF Answer
  <2>2. PICK k : k = [calls[i] EXCEPT !.answer = body]
    OBVIOUS
  <2> QED
    BY <1>1, <1>2, <1>7, <2>1, <2>2, ServedFits
<1>8. ASSUME call.act \in {"me", "change", "logout", "cancel"} \cup PieceActs,
             Answers(i, Done), ServerFits', Grows
      PROVE  ClientFits'
  <2>1. PICK k : k = [calls[i] EXCEPT !.answer = Done]
    OBVIOUS
  <2>2. k.act \in {"me", "change", "logout", "cancel"} \cup PieceActs
    BY <1>5, <1>8, <2>1
  <2>3. AnswerFits(k)' /\ Reply(k) /\ k.act # "login"
    BY <2>2, PlainAnswer
  <2> QED
    BY <1>1, <1>2, <1>8, <2>1, <2>3, AnswerTypes, ServedFits
<1>9. CASE /\ call.act # "login" /\ call.token \notin sessions
           /\ Answers(i, Rejected) /\ UNCHANGED serverVars
  BY <1>6, <1>7, <1>9, AnswerTypes
<1>10. CASE /\ ServeSession(call, i)
            /\ UNCHANGED <<jobs, started, found, there, gone, asked, posed, tasks>>
  <2>1. CASE call.act = "login" /\ logins' = logins + 1 /\ Answers(i, [session |-> logins + 1])
    <3>1. logins \in Nat /\ logins' \in Nat
      BY <1>4, <2>1 DEF ServerFits
    <3>2. ServerFits'
      BY <1>4, <1>10, <3>1 DEF ServerFits
    <3>3. Grows
      BY <1>4, <1>10, <2>1, <3>1, JobsStay DEF Grows, ServerFits
    <3>4. PICK body : body = [session |-> logins + 1]
      OBVIOUS
    <3>5. PICK k : k = [calls[i] EXCEPT !.answer = body]
      OBVIOUS
    <3>6. body \in Answer /\ body.session > logins
      BY <3>1, <3>4 DEF Answer
    <3>7. k.act = "login" /\ k.answer = [session |-> logins']
      BY <1>5, <2>1, <3>4, <3>5
    <3>8. AnswerFits(k)' /\ Reply(k)
      BY <3>1, <3>7 DEF AnswerFits, Reply, JobActs, Questions, Clicks
    <3> QED
      BY <1>1, <1>2, <2>1, <3>2, <3>3, <3>4, <3>5, <3>6, <3>8, ServedFits
  <2>2. ASSUME logins' = logins PROVE ServerFits' /\ Grows
    <3>1. ServerFits'
      BY <1>4, <1>10, <2>2 DEF ServerFits
    <3> QED
      BY <1>4, <1>10, <2>2, <3>1, JobsStay, FilesStay
  <2>3. CASE call.act \in {"me", "change"} /\ Answers(i, Done) /\ logins' = logins
    BY <1>8, <2>2, <2>3
  <2>4. CASE call.act = "change" /\ Answers(i, Rejected) /\ logins' = logins
    BY <1>7, <2>2, <2>4, AnswerTypes
  <2>5. CASE call.act = "logout" /\ Answers(i, Done) /\ logins' = logins
    BY <1>8, <2>2, <2>5
  <2> QED
    BY <1>10, <2>1, <2>3, <2>4, <2>5 DEF ServeSession
<1>11. CASE call.act = "list" /\ Answers(i, [list |-> Listed(call.case)]) /\ UNCHANGED serverVars
  <2>1. call.case \in Cases
    BY <1>3, <1>11 DEF CallFits, InSession
  <2>2. PICK body : body = [list |-> Listed(call.case)]
    OBVIOUS
  <2>3. PICK k : k = [calls[i] EXCEPT !.answer = body]
    OBVIOUS
  <2>4. k.act = "list" /\ k.case = call.case /\ k.answer = [list |-> Listed(call.case)]
    BY <1>5, <1>11, <2>2, <2>3
  <2>5. /\ tab = "jobs" => Listed(call.case) = found[call.case] /\ found[call.case] \in Nat
        /\ tab \in {"materials", "prompts"} => Listed(call.case) \in SUBSET Pieces
        /\ tab = "inquiry" => /\ Listed(call.case) = asked[call.case]
                              /\ asked[call.case] \in Seq(Nat) /\ HistoryOf(asked[call.case], call.case)
        /\ tab \in {"tasks", "plain"} => Listed(call.case) = None
    <3>1. tab \in {"materials", "prompts"} => Listed(call.case) \in SUBSET Pieces
      BY DEF Listed
    <3>2. tab \in {"tasks", "plain"} => Listed(call.case) = None
      BY DEF Listed
    <3>3. tab = "jobs" => Listed(call.case) = found[call.case]
      BY DEF Listed
    <3>4. tab = "inquiry" => Listed(call.case) = asked[call.case]
      BY DEF Listed
    <3> QED
      BY <1>4, <2>1, <3>1, <3>2, <3>3, <3>4 DEF ServerFits, HistoryOf
  <2>6. body \in Answer
    <3>1. Listed(call.case) \in Nat \cup (SUBSET Pieces) \cup Seq(Nat) \cup {None}
      <4>1. tab \in {"jobs", "materials", "prompts", "inquiry", "tasks", "plain"}
        BY <1>4 DEF ServerFits, Tabs
      <4> QED
        BY <2>5, <4>1
    <3> QED
      BY <2>2, <3>1 DEF Answer
  <2>7. AnswerFits(k)
    BY <2>4, <2>5 DEF AnswerFits, JobActs, Questions, Clicks
  <2>8. AnswerFits(k)'
    BY <1>4, <1>11, <2>7 DEF AnswerFits, JobActs, Questions, Clicks, JobOf, HistoryOf, serverVars,
       ShownJob, JobStatesShown, JobEnded
  <2>9. Reply(k) /\ k.act # "login"
    BY <2>4, <2>5 DEF Reply, Questions
  <2> QED
    BY <1>1, <1>2, <1>6, <1>11, <2>2, <2>3, <2>6, <2>8, <2>9, ServedFits
<1>12. CASE ServePrompt(call, i) /\ UNCHANGED serverVars
  BY <1>6, <1>8, <1>12 DEF ServePrompt, PieceActs
<1>13. CASE /\ ServeJob(call, i)
            /\ UNCHANGED <<sessions, logins, found, there, gone, asked, posed, tasks>>
  <2>1. call.act \in JobActs \cup {"cancel"}
    BY <1>13 DEF ServeJob, JobActs
  <2>2. call.case \in Cases
    BY <1>3, <2>1 DEF CallFits, InSession, JobActs
  <2>3. /\ jobs \in [Cases -> ShownJob] /\ started \in Nat /\ \A c \in Cases : CaseJobFits(c)
        /\ found \in [Cases -> Nat]
    BY <1>4 DEF ServerFits, CaseJobFits
  <2>4. \/ UNCHANGED <<jobs, started>>
        \/ NewJob(call.case)
    BY <1>13 DEF ServeJob
  <2>5. /\ jobs' \in [Cases -> ShownJob] /\ started' \in Nat /\ \A c \in Cases : CaseJobFits(c)'
        /\ JobsGoOn
    <3>1. CASE UNCHANGED <<jobs, started>>
      BY <1>4, <1>13, <2>3, <3>1, JobsStay DEF CaseJobFits
    <3>2. CASE NewJob(call.case)
      BY <1>4, <1>13, <2>2, <3>2, NewJobFits
    <3> QED
      BY <2>4, <3>1, <3>2
  <2>6. ServerFits' /\ Grows
    <3>1. ServerFits'
      BY <1>4, <1>13, <2>5 DEF ServerFits, CaseJobFits
    <3> QED
      BY <1>4, <1>13, <2>5, <3>1, FilesStay
  <2>7. CASE call.act = "cancel"
    BY <1>8, <1>13, <2>6, <2>7 DEF ServeJob
  <2>8. CASE call.act \in JobActs
    <3>0. PICK made : made = jobs'[call.case]
      OBVIOUS
    <3>1. PICK body : body = [job |-> made]
      OBVIOUS
    <3>2. Answers(i, body)
      <4>1. call.act = "start" => Answers(i, [job |-> jobs'[call.case]])
        BY <1>13 DEF ServeJob
      <4>2. call.act \in {"status", "poll"} =>
              Answers(i, [job |-> jobs[call.case]]) /\ jobs' = jobs
        BY <1>13 DEF ServeJob
      <4> QED
        BY <2>8, <3>0, <3>1, <4>1, <4>2 DEF JobActs
    <3>3. PICK k : k = [calls[i] EXCEPT !.answer = body]
      OBVIOUS
    <3>4. k.act = call.act /\ k.case = call.case /\ k.answer = [job |-> made]
      BY <1>5, <3>1, <3>3
    <3>5. made \in ShownJob /\ CaseJobFits(call.case)'
      BY <2>2, <2>5, <3>0
    <3>6. body \in Answer
      BY <3>1, <3>5 DEF Answer
    <3>7. JobOf(made, call.case)'
      BY <3>0, <3>5 DEF CaseJobFits, JobOf
    <3>9. call.act = "start" => made.state = "running"
      <4> SUFFICES ASSUME call.act = "start" PROVE made.state = "running"
        OBVIOUS
      <4>1. (jobs[call.case].state = "running" /\ jobs' = jobs) \/ NewJob(call.case)
        BY <1>13 DEF ServeJob
      <4> QED
        BY <2>2, <2>3, <3>0, <4>1 DEF NewJob
    <3>8. AnswerFits(k)' /\ Reply(k) /\ k.act # "login"
      <4>1. k.answer \in [job : ShownJob] /\ k.answer.job = made
        BY <3>4, <3>5
      <4>2. JobOf(k.answer.job, k.case)'
        BY <3>4, <3>7, <4>1
      <4> QED
        BY <2>8, <3>4, <3>9, <4>1, <4>2, TypesKept DEF AnswerFits, Reply, JobActs, Questions, Clicks
    <3> QED
      BY <1>1, <1>2, <2>6, <3>2, <3>3, <3>6, <3>8, ServedFits
  <2> QED
    BY <2>1, <2>7, <2>8
<1>14. CASE /\ ServeMaterial(call, i)
            /\ UNCHANGED <<sessions, logins, jobs, started, found, asked, posed, tasks>>
  <2>1. ServerFits'
    BY <1>4, <1>14 DEF ServerFits
  <2>2. Grows
    BY <1>4, <1>14, <2>1, JobsStay, FilesStay
  <2>3. call.act \in PieceActs
    BY <1>14 DEF ServeMaterial, PieceActs
  <2>4. Answers(i, Done) \/ Answers(i, Failure)
    BY <1>14 DEF ServeMaterial
  <2> QED
    BY <1>7, <1>8, <2>1, <2>2, <2>3, <2>4, AnswerTypes
<1>15. CASE /\ call.act \in Questions
            /\ posed' = posed + 1
            /\ asked' = [asked EXCEPT ![call.case] = Append(@, posed + 1)]
            /\ Answers(i, [inquiry |-> posed + 1])
            /\ UNCHANGED <<sessions, logins, jobs, started, found, there, gone, tasks>>
  <2>1. call.case \in Cases
    BY <1>3, <1>15 DEF CallFits, InSession, Questions
  <2>2. posed \in Nat /\ asked \in [Cases -> Seq(Nat)]
        /\ \A c \in Cases : Range(asked[c]) \subseteq 1..posed /\ IsInjective(asked[c])
    BY <1>4 DEF ServerFits
  <2>3. ASSUME NEW s \in Seq(Nat), Range(s) \subseteq 1..posed, IsInjective(s)
        PROVE  LET t == Append(s, posed + 1)
               IN  /\ t \in Seq(Nat) /\ Range(s) \subseteq Range(t) /\ Range(t) \subseteq 1..(posed + 1)
                   /\ posed + 1 \in Range(t) /\ posed + 1 \notin Range(s) /\ IsInjective(t)
    <3> DEFINE t == Append(s, posed + 1)
    <3>1. t \in Seq(Nat) /\ Len(s) \in Nat /\ DOMAIN s = 1..Len(s)
      BY <2>2
    <3>2. DOMAIN t = DOMAIN s \cup {Len(s) + 1} /\ t[Len(s) + 1] = posed + 1
          /\ \A j \in DOMAIN s : t[j] = s[j]
      BY <2>2
    <3> HIDE DEF t
    <3>3. \A j \in DOMAIN s : s[j] \in 1..posed
      BY <2>3 DEF Range
    <3>4. IsInjective(t)
      BY <2>2, <2>3, <3>1, <3>2, <3>3 DEF IsInjective
    <3>5. Range(s) \subseteq Range(t) /\ Range(t) \subseteq 1..(posed + 1)
          /\ posed + 1 \in Range(t) /\ posed + 1 \notin Range(s)
      BY <2>2, <3>2, <3>3 DEF Range
    <3> QED
      BY <3>1, <3>4, <3>5 DEF t
  <2>4. /\ asked' \in [Cases -> Seq(Nat)] /\ posed' \in Nat
        /\ \A c \in Cases : /\ Range(asked'[c]) \subseteq 1..posed' /\ IsInjective(asked'[c])
                            /\ Range(asked[c]) \subseteq Range(asked'[c])
        /\ posed + 1 \in Range(asked'[call.case]) /\ posed + 1 \notin Range(asked[call.case])
    <3>1. asked'[call.case] = Append(asked[call.case], posed + 1)
          /\ \A c \in Cases : c # call.case => asked'[c] = asked[c]
      BY <1>15, <2>1, <2>2
    <3>2. asked[call.case] \in Seq(Nat) /\ Range(asked[call.case]) \subseteq 1..posed
          /\ IsInjective(asked[call.case])
      BY <2>1, <2>2
    <3>3. /\ asked'[call.case] \in Seq(Nat) /\ Range(asked[call.case]) \subseteq Range(asked'[call.case])
          /\ Range(asked'[call.case]) \subseteq 1..(posed + 1)
          /\ posed + 1 \in Range(asked'[call.case]) /\ posed + 1 \notin Range(asked[call.case])
          /\ IsInjective(asked'[call.case])
      BY <2>3, <3>1, <3>2
    <3>4. asked' \in [Cases -> Seq(Nat)]
      BY <1>15, <2>1, <2>2, <3>1, <3>3
    <3>5. 1..posed \subseteq 1..(posed + 1)
      BY <2>2
    <3> QED
      BY <1>15, <2>2, <3>1, <3>3, <3>4, <3>5
  <2>5. ServerFits'
    BY <1>4, <1>15, <2>4 DEF ServerFits
  <2>6. Grows
    BY <1>4, <1>15, <2>4, JobsStay DEF Grows, ServerFits
  <2>7. PICK body : body = [inquiry |-> posed + 1]
    OBVIOUS
  <2>8. PICK k : k = [calls[i] EXCEPT !.answer = body]
    OBVIOUS
  <2>9. k.act = call.act /\ k.case = call.case /\ k.answer = [inquiry |-> posed + 1]
    BY <1>5, <2>7, <2>8
  <2>10. body \in Answer /\ k.answer \in [inquiry : Nat] /\ k.answer.inquiry = posed + 1
    BY <2>2, <2>7, <2>9 DEF Answer
  <2>11. AnswerFits(k)' /\ Reply(k) /\ k.act # "login"
    BY <1>15, <2>4, <2>9, <2>10 DEF AnswerFits, Reply, JobActs, Questions, Clicks
  <2> QED
    BY <1>1, <1>2, <1>15, <2>5, <2>6, <2>7, <2>8, <2>10, <2>11, ServedFits
<1>16. CASE /\ ServeTask(call, i)
            /\ UNCHANGED <<sessions, logins, jobs, started, found, there, gone, asked, posed>>
  <2>1. call.act \in {"task"} \cup Clicks
    BY <1>16 DEF ServeTask, Clicks
  <2>2. call.case \in Cases
    BY <1>3, <2>1 DEF CallFits, InSession, Clicks
  <2>3. tasks' \subseteq Cases
    BY <1>4, <1>16, <2>2 DEF ServeTask, ServerFits
  <2>4. ServerFits'
    BY <1>4, <1>16, <2>3 DEF ServerFits
  <2>5. Grows
    BY <1>4, <1>16, JobsStay, FilesStay
  <2>6. CASE Answers(i, Failure)
    BY <1>7, <2>4, <2>5, <2>6, AnswerTypes
  <2>7. CASE \E t \in {None, call.case} : Answers(i, [task |-> t])
    <3>1. PICK t \in {None, call.case} : Answers(i, [task |-> t])
      BY <2>7
    <3>2. PICK k : k = [calls[i] EXCEPT !.answer = [task |-> t]]
      OBVIOUS
    <3>3. k.act = call.act /\ k.case = call.case /\ k.answer = [task |-> t]
      BY <1>5, <3>2
    <3>4. [task |-> t] \in Answer
      BY <2>2 DEF Answer
    <3>5. AnswerFits(k)' /\ Reply(k) /\ k.act # "login"
      BY <2>1, <3>3 DEF AnswerFits, Reply, JobActs, Questions, Clicks
    <3> QED
      BY <1>1, <1>2, <2>4, <2>5, <3>1, <3>2, <3>4, <3>5, ServedFits
  <2>8. Answers(i, Failure) \/ \E t \in {None, call.case} : Answers(i, [task |-> t])
    BY <1>16 DEF ServeTask
  <2> QED
    BY <2>6, <2>7, <2>8
<1> QED
  BY <1>9, <1>10, <1>11, <1>12, <1>13, <1>14, <1>15, <1>16 DEF Serve, Questions

-----------------------------------------------------------------------------
(* What the user does in a panel, and its timers.                          *)

(* Only the panel that is open is looked at.                               *)
LEMMA Elsewhere ==
  ASSUME UNCHANGED tab
  PROVE  /\ tab # "jobs" => JobsFit'
         /\ tab # "materials" => MaterialsFit'
         /\ tab # "prompts" => PromptsFit'
         /\ tab # "inquiry" => InquiryFits'
BY DEF JobsFit, MaterialsFit, PromptsFit, InquiryFits, At

LEMMA AwaitedKept ==
  ASSUME Keeps(calls', calls)
  PROVE  /\ \A n : (\E j \in DOMAIN calls : Brings(calls[j], n)) => \E j \in DOMAIN calls' : Brings(calls'[j], n)
         /\ \A act \in Awaited : \A key : Asking(act, key) => Asking(act, key)'
BY DEF Keeps, Brings, Awaited, Asking

LEMMA JobsFitNext ==
  ASSUME UNCHANGED <<tab, page, found, jobs, started>>,
         NEW q \in JobsPanel, panel' = q, q.job.case \in {None, page},
         q.job.state = "running" => q.timer \/ Asking("cancel", None)' \/ q.jobError \/ q.late,
         DoneTold(q), InSight(q), q.notified <= found[page],
         \/ q.notified <= q.list \/ q.listError \/ q.outdated
         \/ \E j \in DOMAIN calls' : Brings(calls'[j], q.notified)
  PROVE  JobsFit'
<1>1. panel' \in JobsPanel'
  BY TypesKept
<1>2. (\E j \in DOMAIN calls' : Brings(calls'[j], q.notified)) =>
        \E j \in DOMAIN calls' : Brings(calls[j], panel.notified)'
  BY TypesKept DEF Brings
<1>3. DoneTold(panel)' /\ InSight(panel)'
  BY DEF DoneTold, InSight, JobEnded, NoJob
<1> QED
  BY <1>1, <1>2, <1>3 DEF JobsFit

(* Nothing is shown that was not, and no polling begins.                   *)
LEMMA NotNoJob == \A j : j.state = "running" => j # NoJob
BY DEF NoJob

LEMMA SightKept ==
  ASSUME NEW p, NEW q, DoneTold(p), InSight(p),
         q.job = p.job, q.notified = p.notified, q.followed = p.followed, q.mounted = p.mounted,
         q.overtaken = p.overtaken, q.late = p.late, q.timer => p.timer \/ p.job.state = "running",
         p.job.state = "running" => p.job # NoJob
  PROVE  DoneTold(q) /\ InSight(q)
BY DEF DoneTold, InSight, JobEnded

(* A button sends one request.                                             *)
LEMMA ActsFit ==
  ASSUME ClientFits, NEW t, NEW act \in ActNames, NEW key \in Pieces \cup Cases \cup {None},
         Acts(t, act, key), UNCHANGED <<tab, serverVars, sessionVars, page, crossed>>,
         Sendable(act), act \notin InSession, act \in PieceActs => key \in Pieces \cup {None}
  PROVE  /\ ServerFits' /\ Sound(calls)' /\ SessionFits' /\ PageFits'
         /\ page \in Cases /\ tab = t /\ tab' = tab /\ page' = page
         /\ Keeps(calls', calls)
         /\ act \notin Questions => AsksNoMore(calls', calls) /\ OneStream(calls)'
         /\ \A n \in Awaited : act = n => Asking(n, key)'
<1>1. calls' = Append(calls, Request(act, key)) /\ At(t)
  BY DEF Acts, Send
<1>2. page \in Cases /\ tab = t
  BY <1>1, PageIsCase DEF ClientFits
<1>3. calls \in Seq(Call) /\ Left(calls, calls)
  BY CallsTyped, LeftSame DEF ClientFits
<1>4. act # "me" /\ act # "change"
  BY DEF InSession
<1>5. ServerFits' /\ Sound(calls)' /\ SessionFits' /\ PageFits'
  BY <1>1, <1>2, <1>3, <1>4, Sent DEF ClientFits
<1>6. Request(act, key).act = act /\ Request(act, key).key = key /\ Request(act, key).heeded
  BY DEF Request
<1>7. /\ Keeps(calls', calls)
      /\ act \notin Questions => AsksNoMore(calls', calls)
      /\ \E j \in DOMAIN calls' : calls'[j] = Request(act, key)
  BY <1>1, <1>3, <1>6, AppendKeeps
<1>8. act \notin Questions => OneStream(calls)'
  BY <1>7, StreamKept DEF ClientFits
<1>9. \A n \in Awaited : act = n => Asking(n, key)'
  BY <1>6, <1>7 DEF Asking
<1> QED
  BY <1>2, <1>5, <1>7, <1>8, <1>9

LEMMA StartJobFits == ASSUME ClientFits, Start PROVE ClientFits'
<1>1. /\ Acts("jobs", "start", None) /\ panel.job.state # "running" /\ PanelOnly
      /\ panel' = [panel EXCEPT !.timer = FALSE, !.jobError = FALSE]
  BY DEF Start
<1>2. UNCHANGED <<tab, serverVars, sessionVars, page, overview, crossed>> /\ At("jobs")
  BY <1>1 DEF PanelOnly, Acts
<1>3. "start" \in ActNames /\ "start" \notin InSession \cup Questions \cup PieceActs /\ Sendable("start")
  BY <1>2 DEF ActNames, InSession, Questions, PieceActs, JobActs, Sendable, At
<1>4. /\ ServerFits' /\ Sound(calls)' /\ SessionFits' /\ PageFits' /\ OneStream(calls)'
      /\ page \in Cases /\ tab = "jobs" /\ Keeps(calls', calls)
  BY <1>1, <1>2, <1>3, ActsFit
<1>5. panel \in JobsPanel /\ JobsFit
  BY <1>2 DEF ClientFits, JobsFit
<1>6. PICK q : q = [panel EXCEPT !.timer = FALSE, !.jobError = FALSE]
  OBVIOUS
<1>7. /\ q \in JobsPanel /\ q.job = panel.job /\ q.notified = panel.notified /\ q.list = panel.list
      /\ q.listError = panel.listError /\ q.outdated = panel.outdated
      /\ q.followed = panel.followed /\ q.mounted = panel.mounted /\ q.overtaken = panel.overtaken
      /\ q.late = panel.late /\ ~q.timer
  BY <1>5, <1>6 DEF JobsPanel
<1>8. JobsFit'
  <2>1. \/ q.notified <= q.list \/ q.listError \/ q.outdated
        \/ \E j \in DOMAIN calls' : Brings(calls'[j], q.notified)
    BY <1>2, <1>4, <1>5, <1>7, AwaitedKept DEF JobsFit
  <2>2. q.job.case \in {None, page} /\ q.notified <= found[page] /\ q.job.state # "running"
        /\ DoneTold(panel) /\ InSight(panel)
    BY <1>1, <1>2, <1>5, <1>7 DEF JobsFit
  <2>3. UNCHANGED <<tab, page, found, jobs, started>>
    BY <1>2 DEF serverVars
  <2>4. DoneTold(q) /\ InSight(q)
    BY <1>1, <1>7, <2>2, SightKept
  <2> QED
    BY <1>1, <1>6, <1>7, <2>1, <2>2, <2>3, <2>4, JobsFitNext
<1>9. MaterialsFit' /\ PromptsFit' /\ InquiryFits'
  BY <1>2, <1>4, Elsewhere
<1> QED
  BY <1>2, <1>4, <1>8, <1>9, TasksKept DEF ClientFits

LEMMA CancelJobFits == ASSUME ClientFits, CancelJob PROVE ClientFits'
<1>1. /\ Acts("jobs", "cancel", None) /\ PanelOnly
      /\ panel' = [panel EXCEPT !.jobError = FALSE]
  BY DEF CancelJob
<1>2. UNCHANGED <<tab, serverVars, sessionVars, page, overview, crossed>> /\ At("jobs")
  BY <1>1 DEF PanelOnly, Acts
<1>3. "cancel" \in ActNames /\ "cancel" \notin InSession \cup Questions \cup PieceActs /\ Sendable("cancel")
      /\ "cancel" \in Awaited
  BY <1>2 DEF ActNames, InSession, Questions, PieceActs, JobActs, Sendable, At, Awaited
<1>4. /\ ServerFits' /\ Sound(calls)' /\ SessionFits' /\ PageFits' /\ OneStream(calls)'
      /\ page \in Cases /\ tab = "jobs" /\ Keeps(calls', calls) /\ Asking("cancel", None)'
  BY <1>1, <1>2, <1>3, ActsFit
<1>5. panel \in JobsPanel /\ JobsFit
  BY <1>2 DEF ClientFits, JobsFit
<1>6. PICK q : q = [panel EXCEPT !.jobError = FALSE]
  OBVIOUS
<1>7. /\ q \in JobsPanel /\ q.job = panel.job /\ q.notified = panel.notified /\ q.list = panel.list
      /\ q.listError = panel.listError /\ q.outdated = panel.outdated
      /\ q.followed = panel.followed /\ q.mounted = panel.mounted /\ q.overtaken = panel.overtaken
      /\ q.late = panel.late /\ q.timer = panel.timer
  BY <1>5, <1>6 DEF JobsPanel
<1>8. JobsFit'
  <2>1. \/ q.notified <= q.list \/ q.listError \/ q.outdated
        \/ \E j \in DOMAIN calls' : Brings(calls'[j], q.notified)
    BY <1>2, <1>4, <1>5, <1>7, AwaitedKept DEF JobsFit
  <2>2. q.job.case \in {None, page} /\ q.notified <= found[page]
        /\ DoneTold(panel) /\ InSight(panel)
    BY <1>2, <1>5, <1>7 DEF JobsFit
  <2>3. UNCHANGED <<tab, page, found, jobs, started>>
    BY <1>2 DEF serverVars
  <2>4. DoneTold(q) /\ InSight(q)
    BY <1>7, <2>2, NotNoJob, SightKept
  <2> QED
    BY <1>1, <1>4, <1>6, <1>7, <2>1, <2>2, <2>3, <2>4, JobsFitNext
<1>9. MaterialsFit' /\ PromptsFit' /\ InquiryFits'
  BY <1>2, <1>4, Elsewhere
<1> QED
  BY <1>2, <1>4, <1>8, <1>9, TasksKept DEF ClientFits

(* A request that changes nothing in the panel.                            *)
LEMMA AskedOnly ==
  ASSUME ClientFits, NEW t, NEW act \in {"poll", "task"} \cup Clicks, NEW key \in Cases \cup {None},
         Acts(t, act, key), Sendable(act),
         UNCHANGED <<tab, serverVars, sessionVars, page, panel, crossed>>, TasksFit'
  PROVE  ClientFits'
<1>1. act \in ActNames /\ act \notin InSession \cup Questions \cup PieceActs
  BY DEF ActNames, InSession, Questions, PieceActs, JobActs, Clicks
<1>2. /\ ServerFits' /\ Sound(calls)' /\ SessionFits' /\ PageFits'
      /\ Keeps(calls', calls) /\ AsksNoMore(calls', calls)
  BY <1>1, ActsFit
<1>3. JobsFit' /\ MaterialsFit' /\ PromptsFit' /\ InquiryFits' /\ OneStream(calls)'
  BY <1>2, PanelKept DEF ClientFits
<1> QED
  BY <1>2, <1>3 DEF ClientFits

LEMMA TickFits == ASSUME ClientFits, Tick PROVE ClientFits'
<1>1. Acts("jobs", "poll", None) /\ UNCHANGED <<tab, serverVars, sessionVars, page, panel, overview, crossed>>
  BY DEF Tick, PanelOnly
<1>2. Sendable("poll")
  BY <1>1 DEF Sendable, JobActs, Acts, At
<1>3. TasksFit'
  BY <1>1, TasksKept DEF ClientFits
<1> QED
  BY <1>1, <1>2, <1>3, AskedOnly

LEMMA PollTaskFits == ASSUME ClientFits, PollTask PROVE ClientFits'
<1>1. Acts("tasks", "task", None) /\ UNCHANGED <<tab, serverVars, sessionVars, page, panel, overview, crossed>>
  BY DEF PollTask, PanelOnly
<1>2. Sendable("task")
  BY <1>1 DEF Sendable, Acts, At
<1>3. TasksFit'
  BY <1>1, TasksKept DEF ClientFits
<1> QED
  BY <1>1, <1>2, <1>3, AskedOnly

LEMMA ActOnTaskFits == ASSUME ClientFits, ActOnTask PROVE ClientFits'
<1>1. PICK act \in Clicks :
        /\ Acts("tasks", act, overview.snapshot)
        /\ overview' = [overview EXCEPT !.acting = @ \cup {act}]
        /\ UNCHANGED <<tab, serverVars, sessionVars, page, panel, crossed>>
  BY DEF ActOnTask, Clicks
<1>2. Sendable(act)
  BY <1>1 DEF Sendable, Acts, At
<1>3. overview \in Overview /\ TasksFit
  BY DEF ClientFits, TasksFit
<1>4. overview.snapshot \in Cases \cup {None}
  BY <1>3 DEF Overview
<1>5. TasksFit'
  <2>1. act \in ActNames
    BY DEF ActNames
  <2>2. /\ overview' \in Overview /\ overview'.snapshot = overview.snapshot
        /\ overview'.polled = overview.polled /\ overview'.strayed = overview.strayed
    BY <1>1, <1>3, <2>1 DEF Overview
  <2>3. overview' \in Overview'
    BY <2>2, TypesKept
  <2> QED
    BY <1>1, <1>3, <2>2, <2>3 DEF TasksFit, At
<1> QED
  BY <1>1, <1>2, <1>4, <1>5, AskedOnly

LEMMA SelectFits == ASSUME ClientFits, Select PROVE ClientFits'
<1>1. PICK m \in Pieces :
        /\ At("materials") \/ At("prompts")
        /\ panel.listed
        /\ calls' = Append(Forget(calls, {"content"}), Request("content", m))
        /\ panel' = IF tab = "prompts" THEN [Prompts0 EXCEPT !.listed = TRUE, !.active = m, !.working = panel.working]
                                       ELSE [panel EXCEPT !.active = m]
        /\ PanelOnly
  BY DEF Select
<1>2. UNCHANGED <<tab, serverVars, sessionVars, page, overview, crossed>>
  BY <1>1 DEF PanelOnly
<1>3. page \in Cases /\ tab \in {"materials", "prompts"}
  BY <1>1, PageIsCase DEF ClientFits
<1> DEFINE s == Forget(calls, {"content"})
           r == Request("content", m)
<1>4. calls \in Seq(Call)
  BY CallsTyped DEF ClientFits
<1>5. /\ s \in Seq(Call) /\ Left(s, calls) /\ DOMAIN s = DOMAIN calls
      /\ \A j \in DOMAIN calls : SameCall(s[j], calls[j])
  BY <1>4, Forgotten
<1>6. Sendable("content") /\ "content" \in ActNames /\ "content" \notin InSession
  BY <1>3 DEF Sendable, ActNames, InSession, PieceActs
<1>7. ServerFits' /\ Sound(calls)' /\ SessionFits' /\ PageFits'
  BY <1>1, <1>2, <1>3, <1>5, <1>6, Sent DEF ClientFits
<1>8. r.act = "content" /\ r.key = m /\ r.heeded
  BY DEF Request
<1>9. calls' = Append(s, r)
  BY <1>1
<1> HIDE DEF s, r
<1>10. \E j \in DOMAIN calls' : calls'[j] = r
  BY <1>5, <1>9, AppendKeeps
<1>11. Asking("content", m)'
  BY <1>8, <1>10 DEF Asking
<1>12. OneStream(calls)'
  <2>1. \A j \in DOMAIN calls' : (j \in DOMAIN s /\ calls'[j] = s[j]) \/ calls'[j] = r
    BY <1>5, <1>9
  <2>2. \A j \in DOMAIN s : s[j].act = "ask" => s[j].heeded = calls[j].heeded
    BY <1>4, Forgotten DEF s, SameCall
  <2>3. \A j \in Streams(calls)' : j \in Streams(calls) /\ calls'[j].heeded = calls[j].heeded
    BY <1>5, <1>8, <2>1, <2>2 DEF Streams, SameCall
  <2> QED
    BY <2>3 DEF ClientFits, OneStream, Streams
<1>13. MaterialsFit'
  <2> SUFFICES ASSUME tab = "materials" PROVE MaterialsFit'
    BY <1>2, Elsewhere
  <2>1. panel \in MaterialsPanel
    BY <1>1 DEF ClientFits, MaterialsFit, At
  <2>2. panel' = [panel EXCEPT !.active = m]
    BY <1>1
  <2>3. panel' \in MaterialsPanel /\ panel'.active = m
    BY <2>1, <2>2 DEF MaterialsPanel
  <2>4. Asking("content", panel.active)'
    BY <1>11, <2>3 DEF Asking
  <2> QED
    BY <2>3, <2>4, TypesKept DEF MaterialsFit
<1>14. PromptsFit'
  <2> SUFFICES ASSUME tab = "prompts" PROVE PromptsFit'
    BY <1>2, Elsewhere
  <2>1. panel \in PromptsPanel
    BY <1>1 DEF ClientFits, PromptsFit, At
  <2>2. panel' = [Prompts0 EXCEPT !.listed = TRUE, !.active = m, !.working = panel.working]
    BY <1>1
  <2>3. panel' \in PromptsPanel /\ panel'.content = None
    BY <2>1, <2>2 DEF PromptsPanel, Prompts0
  <2> QED
    BY <2>3, TypesKept DEF PromptsFit
<1>15. JobsFit' /\ InquiryFits'
  BY <1>2, <1>3, Elsewhere
<1> QED
  BY <1>2, <1>7, <1>12, <1>13, <1>14, <1>15, TasksKept DEF ClientFits

LEMMA WorkOnFits == ASSUME ClientFits, WorkOn PROVE ClientFits'
<1>1. PICK act \in {"reindex", "delete", "drop", "upload"}, m \in Pieces :
        /\ Acts("materials", act, m)
        /\ panel' = [panel EXCEPT !.working = @ \cup {act}]
        /\ PanelOnly
  BY DEF WorkOn
<1>2. UNCHANGED <<tab, serverVars, sessionVars, page, overview, crossed>> /\ At("materials")
  BY <1>1 DEF PanelOnly, Acts
<1>3. act \in ActNames /\ act \notin InSession \cup Questions /\ Sendable(act)
  BY <1>2 DEF ActNames, InSession, Questions, PieceActs, Sendable, At
<1>4. /\ ServerFits' /\ Sound(calls)' /\ SessionFits' /\ PageFits' /\ OneStream(calls)'
      /\ page \in Cases /\ tab = "materials" /\ Keeps(calls', calls)
  BY <1>1, <1>2, <1>3, ActsFit
<1>5. panel \in MaterialsPanel /\ MaterialsFit
  BY <1>2 DEF ClientFits, MaterialsFit
<1>6. /\ panel' \in MaterialsPanel /\ panel'.active = panel.active /\ panel'.content = panel.content
      /\ panel'.strayed = panel.strayed /\ panel'.failed = panel.failed
  BY <1>1, <1>3, <1>5 DEF MaterialsPanel
<1>7. MaterialsFit'
  <2>1. Asking("content", panel.active) => Asking("content", panel.active)'
    BY <1>4, <1>6, AwaitedKept DEF Awaited, Asking
  <2> QED
    BY <1>2, <1>5, <1>6, <2>1, TypesKept DEF MaterialsFit
<1>8. JobsFit' /\ PromptsFit' /\ InquiryFits'
  BY <1>2, <1>4, Elsewhere
<1> QED
  BY <1>2, <1>4, <1>7, <1>8, TasksKept DEF ClientFits

LEMMA EditFits == ASSUME ClientFits, Edit PROVE ClientFits'
<1>1. PICK act \in {"save", "version"} :
        /\ Acts("prompts", act, panel.active)
        /\ panel' = [panel EXCEPT !.working = @ \cup {act}]
        /\ PanelOnly
  BY DEF Edit
<1>2. UNCHANGED <<tab, serverVars, sessionVars, page, overview, crossed>> /\ At("prompts")
  BY <1>1 DEF PanelOnly, Acts
<1>3. act \in ActNames /\ act \notin InSession \cup Questions /\ Sendable(act)
  BY <1>2 DEF ActNames, InSession, Questions, PieceActs, Sendable, At
<1>4. panel \in PromptsPanel /\ PromptsFit
  BY <1>2 DEF ClientFits, PromptsFit
<1>5. panel.active \in Pieces \cup {None}
  BY <1>4 DEF PromptsPanel
<1>6. /\ ServerFits' /\ Sound(calls)' /\ SessionFits' /\ PageFits' /\ OneStream(calls)'
      /\ page \in Cases /\ tab = "prompts" /\ Keeps(calls', calls)
  BY <1>1, <1>2, <1>3, <1>5, ActsFit
<1>7. /\ panel' \in PromptsPanel /\ panel'.active = panel.active /\ panel'.content = panel.content
      /\ panel'.draft = panel.draft
  BY <1>1, <1>3, <1>4 DEF PromptsPanel
<1>8. PromptsFit'
  BY <1>2, <1>4, <1>7, TypesKept DEF PromptsFit
<1>9. JobsFit' /\ MaterialsFit' /\ InquiryFits'
  BY <1>2, <1>6, Elsewhere
<1> QED
  BY <1>2, <1>6, <1>8, <1>9, TasksKept DEF ClientFits

(* A question is asked when none is under way.                             *)
LEMMA PoseFits == ASSUME ClientFits, Pose PROVE ClientFits'
<1>1. PICK act \in {"ask", "deep"} :
        /\ Acts("inquiry", act, None) /\ panel.live = None
        /\ panel' = [panel EXCEPT !.live = act]
        /\ PanelOnly
  BY DEF Pose
<1>2. UNCHANGED <<tab, serverVars, sessionVars, page, overview, crossed>> /\ At("inquiry")
  BY <1>1 DEF PanelOnly, Acts
<1>3. act \in ActNames /\ act \notin InSession \cup PieceActs /\ Sendable(act) /\ act \in Questions
  BY <1>2 DEF ActNames, InSession, Questions, PieceActs, Sendable, At
<1>4. /\ ServerFits' /\ Sound(calls)' /\ SessionFits' /\ PageFits'
      /\ page \in Cases /\ tab = "inquiry"
  BY <1>1, <1>2, <1>3, ActsFit
<1>5. panel \in InquiryPanel /\ InquiryFits
  BY <1>2 DEF ClientFits, InquiryFits
<1>6. /\ panel' \in InquiryPanel /\ panel'.history = panel.history /\ panel'.overlapped = panel.overlapped
      /\ panel'.live = act /\ panel'.told = panel.told
  BY <1>1, <1>3, <1>5 DEF InquiryPanel
<1>7. \A j \in DOMAIN calls : ~Asked(calls[j])
  BY <1>1, <1>2, <1>5, NoneAssumption DEF InquiryFits, Asked, Questions
<1>8. Streams(calls) = {}
  BY <1>7 DEF ClientFits, OneStream, Streams, Asked, Questions
<1> DEFINE r == Request(act, None)
<1>9. r.act = act /\ r.heeded /\ r.answer = None
  BY DEF Request
<1>10. calls' = Append(calls, r) /\ calls \in Seq(Call)
  BY <1>1, CallsTyped DEF Acts, Send, ClientFits
<1> HIDE DEF r
<1>11. \A j \in DOMAIN calls' :
         \/ j \in DOMAIN calls /\ calls'[j] = calls[j]
         \/ j = Len(calls) + 1 /\ calls'[j] = r
  BY <1>10
<1>12. OneStream(calls)'
  BY <1>8, <1>9, <1>11 DEF OneStream, Streams
<1>13. InquiryFits'
  <2>1. \A j \in DOMAIN calls' : Asked(calls'[j]) => j = Len(calls) + 1 /\ calls'[j] = r
    BY <1>7, <1>11
  <2>2. /\ page' = page /\ asked' = asked
        /\ Range(panel.history) \subseteq Range(asked[page])
        /\ AllShown(panel.history, panel.told) \/ panel.overlapped
    BY <1>2, <1>5 DEF InquiryFits, serverVars
  <2> QED
    BY <1>6, <1>9, <2>1, <2>2, TypesKept DEF InquiryFits, AllShown, Asked, Questions
<1>14. JobsFit' /\ MaterialsFit' /\ PromptsFit'
  BY <1>2, <1>4, Elsewhere
<1> QED
  BY <1>2, <1>4, <1>12, <1>13, <1>14, TasksKept DEF ClientFits

LEMMA StopFits == ASSUME ClientFits, Stop PROVE ClientFits'
<1>1. /\ At("inquiry") /\ panel.live = "ask" /\ PanelOnly
      /\ panel' = [panel EXCEPT !.live = None] /\ calls' = Aborted(calls)
  BY DEF Stop
<1>2. UNCHANGED <<tab, serverVars, sessionVars, page, overview, crossed>>
  BY <1>1 DEF PanelOnly
<1>3. page \in Cases /\ tab = "inquiry"
  BY <1>1, PageIsCase DEF ClientFits
<1>4. calls \in Seq(Call)
  BY CallsTyped DEF ClientFits
<1>5. /\ calls' \in Seq(Call) /\ Left(calls', calls) /\ Streams(calls') = {}
      /\ calls' = calls \/ \E i \in DOMAIN calls : calls' = RemoveAt(calls, i)
  <2>1. calls' = calls \/ \E i \in DOMAIN calls : calls' = RemoveAt(calls, i)
    BY <1>1 DEF Aborted, Streams
  <2> QED
    BY <1>1, <1>4, <2>1, AbortedLeft DEF ClientFits
<1>6. ServerFits' /\ Sound(calls)' /\ PageFits'
  <2>1. PICK s : s = calls'
    OBVIOUS
  <2>2. Sound(s) /\ Heeds(s, page) /\ page' = page /\ page \in Cases
    BY <1>2, <1>3, <1>5, <2>1, SoundLeft, LeftHeeds DEF ClientFits, PageFits
  <2> QED
    BY <1>2, <2>1, <2>2, CallsKept DEF ClientFits
<1>7. SessionFits'
  BY <1>2, <1>5, SessionKept DEF ClientFits, serverVars, Left, SameCall
<1>8. panel \in InquiryPanel /\ InquiryFits
  BY <1>1 DEF ClientFits, InquiryFits
<1>9. /\ panel' \in InquiryPanel /\ panel'.history = panel.history /\ panel'.overlapped = panel.overlapped
      /\ panel'.told = panel.told
  BY <1>1, <1>8 DEF InquiryPanel
<1>10. \A j \in DOMAIN calls' : ~Asked(calls'[j])
  <2>1. \A j \in DOMAIN calls : Asked(calls[j]) => calls[j].act = "ask"
    BY <1>1, <1>8 DEF InquiryFits
  <2>2. \A j \in DOMAIN calls' : \E k \in DOMAIN calls : calls'[j] = calls[k]
    BY <1>4, <1>5, RemovedFrom
  <2> QED
    BY <1>5, <2>1, <2>2 DEF Streams
<1>11. InquiryFits'
  <2>1. /\ page' = page /\ asked' = asked
        /\ Range(panel.history) \subseteq Range(asked[page])
        /\ AllShown(panel.history, panel.told) \/ panel.overlapped
    BY <1>1, <1>2, <1>8 DEF InquiryFits, serverVars
  <2> QED
    BY <1>9, <1>10, <2>1, TypesKept DEF InquiryFits, AllShown, Asked, Questions
<1>12. OneStream(calls)'
  BY <1>5 DEF OneStream, Streams
<1>13. JobsFit' /\ MaterialsFit' /\ PromptsFit'
  BY <1>2, <1>3, Elsewhere
<1> QED
  BY <1>2, <1>6, <1>7, <1>11, <1>12, <1>13, TasksKept DEF ClientFits

-----------------------------------------------------------------------------
(* The answers.                                                            *)

(* The requests of a page that stays open.                                 *)
Carries(s) ==
  /\ s \in Seq(Call) /\ Sound(s) /\ Heeds(s, page) /\ OneStream(s)
  /\ \A j \in DOMAIN s : s[j].act = "me" => \E k \in DOMAIN calls : calls[k].act = "me" /\ calls[k].token = s[j].token

(* All but one are still there.                                            *)
AllBut(t, i) == \A k \in DOMAIN calls \ {i} : \E j \in DOMAIN t : t[j] = calls[k]

LEMMA CarriesRest ==
  ASSUME ClientFits, NEW i \in DOMAIN calls
  PROVE  Carries(Without(i)) /\ AllBut(Without(i), i) /\ AsksNoMore(Without(i), calls)
<1> DEFINE t == Without(i)
<1>1. calls \in Seq(Call)
  BY CallsTyped DEF ClientFits
<1>2. t \in Seq(Call) /\ Left(t, calls) /\ AsksNoMore(t, calls)
  BY <1>1, RemovedAt, LeftRemoved, RemoveKeeps DEF Without
<1>3. AllBut(t, i)
  BY <1>1, RemovedFrom DEF Without, AllBut
<1> HIDE DEF t
<1>4. Sound(t) /\ Heeds(t, page)
  BY <1>2, SoundLeft, LeftHeeds DEF ClientFits, PageFits
<1>5. OneStream(t)
  BY <1>2 DEF ClientFits, OneStream, Streams, AsksNoMore, Questions
<1>6. \A j \in DOMAIN t : \E k \in DOMAIN calls : calls[k].act = t[j].act /\ calls[k].token = t[j].token
  BY <1>2 DEF Left, SameCall
<1>7. Carries(t)
  BY <1>2, <1>4, <1>5, <1>6 DEF Carries
<1> QED
  BY <1>2, <1>3, <1>7 DEF t

(* One request more is sent.                                               *)
Sends(t, s, act, key) == t = Append(s, Request(act, key))

LEMMA CarriesMore ==
  ASSUME ClientFits, NEW s, Carries(s), page \in Cases,
         NEW act \in {"list", "content", "reread"}, NEW key \in Pieces \cup {None}, Sendable(act),
         NEW t, Sends(t, s, act, key)
  PROVE  /\ Carries(t) /\ \A i : AllBut(s, i) => AllBut(t, i)
         /\ \E j \in DOMAIN t : /\ t[j].act = act /\ t[j].key = key /\ t[j].heeded /\ t[j].answer = None
<1> DEFINE r == Request(act, key)
<1>0. t = Append(s, r)
  BY DEF Sends
<1>1. s \in Seq(Call) /\ Sound(s) /\ Heeds(s, page)
  BY DEF Carries
<1>2. /\ r \in Fitting /\ r.act = act /\ r.key = key /\ r.case = page /\ r.heeded /\ r.answer = None
  <2>1. act \in ActNames /\ act \notin InSession /\ logins \in Nat
    BY DEF ActNames, PieceActs, InSession, ClientFits, ServerFits
  <2>2. act # "me" /\ key \in Pieces \cup Cases \cup {None}
    OBVIOUS
  <2> QED
    BY <2>1, <2>2, RequestFits DEF ClientFits
<1>3. r \in Call
  BY <1>2 DEF Fitting
<1> HIDE DEF r
<1>4. t \in Seq(Call) /\ Len(s) \in Nat
  BY <1>0, <1>1, <1>3
<1>5. \A j \in DOMAIN t : (j \in DOMAIN s /\ t[j] = s[j]) \/ (j = Len(s) + 1 /\ t[j] = r)
  BY <1>0, <1>1
<1>6. \A j \in DOMAIN s : j \in DOMAIN t /\ t[j] = s[j]
  BY <1>0, <1>1
<1>7. Len(s) + 1 \in DOMAIN t /\ t[Len(s) + 1] = r
  BY <1>0, <1>1
<1>8. r.act # "me" /\ r.act # "change" /\ r.act \notin Questions
  BY <1>2 DEF Questions
<1>9. Sound(t) /\ Heeds(t, page)
  BY <1>0, <1>1, <1>2, <1>8, SoundAppend, AppendHeeds
<1>10. OneStream(t)
  BY <1>5, <1>8 DEF Carries, OneStream, Streams, Questions
<1>11. \A j \in DOMAIN t : t[j].act = "me" =>
         \E k \in DOMAIN calls : calls[k].act = "me" /\ calls[k].token = t[j].token
  BY <1>5, <1>8 DEF Carries
<1>12. Carries(t)
  BY <1>4, <1>9, <1>10, <1>11 DEF Carries
<1>13. \A i : AllBut(s, i) => AllBut(t, i)
  BY <1>6 DEF AllBut
<1>14. \E j \in DOMAIN t : /\ t[j].act = act /\ t[j].key = key /\ t[j].heeded /\ t[j].answer = None
  BY <1>2, <1>7
<1> QED
  BY <1>12, <1>13, <1>14

LEMMA CarriesForgotten ==
  ASSUME NEW s, Carries(s)
  PROVE  Carries(Forget(s, {"content"}))
<1> DEFINE t == Forget(s, {"content"})
<1>1. s \in Seq(Call)
  BY DEF Carries
<1>2. /\ t \in Seq(Call) /\ Left(t, s) /\ DOMAIN t = DOMAIN s
      /\ \A j \in DOMAIN s : SameCall(t[j], s[j]) /\ (s[j].act # "content" => t[j].heeded = s[j].heeded)
  BY <1>1, Forgotten
<1> HIDE DEF t
<1>3. Sound(t) /\ Heeds(t, page)
  BY <1>2, SoundLeft, LeftHeeds DEF Carries
<1>4. OneStream(t)
  BY <1>2 DEF Carries, OneStream, Streams, SameCall
<1>5. \A j \in DOMAIN t : t[j].act = s[j].act /\ t[j].token = s[j].token
  BY <1>2 DEF SameCall
<1>6. Carries(t)
  BY <1>2, <1>3, <1>4, <1>5 DEF Carries
<1> QED
  BY <1>6 DEF t

LEMMA CarriesOn ==
  ASSUME ClientFits, NEW s, Carries(s), calls' = s,
         UNCHANGED <<tab, serverVars, sessionVars, page, crossed>>
  PROVE  ServerFits' /\ Sound(calls)' /\ SessionFits' /\ PageFits' /\ OneStream(calls)'
<1>1. Sound(s) /\ Heeds(s, page') /\ page' \in Cases \cup {None}
  BY DEF Carries, ClientFits, PageFits
<1>2. ServerFits' /\ Sound(calls)' /\ PageFits'
  BY <1>1, CallsKept DEF ClientFits
<1>3. SessionFits'
  BY SessionKept DEF Carries, ClientFits, serverVars
<1>4. OneStream(calls)'
  BY DEF Carries, OneStream, Streams
<1> QED
  BY <1>2, <1>3, <1>4

(* What is left to wait for when one answer is in.                         *)
LEMMA RestAwaited ==
  ASSUME NEW i \in DOMAIN calls, AllBut(calls', i)
  PROVE  /\ \A n : (\E j \in DOMAIN calls : Brings(calls[j], n)) =>
                     Brings(calls[i], n) \/ \E j \in DOMAIN calls' : Brings(calls'[j], n)
         /\ \A act, key : Asking(act, key) /\ calls[i].act # act => Asking(act, key)'
         /\ calls[i].act \notin Awaited \/ ~calls[i].heeded => Keeps(calls', calls)
<1>1. \A k \in DOMAIN calls : k # i => \E j \in DOMAIN calls' : calls'[j] = calls[k]
  BY DEF AllBut
<1>2. \A n : (\E j \in DOMAIN calls : Brings(calls[j], n)) =>
        Brings(calls[i], n) \/ \E j \in DOMAIN calls' : Brings(calls'[j], n)
  BY <1>1
<1>3. \A act, key : Asking(act, key) /\ calls[i].act # act => Asking(act, key)'
  BY <1>1 DEF Asking
<1>4. calls[i].act \notin Awaited \/ ~calls[i].heeded => Keeps(calls', calls)
  BY <1>1 DEF Keeps
<1> QED
  BY <1>2, <1>3, <1>4

(* What is heeded belongs to what is open.                                 *)
LEMMA HeededHere ==
  ASSUME ClientFits, NEW i \in DOMAIN calls
  PROVE  /\ calls[i] \in Call /\ calls[i] \in Fitting /\ CallFits(calls[i])
         /\ calls[i].heeded /\ calls[i].act \notin InSession \cup Clicks =>
              calls[i].case = page /\ page \in Cases /\ page # None
<1>1. calls[i] \in Fitting
  <2>1. calls \in Seq(Fitting)
    BY CallsTyped DEF ClientFits
  <2> QED
    BY <2>1
<1>2. calls[i] \in Call /\ CallFits(calls[i])
  BY <1>1 DEF Fitting
<1> QED
  BY <1>1, <1>2, NoneAssumption DEF CallFits, ClientFits, PageFits, Heeds

(* An answer to nobody.                                                    *)
LEMMA UnheededFits ==
  ASSUME ClientFits, NEW i \in DOMAIN calls, calls' = Without(i), ~calls[i].heeded,
         UNCHANGED <<tab, serverVars, sessionVars>>, Stay
  PROVE  ClientFits'
<1>1. UNCHANGED <<page, panel, overview, crossed>>
  BY DEF Stay
<1>2. Carries(Without(i)) /\ AllBut(Without(i), i) /\ AsksNoMore(Without(i), calls)
  BY CarriesRest
<1>3. ServerFits' /\ Sound(calls)' /\ SessionFits' /\ PageFits' /\ OneStream(calls)'
  <2> PICK s : s = Without(i)
    OBVIOUS
  <2> QED
    BY <1>1, <1>2, CarriesOn
<1>4. Keeps(calls', calls) /\ AsksNoMore(calls', calls)
  BY <1>2, RestAwaited
<1>5. JobsFit' /\ MaterialsFit' /\ PromptsFit' /\ InquiryFits'
  BY <1>1, <1>4, PanelKept DEF ClientFits
<1> QED
  BY <1>1, <1>3, <1>5, TasksKept DEF ClientFits

(* Nobody is signed in any more.                                           *)
LEMMA UnauthorizedFits ==
  ASSUME ClientFits, NEW i \in DOMAIN calls, Unauthorized(i), UNCHANGED <<tab, serverVars>>
  PROVE  ClientFits'
<1> DEFINE t == Without(i)
           s == Unmounted(t, {})
<1>1. /\ token' = None /\ user' = None /\ Leave /\ calls' = s
      /\ restoring' = (restoring /\ calls[i].act # "me")
      /\ crossed' = (crossed \/ calls[i].token # token)
  BY DEF Unauthorized
<1>2. t \in Seq(Call) /\ Sound(t) /\ OneStream(t)
  BY CarriesRest DEF Carries
<1> HIDE DEF t
<1>3. s \in Seq(Call) /\ Left(s, t) /\ Heeds(s, None) /\ Streams(s) = {}
  BY <1>2, NothingHeeded
<1> HIDE DEF s
<1>4. Sound(s)
  BY <1>2, <1>3, SoundLeft
<1>5. restoring \in BOOLEAN /\ crossed \in BOOLEAN /\ logins' = logins
  BY DEF ClientFits, SessionFits, serverVars
<1>6. (restoring /\ calls[i].act # "me") \in BOOLEAN /\ (crossed \/ calls[i].token # token) \in BOOLEAN
  BY <1>5
<1>7. SessionFits'
  BY <1>1, <1>6 DEF SessionFits
<1>8. crossed => crossed'
  BY <1>1
<1>9. PICK r : r = s
  OBVIOUS
<1> QED
  BY <1>1, <1>3, <1>4, <1>7, <1>8, <1>9, Leaves DEF ClientFits

LEMMA SessionArrivesFits ==
  ASSUME ClientFits, NEW i \in DOMAIN calls, NEW x \in {Outcome(calls[i]), Failure},
         SessionArrives(i, x), UNCHANGED <<tab, serverVars>>
  PROVE  ClientFits'
<1> PICK call : call = calls[i]
  OBVIOUS
<1>1. calls' = Without(i) /\ UNCHANGED <<page, panel, overview>>
  BY DEF SessionArrives
<1>2. call \in Call /\ call \in Fitting /\ CallFits(call)
  BY HeededHere
<1>3. Carries(Without(i)) /\ AllBut(Without(i), i) /\ AsksNoMore(Without(i), calls)
  BY CarriesRest
<1>4. call.act \in InSession
  BY DEF SessionArrives, InSession
<1>5. crossed' \in BOOLEAN /\ (crossed => crossed')
  BY DEF SessionArrives, ClientFits, SessionFits
<1>6. ServerFits' /\ Sound(calls)' /\ PageFits'
  <2> PICK s : s = Without(i)
    OBVIOUS
  <2>1. Sound(s) /\ Heeds(s, page') /\ page' \in Cases \cup {None}
    BY <1>1, <1>3 DEF Carries, ClientFits, PageFits
  <2> QED
    BY <1>1, <1>5, <2>1, CallsKept DEF ClientFits
<1>7. Keeps(calls', calls) /\ AsksNoMore(calls', calls)
  BY <1>1, <1>3, <1>4, RestAwaited DEF Awaited, InSession
<1>8. JobsFit' /\ MaterialsFit' /\ PromptsFit' /\ InquiryFits' /\ OneStream(calls)'
  BY <1>1, <1>7, PanelKept DEF ClientFits
<1>9. TasksFit'
  BY <1>1, TasksKept DEF ClientFits
<1>10. \A j \in DOMAIN calls' : \E k \in DOMAIN calls : k # i /\ calls'[j] = calls[k]
  BY <1>1, CallsTyped, RemovedFrom DEF Without, ClientFits
<1>11. /\ logins \in Nat /\ logins' = logins
       /\ token \in 0..logins \cup {None} /\ user \in 0..logins \cup {None}
       /\ restoring \in BOOLEAN /\ crossed \in BOOLEAN
  BY DEF ClientFits, ServerFits, SessionFits, serverVars
<1>12. ~crossed => /\ user # None => user = token
                   /\ \A j \in DOMAIN calls : calls[j].act = "me" /\ calls[j].token = token => user = None
  BY DEF ClientFits, SessionFits
<1>13. \A j, k \in DOMAIN calls : calls[j].act = "me" =>
         Newer(calls[k], calls[j]) /\ (crossed \/ OtherSession(calls[k], calls[j])) /\ j = 1
  BY DEF ClientFits, Sound
<1>14. call.token \in 0..logins \cup {None}
  BY <1>2 DEF CallFits
<1>15. CASE UNCHANGED <<token, user>> /\ crossed' = crossed /\ restoring' \in BOOLEAN
  BY <1>10, <1>11, <1>12, <1>15, <1>6, <1>8, <1>9 DEF SessionFits, ClientFits
<1>16. CASE call.act = "login" /\ Ok(x) /\ token' = x.session /\ user' = x.session
            /\ UNCHANGED <<restoring, crossed>>
  <2>1. x = call.answer /\ call.answer \notin {None} \cup Errors /\ AnswerFits(call)
    BY <1>2, <1>16, Heard
  <2>2. x.session \in 0..logins
    BY <1>16, <2>1 DEF AnswerFits
  <2>3. \A j \in DOMAIN calls : calls[j].act = "me" => calls[j].token < x.session
    BY <1>13, <1>16, <2>1 DEF Newer
  <2>4. \A j \in DOMAIN calls' : ~(calls'[j].act = "me" /\ calls'[j].token = token')
    <3>1. \A j \in DOMAIN calls : calls[j].act = "me" => calls[j].token # x.session
      <4> SUFFICES ASSUME NEW j \in DOMAIN calls, calls[j].act = "me" PROVE calls[j].token # x.session
        OBVIOUS
      <4>1. calls[j].token \in 0..logins /\ calls[j].token < x.session
        BY <2>3, HeededHere DEF CallFits
      <4> QED
        BY <2>2, <4>1
    <3> QED
      BY <1>10, <1>16, <3>1
  <2>5. SessionFits'
    BY <1>11, <1>16, <2>2, <2>4 DEF SessionFits
  <2> QED
    BY <1>6, <1>8, <1>9, <2>5 DEF ClientFits
<1>17. CASE /\ call.act = "change" /\ Ok(x) /\ user' = call.token
            /\ crossed' = (crossed \/ call.token # token) /\ UNCHANGED <<token, restoring>>
  <2>1. ~crossed' => ~crossed /\ call.token = token
    BY <1>17
  <2>2. ~crossed => \A j \in DOMAIN calls : calls[j].act = "me" => call.token # calls[j].token
    BY <1>13, <1>17 DEF OtherSession
  <2>3. ~crossed' => \A j \in DOMAIN calls' : ~(calls'[j].act = "me" /\ calls'[j].token = token')
    BY <1>10, <1>17, <2>1, <2>2
  <2>4. SessionFits'
    BY <1>5, <1>11, <1>14, <1>17, <2>1, <2>3 DEF SessionFits
  <2> QED
    BY <1>6, <1>8, <1>9, <2>4 DEF ClientFits
<1>18. CASE /\ call.act = "me" /\ restoring' = FALSE
            /\ user' = (IF Ok(x) THEN call.token ELSE user)
            /\ token' = (IF Ok(x) THEN token ELSE None)
            /\ crossed' = (crossed \/ call.token # token)
  <2>1. ~crossed' => ~crossed /\ call.token = token
    BY <1>18
  <2>2. \A j \in DOMAIN calls' : calls'[j].act # "me"
    BY <1>10, <1>13, <1>18
  <2>3. ~crossed' => (user' # None => user' = token')
    BY <1>12, <1>18, <2>1
  <2>4. SessionFits'
    BY <1>5, <1>11, <1>14, <1>18, <2>2, <2>3 DEF SessionFits
  <2> QED
    BY <1>6, <1>8, <1>9, <2>4 DEF ClientFits
<1>19. \/ UNCHANGED <<token, user>> /\ crossed' = crossed /\ restoring' \in BOOLEAN
       \/ call.act = "login" /\ Ok(x) /\ token' = x.session /\ user' = x.session
          /\ UNCHANGED <<restoring, crossed>>
       \/ /\ call.act = "change" /\ Ok(x) /\ user' = call.token
          /\ crossed' = (crossed \/ call.token # token) /\ UNCHANGED <<token, restoring>>
       \/ /\ call.act = "me" /\ restoring' = FALSE
          /\ user' = (IF Ok(x) THEN call.token ELSE user)
          /\ token' = (IF Ok(x) THEN token ELSE None)
          /\ crossed' = (crossed \/ call.token # token)
  <2>1. CASE call.act = "login" /\ token' = (IF Ok(x) THEN x.session ELSE token)
             /\ user' = (IF Ok(x) THEN x.session ELSE user) /\ UNCHANGED <<restoring, crossed>>
    BY <1>11, <2>1
  <2>2. CASE call.act = "logout" /\ UNCHANGED <<sessionVars, crossed>>
    BY <1>11, <2>2 DEF sessionVars
  <2>3. CASE /\ call.act = "change"
             /\ user' = (IF Ok(x) THEN call.token ELSE user)
             /\ crossed' = (crossed \/ (Ok(x) /\ call.token # token))
             /\ UNCHANGED <<token, restoring>>
    <3>1. CASE Ok(x)
      BY <2>3, <3>1
    <3>2. CASE ~Ok(x)
      BY <1>11, <2>3, <3>2
    <3> QED
      BY <3>1, <3>2
  <2> QED
    BY <2>1, <2>2, <2>3 DEF SessionArrives
<1> QED
  BY <1>15, <1>16, <1>17, <1>18, <1>19

LEMMA TaskArrivesFits ==
  ASSUME ClientFits, NEW i \in DOMAIN calls, NEW x \in {Outcome(calls[i]), Failure},
         calls[i].heeded, TaskArrives(i, x),
         UNCHANGED <<tab, serverVars, sessionVars, page, panel, crossed>>
  PROVE  ClientFits'
<1> PICK call : call = calls[i]
  OBVIOUS
<1> DEFINE clicked == call.act \in Clicks
<1>1. /\ calls' = Without(i) /\ call.act \in {"task"} \cup Clicks
      /\ overview' = [overview EXCEPT
           !.snapshot = IF Ok(x) THEN x.task ELSE @,
           !.acting = @ \ {call.act},
           !.polled = @ \/ (Ok(x) /\ ~clicked),
           !.strayed = IF Ok(x) THEN clicked /\ call.case # page ELSE @]
  BY DEF TaskArrives
<1>2. call \in Call /\ call \in Fitting /\ CallFits(call)
  BY HeededHere
<1>3. Carries(Without(i)) /\ AllBut(Without(i), i) /\ AsksNoMore(Without(i), calls)
  BY CarriesRest
<1>4. ServerFits' /\ Sound(calls)' /\ SessionFits' /\ PageFits' /\ OneStream(calls)'
  <2> PICK s : s = Without(i)
    OBVIOUS
  <2> QED
    BY <1>1, <1>3, CarriesOn
<1>5. Keeps(calls', calls) /\ AsksNoMore(calls', calls)
  BY <1>1, <1>3, RestAwaited DEF Awaited, Clicks
<1>6. JobsFit' /\ MaterialsFit' /\ PromptsFit' /\ InquiryFits'
  BY <1>5, PanelKept DEF ClientFits
<1>7. overview \in Overview /\ TasksFit
  BY DEF ClientFits, TasksFit
<1>8. call.case \in Cases
  BY <1>1, <1>2 DEF CallFits, InSession, Clicks
<1>9. Ok(x) => x.task \in {None, call.case}
  <2>1. Ok(x) => x = call.answer /\ AnswerFits(call)
    BY <1>2, Heard
  <2> QED
    BY <1>1, <2>1 DEF AnswerFits
<1>10. ~clicked => call.case = page
  BY <1>1, HeededHere DEF InSession
<1>11. (overview.polled \/ (Ok(x) /\ ~clicked)) \in BOOLEAN /\ (clicked /\ call.case # page) \in BOOLEAN
  BY <1>7 DEF Overview
<1>12. /\ overview' \in Overview
       /\ overview'.snapshot = IF Ok(x) THEN x.task ELSE overview.snapshot
       /\ overview'.polled = (overview.polled \/ (Ok(x) /\ ~clicked))
       /\ overview'.strayed = IF Ok(x) THEN clicked /\ call.case # page ELSE overview.strayed
  <2> PICK now : now = (overview.polled \/ (Ok(x) /\ ~clicked))
    OBVIOUS
  <2> PICK astray : astray = (clicked /\ call.case # page)
    OBVIOUS
  <2> HIDE DEF clicked
  <2> QED
    BY <1>1, <1>7, <1>8, <1>9, <1>11 DEF Overview
<1>13. TasksFit'
  <2>1. At("tasks")' <=> At("tasks")
    BY DEF At
  <2>2. overview' \in Overview'
    BY <1>12, TypesKept
  <2>3. ASSUME At("tasks"), overview'.polled, ~overview'.strayed PROVE overview'.snapshot \in {None, page}
    <3>1. CASE Ok(x)
      BY <1>9, <1>10, <1>12, <2>3, <3>1
    <3>2. CASE ~Ok(x)
      BY <1>7, <1>12, <2>3, <3>2 DEF TasksFit
    <3> QED
      BY <3>1, <3>2
  <2> QED
    BY <2>1, <2>2, <2>3 DEF TasksFit
<1> QED
  BY <1>4, <1>6, <1>13 DEF ClientFits

(* The answers a panel waits for.                                          *)
PanelAlone == UNCHANGED <<tab, serverVars, sessionVars, page, overview, crossed>>

LEMMA RestFits ==
  ASSUME ClientFits, NEW s, Carries(s), calls' = s, PanelAlone,
         JobsFit', MaterialsFit', PromptsFit', InquiryFits'
  PROVE  ClientFits'
<1>1. ServerFits' /\ Sound(calls)' /\ SessionFits' /\ PageFits' /\ OneStream(calls)'
  BY CarriesOn DEF PanelAlone
<1>2. TasksFit'
  BY TasksKept DEF ClientFits, PanelAlone
<1> QED
  BY <1>1, <1>2 DEF ClientFits

(* A job that is told is one of the case; one that was started runs.       *)
LEMMA JobHeard ==
  ASSUME ClientFits, NEW i \in DOMAIN calls, NEW x \in {Outcome(calls[i]), Failure}, Ok(x),
         calls[i].act \in JobActs, calls[i].heeded
  PROVE  /\ x.job \in ShownJob /\ JobOf(x.job, page)
         /\ calls[i].act = "start" => x.job.state = "running"
<1>1. calls[i] \in Fitting /\ calls[i].case = page
  BY HeededHere DEF InSession, Clicks, JobActs
<1>2. x = calls[i].answer /\ AnswerFits(calls[i])
  BY <1>1, Heard
<1> QED
  BY <1>1, <1>2 DEF AnswerFits

LEMMA JobArrivesFits ==
  ASSUME ClientFits, NEW i \in DOMAIN calls, NEW x \in {Outcome(calls[i]), Failure},
         calls[i].heeded, JobArrives(i, x), PanelAlone
  PROVE  ClientFits'
<1> PICK call : call = calls[i]
  OBVIOUS
<1>1. call.act \in JobActs
  BY DEF JobArrives, JobActs
<1>2. call \in Call /\ CallFits(call) /\ page \in Cases /\ page # None
  BY <1>1, HeededHere DEF InSession, Clicks, JobActs
<1>3. tab = "jobs"
  BY <1>1, <1>2 DEF CallFits, Sendable, InSession, JobActs, Questions, Clicks
<1>4. At("jobs") /\ JobsFit /\ panel \in JobsPanel
  BY <1>2, <1>3 DEF At, ClientFits, JobsFit
<1>5. UNCHANGED <<tab, page, found, jobs, started>>
  BY DEF PanelAlone, serverVars
<1>6. /\ panel.job.case \in {None, page} /\ panel.notified <= found[page]
      /\ \/ panel.notified <= panel.list \/ panel.listError \/ panel.outdated
         \/ \E j \in DOMAIN calls : Brings(calls[j], panel.notified)
      /\ panel.job.state = "running" =>
           panel.timer \/ Asking("cancel", None) \/ panel.jobError \/ panel.late
      /\ DoneTold(panel) /\ InSight(panel)
  BY <1>4 DEF JobsFit
<1>7. found[page] \in Nat
  BY <1>2 DEF ClientFits, ServerFits
<1>8. call.act \notin Awaited /\ call.act # "cancel" /\ call.act # "list"
  BY <1>1 DEF JobActs, Awaited
<1> DEFINE told == Ok(x) /\ x.job # NoJob /\ Tells(x.job) /\ (call.act = "status" => x.job.state = "running")
<1>9. calls' = IF told THEN Then(i, "list", None) ELSE Without(i)
  BY DEF JobArrives
<1>10. Carries(Without(i)) /\ AllBut(Without(i), i)
  BY CarriesRest
<1>11. /\ Carries(Then(i, "list", None)) /\ AllBut(Then(i, "list", None), i)
       /\ \E j \in DOMAIN Then(i, "list", None) :
            LET k == Then(i, "list", None)[j]
            IN  k.act = "list" /\ k.key = None /\ k.heeded /\ k.answer = None
  <2>1. Sendable("list")
    BY <1>3 DEF Sendable
  <2>2. Sends(Then(i, "list", None), Without(i), "list", None)
    BY DEF Then, Sends
  <2> QED
    BY <1>2, <1>10, <2>1, <2>2, CarriesMore
<1>12. Carries(calls') /\ AllBut(calls', i)
  BY <1>9, <1>10, <1>11
<1>13. told => \A n : \E j \in DOMAIN calls' : Brings(calls'[j], n)
  BY <1>9, <1>11 DEF Brings
<1>14. (\E j \in DOMAIN calls : Brings(calls[j], panel.notified)) =>
         \E j \in DOMAIN calls' : Brings(calls'[j], panel.notified)
  BY <1>8, <1>12, RestAwaited DEF Brings
<1>15. Asking("cancel", None) => Asking("cancel", None)'
  BY <1>8, <1>12, RestAwaited
<1> HIDE DEF told
<1>16. ASSUME NEW q \in JobsPanel, panel' = q, q.job.case \in {None, page},
              q.job.state = "running" => q.timer \/ Asking("cancel", None)' \/ q.jobError \/ q.late,
              DoneTold(q), InSight(q), q.notified <= found[page], q.notified = panel.notified \/ told,
              q.list = panel.list, q.listError = panel.listError, q.outdated = panel.outdated
       PROVE  ClientFits'
  <2>1. \/ q.notified <= q.list \/ q.listError \/ q.outdated
        \/ \E j \in DOMAIN calls' : Brings(calls'[j], q.notified)
    BY <1>6, <1>13, <1>14, <1>16
  <2>2. JobsFit'
    BY <1>5, <1>16, <2>1, JobsFitNext
  <2>3. MaterialsFit' /\ PromptsFit' /\ InquiryFits'
    BY <1>3, <1>5, Elsewhere
  <2>4. PICK s : s = calls'
    OBVIOUS
  <2> QED
    BY <1>12, <2>2, <2>3, <2>4, RestFits
<1>17. CASE ~Ok(x)
  <2>1. PICK q : q = [panel EXCEPT !.timer = @ /\ call.act # "poll", !.jobError = TRUE]
    OBVIOUS
  <2>2. panel' = q
    BY <1>17, <2>1 DEF JobArrives
  <2>3. (panel.timer /\ call.act # "poll") \in BOOLEAN
    BY <1>4 DEF JobsPanel
  <2>4. /\ q \in JobsPanel /\ q.job = panel.job /\ q.jobError /\ q.notified = panel.notified
        /\ q.list = panel.list /\ q.listError = panel.listError /\ q.outdated = panel.outdated
        /\ q.followed = panel.followed /\ q.mounted = panel.mounted /\ q.overtaken = panel.overtaken
        /\ q.late = panel.late /\ (q.timer => panel.timer)
    BY <1>4, <2>1, <2>3 DEF JobsPanel
  <2>5. DoneTold(q) /\ InSight(q)
    BY <1>6, <2>4, NotNoJob, SightKept
  <2> QED
    BY <1>6, <1>16, <2>2, <2>4, <2>5
<1>18. CASE Ok(x) /\ x.job = NoJob
  <2>1. panel' = panel
    BY <1>18 DEF JobArrives
  <2>2. PICK q : q = panel
    OBVIOUS
  <2> QED
    BY <1>4, <1>6, <1>15, <1>16, <2>1, <2>2
<1>19. CASE Ok(x) /\ x.job # NoJob
  <2> PICK got : got = x.job
    OBVIOUS
  <2>0. got \in ShownJob /\ JobOf(got, page) /\ (call.act = "start" => got.state = "running")
    BY <1>1, <1>19, JobHeard
  <2>1. got \in ShownJob /\ got.case \in {None, page} /\ (got.state = "done" => got.id <= found[page])
    BY <2>0 DEF JobOf
  <2>2. Tells(got) => got.state = "done"
    BY DEF Tells
  <2>3. PICK a : a = Applied(got)
    OBVIOUS
  <2>4. (panel.timer /\ got.state \notin JobEnded) \in BOOLEAN /\ (panel.jobError \/ got.state = "error") \in BOOLEAN
    BY <1>4 DEF JobsPanel
  <2>5. (IF Tells(got) THEN got.id ELSE panel.notified) \in Nat
    BY <1>4, <2>1 DEF JobsPanel, ShownJob
  <2> DEFINE newest == IF got.state = "running" /\ panel.followed < got.id THEN got.id ELSE panel.followed
  <2>6. /\ a \in JobsPanel /\ a.job = got /\ a.timer = (panel.timer /\ got.state \notin JobEnded)
        /\ a.notified = (IF Tells(got) THEN got.id ELSE panel.notified)
        /\ a.list = panel.list /\ a.listError = panel.listError /\ a.outdated = panel.outdated
        /\ a.late = panel.late /\ a.followed = newest
        /\ a.overtaken = (panel.overtaken /\ got.state # "running")
    <3> PICK timer : timer = (panel.timer /\ got.state \notin JobEnded)
      OBVIOUS
    <3> PICK wrong : wrong = (panel.jobError \/ got.state = "error")
      OBVIOUS
    <3> PICK n : n = (IF Tells(got) THEN got.id ELSE panel.notified)
      OBVIOUS
    <3> PICK m : m = newest
      OBVIOUS
    <3> PICK over : over = (panel.overtaken /\ got.state # "running")
      OBVIOUS
    <3>1. a = [panel EXCEPT !.job = got, !.followed = m, !.mounted = FALSE, !.overtaken = over,
                            !.timer = timer, !.notified = n, !.jobError = wrong]
      BY <2>3 DEF Applied
    <3>2. timer \in BOOLEAN /\ wrong \in BOOLEAN /\ n \in Nat
      BY <2>4, <2>5
    <3>3. m \in Nat /\ over \in BOOLEAN
      BY <1>4, <2>1 DEF JobsPanel, ShownJob
    <3>4. PICK b : b = [panel EXCEPT !.job = got, !.followed = m, !.mounted = FALSE, !.overtaken = over]
      OBVIOUS
    <3>5. /\ b \in JobsPanel /\ b.job = got
          /\ b.list = panel.list /\ b.listError = panel.listError /\ b.outdated = panel.outdated
          /\ b.late = panel.late /\ b.followed = m /\ b.overtaken = over
      BY <1>4, <2>1, <3>3, <3>4 DEF JobsPanel
    <3>6. a = [b EXCEPT !.timer = timer, !.notified = n, !.jobError = wrong]
      BY <1>4, <3>1, <3>4 DEF JobsPanel
    <3>7. /\ a \in JobsPanel /\ a.job = got /\ a.timer = timer /\ a.notified = n
          /\ a.list = panel.list /\ a.listError = panel.listError /\ a.outdated = panel.outdated
          /\ a.late = panel.late /\ a.followed = m /\ a.overtaken = over
      BY <3>2, <3>5, <3>6 DEF JobsPanel
    <3> QED
      BY <3>7
  <2>a. newest <= started
    <3>1. got.id \in Nat /\ panel.followed \in Nat /\ started \in Nat
      BY <1>4, <2>0 DEF JobsPanel, ShownJob, ClientFits, ServerFits
    <3>2. got.id <= started /\ panel.followed <= started
      BY <1>6, <2>0 DEF JobOf, InSight
    <3> QED
      BY <3>1, <3>2
  <2> HIDE DEF newest
  <2>b. ASSUME NEW q, q.job = got, got.state = "running", q.followed = newest PROVE DoneTold(q) /\ InSight(q)
    BY <1>19, <2>a, <2>b DEF DoneTold, InSight, JobEnded
  <2>7. a.notified <= found[page]
    BY <1>6, <2>1, <2>2, <2>6
  <2>8. got.state = "running" => got.state \notin JobEnded
    BY DEF JobEnded
  <2>9. CASE call.act = "poll"
    <3>1. PICK late : late = (panel.late \/ ~panel.timer \/ got.id < panel.followed)
      OBVIOUS
    <3>2. PICK q : q = [a EXCEPT !.late = late]
      OBVIOUS
    <3>3. panel' = q
      <4>1. panel' = [Applied(got) EXCEPT !.late = @ \/ ~panel.timer \/ got.id < panel.followed]
        BY <1>19, <2>9 DEF JobArrives
      <4>2. panel' = [a EXCEPT !.late = a.late \/ ~panel.timer \/ got.id < panel.followed]
        BY <2>3, <4>1
      <4> QED
        BY <2>6, <3>1, <3>2, <4>2
    <3>4. late \in BOOLEAN
      BY <1>4, <3>1 DEF JobsPanel
    <3>5. /\ q \in JobsPanel /\ q.job = got /\ q.timer = a.timer /\ q.late = late
          /\ q.notified = a.notified /\ q.list = a.list /\ q.listError = a.listError /\ q.outdated = a.outdated
          /\ q.followed = a.followed /\ q.overtaken = a.overtaken
      BY <2>6, <3>2, <3>4 DEF JobsPanel
    <3>8. DoneTold(q)
      <4>1. q.timer => q.job # NoJob /\ q.job.state \notin JobEnded
        BY <1>19, <2>6, <3>5
      <4>2. ASSUME got.state = "done" PROVE got.id <= q.notified \/ q.overtaken \/ q.late
        <5>1. CASE Tells(got)
          BY <2>1, <2>6, <3>5, <5>1 DEF ShownJob
        <5>2. CASE ~Tells(got) /\ panel.notified = got.id
          BY <2>1, <2>6, <3>5, <5>2 DEF ShownJob
        <5>3. CASE panel.job.state = "done" /\ panel.timer
          BY <1>6, <2>6, <3>5, <4>2, <5>3 DEF DoneTold, JobEnded
        <5>4. CASE ~panel.timer
          BY <3>1, <3>5, <5>4
        <5> QED
          BY <4>2, <5>1, <5>2, <5>3, <5>4 DEF Tells
      <4> QED
        BY <3>5, <4>1, <4>2 DEF DoneTold
    <3>9. InSight(q)
      <4>1. CASE got.state = "running"
        BY <2>6, <2>b, <3>5, <4>1
      <4>2. CASE got.state # "running"
        <5>1. q.followed = panel.followed /\ q.followed <= started
          BY <2>6, <2>a, <3>5, <4>2 DEF newest
        <5>2. jobs[page].state = "running" => got.id < jobs[page].id
          BY <2>0, <4>2 DEF JobOf
        <5> QED
          BY <3>1, <3>5, <5>1, <5>2 DEF InSight
      <4> QED
        BY <4>1, <4>2
    <3>6. q.job.state = "running" => q.timer \/ q.late
      BY <2>6, <2>8, <3>1, <3>5
    <3>7. q.notified = panel.notified \/ told
      BY <1>19, <2>6, <2>9, <3>5 DEF told
    <3> QED
      BY <1>16, <2>1, <2>6, <2>7, <3>3, <3>5, <3>6, <3>7, <3>8, <3>9
  <2>10. CASE call.act # "poll" /\ got.state = "running"
    <3>1. PICK q : q = [a EXCEPT !.timer = TRUE]
      OBVIOUS
    <3>2. panel' = q
      BY <1>19, <2>3, <2>10, <3>1 DEF JobArrives, Polling
    <3>3. /\ q \in JobsPanel /\ q.job = got /\ q.timer
          /\ q.notified = a.notified /\ q.list = a.list /\ q.listError = a.listError /\ q.outdated = a.outdated
          /\ q.followed = a.followed
      BY <2>6, <3>1 DEF JobsPanel
    <3>4. q.notified = panel.notified
      BY <2>2, <2>6, <2>10, <3>3
    <3>5. DoneTold(q) /\ InSight(q)
      BY <2>6, <2>10, <2>b, <3>3
    <3> QED
      BY <1>16, <2>1, <2>6, <2>7, <3>2, <3>3, <3>4, <3>5
  <2>11. CASE call.act = "start" /\ got.state # "running"
    BY <2>0, <2>11
  <2>12. CASE call.act = "status" /\ got.state # "running"
    <3>1. PICK q : q = [panel EXCEPT !.job = got, !.mounted = TRUE, !.overtaken = @ \/ panel.job # NoJob,
                                     !.jobError = @ \/ got.state = "error"]
      OBVIOUS
    <3>2. panel' = q
      BY <1>19, <2>12, <3>1 DEF JobArrives
    <3>3. PICK wrong : wrong = (panel.jobError \/ got.state = "error")
      OBVIOUS
    <3>6. PICK over : over = (panel.overtaken \/ panel.job # NoJob)
      OBVIOUS
    <3>7. over \in BOOLEAN
      BY <1>4, <3>6 DEF JobsPanel
    <3>4. q = [panel EXCEPT !.job = got, !.mounted = TRUE, !.overtaken = over, !.jobError = wrong]
      BY <3>1, <3>3, <3>6
    <3>5. /\ q \in JobsPanel /\ q.job = got /\ q.notified = panel.notified
          /\ q.list = panel.list /\ q.listError = panel.listError /\ q.outdated = panel.outdated
          /\ q.mounted /\ q.overtaken = over /\ q.timer = panel.timer /\ q.followed = panel.followed
          /\ q.late = panel.late
      BY <1>4, <2>1, <2>4, <3>3, <3>4, <3>7 DEF JobsPanel
    <3>8. DoneTold(q)
      BY <1>6, <1>19, <3>5, <3>6 DEF DoneTold
    <3>9. InSight(q)
      BY <1>6, <3>5, <3>6, NoJobFits DEF InSight
    <3> QED
      BY <1>6, <1>16, <2>1, <2>12, <3>2, <3>5, <3>8, <3>9
  <2> QED
    BY <1>1, <2>9, <2>10, <2>11, <2>12 DEF JobActs
<1> QED
  BY <1>17, <1>18, <1>19

LEMMA CancelArrivesFits ==
  ASSUME ClientFits, NEW i \in DOMAIN calls, NEW x \in {Outcome(calls[i]), Failure},
         calls[i].heeded, CancelArrives(i, x), PanelAlone
  PROVE  ClientFits'
<1>1. calls[i].act = "cancel" /\ calls' = Without(i)
      /\ panel' = IF ~Ok(x) THEN [panel EXCEPT !.jobError = TRUE]
                  ELSE IF panel.job.state = "running" THEN Polling(panel) ELSE panel
  BY DEF CancelArrives
<1>2. calls[i] \in Call /\ CallFits(calls[i]) /\ page \in Cases /\ page # None
  BY <1>1, HeededHere DEF InSession, Clicks
<1>3. tab = "jobs"
  BY <1>1, <1>2 DEF CallFits, Sendable, InSession, Questions, Clicks
<1>4. At("jobs") /\ JobsFit /\ panel \in JobsPanel
  BY <1>2, <1>3 DEF At, ClientFits, JobsFit
<1>5. UNCHANGED <<tab, page, found, jobs, started>>
  BY DEF PanelAlone, serverVars
<1>6. Carries(Without(i)) /\ AllBut(Without(i), i)
  BY CarriesRest
<1>7. (\E j \in DOMAIN calls : Brings(calls[j], panel.notified)) =>
         \E j \in DOMAIN calls' : Brings(calls'[j], panel.notified)
  BY <1>1, <1>6, RestAwaited DEF Brings
<1>8. PICK q : q = panel'
  OBVIOUS
<1>9. /\ q \in JobsPanel /\ q.job = panel.job /\ q.notified = panel.notified /\ q.list = panel.list
      /\ q.listError = panel.listError /\ q.outdated = panel.outdated
      /\ q.job.state = "running" => q.timer \/ q.jobError
      /\ q.followed = panel.followed /\ q.mounted = panel.mounted /\ q.overtaken = panel.overtaken
      /\ q.late = panel.late /\ (q.timer => panel.timer \/ panel.job.state = "running")
  <2>1. CASE ~Ok(x)
    BY <1>1, <1>4, <1>8, <2>1 DEF JobsPanel
  <2>2. CASE Ok(x) /\ panel.job.state = "running"
    BY <1>1, <1>4, <1>8, <2>2 DEF JobsPanel, Polling
  <2>3. CASE Ok(x) /\ panel.job.state # "running"
    BY <1>1, <1>4, <1>8, <2>3
  <2> QED
    BY <2>1, <2>2, <2>3
<1>10. JobsFit'
  <2>1. /\ q.job.case \in {None, page} /\ q.notified <= found[page]
        /\ \/ q.notified <= q.list \/ q.listError \/ q.outdated
           \/ \E j \in DOMAIN calls' : Brings(calls'[j], q.notified)
        /\ DoneTold(panel) /\ InSight(panel)
    BY <1>4, <1>7, <1>9 DEF JobsFit
  <2>2. DoneTold(q) /\ InSight(q)
    BY <1>9, <2>1, NotNoJob, SightKept
  <2> QED
    BY <1>5, <1>8, <1>9, <2>1, <2>2, JobsFitNext
<1>11. MaterialsFit' /\ PromptsFit' /\ InquiryFits'
  BY <1>3, <1>5, Elsewhere
<1> PICK s : s = Without(i)
  OBVIOUS
<1> QED
  BY <1>1, <1>6, <1>10, <1>11, RestFits

LEMMA JobListArrivesFits ==
  ASSUME ClientFits, NEW i \in DOMAIN calls, NEW x \in {Outcome(calls[i]), Failure},
         calls[i].heeded, JobListArrives(i, x), PanelAlone
  PROVE  ClientFits'
<1>1. /\ tab = "jobs" /\ calls[i].act = "list" /\ calls' = Without(i)
      /\ panel' = IF Ok(x) THEN [panel EXCEPT !.list = x.list, !.outdated = @ \/ x.list < panel.list]
                           ELSE [panel EXCEPT !.listError = TRUE]
  BY DEF JobListArrives
<1>2. calls[i] \in Fitting /\ page \in Cases /\ page # None
  BY <1>1, HeededHere DEF InSession, Clicks
<1>3. At("jobs") /\ JobsFit /\ panel \in JobsPanel
  BY <1>1, <1>2 DEF At, ClientFits, JobsFit
<1>4. UNCHANGED <<tab, page, found, jobs, started>>
  BY DEF PanelAlone, serverVars
<1>5. Carries(Without(i)) /\ AllBut(Without(i), i)
  BY CarriesRest
<1>6. Ok(x) => x = calls[i].answer /\ x.list \in Nat /\ calls[i].answer \notin {None} \cup Errors
  <2>1. Ok(x) => x = calls[i].answer /\ AnswerFits(calls[i]) /\ calls[i].answer \notin {None} \cup Errors
    BY <1>2, Heard
  <2> QED
    BY <1>1, <2>1 DEF AnswerFits
<1>7. (\E j \in DOMAIN calls : Brings(calls[j], panel.notified)) =>
         \/ Brings(calls[i], panel.notified)
         \/ \E j \in DOMAIN calls' : Brings(calls'[j], panel.notified)
  BY <1>1, <1>5, RestAwaited
<1>8. Asking("cancel", None) => Asking("cancel", None)'
  BY <1>1, <1>5, RestAwaited
<1>9. PICK q : q = panel'
  OBVIOUS
<1>10. /\ q \in JobsPanel /\ q.job = panel.job /\ q.notified = panel.notified
       /\ q.timer = panel.timer /\ q.jobError = panel.jobError /\ q.late = panel.late
       /\ q.followed = panel.followed /\ q.mounted = panel.mounted /\ q.overtaken = panel.overtaken
       /\ Ok(x) => q.list = x.list /\ q.listError = panel.listError
                   /\ q.outdated = (panel.outdated \/ x.list < panel.list)
       /\ ~Ok(x) => q.listError
  <2>1. CASE Ok(x)
    <3>1. PICK o : o = (panel.outdated \/ x.list < panel.list)
      OBVIOUS
    <3>2. o \in BOOLEAN
      BY <1>3, <3>1 DEF JobsPanel
    <3>3. q = [panel EXCEPT !.list = x.list, !.outdated = o]
      BY <1>1, <1>9, <2>1, <3>1
    <3> QED
      BY <1>3, <1>6, <2>1, <3>1, <3>2, <3>3 DEF JobsPanel
  <2>2. CASE ~Ok(x)
    BY <1>1, <1>3, <1>9, <2>2 DEF JobsPanel
  <2> QED
    BY <2>1, <2>2
<1>11. \/ q.notified <= q.list \/ q.listError \/ q.outdated
       \/ \E j \in DOMAIN calls' : Brings(calls'[j], q.notified)
  <2>1. panel.notified \in Nat /\ panel.list \in Nat
    BY <1>3 DEF JobsPanel
  <2>2. CASE ~Ok(x)
    BY <1>10, <2>2
  <2>3. CASE Ok(x)
    <3>1. Brings(calls[i], panel.notified) => q.notified <= q.list
      BY <1>6, <1>10, <2>1, <2>3 DEF Brings
    <3>2. panel.notified <= panel.list => q.notified <= q.list \/ q.outdated
      <4>1. CASE x.list < panel.list
        BY <1>10, <2>3, <4>1
      <4>2. CASE ~(x.list < panel.list)
        BY <1>6, <1>10, <2>1, <2>3, <4>2
      <4> QED
        BY <4>1, <4>2
    <3> QED
      BY <1>3, <1>7, <1>10, <2>3, <3>1, <3>2 DEF JobsFit
  <2> QED
    BY <2>2, <2>3
<1>12. JobsFit'
  <2>1. /\ q.job.case \in {None, page} /\ q.notified <= found[page]
        /\ q.job.state = "running" => q.timer \/ Asking("cancel", None)' \/ q.jobError \/ q.late
        /\ DoneTold(panel) /\ InSight(panel)
    BY <1>3, <1>8, <1>10 DEF JobsFit
  <2>2. DoneTold(q) /\ InSight(q)
    BY <1>10, <2>1, NotNoJob, SightKept
  <2> QED
    BY <1>4, <1>9, <1>10, <1>11, <2>1, <2>2, JobsFitNext
<1>13. MaterialsFit' /\ PromptsFit' /\ InquiryFits'
  BY <1>1, <1>4, Elsewhere
<1> PICK s : s = Without(i)
  OBVIOUS
<1> QED
  BY <1>1, <1>5, <1>12, <1>13, RestFits

LEMMA MaterialListArrivesFits ==
  ASSUME ClientFits, NEW i \in DOMAIN calls, NEW x \in {Outcome(calls[i]), Failure},
         calls[i].heeded, MaterialListArrives(i, x), PanelAlone
  PROVE  ClientFits'
<1>0. PICK first : first = CHOOSE m \in x.list : TRUE
  OBVIOUS
<1> PICK shown : shown = [panel EXCEPT !.listed = @ \/ Ok(x)]
  OBVIOUS
<1> DEFINE selects == Ok(x) /\ panel.active = None /\ x.list # {}
<1>1. /\ tab \in {"materials", "prompts"} /\ calls[i].act = "list"
      /\ IF selects THEN panel' = [shown EXCEPT !.active = first] /\ calls' = Then(i, "content", first)
                    ELSE panel' = shown /\ calls' = Without(i)
  BY <1>0 DEF MaterialListArrives
<1>2. calls[i] \in Fitting /\ page \in Cases /\ page # None
  BY <1>1, HeededHere DEF InSession, Clicks
<1>3. UNCHANGED <<tab, page, found>>
  BY DEF PanelAlone, serverVars
<1>4. Carries(Without(i)) /\ AllBut(Without(i), i)
  BY CarriesRest
<1>5. selects => first \in Pieces
  <2>1. Ok(x) => x = calls[i].answer /\ AnswerFits(calls[i])
    BY <1>2, Heard
  <2>2. Ok(x) => x.list \in SUBSET Pieces
    BY <1>1, <2>1 DEF AnswerFits
  <2> QED
    BY <1>0, <2>2
<1>6. ASSUME selects
      PROVE  /\ Carries(Then(i, "content", first))
             /\ \E j \in DOMAIN Then(i, "content", first) :
                  LET k == Then(i, "content", first)[j]
                  IN  k.act = "content" /\ k.key = first /\ k.heeded
  <2>1. Sendable("content") /\ first \in Pieces \cup {None}
    BY <1>1, <1>5, <1>6 DEF Sendable
  <2>2. PICK t : t = Then(i, "content", first)
    OBVIOUS
  <2>3. Sends(t, Without(i), "content", first)
    BY <2>2 DEF Then, Sends
  <2> HIDE DEF selects
  <2>4. Carries(t) /\ \E j \in DOMAIN t : t[j].act = "content" /\ t[j].key = first /\ t[j].heeded
    BY <1>2, <1>4, <2>1, <2>3, CarriesMore
  <2> QED
    BY <2>2, <2>4
<1>7. Carries(calls') /\ (selects => Asking("content", first)') /\ (~selects => AllBut(calls', i))
  BY <1>1, <1>4, <1>6 DEF Asking
<1>8. ~selects => (Asking("content", panel.active) => Asking("content", panel.active)')
  <2> PICK m : m = panel.active
    OBVIOUS
  <2>1. ~selects => panel'.active = m
    <3>1. ~selects => panel' = shown
      BY <1>1
    <3>2. CASE tab = "materials"
      <4>1. panel \in MaterialsPanel
        BY <1>2, <3>2 DEF ClientFits, MaterialsFit, At
      <4> QED
        BY <3>1, <4>1 DEF MaterialsPanel
    <3>3. CASE tab = "prompts"
      <4>1. panel \in PromptsPanel
        BY <1>2, <3>3 DEF ClientFits, PromptsFit, At
      <4> QED
        BY <3>1, <4>1 DEF PromptsPanel
    <3> QED
      BY <1>1, <3>2, <3>3
  <2>2. ~selects => (Asking("content", m) => Asking("content", m)')
    BY <1>1, <1>7, RestAwaited
  <2> QED
    BY <2>1, <2>2 DEF Asking
<1> HIDE DEF selects
<1>9. MaterialsFit'
  <2> SUFFICES ASSUME tab = "materials" PROVE MaterialsFit'
    BY <1>3, Elsewhere
  <2>1. panel \in MaterialsPanel /\ MaterialsFit /\ At("materials")
    BY <1>2 DEF ClientFits, MaterialsFit, At
  <2>2. (panel.listed \/ Ok(x)) \in BOOLEAN
    BY <2>1 DEF MaterialsPanel
  <2>3. /\ shown \in MaterialsPanel /\ shown.active = panel.active /\ shown.content = panel.content
        /\ shown.strayed = panel.strayed /\ shown.failed = panel.failed
    BY <2>1, <2>2 DEF MaterialsPanel
  <2>4. CASE selects
    <3>1. panel' \in MaterialsPanel /\ panel'.active = first
      BY <1>1, <1>5, <2>3, <2>4 DEF MaterialsPanel
    <3>2. Asking("content", panel.active)'
      BY <1>7, <2>4, <3>1 DEF Asking
    <3> QED
      BY <3>1, <3>2, TypesKept DEF MaterialsFit
  <2>5. CASE ~selects
    <3>1. panel' = shown
      BY <1>1, <2>5
    <3> QED
      BY <1>8, <2>1, <2>3, <2>5, <3>1, TypesKept DEF MaterialsFit
  <2> QED
    BY <2>4, <2>5
<1>10. PromptsFit'
  <2> SUFFICES ASSUME tab = "prompts" PROVE PromptsFit'
    BY <1>3, Elsewhere
  <2>1. panel \in PromptsPanel /\ PromptsFit /\ At("prompts")
    BY <1>2 DEF ClientFits, PromptsFit, At
  <2>2. (panel.listed \/ Ok(x)) \in BOOLEAN
    BY <2>1 DEF PromptsPanel
  <2>3. /\ shown \in PromptsPanel /\ shown.active = panel.active /\ shown.content = panel.content
        /\ shown.draft = panel.draft
    BY <2>1, <2>2 DEF PromptsPanel
  <2>4. CASE selects
    <3>1. panel' \in PromptsPanel /\ panel'.content = None
      BY <1>1, <1>5, <2>1, <2>3, <2>4 DEF PromptsPanel, PromptsFit, selects
    <3> QED
      BY <3>1, TypesKept DEF PromptsFit
  <2>5. CASE ~selects
    <3>1. panel' = shown
      BY <1>1, <2>5
    <3> QED
      BY <2>1, <2>3, <3>1, TypesKept DEF PromptsFit
  <2> QED
    BY <2>4, <2>5
<1>11. JobsFit' /\ InquiryFits'
  BY <1>1, <1>3, Elsewhere
<1> PICK s : s = calls'
  OBVIOUS
<1> QED
  BY <1>7, <1>9, <1>10, <1>11, RestFits

LEMMA ContentArrivesFits ==
  ASSUME ClientFits, NEW i \in DOMAIN calls, NEW x \in {Outcome(calls[i]), Failure},
         calls[i].heeded, ContentArrives(i, x), PanelAlone
  PROVE  ClientFits'
<1> PICK call : call = calls[i]
  OBVIOUS
<1>1. /\ tab = "materials" /\ call.act \in {"content", "reread"} /\ calls' = Without(i)
      /\ panel' = [panel EXCEPT
           !.content = IF Ok(x) THEN call.key ELSE @,
           !.strayed = @ \/ (Ok(x) /\ call.key # panel.active),
           !.failed = @ \/ ~Ok(x)]
  BY DEF ContentArrives
<1>2. CallFits(call) /\ page \in Cases /\ page # None
  BY <1>1, HeededHere DEF InSession, Clicks
<1>3. panel \in MaterialsPanel /\ MaterialsFit /\ call.key \in Pieces \cup {None}
  BY <1>1, <1>2 DEF ClientFits, MaterialsFit, At, CallFits, PieceActs
<1>4. UNCHANGED <<tab, page, found, jobs, started>>
  BY DEF PanelAlone, serverVars
<1>5. /\ panel' \in MaterialsPanel
      /\ panel'.content = panel'.active \/ panel'.strayed \/ panel'.failed
  <2> PICK astray : astray = (panel.strayed \/ (Ok(x) /\ call.key # panel.active))
    OBVIOUS
  <2> PICK failed : failed = (panel.failed \/ ~Ok(x))
    OBVIOUS
  <2> PICK content : content = (IF Ok(x) THEN call.key ELSE panel.content)
    OBVIOUS
  <2>1. astray \in BOOLEAN /\ failed \in BOOLEAN /\ content \in Pieces \cup {None}
    BY <1>3 DEF MaterialsPanel
  <2>2. panel' = [panel EXCEPT !.content = content, !.strayed = astray, !.failed = failed]
    BY <1>1
  <2>3. /\ panel' \in MaterialsPanel /\ panel'.content = content /\ panel'.strayed = astray
        /\ panel'.failed = failed /\ panel'.active = panel.active
    BY <1>3, <2>1, <2>2 DEF MaterialsPanel
  <2>4. content = panel.active \/ astray \/ failed
    OBVIOUS
  <2> QED
    BY <2>3, <2>4
<1>6. MaterialsFit'
  BY <1>5, TypesKept DEF MaterialsFit
<1>7. JobsFit' /\ PromptsFit' /\ InquiryFits'
  BY <1>1, <1>4, Elsewhere
<1> PICK s : s = Without(i)
  OBVIOUS
<1>8. Carries(s)
  BY CarriesRest
<1> QED
  BY <1>1, <1>6, <1>7, <1>8, RestFits

LEMMA PromptArrivesFits ==
  ASSUME ClientFits, NEW i \in DOMAIN calls, NEW x \in {Outcome(calls[i]), Failure},
         calls[i].heeded, PromptArrives(i, x), PanelAlone
  PROVE  ClientFits'
<1> PICK call : call = calls[i]
  OBVIOUS
<1> DEFINE heeds == Ok(x) /\ call.key = panel.active /\ call.act # "save"
           saved == Ok(x) /\ call.act = "save"
<1>1. /\ tab = "prompts" /\ call.act \in {"content", "reread", "save", "version"}
      /\ panel' = [panel EXCEPT
           !.content = IF heeds /\ call.act # "version" THEN call.key ELSE @,
           !.draft = IF heeds THEN call.key ELSE @,
           !.working = IF saved THEN @
                       ELSE @ \ {IF call.act = "reread" THEN "save" ELSE call.act}]
      /\ calls' = IF saved THEN Then(i, "reread", call.key) ELSE Without(i)
  BY DEF PromptArrives
<1>2. CallFits(call) /\ page \in Cases /\ page # None
  BY <1>1, HeededHere DEF InSession, Clicks
<1>3. panel \in PromptsPanel /\ PromptsFit /\ At("prompts") /\ call.key \in Pieces \cup {None}
  BY <1>1, <1>2 DEF ClientFits, PromptsFit, At, CallFits, PieceActs
<1>4. UNCHANGED <<tab, page, found, jobs, started>>
  BY DEF PanelAlone, serverVars
<1>5. Carries(calls')
  <2>1. Carries(Without(i))
    BY CarriesRest
  <2>2. Carries(Then(i, "reread", call.key))
    <3>1. Sendable("reread")
      BY <1>1 DEF Sendable
    <3>2. Sends(Then(i, "reread", call.key), Without(i), "reread", call.key)
      BY DEF Then, Sends
    <3> QED
      BY <1>2, <1>3, <2>1, <3>1, <3>2, CarriesMore
  <2> QED
    BY <1>1, <2>1, <2>2
<1>6. PromptsFit'
  <2> PICK content : content = IF heeds /\ call.act # "version" THEN call.key ELSE panel.content
    OBVIOUS
  <2> PICK draft : draft = IF heeds THEN call.key ELSE panel.draft
    OBVIOUS
  <2> PICK working : working = IF saved THEN panel.working
                               ELSE panel.working \ {IF call.act = "reread" THEN "save" ELSE call.act}
    OBVIOUS
  <2>1. content \in Pieces \cup {None} /\ draft \in Pieces \cup {None} /\ working \in SUBSET ActNames
    BY <1>3 DEF PromptsPanel
  <2>2. panel' = [panel EXCEPT !.content = content, !.draft = draft, !.working = working]
    BY <1>1
  <2>3. /\ panel' \in PromptsPanel /\ panel'.content = content /\ panel'.draft = draft
        /\ panel'.active = panel.active
    BY <1>3, <2>1, <2>2 DEF PromptsPanel
  <2>4. content \in {None, panel.active} /\ (content # None => draft = content)
    BY <1>3 DEF PromptsFit
  <2> QED
    BY <2>3, <2>4, TypesKept DEF PromptsFit
<1>7. JobsFit' /\ MaterialsFit' /\ InquiryFits'
  BY <1>1, <1>4, Elsewhere
<1> PICK s : s = calls'
  OBVIOUS
<1> QED
  BY <1>5, <1>6, <1>7, RestFits

LEMMA WorkArrivesFits ==
  ASSUME ClientFits, NEW i \in DOMAIN calls, NEW x \in {Outcome(calls[i]), Failure},
         calls[i].heeded, WorkArrives(i, x), PanelAlone
  PROVE  ClientFits'
<1> PICK call : call = calls[i]
  OBVIOUS
<1> PICK idle : idle = [panel EXCEPT !.working = @ \ {call.act}]
  OBVIOUS
<1> PICK left : left = Without(i)
  OBVIOUS
<1> PICK refreshed : Sends(refreshed, left, "list", None)
  BY DEF Sends
<1> PICK reread : Sends(reread, refreshed, "reread", call.key)
  BY DEF Sends
<1> PICK unselected : unselected = Forget(refreshed, {"content"})
  OBVIOUS
<1> PICK selected : Sends(selected, unselected, "content", call.key)
  BY DEF Sends
<1>1. call.act \in {"reindex", "delete", "drop", "upload"}
  BY DEF WorkArrives
<1>2. CallFits(call) /\ page \in Cases /\ page # None
  BY <1>1, HeededHere DEF InSession, Clicks
<1>3. tab = "materials" /\ call.key \in Pieces \cup {None}
  BY <1>1, <1>2 DEF CallFits, Sendable, InSession, JobActs, Questions, Clicks, PieceActs
<1>4. panel \in MaterialsPanel /\ MaterialsFit /\ At("materials")
  BY <1>2, <1>3 DEF ClientFits, MaterialsFit, At
<1>5. UNCHANGED <<tab, page, found, jobs, started>>
  BY DEF PanelAlone, serverVars
<1>6. /\ idle \in MaterialsPanel /\ idle.active = panel.active /\ idle.content = panel.content
      /\ idle.strayed = panel.strayed /\ idle.failed = panel.failed
  BY <1>4 DEF MaterialsPanel
<1>7. Carries(left) /\ AllBut(left, i)
  BY CarriesRest
<1>8. Sendable("list") /\ Sendable("content") /\ Sendable("reread")
  BY <1>3 DEF Sendable
<1>9. Carries(refreshed) /\ AllBut(refreshed, i)
  BY <1>2, <1>7, <1>8, CarriesMore
<1>10. Carries(unselected)
  BY <1>9, CarriesForgotten
<1>11. Carries(reread) /\ AllBut(reread, i)
  BY <1>2, <1>3, <1>8, <1>9, CarriesMore
<1>12. /\ Carries(selected)
       /\ \E j \in DOMAIN selected :
            selected[j].act = "content" /\ selected[j].key = call.key /\ selected[j].heeded
  BY <1>2, <1>3, <1>8, <1>10, CarriesMore
<1>13. \/ /\ panel' = idle
          /\ calls' \in {left, refreshed, reread}
       \/ /\ panel' = [idle EXCEPT !.active = None, !.content = None] /\ calls' = unselected
       \/ panel' = [idle EXCEPT !.active = call.key] /\ calls' = selected
  BY DEF WorkArrives, Sends
<1>14. ASSUME Carries(calls'), MaterialsFit' PROVE ClientFits'
  <2>1. JobsFit' /\ PromptsFit' /\ InquiryFits'
    BY <1>3, <1>5, Elsewhere
  <2> PICK s : s = calls'
    OBVIOUS
  <2> QED
    BY <1>14, <2>1, RestFits
<1>15. CASE panel' = idle /\ calls' \in {left, refreshed, reread}
  <2>1. Carries(calls') /\ AllBut(calls', i)
    BY <1>7, <1>9, <1>11, <1>15
  <2>2. Asking("content", panel.active) => Asking("content", panel.active)'
    <3> PICK m : m = panel.active
      OBVIOUS
    <3>1. Asking("content", m) => Asking("content", m)'
      BY <1>1, <2>1, RestAwaited
    <3> QED
      BY <1>6, <1>15, <3>1 DEF Asking
  <2>3. MaterialsFit'
    BY <1>4, <1>6, <1>15, <2>2, TypesKept DEF MaterialsFit
  <2> QED
    BY <1>14, <2>1, <2>3
<1>16. CASE panel' = [idle EXCEPT !.active = None, !.content = None] /\ calls' = unselected
  <2>1. panel' \in MaterialsPanel /\ panel'.content = panel'.active
    BY <1>6, <1>16 DEF MaterialsPanel
  <2>2. MaterialsFit'
    BY <2>1, TypesKept DEF MaterialsFit
  <2> QED
    BY <1>10, <1>14, <1>16, <2>2
<1>17. CASE panel' = [idle EXCEPT !.active = call.key] /\ calls' = selected
  <2>1. panel' \in MaterialsPanel /\ panel'.active = call.key
    BY <1>3, <1>6, <1>17 DEF MaterialsPanel
  <2>2. Asking("content", panel.active)'
    BY <1>12, <1>17, <2>1 DEF Asking
  <2>3. MaterialsFit'
    BY <2>1, <2>2, TypesKept DEF MaterialsFit
  <2> QED
    BY <1>12, <1>14, <1>17, <2>3
<1> QED
  BY <1>13, <1>15, <1>16, <1>17

(* A history gets one answer more.                                         *)
LEMMA HistoryGrows ==
  ASSUME NEW h \in Seq(Nat), NEW e \in Nat
  PROVE  /\ Append(h, e) \in Seq(Nat) /\ Range(Append(h, e)) = Range(h) \cup {e}
         /\ IsInjective(h) /\ e \notin Range(h) => IsInjective(Append(h, e))
<1> DEFINE t == Append(h, e)
<1>1. t \in Seq(Nat) /\ Len(h) \in Nat /\ DOMAIN h = 1..Len(h)
  OBVIOUS
<1>2. DOMAIN t = DOMAIN h \cup {Len(h) + 1} /\ t[Len(h) + 1] = e /\ \A j \in DOMAIN h : t[j] = h[j]
  OBVIOUS
<1> HIDE DEF t
<1>3. Range(t) = Range(h) \cup {e}
  BY <1>2 DEF Range
<1>4. IsInjective(h) /\ e \notin Range(h) => IsInjective(t)
  BY <1>1, <1>2 DEF Range, IsInjective
<1> QED
  BY <1>1, <1>3, <1>4 DEF t

LEMMA InquiryArrivesFits ==
  ASSUME ClientFits, NEW i \in DOMAIN calls, NEW x \in {Outcome(calls[i]), Failure},
         calls[i].heeded, InquiryArrives(i, x), PanelAlone
  PROVE  ClientFits'
<1> PICK call : call = calls[i]
  OBVIOUS
<1>1. calls' = Without(i) /\ call.act \in Questions \cup {"list"} /\ (call.act = "list" => tab = "inquiry")
  BY DEF InquiryArrives, Questions
<1>2. call \in Fitting /\ CallFits(call) /\ page \in Cases /\ page # None /\ call.case = page
  BY <1>1, HeededHere DEF InSession, Clicks, Questions
<1>3. tab = "inquiry"
  BY <1>1, <1>2 DEF CallFits, Sendable, InSession, JobActs, Questions, Clicks
<1>4. panel \in InquiryPanel /\ InquiryFits /\ At("inquiry")
  BY <1>2, <1>3 DEF ClientFits, InquiryFits, At
<1>5. UNCHANGED <<tab, page, found>> /\ asked' = asked
  BY DEF PanelAlone, serverVars
<1>6. /\ Range(panel.history) \subseteq Range(asked[page])
      /\ AllShown(panel.history, panel.told) \/ panel.overlapped
      /\ panel.history \in Seq(Nat) /\ panel.told \in SUBSET Nat
  BY <1>4 DEF InquiryFits, InquiryPanel
<1>7. \A j \in DOMAIN calls' : \E k \in DOMAIN calls : k # i /\ calls'[j] = calls[k]
  BY <1>1, CallsTyped, RemovedFrom DEF Without, ClientFits
<1>8. Ok(x) => x = call.answer /\ AnswerFits(call) /\ call.answer \notin {None} \cup Errors
  BY <1>2, Heard
<1>9. ASSUME InquiryFits' PROVE ClientFits'
  <2>1. JobsFit' /\ MaterialsFit' /\ PromptsFit'
    BY <1>3, <1>5, Elsewhere
  <2>2. PICK s : s = Without(i)
    OBVIOUS
  <2>3. Carries(s)
    BY <2>2, CarriesRest
  <2> QED
    BY <1>1, <1>9, <2>1, <2>2, <2>3, RestFits
<1>10. CASE call.act \in Questions
  <2>1. panel' = [panel EXCEPT !.history = IF Ok(x) THEN Append(@, x.inquiry) ELSE @,
                               !.told = IF Ok(x) THEN @ \cup {x.inquiry} ELSE @,
                               !.live = None]
    BY <1>10 DEF InquiryArrives, Questions
  <2>2. PICK h : h = IF Ok(x) THEN Append(panel.history, x.inquiry) ELSE panel.history
    OBVIOUS
  <2>0. PICK e : e = IF Ok(x) THEN panel.told \cup {x.inquiry} ELSE panel.told
    OBVIOUS
  <2>3. Asked(call)
    BY <1>10 DEF Asked
  <2>4. \A j \in DOMAIN calls' : ~Asked(calls'[j])
    BY <1>4, <1>7, <2>3 DEF InquiryFits
  <2>5. Ok(x) => /\ x.inquiry \in Nat /\ x.inquiry \in Range(asked[page])
                 /\ panel.overlapped \/ x.inquiry \notin Range(panel.history)
    BY <1>2, <1>4, <1>8, <1>10, <2>3 DEF AnswerFits, InquiryFits
  <2>6. /\ h \in Seq(Nat) /\ Range(h) \subseteq Range(asked[page]) /\ (AllShown(h, e) \/ panel.overlapped)
        /\ e \in SUBSET Nat
    <3>1. CASE Ok(x)
      <4>1. h = Append(panel.history, x.inquiry) /\ e = panel.told \cup {x.inquiry}
        BY <2>0, <2>2, <3>1
      <4>2. /\ h \in Seq(Nat) /\ Range(h) = Range(panel.history) \cup {x.inquiry}
            /\ IsInjective(panel.history) /\ x.inquiry \notin Range(panel.history) => IsInjective(h)
        BY <1>6, <2>5, <3>1, <4>1, HistoryGrows
      <4> QED
        BY <1>6, <2>5, <3>1, <4>1, <4>2 DEF AllShown
    <3>2. CASE ~Ok(x)
      BY <1>6, <2>0, <2>2, <3>2
    <3> QED
      BY <3>1, <3>2
  <2>7. /\ panel' \in InquiryPanel /\ panel'.history = h /\ panel'.overlapped = panel.overlapped
        /\ panel'.told = e
    <3>1. panel' = [panel EXCEPT !.history = h, !.told = e, !.live = None]
      BY <2>0, <2>1, <2>2
    <3> QED
      BY <1>4, <2>6, <3>1 DEF InquiryPanel
  <2>8. InquiryFits'
    BY <1>5, <2>4, <2>6, <2>7, TypesKept DEF InquiryFits, AllShown, Asked, Questions
  <2> QED
    BY <1>9, <2>8
<1>11. CASE call.act = "list"
  <2>1. panel' = IF ~Ok(x) THEN panel
                 ELSE [panel EXCEPT !.history = x.list,
                                    !.overlapped = @ \/ panel.live # None \/ panel.told # {}]
    BY <1>11 DEF InquiryArrives
  <2>2. \A j \in DOMAIN calls' : Asked(calls'[j]) =>
          /\ panel.live = calls'[j].act
          /\ calls'[j].answer \in {None} \cup Errors \/ panel.overlapped
               \/ calls'[j].answer.inquiry \notin Range(panel.history)
    BY <1>4, <1>7 DEF InquiryFits
  <2>3. \A j, k \in DOMAIN calls' : Asked(calls'[j]) /\ Asked(calls'[k]) => j = k
    <3>1. AsksNoMore(calls', calls)
      BY <1>1, CarriesRest
    <3> QED
      BY <1>4, <3>1 DEF AsksNoMore, InquiryFits, Asked
  <2>4. CASE Ok(x)
    <3>1. x.list \in Seq(Nat) /\ HistoryOf(x.list, page)
      BY <1>2, <1>3, <1>8, <1>11, <2>4 DEF AnswerFits
    <3>2. PICK o : o = (panel.overlapped \/ panel.live # None \/ panel.told # {})
      OBVIOUS
    <3>3. o \in BOOLEAN
      BY <1>4, <3>2 DEF InquiryPanel
    <3>4. panel' = [panel EXCEPT !.history = x.list, !.overlapped = o]
      BY <2>1, <2>4, <3>2
    <3>5. /\ panel' \in InquiryPanel /\ panel'.history = x.list /\ panel'.overlapped = o
          /\ panel'.live = panel.live /\ panel'.told = panel.told
      BY <1>4, <3>1, <3>3, <3>4 DEF InquiryPanel
    <3>8. AllShown(x.list, panel.told) \/ o
      BY <3>1, <3>2 DEF AllShown, HistoryOf
    <3>6. \A j \in DOMAIN calls' : Asked(calls'[j]) => panel.live = calls'[j].act /\ o
      BY <2>2, <3>2, NoneAssumption DEF Asked, Questions
    <3>7. InquiryFits'
      BY <1>5, <2>3, <3>1, <3>5, <3>6, <3>8, TypesKept DEF InquiryFits, AllShown, HistoryOf, Asked, Questions
    <3> QED
      BY <1>9, <3>7
  <2>5. CASE ~Ok(x)
    <3>1. panel' = panel
      BY <2>1, <2>5
    <3>2. InquiryFits'
      BY <1>4, <1>5, <1>6, <2>2, <2>3, <3>1, TypesKept DEF InquiryFits, AllShown, Asked, Questions
    <3> QED
      BY <1>9, <3>2
  <2> QED
    BY <2>4, <2>5
<1> QED
  BY <1>1, <1>10, <1>11

LEMMA ArriveFits == ASSUME ClientFits, NEW i, Arrive(i) PROVE ClientFits'
<1> PICK call : call = calls[i]
  OBVIOUS
<1>1. i \in DOMAIN calls /\ UNCHANGED <<tab, serverVars>>
  BY DEF Arrive
<1>2. PICK x \in {Outcome(call), Failure} :
        IF x = Rejected /\ call.act # "logout" THEN Unauthorized(i)
        ELSE
          \/ SessionArrives(i, x)
          \/ /\ call.act \notin InSession /\ ~call.heeded
             /\ calls' = Without(i) /\ UNCHANGED sessionVars /\ Stay
          \/ /\ call.heeded /\ TaskArrives(i, x)
             /\ UNCHANGED <<sessionVars, page, panel, crossed>>
          \/ /\ call.heeded
             /\ \/ JobArrives(i, x) \/ CancelArrives(i, x) \/ JobListArrives(i, x)
                \/ MaterialListArrives(i, x) \/ ContentArrives(i, x) \/ WorkArrives(i, x)
                \/ PromptArrives(i, x) \/ InquiryArrives(i, x)
                \/ tab = "plain" /\ call.act = "list"
                   /\ calls' = Without(i) /\ UNCHANGED panel
             /\ UNCHANGED <<sessionVars, page, overview, crossed>>
  BY DEF Arrive
<1>3. CASE Unauthorized(i)
  BY <1>1, <1>3, UnauthorizedFits
<1>4. CASE SessionArrives(i, x)
  BY <1>1, <1>4, SessionArrivesFits
<1>5. CASE ~call.heeded /\ calls' = Without(i) /\ UNCHANGED sessionVars /\ Stay
  BY <1>1, <1>5, UnheededFits
<1>6. CASE call.heeded /\ TaskArrives(i, x) /\ UNCHANGED <<sessionVars, page, panel, crossed>>
  BY <1>1, <1>6, TaskArrivesFits
<1>7. ASSUME UNCHANGED <<sessionVars, page, overview, crossed>> PROVE PanelAlone
  BY <1>1, <1>7 DEF PanelAlone
<1>8. CASE call.heeded /\ JobArrives(i, x) /\ PanelAlone
  BY <1>1, <1>8, JobArrivesFits
<1>9. CASE call.heeded /\ CancelArrives(i, x) /\ PanelAlone
  BY <1>1, <1>9, CancelArrivesFits
<1>10. CASE call.heeded /\ JobListArrives(i, x) /\ PanelAlone
  BY <1>1, <1>10, JobListArrivesFits
<1>11. CASE call.heeded /\ MaterialListArrives(i, x) /\ PanelAlone
  BY <1>1, <1>11, MaterialListArrivesFits
<1>12. CASE call.heeded /\ ContentArrives(i, x) /\ PanelAlone
  BY <1>1, <1>12, ContentArrivesFits
<1>13. CASE call.heeded /\ WorkArrives(i, x) /\ PanelAlone
  BY <1>1, <1>13, WorkArrivesFits
<1>14. CASE call.heeded /\ PromptArrives(i, x) /\ PanelAlone
  BY <1>1, <1>14, PromptArrivesFits
<1>15. CASE call.heeded /\ InquiryArrives(i, x) /\ PanelAlone
  BY <1>1, <1>15, InquiryArrivesFits
<1>16. CASE tab = "plain" /\ calls' = Without(i) /\ PanelAlone
  <2>1. JobsFit' /\ MaterialsFit' /\ PromptsFit' /\ InquiryFits'
    BY <1>1, <1>16, Elsewhere
  <2>2. PICK s : s = Without(i)
    OBVIOUS
  <2>3. Carries(s)
    BY <1>1, <2>2, CarriesRest
  <2> QED
    BY <1>16, <2>1, <2>2, <2>3, RestFits
<1> QED
  BY <1>2, <1>3, <1>4, <1>5, <1>6, <1>7, <1>8, <1>9, <1>10, <1>11, <1>12, <1>13, <1>14, <1>15, <1>16

-----------------------------------------------------------------------------
(* The theorems.                                                           *)

LEMMA NothingMoves == ASSUME ClientFits, UNCHANGED clientVars PROVE ClientFits'
<1>1. /\ UNCHANGED <<tab, serverVars, sessionVars>>
      /\ UNCHANGED <<calls, page, panel, overview, crossed>>
  BY DEF clientVars
<1>2. ServerFits'
  BY <1>1, ServerKept DEF ClientFits
<1>3. /\ logins \in Nat /\ tab' = tab /\ logins' = logins /\ found' = found /\ asked' = asked
      /\ UNCHANGED <<jobs, started>>
  BY <1>1 DEF ClientFits, ServerFits, serverVars
<1>4. Grows /\ ClientStays
  BY <1>1, <1>3, JobsStay, FilesStay DEF ClientStays, ClientFits
<1> QED
  BY <1>1, <1>2, <1>4, ServerAlone

LEMMA ClientStep == ASSUME ClientFits, [ClientNext]_clientVars PROVE ClientFits'
<1>1. CASE SignIn \/ SignOut \/ ChangePassword \/ Reload \/ OpenCase \/ LeaveCase
  BY <1>1, SignInFits, SignOutFits, ChangePasswordFits, ReloadFits, OpenCaseFits, LeaveCaseFits
<1>2. CASE Start \/ CancelJob \/ Tick \/ Select \/ WorkOn
  BY <1>2, StartJobFits, CancelJobFits, TickFits, SelectFits, WorkOnFits
<1>3. CASE Edit \/ Pose \/ Stop \/ PollTask \/ ActOnTask
  BY <1>3, EditFits, PoseFits, StopFits, PollTaskFits, ActOnTaskFits
<1>4. CASE OthersStart \/ SessionExpires \/ ServerRestarts
  BY <1>4, OthersStartFits, SessionExpiresFits, ServerRestartsFits
<1>5. CASE \E c \in Cases : EndJob(c)
  BY <1>5, EndJobFits
<1>6. CASE \E i \in 1..MaxCalls : Serve(i) \/ Arrive(i)
  BY <1>6, ServeFits, ArriveFits
<1>7. CASE UNCHANGED clientVars
  BY <1>7, NothingMoves
<1> QED
  BY <1>1, <1>2, <1>3, <1>4, <1>5, <1>6, <1>7 DEF ClientNext

(* Throughout, the server, the requests under way and what is shown fit    *)
(* together: every request is one the open tab sends, with the token of    *)
(* its moment, and has an answer of its kind (api.ts); one stream at most  *)
(* is open; and the panel fits what it still waits for.                    *)
THEOREM ClientHolds == ClientSpec => []ClientFits
<1>1. ClientInit => ClientFits
  BY StartFits
<1>2. ClientFits /\ [ClientNext]_clientVars => ClientFits'
  BY ClientStep
<1> QED
  BY <1>1, <1>2, PTL DEF ClientSpec

(* What the client shows belongs to the session, the case, the material or *)
(* the prompt it is shown for, in whatever order answers come              *)
(* (CaseWorkbench.tsx, session.tsx, Admin.tsx).  The exceptions are those  *)
(* of ShownBelongs, first the task of the case before, which TaskOverview  *)
(* shows until a poll of this case has answered.                           *)
THEOREM ShownWhereItBelongs == ClientSpec => []ShownBelongs
<1>1. ClientFits => ShownBelongs
  <2> SUFFICES ASSUME ClientFits PROVE ShownBelongs
    OBVIOUS
  <2>1. user # None /\ ~crossed => user = token
    BY DEF ClientFits, SessionFits
  <2>2. At("tasks") => overview.snapshot \in {None, page} \/ ~overview.polled \/ overview.strayed
    BY DEF ClientFits, TasksFit
  <2>3. At("jobs") => panel.job.case \in {None, page}
    BY DEF ClientFits, JobsFit
  <2>4. At("inquiry") => /\ Range(panel.history) \subseteq Range(asked[page])
                         /\ \/ IsInjective(panel.history) /\ panel.told \subseteq Range(panel.history)
                            \/ panel.overlapped
    BY DEF ClientFits, InquiryFits, AllShown
  <2>5. At("materials") => \/ panel.content = panel.active \/ panel.strayed \/ panel.failed
                           \/ Asking("content", panel.active)
    BY DEF ClientFits, MaterialsFit
  <2>6. At("prompts") => /\ panel.content \in {None, panel.active}
                         /\ panel.content # None => panel.draft = panel.content
    BY DEF ClientFits, PromptsFit
  <2> QED
    BY <2>1, <2>2, <2>3, <2>4, <2>5, <2>6 DEF ShownBelongs
<1> QED
  BY <1>1, ClientHolds, PTL

(* A job that is shown as done has its results in the list next to it, or  *)
(* they are being fetched (onDone, applyJob).  The exceptions: fetching    *)
(* failed or lists crossed; the job was over when the status that is asked *)
(* for at mounting was served; that status came when another job was       *)
(* shown; a poll was answered late.                                        *)
THEOREM DoneJobIsListed == ClientSpec => []DoneIsListed
<1>1. ClientFits => DoneIsListed
  <2> SUFFICES ASSUME ClientFits, At("jobs"), panel.job.state = "done", ~panel.mounted,
                      ~panel.overtaken, ~panel.late
               PROVE  panel.list >= panel.job.id \/ Asking("list", None) \/ panel.listError \/ panel.outdated
    BY DEF DoneIsListed
  <2>1. JobsFit /\ panel \in JobsPanel
    BY DEF ClientFits, JobsFit
  <2>2. panel.notified \in Nat /\ panel.list \in Nat /\ panel.job.id \in Nat
        /\ panel.job.id <= panel.notified
    BY <2>1 DEF JobsFit, JobsPanel, ShownJob, DoneTold
  <2>3. CASE panel.notified <= panel.list
    BY <2>2, <2>3
  <2>4. CASE \E j \in DOMAIN calls : Brings(calls[j], panel.notified)
    BY <2>4 DEF Brings, Asking
  <2> QED
    BY <2>1, <2>3, <2>4 DEF JobsFit
<1> QED
  BY <1>1, ClientHolds, PTL

(* A job that is shown as running is polled or being cancelled, or an      *)
(* error is shown, and the last one shown as running stays in sight while  *)
(* it runs, unless a poll was answered late, or the status that is asked   *)
(* for at mounting came when a job was shown (useExtractionJob).           *)
THEOREM RunningJobIsFollowed == ClientSpec => []JobIsFollowed
<1>1. ClientFits => JobIsFollowed
  BY DEF ClientFits, JobsFit, InSight, JobIsFollowed
<1> QED
  BY <1>1, ClientHolds, PTL

-----------------------------------------------------------------------------
(* The server that the client is shown against keeps the contract that     *)
(* ContractHolds proves of the registry and its services: the models of    *)
(* the two sides do not contradict each other.  It is narrower than the    *)
(* contract, without a direct route or results before the end of the job.  *)
ServerContract == INSTANCE JobContract WITH
  Pairs <- Cases,
  Ids <- Nat \ {0},
  Nobody <- 0,
  Direct <- None,
  told <- [c \in Cases |-> [id |-> jobs[c].id, state |-> jobs[c].state]],
  given <- 1..started,
  results <- found

ToldAtServer(c) == [id |-> jobs[c].id, state |-> jobs[c].state]

LEMMA NothingTold ==
  ASSUME UNCHANGED <<jobs, started, found>>
  PROVE  UNCHANGED ServerContract!vars
BY DEF ServerContract!vars

LEMMA NewJobContracted ==
  ASSUME ServerFits, NEW c \in Cases, NewJob(c), UNCHANGED found
  PROVE  ServerContract!Next
<1>1. /\ started' = started + 1 /\ started \in Nat /\ jobs[c].state # "running"
      /\ jobs' = [jobs EXCEPT ![c] = [id |-> started + 1, state |-> "running", case |-> c]]
      /\ jobs \in [Cases -> ShownJob]
  BY DEF NewJob, ServerFits
<1>2. ToldAtServer(c)' = [id |-> started + 1, state |-> "running"]
  BY <1>1 DEF ToldAtServer
<1>3. \A d \in Cases \ {c} : ToldAtServer(d)' = ToldAtServer(d)
  BY <1>1 DEF ToldAtServer
<1> DEFINE tale == [d \in Cases |-> ToldAtServer(d)]
<1>4. tale' = [tale EXCEPT ![c] = [id |-> started + 1, state |-> "running"]]
  BY <1>2, <1>3
<1>5. tale[c].state # "running"
  BY <1>1 DEF ToldAtServer
<1>6. started + 1 \in (Nat \ {0}) \ (1..started) /\ (1..started)' = (1..started) \cup {started + 1}
  BY <1>1
<1>7. ServerContract!Start(c)
  BY <1>4, <1>5, <1>6 DEF ServerContract!Start, ServerContract!Running, ToldAtServer
<1> QED BY <1>7 DEF ServerContract!Next

LEMMA EndJobContracted ==
  ASSUME ServerFits, NEW c \in Cases, EndJob(c)
  PROVE  ServerContract!Next
<1>1. PICK state \in JobEnded :
        /\ jobs' = [jobs EXCEPT ![c].state = state]
        /\ found' = IF state = "done" THEN [found EXCEPT ![c] = jobs[c].id] ELSE found
  BY DEF EndJob
<1>2. /\ jobs[c].state = "running" /\ started' = started
      /\ jobs \in [Cases -> ShownJob] /\ found \in [Cases -> Nat]
  BY DEF EndJob, ServerFits
<1>3. jobs[c] \in ShownJob
  BY <1>2
<1>4. ToldAtServer(c)' = [id |-> jobs[c].id, state |-> state]
  BY <1>1, <1>2, <1>3 DEF ToldAtServer, ShownJob
<1>5. \A d \in Cases \ {c} : ToldAtServer(d)' = ToldAtServer(d)
  BY <1>1, <1>2 DEF ToldAtServer
<1> DEFINE tale == [d \in Cases |-> ToldAtServer(d)]
<1>6. tale[c].id = jobs[c].id /\ tale[c].state = "running"
  BY <1>2 DEF ToldAtServer
<1>7. tale' = [tale EXCEPT ![c] = [id |-> tale[c].id, state |-> state]]
  BY <1>4, <1>5, <1>6
<1>8. PICK by \in {found[c], tale[c].id} :
        found' = [found EXCEPT ![c] = by] /\ (state = "done" => by = tale[c].id)
  <2>1. CASE state = "done"
    BY <1>1, <1>6, <2>1
  <2>2. CASE state # "done"
    <3>1. found' = [found EXCEPT ![c] = found[c]]
      BY <1>1, <1>2, <2>2
    <3> QED BY <2>2, <3>1
  <2> QED BY <2>1, <2>2
<1>9. ServerContract!End(c)
  BY <1>1, <1>2, <1>6, <1>7, <1>8
     DEF ServerContract!End, ServerContract!Running, JobEnded, ToldAtServer
<1> QED BY <1>9 DEF ServerContract!Next

LEMMA ServerContracted ==
  ASSUME ClientFits, [ClientNext]_clientVars
  PROVE  [ServerContract!Next]_(ServerContract!vars)
<1>1. CASE SignIn \/ SignOut \/ ChangePassword \/ Reload \/ OpenCase \/ LeaveCase
  BY <1>1, NothingTold
     DEF SignIn, SignOut, ChangePassword, Reload, OpenCase, LeaveCase, serverVars
<1>2. CASE Start \/ CancelJob \/ Tick \/ Select \/ WorkOn
  BY <1>2, NothingTold DEF Start, CancelJob, Tick, Select, WorkOn, PanelOnly, serverVars
<1>3. CASE Edit \/ Pose \/ Stop \/ PollTask \/ ActOnTask
  BY <1>3, NothingTold DEF Edit, Pose, Stop, PollTask, ActOnTask, PanelOnly, serverVars
<1>4. CASE OthersStart
  BY <1>4, NewJobContracted DEF ClientFits, OthersStart
<1>5. CASE SessionExpires
  BY <1>5, NothingTold DEF SessionExpires
<1>6. CASE ServerRestarts
  <2>1. jobs' = [c \in Cases |-> NoJob] /\ UNCHANGED <<started, found>>
    BY <1>6 DEF ServerRestarts
  <2>2. \A c \in Cases : ToldAtServer(c)' = [id |-> 0, state |-> "none"]
    BY <2>1 DEF ToldAtServer, NoJob
  <2>3. ServerContract!Restart
    BY <2>1, <2>2 DEF ServerContract!Restart, ServerContract!Untold, ToldAtServer
  <2> QED BY <2>3 DEF ServerContract!Next
<1>7. ASSUME NEW c \in Cases, EndJob(c) PROVE ServerContract!Next
  BY <1>7, EndJobContracted DEF ClientFits
<1>8. ASSUME NEW i, Serve(i) PROVE [ServerContract!Next]_(ServerContract!vars)
  <2> PICK call : call = calls[i]
    OBVIOUS
  <2>1. UNCHANGED <<jobs, started, found>> \/ (ServeJob(call, i) /\ UNCHANGED found)
    BY <1>8 DEF Serve, serverVars
  <2>2. CASE ServeJob(call, i) /\ UNCHANGED found
    <3>1. UNCHANGED <<jobs, started>> \/ (call.act = "start" /\ NewJob(call.case))
      BY <2>2 DEF ServeJob
    <3>2. ASSUME call.act = "start", NewJob(call.case) PROVE ServerContract!Next
      <4>1. i \in DOMAIN calls /\ calls \in Seq(Fitting)
        BY <1>8, CallsTyped DEF Serve, ClientFits
      <4>2. CallFits(call)
        BY <4>1 DEF Fitting
      <4>3. call.case \in Cases
        BY <3>2, <4>2 DEF CallFits, InSession
      <4> QED BY <2>2, <3>2, <4>3, NewJobContracted DEF ClientFits
    <3> QED BY <2>2, <3>1, <3>2, NothingTold
  <2> QED BY <2>1, <2>2, NothingTold
<1>9. ASSUME NEW i, Arrive(i) PROVE [ServerContract!Next]_(ServerContract!vars)
  BY <1>9, NothingTold DEF Arrive, serverVars
<1>10. CASE UNCHANGED clientVars
  BY <1>10, NothingTold DEF clientVars, serverVars
<1> QED BY <1>1, <1>2, <1>3, <1>4, <1>5, <1>6, <1>7, <1>8, <1>9, <1>10 DEF ClientNext

(* The server of the client's model gives a job and its results as the     *)
(* contract of JobRegistry allows, through restarts and for any requests.  *)
THEOREM ServerKeepsContract == ClientSpec => ServerContract!Spec
<1>1. ClientInit => ClientFits /\ ServerContract!Init
  <2> SUFFICES ASSUME ClientInit PROVE ServerContract!Init
    BY StartFits
  <2>1. /\ jobs = [c \in Cases |-> NoJob] /\ started = 0 /\ found = [c \in Cases |-> 0]
    BY DEF ClientInit
  <2>2. \A c \in Cases : ToldAtServer(c) = [id |-> 0, state |-> "none"]
    BY <2>1 DEF ToldAtServer, NoJob
  <2>3. 1..started = {}
    BY <2>1
  <2> QED
    BY <2>1, <2>2, <2>3 DEF ServerContract!Init, ServerContract!Untold, ToldAtServer
<1>2. ClientFits /\ [ClientNext]_clientVars => ClientFits' /\ [ServerContract!Next]_(ServerContract!vars)
  BY ClientStep, ServerContracted
<1> QED BY <1>1, <1>2, PTL DEF ClientSpec, ServerContract!Spec

=============================================================================
