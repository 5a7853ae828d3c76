---------------------------- MODULE AnalysisJob -----------------------------
(***************************************************************************)
(* The batched analysis of one case: JobRegistry (jobs/job-registry.ts)    *)
(* for one (case, kind), the runs it starts (ElementService.extract and    *)
(* ContradictionService.detect), and mapWithConcurrency                    *)
(* (analysis/batch-extract.ts), which spreads the batches of a run over at *)
(* most Concurrency model calls.                                           *)
(*                                                                         *)
(* A run is a job of the registry, or the work of the route that calls the *)
(* service directly, which nothing can cancel and no registry knows.       *)
(* Callbacks that follow each other in one microtask queue are one step:   *)
(* the end of a worker with what it launches, and the end of a runner with *)
(* the state of its job and the removal of its controller.                 *)
(***************************************************************************)
EXTENDS Naturals

CONSTANTS
  Runs,          \* the calls that start an analysis
  Batches,       \* the number of batches of the case's chunks
  Concurrency,   \* CONCURRENCY: the model calls under way at once
  NoRun,         \* no job, no controller
  NoFile         \* the file does not exist

ASSUME RunAssumption == NoRun \notin Runs
ASSUME BatchAssumption == Batches \in Nat \ {0} /\ Concurrency \in Nat \ {0}

VARIABLES
  kind,        \* the kind of the pair: an analysis writes one file or two
  job,         \* the state of each job; "none" for a run that is not one
  current,     \* jobsByPair
  controller,  \* controllersByPair
  aborted,     \* the signal of each run
  phase,       \* where each run is
  work,        \* the counters of the run's mapWithConcurrency
  list,        \* elements.json or contradictions.json, with what it came from
  result       \* contradictions.result.json

registry == <<kind, job, current, controller>>
disk == <<list, result>>

(* History, which no code reads. *)
VARIABLE overlapped  \* two runs have been at work at the same time

vars == <<registry, aborted, phase, work, disk, overlapped>>

Kinds == {"elements", "contradictions"}
JobStates == {"none", "running", "done", "error", "cancelled"}

(* next: the batches launched; stopped: launch no more; skipped: a batch   *)
(* whose model call failed is left out.  completed is next - inFlight.     *)
Work == [next : 0 .. Batches, inFlight : 0 .. Concurrency,
         stopped : BOOLEAN, firstError : BOOLEAN, skipped : BOOLEAN]
NoWork == [next |-> 0, inFlight |-> 0,
           stopped |-> FALSE, firstError |-> FALSE, skipped |-> FALSE]
Phases ==
  {"idle", "load", "map", "judge", "list", "result", "audit",
   "caught", "failed list", "failed result", "error audit", "returned", "thrown"}

Results == [run : Runs, status : {"succeeded", "degraded", "failed"}]
ASSUME FileAssumption == NoFile \notin Results

Ended(r) == phase[r] \in {"returned", "thrown"}
Active(r) == phase[r] # "idle" /\ ~Ended(r)
Goto(r, p) == phase' = [phase EXCEPT ![r] = p]

-----------------------------------------------------------------------------
Init ==
  /\ kind \in Kinds
  /\ job = [r \in Runs |-> "none"]
  /\ current = NoRun
  /\ controller = NoRun
  /\ aborted = [r \in Runs |-> FALSE]
  /\ phase = [r \in Runs |-> "idle"]
  /\ work = [r \in Runs |-> NoWork]
  /\ list = NoFile
  /\ result = NoFile
  /\ overlapped = FALSE

-----------------------------------------------------------------------------
(* The registry and the two routes. *)

Begin(r) ==
  /\ Goto(r, "load")
  /\ overlapped' = (overlapped \/ \E q \in Runs : Active(q))
  /\ UNCHANGED <<aborted, work, disk>>

(* A plausible bug, used by a mutant: the running job is not looked up. *)
AlwaysFree == TRUE

(* No job of the pair is running. *)
Free == \A r \in Runs : current = r => job[r] # "running"

StartJob(r) ==
  /\ phase[r] = "idle"
  /\ Free
  /\ job' = [job EXCEPT ![r] = "running"]
  /\ current' = r
  /\ controller' = r
  /\ UNCHANGED kind
  /\ Begin(r)

StartDirect(r) ==
  /\ phase[r] = "idle"
  /\ Begin(r)
  /\ UNCHANGED registry

(* cancel(): the abort listener of the map runs at once. *)
Cancel ==
  /\ current # NoRun
  /\ job[current] = "running"
  /\ controller = current
  /\ ~aborted[current]
  /\ aborted' = [aborted EXCEPT ![current] = TRUE]
  /\ work' = [work EXCEPT ![current].stopped = @ \/ phase[current] = "map"]
  /\ UNCHANGED <<registry, phase, disk, overlapped>>

(* The runner's promise settles: the state of the job, then its controller.*)
Settle(r, ending, state) ==
  /\ Goto(r, ending)
  /\ IF job[r] = "running"
     THEN /\ job' = [job EXCEPT ![r] = IF aborted[r] THEN "cancelled" ELSE state]
          /\ controller' = NoRun
     ELSE UNCHANGED <<job, controller>>
  /\ UNCHANGED <<kind, current, aborted, work, disk, overlapped>>

Returns(r) == Settle(r, "returned", "done")
Throws(r) == Settle(r, "thrown", "error")

-----------------------------------------------------------------------------
(* mapWithConcurrency *)

Least(a, b) == IF a <= b THEN a ELSE b

Launch(w, n) ==
  IF w.stopped THEN w ELSE [w EXCEPT !.next = @ + n, !.inFlight = @ + n]

(* Plausible bugs, used by mutants: the last batch is never launched; one  *)
(* call more than the concurrency is launched.                             *)
LaunchMoreButLast(w) == Launch(w, Least(Concurrency - w.inFlight, Batches - 1 - w.next))
LaunchOneMore(w) == Launch(w, Least(Concurrency + 1 - w.inFlight, Batches - w.next))

(* launchMore: as many batches as the concurrency has room for.            *)
LaunchMore(w) == Launch(w, Least(Concurrency - w.inFlight, Batches - w.next))

(* Plausible bugs, used by mutants: the map rejects without waiting for    *)
(* the calls in flight; an abort does not count once all workers finished. *)
QuietOrFailed(w) == w.inFlight = 0 \/ w.firstError
WholeThoughAborted(r, w) == ~w.firstError /\ w.next = Batches

(* settle() does nothing while a worker is in flight; then it resolves if  *)
(* every batch ended, none with an error, and the signal is not aborted.   *)
Quiet(w) == w.inFlight = 0
Whole(r, w) == ~w.firstError /\ ~aborted[r] /\ w.next = Batches

AfterMap == IF kind = "contradictions" THEN "judge" ELSE "list"

SettleMap(r, w) ==
  IF ~Quiet(w) THEN "map"
  ELSE IF Whole(r, w) THEN AfterMap
  ELSE IF w.firstError \/ aborted[r] THEN "caught"
  ELSE "map"

MapBegins(r) ==
  /\ phase[r] = "load"
  /\ ~aborted[r]
  /\ work' = [work EXCEPT ![r] = LaunchMore(@)]
  /\ Goto(r, "map")
  /\ UNCHANGED <<registry, aborted, disk, overlapped>>

(* The signal is aborted before anything is launched. *)
MapRefused(r) ==
  /\ phase[r] = "load"
  /\ aborted[r]
  /\ Goto(r, "caught")
  /\ UNCHANGED <<registry, aborted, work, disk, overlapped>>

(* A worker ends: its elements, a model call that failed and is skipped    *)
(* (not once aborted), or an error (no authorization, or the abort).       *)
(* Nothing is launched once a worker has failed or the signal is aborted.  *)
WorkerEnds(r, w) ==
  /\ phase[r] = "map"
  /\ w.inFlight > 0
  /\ LET after == LaunchMore([w EXCEPT !.inFlight = @ - 1])
     IN  work' = [work EXCEPT ![r] = after] /\ Goto(r, SettleMap(r, after))
  /\ UNCHANGED <<registry, aborted, disk, overlapped>>

WorkerSucceeds(r) == WorkerEnds(r, work[r])
WorkerSkips(r) == ~aborted[r] /\ WorkerEnds(r, [work[r] EXCEPT !.skipped = TRUE])
WorkerFails(r) ==
  WorkerEnds(r, [work[r] EXCEPT !.stopped = TRUE, !.firstError = TRUE])

-----------------------------------------------------------------------------
(* The rest of extract() and detect(). *)

(* A plausible bug, used by a mutant: nothing is written for no chunks. *)
LoadsNothingUnwritten(r) ==
  /\ phase[r] = "load"
  /\ Goto(r, "audit")
  /\ UNCHANGED <<registry, aborted, work, disk, overlapped>>

(* No chunks: an empty result is written, abort or not.                    *)
LoadsNothing(r) ==
  /\ phase[r] = "load"
  /\ Goto(r, "list")
  /\ UNCHANGED <<registry, aborted, work, disk, overlapped>>

(* No manifest: nothing is written.  No readable chunks: a failed result.  *)
LoadFails(r) ==
  /\ phase[r] = "load"
  /\ \E place \in {"error audit", "caught"} : Goto(r, place)
  /\ UNCHANGED <<registry, aborted, work, disk, overlapped>>

JudgeEnds(r) ==
  /\ phase[r] = "judge"
  /\ Goto(r, "list")
  /\ UNCHANGED <<registry, aborted, work, disk, overlapped>>

(* A pair cannot be judged, or the abort is noticed between two pairs.     *)
JudgeFails(r) ==
  /\ phase[r] = "judge"
  /\ Goto(r, "caught")
  /\ UNCHANGED <<registry, aborted, work, disk, overlapped>>

(* A plausible bug, used by a mutant: skipped batches are not counted. *)
StatusOfWhole(r) == "succeeded"

(* makeResult: degraded when a batch failed. *)
StatusOf(r) == IF work[r].skipped THEN "degraded" ELSE "succeeded"

WriteList(r) ==
  /\ phase[r] = "list"
  /\ list' = [run |-> r, status |-> StatusOf(r)]
  /\ Goto(r, IF kind = "contradictions" THEN "result" ELSE "audit")
  /\ UNCHANGED <<registry, aborted, work, result, overlapped>>

WriteResult(r) ==
  /\ phase[r] = "result"
  /\ result' = [run |-> r, status |-> StatusOf(r)]
  /\ Goto(r, "audit")
  /\ UNCHANGED <<registry, aborted, work, list, overlapped>>

Audited(r) == phase[r] = "audit" /\ Returns(r)

(* The append is inside the try: the failure path follows a success.       *)
AuditFails(r) ==
  /\ phase[r] = "audit"
  /\ Goto(r, "caught")
  /\ UNCHANGED <<registry, aborted, work, disk, overlapped>>

(* catch: an aborted run throws at once ... *)
CaughtAbort(r) == phase[r] = "caught" /\ aborted[r] /\ Throws(r)

(* ... another one writes that it failed: contradictions are emptied.      *)
CaughtError(r) ==
  /\ phase[r] = "caught"
  /\ ~aborted[r]
  /\ Goto(r, IF kind = "contradictions" THEN "failed list" ELSE "error audit")
  /\ UNCHANGED <<registry, aborted, work, disk, overlapped>>

Failed(r) == [run |-> r, status |-> "failed"]

(* A plausible bug, used by a mutant: only the list is emptied. *)
WriteFailedListOnly(r) ==
  /\ phase[r] = "failed list"
  /\ list' = Failed(r)
  /\ Goto(r, "error audit")
  /\ UNCHANGED <<registry, aborted, work, result, overlapped>>

WriteFailedList(r) ==
  /\ phase[r] = "failed list"
  /\ list' = Failed(r)
  /\ Goto(r, "failed result")
  /\ UNCHANGED <<registry, aborted, work, result, overlapped>>

WriteFailedResult(r) ==
  /\ phase[r] = "failed result"
  /\ result' = Failed(r)
  /\ Goto(r, "error audit")
  /\ UNCHANGED <<registry, aborted, work, list, overlapped>>

ErrorAudited(r) == phase[r] = "error audit" /\ Throws(r)

-----------------------------------------------------------------------------
RunStep(r) ==
  \/ MapBegins(r) \/ MapRefused(r) \/ WorkerSucceeds(r) \/ WorkerSkips(r) \/ WorkerFails(r)
  \/ LoadsNothing(r) \/ LoadFails(r) \/ JudgeEnds(r) \/ JudgeFails(r)
  \/ WriteList(r) \/ WriteResult(r) \/ Audited(r) \/ AuditFails(r)
  \/ CaughtAbort(r) \/ CaughtError(r)
  \/ WriteFailedList(r) \/ WriteFailedResult(r) \/ ErrorAudited(r)

Next ==
  \/ \E r \in Runs : StartJob(r) \/ StartDirect(r) \/ RunStep(r)
  \/ Cancel

(* Model calls have a timeout and file operations end, so what a run waits *)
(* for happens.                                                            *)
Fairness == \A r \in Runs : WF_vars(RunStep(r))

Spec == Init /\ [][Next]_vars
FairSpec == Spec /\ Fairness

-----------------------------------------------------------------------------
(* The correctness properties. *)

(* Every variable has its type; never more than Concurrency model calls of *)
(* a run are in flight, and none beyond its batches.                       *)
TypeOK ==
  /\ kind \in Kinds
  /\ job \in [Runs -> JobStates]
  /\ current \in Runs \cup {NoRun}
  /\ controller \in Runs \cup {NoRun}
  /\ aborted \in [Runs -> BOOLEAN]
  /\ phase \in [Runs -> Phases]
  /\ work \in [Runs -> Work]
  /\ list \in Results \cup {NoFile}
  /\ result \in Results \cup {NoFile}
  /\ overlapped \in BOOLEAN

(* At most one job of a case and kind runs, and a running job can always   *)
(* be cancelled: the registry still has its controller.                    *)
OneJob ==
  \A r \in Runs : job[r] = "running" => current = r /\ controller = r

(* The contract of mapWithConcurrency: it settles when no worker is in     *)
(* flight any more, so no model call goes out on behalf of a run that has  *)
(* already failed or been answered.                                        *)
SettledIsQuiet ==
  \A r \in Runs : phase[r] # "map" => work[r].inFlight = 0

(* The contract of mapWithConcurrency: an aborted run never resolves, even *)
(* if every worker it launched happened to finish.                         *)
AbortNeverResolves ==
  [][ \A r \in Runs :
        phase[r] = "map" /\ phase'[r] \in {"judge", "list"} => ~aborted[r] ]_vars

(* What the poller and the next reader are told is true: a job is done     *)
(* only if no batch ended in an error and nobody cancelled it, and a       *)
(* result on disk that calls itself succeeded covers every batch that was  *)
(* sent out.                                                               *)
ToldTheTruth ==
  /\ \A r \in Runs :
       job[r] = "done" => ~aborted[r] /\ ~work[r].firstError /\ work[r].next \in {0, Batches}
  /\ result # NoFile /\ result.status = "succeeded" =>
       LET w == work[result.run]
       IN  ~w.firstError /\ ~w.skipped /\ w.next \in {0, Batches}

(* At rest the two files of a detection are of the same run, unless the    *)
(* route that bypasses the registry ran beside another run.                *)
FilesAgree ==
  kind = "contradictions" /\ ~overlapped /\ (\A r \in Runs : ~Active(r)) =>
    list = result

(* A job ends, and a cancelled one is reported cancelled: no batch, failed *)
(* call or abort leaves it running.                                        *)
JobEnds ==
  \A r \in Runs :
    /\ job[r] = "running" ~> job[r] # "running"
    /\ aborted[r] ~> job[r] = "cancelled"

(* What GET gives: elements.json, or getResult(), which reads              *)
(* contradictions.json only where there is no result file.                 *)
Fetched == IF kind = "elements" \/ result = NoFile THEN list ELSE result

(* Whose results these are: those of a job that has not failed, those of   *)
(* the direct route, or none.                                              *)
Author ==
  IF Fetched = NoFile THEN NoRun
  ELSE IF job[Fetched.run] = "none" THEN "direct"
  ELSE IF Fetched.status = "failed" THEN NoRun
  ELSE Fetched.run

(* What GET status gives.                                                  *)
Shown ==
  IF current = NoRun THEN [id |-> NoRun, state |-> "none"]
                     ELSE [id |-> current, state |-> job[current]]

Contract == INSTANCE JobContract WITH
  Pairs <- Kinds,
  Ids <- Runs,
  Nobody <- NoRun,
  Direct <- "direct",
  told <- [k \in Kinds |-> IF k = kind THEN Shown ELSE [id |-> NoRun, state |-> "none"]],
  given <- {r \in Runs : job[r] # "none"},
  results <- [k \in Kinds |-> IF k = kind THEN Author ELSE NoRun]

(* The registry and the services keep the contract with their callers: one *)
(* job at a time, and whoever is told that it is done finds its results,   *)
(* or those of the direct route, wherever batches, writes and audits fail  *)
(* and whoever cancels.                                                    *)
RefinesContract == Contract!Spec

=============================================================================
