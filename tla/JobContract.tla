---------------------------- MODULE JobContract -----------------------------
(***************************************************************************)
(* What the callers of JobRegistry rely on who start an analysis, poll it  *)
(* and, when they are told that it is done, fetch its results: one job of  *)
(* a pair (case, kind) at a time, which ends once; ids that are not used   *)
(* again; and results that are there when a job is told as done, unless    *)
(* the route that runs the analysis without a job has replaced them.       *)
(***************************************************************************)
CONSTANTS
  Pairs,   \* the (case, kind) pairs
  Ids,     \* the ids of jobs
  Nobody,  \* no job
  Direct   \* the route that knows no jobs

VARIABLES
  told,    \* by pair, the job that status() gives
  given,   \* the ids that were given
  results  \* by pair, whose results a reader finds

vars == <<told, given, results>>

Untold == [id |-> Nobody, state |-> "none"]

Init ==
  /\ told = [p \in Pairs |-> Untold]
  /\ given = {}
  /\ results = [p \in Pairs |-> Nobody]

Running(p) == told[p].state = "running"

Start(p) ==
  /\ ~Running(p)
  /\ \E id \in Ids \ given :
       /\ told' = [told EXCEPT ![p] = [id |-> id, state |-> "running"]]
       /\ given' = given \cup {id}
  /\ UNCHANGED results

(* A running job writes its results, or that it has none.                  *)
Write(p) ==
  /\ Running(p)
  /\ \E by \in {told[p].id, Nobody} : results' = [results EXCEPT ![p] = by]
  /\ UNCHANGED <<told, given>>

End(p) ==
  /\ Running(p)
  /\ \E state \in {"done", "error", "cancelled"}, by \in {results[p], told[p].id} :
       /\ state = "done" => by \in {told[p].id, Direct}
       /\ told' = [told EXCEPT ![p] = [id |-> told[p].id, state |-> state]]
       /\ results' = [results EXCEPT ![p] = by]
  /\ UNCHANGED given

Bypass(p) == results' = [results EXCEPT ![p] = Direct] /\ UNCHANGED <<told, given>>

(* The registry is in memory, the results are on disk.                     *)
Restart == told' = [p \in Pairs |-> Untold] /\ UNCHANGED <<given, results>>

Next == Restart \/ \E p \in Pairs : Start(p) \/ Write(p) \/ End(p) \/ Bypass(p)

Spec == Init /\ [][Next]_vars

=============================================================================
