------------------------------ MODULE AuditLog ------------------------------
(***************************************************************************)
(* What AuditService.append promises its callers, without the hash chain,  *)
(* the cached hash or the two files: one log that only grows, to which     *)
(* every call adds at most one entry, in the order of the calls.           *)
(*   - a call that resolved has its entry in the log, for good;            *)
(*   - a call that rejected, or that a crash cut off, may or may not have  *)
(*     left one.                                                           *)
(***************************************************************************)
EXTENDS Naturals, Sequences

CONSTANT Events  \* the appends the callers may make, each with its own id

VARIABLES
  log,     \* the entries, oldest first
  calls,   \* the calls since the process started, in the order they were made
  outcome  \* what each call's caller knows

vars == <<log, calls, outcome>>

Outcomes == {"none", "pending", "ok", "error", "lost"}

InLog(e) == \E i \in DOMAIN log : log[i] = e

(* Every call made before e since the process started is over.             *)
IsNext(e) ==
  \E j \in DOMAIN calls :
    /\ calls[j] = e
    /\ \A i \in 1 .. (j - 1) : outcome[calls[i]] # "pending"

Init ==
  /\ log = << >>
  /\ calls = << >>
  /\ outcome = [e \in Events |-> "none"]

Call(e) ==
  /\ outcome[e] = "none"
  /\ outcome' = [outcome EXCEPT ![e] = "pending"]
  /\ calls' = Append(calls, e)
  /\ UNCHANGED log

Record(e) ==
  /\ outcome[e] = "pending"
  /\ IsNext(e)
  /\ ~InLog(e)
  /\ log' = Append(log, e)
  /\ UNCHANGED <<calls, outcome>>

Accept(e) ==
  /\ outcome[e] = "pending"
  /\ InLog(e)
  /\ outcome' = [outcome EXCEPT ![e] = "ok"]
  /\ UNCHANGED <<log, calls>>

Refuse(e) ==
  /\ outcome[e] = "pending"
  /\ IsNext(e)
  /\ outcome' = [outcome EXCEPT ![e] = "error"]
  /\ UNCHANGED <<log, calls>>

Crash ==
  /\ calls' = << >>
  /\ outcome' = [e \in Events |->
                   IF outcome[e] = "pending" THEN "lost" ELSE outcome[e]]
  /\ UNCHANGED log

Next ==
  \/ \E e \in Events : Call(e) \/ Record(e) \/ Accept(e) \/ Refuse(e)
  \/ Crash

Spec == Init /\ [][Next]_vars

=============================================================================
