----------------------------- MODULE AuditChain -----------------------------
(***************************************************************************)
(* The audit hash chain: AuditService of                                   *)
(* src/packages/server/src/audit/audit-service.ts.                         *)
(*                                                                         *)
(* append chains every call behind `tail`, a promise; appendNow takes the  *)
(* previous hash from the cache `lastHash` or from the last line of the    *)
(* file, appends one line to audit/audit.jsonl, appends the same line to   *)
(* cases/<id>/audit.log when the event belongs to a case, and only then    *)
(* moves the cache.  Each await of appendNow is a step of its own here, so *)
(* a write can fail, and the process can crash, between any two of them.   *)
(*                                                                         *)
(* sha256 is collision-free: event_hash = sha256(payload_hash + prev_hash) *)
(* is the sequence of the payloads it commits to, GENESIS the empty one.   *)
(***************************************************************************)
EXTENDS Naturals, Sequences

CONSTANTS
  Events,     \* the append calls, each with the random id of its event
  Cases,      \* the cases that have a mirror log
  CaseOf,     \* the caseId of each call; NoCase for an event of no case
  NoCase,
  Faults,     \* the failures that may happen: subset of FaultKinds
  MaxCrashes  \* bound on the crashes of a behaviour

FaultKinds == {"main", "mirror", "torn"}

ASSUME CaseAssumption == CaseOf \in [Events -> Cases \cup {NoCase}] /\ NoCase \notin Cases
ASSUME FaultAssumption == Faults \subseteq FaultKinds
ASSUME CrashAssumption == MaxCrashes \in Nat

VARIABLES
  auditFile,  \* the lines of audit/audit.jsonl
  torn,       \* the file ends in a line a crash cut short
  mirror,     \* the events of each cases/<id>/audit.log, up to a cut line
  cutMirrors, \* the cases whose log has a line that a crash cut short
  lastHash,   \* the cached hash of the last event; meaningful when `cached`
  cached,     \* lastHash # null
  calls,      \* the promise chain: the calls since the process started
  pc,         \* where each call is
  prevHash,   \* the prevHash a running call has computed
  crashes     \* crashes so far (bounded by MaxCrashes)

vars == <<auditFile, torn, mirror, cutMirrors, lastHash, cached, calls, pc, prevHash, crashes>>

Hashes == Seq(Events)
Genesis == << >>
Line == [id : Events, prev : Hashes, hash : Hashes]

Running == {"main", "mirror", "commit"}
Settled == {"resolved", "rejected"}
Places == {"idle", "queued", "lost"} \cup Running \cup Settled

(* A plausible bug, used by a mutant: the pair is hashed, not the text.    *)
EventHashOfPair(e, prev) == <<prev, e>>

(* event_hash = sha256(payload_hash + prev_hash). *)
EventHash(e, prev) == Append(prev, e)

(* The line appendNow writes. *)
LineFor(e, prev) == [id |-> e, prev |-> prev, hash |-> EventHash(e, prev)]

-----------------------------------------------------------------------------
(* Reading the file back. *)

(* The hash of the last line, GENESIS for an empty log. *)
HashAfter(log) == IF log = << >> THEN Genesis ELSE log[Len(log)].hash

(* readLog throws on a line that is not JSON: readAll, and readCaseEvents  *)
(* of a case.  (A line that lacks only its end counts as cut.)             *)
Readable == ~torn
CaseReadable(c) == c \notin cutMirrors

(* Line i of the log passes the three tests of verify. *)
LineVerifies(log, i) ==
  /\ log[i].prev = (IF i = 1 THEN Genesis ELSE log[i - 1].hash)
  /\ log[i].hash = EventHash(log[i].id, log[i].prev)

Broken(log) == {i \in DOMAIN log : ~LineVerifies(log, i)}

(* verify(): ok, or the first line that does not fit (numbered from 1). *)
Verify(log) ==
  IF Broken(log) = {}
  THEN [ok |-> TRUE, brokenAt |-> 0]
  ELSE [ok |-> FALSE,
        brokenAt |-> CHOOSE i \in Broken(log) : \A j \in Broken(log) : i <= j]

-----------------------------------------------------------------------------
(* Plausible bugs, one line each; the runs' mutants put them in place of   *)
(* the definitions below.                                                  *)

TurnUnqueued(e) == \E j \in DOMAIN calls : calls[j] = e
TurnAfterSuccess(e) ==
  \E j \in DOMAIN calls :
    calls[j] = e /\ \A i \in 1 .. (j - 1) : pc[calls[i]] = "resolved"

-----------------------------------------------------------------------------
Init ==
  /\ auditFile = << >>
  /\ torn = FALSE
  /\ mirror = [c \in Cases |-> << >>]
  /\ cutMirrors = {}
  /\ lastHash = Genesis
  /\ cached = FALSE
  /\ calls = << >>
  /\ pc = [e \in Events |-> "idle"]
  /\ prevHash = [e \in Events |-> Genesis]
  /\ crashes = 0

Files == <<auditFile, torn, mirror, cutMirrors>>
Cache == <<lastHash, cached>>

Goto(e, place) == pc' = [pc EXCEPT ![e] = place]

(* append(): run = tail.then(...), tail = run.catch(...). *)
AppendCall(e) ==
  /\ pc[e] = "idle"
  /\ Goto(e, "queued")
  /\ calls' = Append(calls, e)
  /\ UNCHANGED <<Files, Cache, prevHash, crashes>>

(* The promise in front of e in the chain has settled; a rejection counts, *)
(* because `tail` is the caught promise.                                   *)
Turn(e) ==
  \E j \in DOMAIN calls :
    calls[j] = e /\ \A i \in 1 .. (j - 1) : pc[calls[i]] \in Settled

(* The hash the next line links to: this.lastHash ?? readLastHash(). *)
PrevHash == IF cached THEN lastHash ELSE HashAfter(auditFile)

(* appendNow begins: prevHash and the line are computed. *)
StartAppend(e) ==
  /\ pc[e] = "queued"
  /\ Turn(e)
  /\ cached \/ Readable
  /\ prevHash' = [prevHash EXCEPT ![e] = PrevHash]
  /\ Goto(e, "main")
  /\ UNCHANGED <<Files, Cache, calls, crashes>>

(* readLastHash throws: the call rejects before it has written anything. *)
StartFails(e) ==
  /\ pc[e] = "queued"
  /\ Turn(e)
  /\ ~cached /\ ~Readable
  /\ Goto(e, "rejected")
  /\ UNCHANGED <<Files, Cache, calls, prevHash, crashes>>

WriteMain(e) ==
  /\ pc[e] = "main"
  /\ auditFile' = Append(auditFile, LineFor(e, prevHash[e]))
  /\ Goto(e, "mirror")
  /\ UNCHANGED <<torn, mirror, cutMirrors, Cache, calls, prevHash, crashes>>

(* A plausible bug, used by a mutant: the failed write is swallowed. *)
WriteMainFailsQuietly(e) ==
  /\ pc[e] = "main"
  /\ "main" \in Faults
  /\ Goto(e, "commit")
  /\ UNCHANGED <<Files, Cache, calls, prevHash, crashes>>

(* The append to the file throws: nothing is written, the call rejects. *)
WriteMainFails(e) ==
  /\ pc[e] = "main"
  /\ "main" \in Faults
  /\ Goto(e, "rejected")
  /\ UNCHANGED <<Files, Cache, calls, prevHash, crashes>>

(* Behind a line that was cut short the new one cannot be read: the first  *)
(* is glued to it, and readCaseEvents throws before it gets to the others. *)
WriteMirror(e) ==
  /\ pc[e] = "mirror"
  /\ mirror' = [c \in Cases |-> IF c = CaseOf[e] /\ CaseReadable(c)
                               THEN Append(mirror[c], e)
                               ELSE mirror[c]]
  /\ Goto(e, "commit")
  /\ UNCHANGED <<auditFile, torn, cutMirrors, Cache, calls, prevHash, crashes>>

(* The mirror append throws: the line is in the file, lastHash stays. *)
WriteMirrorFails(e) ==
  /\ pc[e] = "mirror"
  /\ CaseOf[e] # NoCase
  /\ "mirror" \in Faults
  /\ Goto(e, "rejected")
  /\ UNCHANGED <<Files, Cache, calls, prevHash, crashes>>

Commit(e) ==
  /\ pc[e] = "commit"
  /\ lastHash' = EventHash(e, prevHash[e])
  /\ cached' = TRUE
  /\ Goto(e, "resolved")
  /\ UNCHANGED <<Files, calls, prevHash, crashes>>

(* What an append that is under way may leave in its file: part of a line. *)
MayTear(e, place) == "torn" \in Faults /\ pc[e] = place
MayBeCut == {CaseOf[e] : e \in {f \in Events : MayTear(f, "mirror")}} \ {NoCase}

(* The process dies and starts again: the chain of promises and the cache  *)
(* are gone; the append that was under way, to the global log or to the    *)
(* log of a case, may leave part of a line.                                *)
Crash ==
  /\ crashes < MaxCrashes
  /\ crashes' = crashes + 1
  /\ \/ torn' = torn
     \/ torn' = TRUE /\ \E e \in Events : MayTear(e, "main")
  /\ cutMirrors' \in {cutMirrors, cutMirrors \cup MayBeCut}
  /\ calls' = << >>
  /\ cached' = FALSE
  /\ lastHash' = Genesis
  /\ pc' = [e \in Events |->
              IF pc[e] = "queued" \/ pc[e] \in Running THEN "lost" ELSE pc[e]]
  /\ UNCHANGED <<auditFile, mirror, prevHash>>

Step(e) ==
  \/ StartAppend(e) \/ StartFails(e)
  \/ WriteMain(e) \/ WriteMainFails(e)
  \/ WriteMirror(e) \/ WriteMirrorFails(e)
  \/ Commit(e)

Next == (\E e \in Events : AppendCall(e) \/ Step(e)) \/ Crash

(* The event loop runs every continuation whose promise has settled.       *)
Fairness == \A e \in Events : WF_vars(Step(e))

Spec == Init /\ [][Next]_vars
FairSpec == Spec /\ Fairness

-----------------------------------------------------------------------------
(* The correctness properties. *)

(* Every variable has its type: the file holds well-formed lines, hashes   *)
(* are sequences of payloads, every call is at one of the places of        *)
(* append and appendNow.                                                   *)
TypeOK ==
  /\ auditFile \in Seq(Line)
  /\ torn \in BOOLEAN
  /\ mirror \in [Cases -> Seq(Events)]
  /\ cutMirrors \subseteq Cases
  /\ lastHash \in Hashes
  /\ cached \in BOOLEAN
  /\ calls \in Seq(Events)
  /\ pc \in [Events -> Places]
  /\ prevHash \in [Events -> Hashes]
  /\ crashes \in Nat

(* GET /api/audit/verify accepts the chain: what the comment on `tail` and *)
(* the acceptance criteria of the phase-1 plan claim of every log the      *)
(* program wrote.  False once a mirror append has failed.                  *)
ChainVerifies == Verify(auditFile).ok

(* The chain breaks only where a mirror append failed: the line before a   *)
(* break belongs to a call that rejected.  In particular neither           *)
(* concurrent callers, nor a failed append to the file, nor a crash        *)
(* between any two writes of appendNow breaks it.                          *)
BreakFollowsFailedMirror ==
  \A i \in Broken(auditFile) :
    /\ i > 1
    /\ pc[auditFile[i - 1].id] = "rejected"

Ids == [i \in DOMAIN auditFile |-> auditFile[i].id]
Mirrored(c) == {mirror[c][i] : i \in DOMAIN mirror[c]}

(* The entries of s are entries of t, in the order they have there.        *)
Follows(s, t) ==
  /\ \A i \in DOMAIN s : \E k \in DOMAIN t : t[k] = s[i]
  /\ \A i, j \in DOMAIN s : i < j => \E k, l \in DOMAIN t : k < l /\ t[k] = s[i] /\ t[l] = s[j]

(* The log of a case is the global log restricted to some events of that   *)
(* case, in the same order: what readCaseEvents shows is never ahead of    *)
(* the authority.  (An event has one line in the global log, RefinesLog:   *)
(* so it has one here.)  Every append of the case that resolved is in it,  *)
(* unless the log of the case cannot be read any more, and that happens    *)
(* only by a crash inside an append to it: the call was cut off, its event *)
(* is in the global log, and no failed append has this effect.             *)
MirrorFollowsLog ==
  \A c \in Cases :
    /\ Follows(mirror[c], Ids)
    /\ \A e \in Mirrored(c) : CaseOf[e] = c
    /\ \A e \in Events :
         pc[e] = "resolved" /\ CaseOf[e] = c /\ CaseReadable(c) => e \in Mirrored(c)
    /\ ~CaseReadable(c) =>
         \E e \in Events : pc[e] = "lost" /\ CaseOf[e] = c /\ \E i \in DOMAIN Ids : Ids[i] = e

(* The chain implements the append-only log its callers rely on.           *)
OutcomeOf(place) ==
  CASE place = "idle" -> "none"
    [] place = "queued" \/ place \in Running -> "pending"
    [] place = "resolved" -> "ok"
    [] place = "rejected" -> "error"
    [] place = "lost" -> "lost"

Log == INSTANCE AuditLog WITH
         log <- Ids,
         outcome <- [e \in Events |-> OutcomeOf(pc[e])]

RefinesLog == Log!Spec

(* A call settles unless the process dies, whatever happened to the calls  *)
(* before it: one failed append does not block the chain of promises.      *)
EveryCallSettles ==
  \A e \in Events : pc[e] = "queued" ~> pc[e] \in Settled \cup {"lost"}

=============================================================================
