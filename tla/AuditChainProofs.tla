-------------------------- MODULE AuditChainProofs --------------------------
(***************************************************************************)
(* Proofs about the audit chain, for any number of events, cases, faults   *)
(* and crashes.                                                            *)
(*                                                                         *)
(* BreakFollowsFailedMirror is not inductive: it says nothing of the cache *)
(* or of the hash a running call is holding.  IInv adds that the promise   *)
(* chain lets one call run at a time (Serial), and that both hashes are    *)
(* the last line's, unless the event of that line is still on its way to   *)
(* the cache or never got there (CacheFollowsLog, HeldHashFollowsLog).     *)
(***************************************************************************)
EXTENDS AuditChain, TLAPS

LastLine == auditFile[Len(auditFile)]
LastEventAt(places) == auditFile # << >> /\ pc[LastLine.id] \in places

(* The promise chain: a call is in it once, and runs only after the calls  *)
(* in front of it.                                                         *)
Serial ==
  /\ \A i, j \in DOMAIN calls : calls[i] = calls[j] => i = j
  /\ \A j \in DOMAIN calls :
       /\ pc[calls[j]] \notin {"idle", "lost"}
       /\ pc[calls[j]] \in Running => \A i \in 1 .. (j - 1) : pc[calls[i]] \in Settled
  /\ \A e \in Events :
       pc[e] \in Running \cup {"queued"} => \E j \in DOMAIN calls : calls[j] = e

(* Every line hashes itself and links to the line before it, unless that   *)
(* line's call rejected.                                                   *)
LinesLink ==
  \A i \in DOMAIN auditFile :
    /\ auditFile[i].hash = EventHash(auditFile[i].id, auditFile[i].prev)
    /\ \/ auditFile[i].prev = (IF i = 1 THEN Genesis ELSE auditFile[i - 1].hash)
       \/ i > 1 /\ pc[auditFile[i - 1].id] = "rejected"

CacheFollowsLog ==
  cached => \/ lastHash = HashAfter(auditFile)
            \/ LastEventAt({"mirror", "commit", "rejected"})

HeldHashFollowsLog ==
  \A e \in Events :
    pc[e] = "main" => \/ prevHash[e] = HashAfter(auditFile)
                      \/ LastEventAt({"rejected"})

InFlightIsLast ==
  \A e \in Events :
    pc[e] \in {"mirror", "commit"} =>
      auditFile # << >> /\ LastLine = LineFor(e, prevHash[e])

(* An event is in the log from its write on, and not before. *)
LogMatchesPlace ==
  \A e \in Events :
    /\ pc[e] \in {"idle", "queued", "main"} => \A i \in DOMAIN auditFile : auditFile[i].id # e
    /\ pc[e] \in {"mirror", "commit", "resolved"} =>
         \E i \in DOMAIN auditFile : auditFile[i].id = e

IInv ==
  /\ TypeOK
  /\ Serial
  /\ LinesLink
  /\ CacheFollowsLog
  /\ HeldHashFollowsLog
  /\ InFlightIsLast
  /\ LogMatchesPlace

-----------------------------------------------------------------------------
(* Types. *)

(* Extending the chain by one event gives a well-formed line.              *)
LEMMA LineType ==
  ASSUME NEW e \in Events, NEW prev \in Hashes
  PROVE  /\ EventHash(e, prev) \in Hashes
         /\ LineFor(e, prev) \in Line
BY DEF EventHash, LineFor, Line, Hashes

(* The hash of the last line of a log of lines is a hash.                  *)
LEMMA HashAfterType ==
  ASSUME NEW log \in Seq(Line)
  PROVE  HashAfter(log) \in Hashes
<1>1. CASE log = << >>
  BY <1>1 DEF HashAfter, Genesis, Hashes
<1>2. CASE log # << >>
  <2>1. Len(log) \in DOMAIN log
    BY <1>2
  <2>2. log[Len(log)] \in Line
    BY <2>1
  <2>. QED
    BY <1>2, <2>2 DEF HashAfter, Line
<1>. QED
  BY <1>1, <1>2

(* Every variable keeps its type: the file only ever holds well-formed     *)
(* lines and every call is at one of the places of append.                 *)
THEOREM TypeCorrect == Spec => []TypeOK
<1>1. Init => TypeOK
  <2>1. << >> \in Seq(Line) /\ << >> \in Seq(Events)
    OBVIOUS
  <2>2. Init => mirror \in [Cases -> Seq(Events)]
    BY <2>1 DEF Init
  <2>3. Init => prevHash \in [Events -> Hashes] /\ lastHash \in Hashes
    BY <2>1 DEF Init, Genesis, Hashes
  <2>4. Init => pc \in [Events -> Places]
    BY DEF Init, Places
  <2>5. Init => torn \in BOOLEAN /\ cached \in BOOLEAN
    BY Zenon DEF Init
  <2>6. Init => crashes \in Nat /\ cutMirrors \subseteq Cases
    BY SMT DEF Init
  <2>7. Init => auditFile \in Seq(Line) /\ calls \in Seq(Events)
    BY <2>1, Zenon DEF Init
  <2>. QED
    BY <2>2, <2>3, <2>4, <2>5, <2>6, <2>7, Zenon DEF TypeOK
<1>2. TypeOK /\ [Next]_vars => TypeOK'
  <2> SUFFICES ASSUME TypeOK, [Next]_vars
               PROVE  TypeOK'
    OBVIOUS
  <2> USE DEF TypeOK, Files, Cache, Goto, Places, Running, Settled
  <2>1. ASSUME NEW e \in Events, AppendCall(e)
        PROVE  TypeOK'
    BY <2>1 DEF AppendCall
  <2>2. ASSUME NEW e \in Events, StartAppend(e)
        PROVE  TypeOK'
    <3>1. PrevHash \in Hashes
      BY HashAfterType DEF PrevHash
    <3>. QED
      BY <2>2, <3>1 DEF StartAppend
  <2>3. ASSUME NEW e \in Events, StartFails(e)
        PROVE  TypeOK'
    BY <2>3 DEF StartFails
  <2>4. ASSUME NEW e \in Events, WriteMain(e)
        PROVE  TypeOK'
    <3>1. LineFor(e, prevHash[e]) \in Line
      BY LineType
    <3>. QED
      BY <2>4, <3>1 DEF WriteMain
  <2>5. ASSUME NEW e \in Events, WriteMainFails(e)
        PROVE  TypeOK'
    BY <2>5 DEF WriteMainFails
  <2>6. ASSUME NEW e \in Events, WriteMirror(e)
        PROVE  TypeOK'
    <3>1. mirror' \in [Cases -> Seq(Events)]
      BY <2>6 DEF WriteMirror
    <3>. QED
      BY <2>6, <3>1 DEF WriteMirror
  <2>7. ASSUME NEW e \in Events, WriteMirrorFails(e)
        PROVE  TypeOK'
    BY <2>7 DEF WriteMirrorFails
  <2>8. ASSUME NEW e \in Events, Commit(e)
        PROVE  TypeOK'
    <3>1. EventHash(e, prevHash[e]) \in Hashes
      BY LineType
    <3>. QED
      BY <2>8, <3>1 DEF Commit
  <2>9. CASE Crash
    <3>1. calls' \in Seq(Events) /\ lastHash' \in Hashes
      BY <2>9 DEF Crash, Genesis, Hashes
    <3>2. torn' \in BOOLEAN
      BY <2>9 DEF Crash
    <3>3. pc' \in [Events -> Places]
      BY <2>9 DEF Crash
    <3>4. crashes' \in Nat
      BY <2>9 DEF Crash
    <3>5. cutMirrors' \subseteq Cases
      <4>1. MayBeCut \subseteq Cases
        BY CaseAssumption DEF MayBeCut
      <4>. QED
        BY <2>9, <4>1 DEF Crash
    <3>. QED
      BY <2>9, <3>1, <3>2, <3>3, <3>4, <3>5 DEF Crash
  <2>10. CASE UNCHANGED vars
    BY <2>10 DEF vars
  <2>. QED
    BY <2>1, <2>2, <2>3, <2>4, <2>5, <2>6, <2>7, <2>8, <2>9, <2>10 DEF Next, Step
<1>. QED
  BY <1>1, <1>2, PTL DEF Spec

-----------------------------------------------------------------------------
(* The chain. *)

(* The call whose turn it is runs alone.                                   *)
LEMMA TurnRunsAlone ==
  ASSUME TypeOK, Serial, NEW e \in Events, pc[e] \in {"queued"} \cup Running,
         pc[e] = "queued" => Turn(e),
         NEW f \in Events, f # e
  PROVE  pc[f] \notin Running
<1> SUFFICES ASSUME pc[f] \in Running
             PROVE  FALSE
  OBVIOUS
<1>1. PICK j \in DOMAIN calls : calls[j] = e
  BY DEF Serial
<1>2. PICK k \in DOMAIN calls : calls[k] = f
  BY DEF Serial
<1>3. j # k
  BY <1>1, <1>2
<1>4. j \in Nat /\ k \in Nat /\ 1 <= j /\ 1 <= k
  BY DEF TypeOK
<1>5. CASE j < k
  <2>1. pc[calls[j]] \in Settled
    BY <1>2, <1>4, <1>5 DEF Serial
  <2>. QED
    BY <2>1, <1>1 DEF Settled, Running
<1>6. CASE k < j
  <2>1. CASE pc[e] \in Running
    <3>1. pc[calls[k]] \in Settled
      BY <1>1, <1>4, <1>6, <2>1 DEF Serial
    <3>. QED
      BY <3>1, <1>2 DEF Settled, Running
  <2>2. CASE pc[e] = "queued"
    <3>1. PICK m \in DOMAIN calls :
            calls[m] = e /\ \A i \in 1 .. (m - 1) : pc[calls[i]] \in Settled
      BY <2>2 DEF Turn
    <3>2. m = j
      BY <3>1, <1>1 DEF Serial
    <3>3. pc[calls[k]] \in Settled
      BY <3>1, <3>2, <1>4, <1>6
    <3>. QED
      BY <3>3, <1>2 DEF Settled, Running
  <2>. QED
    BY <2>1, <2>2
<1>. QED
  BY <1>3, <1>4, <1>5, <1>6

(* Serial is kept by every step that moves one call of the chain forward.  *)
LEMMA SerialKept ==
  ASSUME TypeOK, Serial, NEW e \in Events,
         pc[e] \in {"queued"} \cup Running,
         pc[e] = "queued" => Turn(e),
         NEW place \in Running \cup Settled,
         Goto(e, place), UNCHANGED calls
  PROVE  Serial'
<1>1. \A f \in Events : f # e => pc'[f] = pc[f]
  BY DEF TypeOK, Goto
<1>2. pc'[e] = place
  BY DEF TypeOK, Goto
<1>3. \A j \in DOMAIN calls : calls[j] \in Events
  BY DEF TypeOK
<1>4. ASSUME NEW j \in DOMAIN calls
      PROVE  pc'[calls[j]] \notin {"idle", "lost"}
  BY <1>1, <1>2, <1>3 DEF Serial, Running, Settled
<1>5. ASSUME NEW j \in DOMAIN calls, pc'[calls[j]] \in Running, NEW i \in 1 .. (j - 1)
      PROVE  pc'[calls[i]] \in Settled
  <2>1. i \in DOMAIN calls /\ i # j
    BY DEF TypeOK
  <2>2. CASE calls[j] = e
    <3>1. pc[calls[i]] \in Settled
      <4>1. CASE pc[e] \in Running
        BY <4>1, <2>2 DEF Serial
      <4>2. CASE pc[e] = "queued"
        <5>1. PICK m \in DOMAIN calls :
                calls[m] = e /\ \A k \in 1 .. (m - 1) : pc[calls[k]] \in Settled
          BY <4>2 DEF Turn
        <5>2. m = j
          BY <5>1, <2>2 DEF Serial
        <5>. QED
          BY <5>1, <5>2
      <4>. QED
        BY <4>1, <4>2
    <3>2. calls[i] # e
      BY <3>1 DEF Settled, Running
    <3>. QED
      BY <3>1, <3>2, <2>1, <1>1, <1>3
  <2>3. CASE calls[j] # e
    <3>1. pc[calls[j]] \in Running
      BY <2>3, <1>1, <1>3, <1>5
    <3>2. pc[calls[j]] \notin Running
      BY <2>3, <1>3, TurnRunsAlone
    <3>. QED
      BY <3>1, <3>2
  <2>. QED
    BY <2>2, <2>3
<1>6. ASSUME NEW f \in Events, pc'[f] \in Running \cup {"queued"}
      PROVE  \E j \in DOMAIN calls : calls[j] = f
  BY <1>1, <1>2, <1>6 DEF Serial
<1>. QED
  BY <1>4, <1>5, <1>6 DEF Serial

(* A line of the file names an event and two hashes.                       *)
LEMMA LineParts ==
  ASSUME TypeOK, NEW i \in DOMAIN auditFile
  PROVE  /\ auditFile[i].id \in Events
         /\ auditFile[i].prev \in Hashes
         /\ auditFile[i].hash \in Hashes
<1>1. auditFile[i] \in Line
  BY DEF TypeOK
<1>. QED
  BY <1>1 DEF Line

(* A step that leaves the file and the cache alone, and moves one call     *)
(* other than from "rejected", keeps every line linked.                    *)
LEMMA LinksKept ==
  ASSUME TypeOK, LinesLink, NEW e \in Events, pc[e] # "rejected",
         NEW place \in Places, Goto(e, place), UNCHANGED auditFile
  PROVE  LinesLink'
<1>1. \A f \in Events : pc[f] = "rejected" => pc'[f] = "rejected"
  BY DEF TypeOK, Goto
<1>2. \A i \in DOMAIN auditFile : auditFile[i].id \in Events
  BY LineParts
<1>3. ASSUME NEW i \in DOMAIN auditFile, i > 1, pc[auditFile[i - 1].id] = "rejected"
      PROVE  pc'[auditFile[i - 1].id] = "rejected"
  <2>1. i - 1 \in DOMAIN auditFile
    BY <1>3 DEF TypeOK
  <2>. QED
    BY <2>1, <1>1, <1>2, <1>3
<1>. QED
  BY <1>3 DEF LinesLink

(* Writing the line of the running call extends the chain.                 *)
LEMMA LinksExtended ==
  ASSUME TypeOK, LinesLink, HeldHashFollowsLog, NEW e \in Events, WriteMain(e)
  PROVE  LinesLink'
<1> DEFINE n == Len(auditFile)
<1>1. auditFile' = Append(auditFile, LineFor(e, prevHash[e]))
  BY DEF WriteMain
<1>2. n \in Nat /\ Len(auditFile') = n + 1 /\ DOMAIN auditFile' = 1 .. (n + 1)
  BY <1>1 DEF TypeOK
<1>3. \A i \in 1 .. n : auditFile'[i] = auditFile[i]
  BY <1>1 DEF TypeOK
<1>4. auditFile'[n + 1] = LineFor(e, prevHash[e])
  BY <1>1 DEF TypeOK
<1>5. \A f \in Events : pc[f] = "rejected" => pc'[f] = "rejected"
  BY DEF WriteMain, Goto, TypeOK
<1>6. \A i \in 1 .. n : auditFile[i].id \in Events
  <2>1. DOMAIN auditFile = 1 .. n
    BY DEF TypeOK
  <2>. QED
    BY <2>1, LineParts
<1>7. ASSUME NEW i \in 1 .. n
      PROVE  /\ auditFile'[i].hash = EventHash(auditFile'[i].id, auditFile'[i].prev)
             /\ \/ auditFile'[i].prev = (IF i = 1 THEN Genesis ELSE auditFile'[i - 1].hash)
                \/ i > 1 /\ pc'[auditFile'[i - 1].id] = "rejected"
  <2>1. i \in DOMAIN auditFile /\ auditFile'[i] = auditFile[i]
    BY <1>2, <1>3 DEF TypeOK
  <2>2. i > 1 => i - 1 \in 1 .. n /\ auditFile'[i - 1] = auditFile[i - 1]
    BY <1>2, <1>3
  <2>3. CASE auditFile[i].prev = (IF i = 1 THEN Genesis ELSE auditFile[i - 1].hash)
    BY <2>1, <2>2, <2>3 DEF LinesLink
  <2>4. CASE i > 1 /\ pc[auditFile[i - 1].id] = "rejected"
    BY <2>1, <2>2, <2>4, <1>5, <1>6 DEF LinesLink
  <2>. QED
    BY <2>1, <2>3, <2>4 DEF LinesLink
<1>8. /\ auditFile'[n + 1].hash = EventHash(auditFile'[n + 1].id, auditFile'[n + 1].prev)
      /\ \/ auditFile'[n + 1].prev = (IF n + 1 = 1 THEN Genesis ELSE auditFile'[n].hash)
         \/ n + 1 > 1 /\ pc'[auditFile'[n].id] = "rejected"
  <2>1. pc[e] = "main"
    BY DEF WriteMain
  <2>2. CASE prevHash[e] = HashAfter(auditFile)
    <3>1. CASE auditFile = << >>
      BY <1>4, <2>2, <3>1 DEF HashAfter, LineFor
    <3>2. CASE auditFile # << >>
      <4>1. n # 0 /\ n + 1 # 1
        BY <1>2, <3>2 DEF TypeOK
      <4>2. auditFile'[n] = auditFile[n]
        BY <1>2, <1>3, <4>1
      <4>. QED
        BY <1>4, <2>2, <3>2, <4>1, <4>2 DEF HashAfter, LineFor
    <3>. QED
      BY <3>1, <3>2
  <2>3. CASE LastEventAt({"rejected"})
    <3>1. n # 0 /\ n \in 1 .. n /\ n + 1 > 1
      BY <1>2, <2>3 DEF LastEventAt, TypeOK
    <3>2. pc'[auditFile'[n].id] = "rejected"
      BY <1>3, <1>5, <1>6, <2>3, <3>1 DEF LastEventAt, LastLine
    <3>. QED
      BY <1>4, <3>1, <3>2 DEF LineFor
  <2>. QED
    BY <2>1, <2>2, <2>3 DEF HeldHashFollowsLog
<1>. QED
  BY <1>2, <1>7, <1>8 DEF LinesLink

(* The part of the invariant that is about the promise chain, for the      *)
(* three kinds of step that touch it.                                      *)
LEMMA SerialInvariant ==
  ASSUME TypeOK, Serial, [Next]_vars
  PROVE  Serial'
<1>1. ASSUME NEW e \in Events, AppendCall(e)
      PROVE  Serial'
  <2> DEFINE n == Len(calls)
  <2>1. /\ n \in Nat /\ DOMAIN calls = 1 .. n
        /\ DOMAIN calls' = 1 .. (n + 1)
        /\ calls'[n + 1] = e
        /\ \A i \in 1 .. n : calls'[i] = calls[i] /\ calls[i] \in Events
    BY <1>1 DEF AppendCall, TypeOK
  <2>2. pc'[e] = "queued" /\ \A f \in Events : f # e => pc'[f] = pc[f]
    BY <1>1 DEF AppendCall, Goto, TypeOK
  <2>3. \A i \in 1 .. n : calls[i] # e
    BY <1>1, <2>1 DEF AppendCall, Serial
  <2>4. \A i, j \in DOMAIN calls' : calls'[i] = calls'[j] => i = j
    <3> SUFFICES ASSUME NEW i \in 1 .. (n + 1), NEW j \in 1 .. (n + 1), calls'[i] = calls'[j]
                 PROVE  i = j
      BY <2>1
    <3>1. (i \in 1 .. n \/ i = n + 1) /\ (j \in 1 .. n \/ j = n + 1)
      BY <2>1
    <3>. QED
      BY <2>1, <2>3, <3>1 DEF Serial
  <2>5. ASSUME NEW j \in DOMAIN calls'
        PROVE  /\ pc'[calls'[j]] \notin {"idle", "lost"}
               /\ pc'[calls'[j]] \in Running =>
                    \A i \in 1 .. (j - 1) : pc'[calls'[i]] \in Settled
    <3>1. CASE j = n + 1
      BY <2>1, <2>2, <3>1 DEF Running
    <3>2. CASE j \in 1 .. n
      <4>1. calls'[j] = calls[j] /\ pc'[calls'[j]] = pc[calls[j]] /\ j \in DOMAIN calls
        BY <2>1, <2>2, <2>3, <3>2
      <4>2. \A i \in 1 .. (j - 1) : i \in 1 .. n /\ pc'[calls'[i]] = pc[calls[i]]
        BY <2>1, <2>2, <2>3, <3>2
      <4>. QED
        BY <4>1, <4>2 DEF Serial
    <3>. QED
      BY <2>1, <3>1, <3>2
  <2>6. ASSUME NEW f \in Events, pc'[f] \in Running \cup {"queued"}
        PROVE  \E j \in DOMAIN calls' : calls'[j] = f
    <3>1. CASE f = e
      <4>1. n + 1 \in DOMAIN calls'
        BY <2>1
      <4>. QED
        BY <2>1, <3>1, <4>1
    <3>2. CASE f # e
      <4>1. PICK j \in DOMAIN calls : calls[j] = f
        BY <2>2, <2>6, <3>2 DEF Serial
      <4>2. j \in DOMAIN calls' /\ calls'[j] = f
        BY <2>1, <4>1
      <4>. QED
        BY <4>2
    <3>. QED
      BY <3>1, <3>2
  <2>. QED
    BY <2>4, <2>5, <2>6 DEF Serial
<1>2. ASSUME NEW e \in Events, Step(e)
      PROVE  Serial'
  <2>1. CASE StartAppend(e)
    BY <2>1, SerialKept DEF StartAppend, Running
  <2>2. CASE StartFails(e)
    BY <2>2, SerialKept DEF StartFails, Settled
  <2>3. CASE WriteMain(e)
    BY <2>3, SerialKept DEF WriteMain, Running
  <2>4. CASE WriteMainFails(e)
    BY <2>4, SerialKept DEF WriteMainFails, Running, Settled
  <2>5. CASE WriteMirror(e)
    BY <2>5, SerialKept DEF WriteMirror, Running
  <2>6. CASE WriteMirrorFails(e)
    BY <2>6, SerialKept DEF WriteMirrorFails, Running, Settled
  <2>7. CASE Commit(e)
    BY <2>7, SerialKept DEF Commit, Running, Settled
  <2>. QED
    BY <1>2, <2>1, <2>2, <2>3, <2>4, <2>5, <2>6, <2>7 DEF Step
<1>3. CASE Crash
  <2>1. calls' = << >> /\ DOMAIN calls' = {}
    BY <1>3 DEF Crash
  <2>2. \A e \in Events : pc'[e] \notin Running \cup {"queued"}
    BY <1>3 DEF Crash, Running, TypeOK
  <2>. QED
    BY <2>1, <2>2 DEF Serial
<1>4. CASE UNCHANGED vars
  BY <1>4 DEF vars, Serial
<1>. QED
  BY <1>1, <1>2, <1>3, <1>4 DEF Next

LogPart == LinesLink /\ CacheFollowsLog /\ HeldHashFollowsLog /\ InFlightIsLast /\ LogMatchesPlace

(* A step that moves call e alone and writes neither the file, nor the     *)
(* cache, nor a held hash, keeps the rest of the invariant, provided it    *)
(* does not take e into "main" or "mirror", and not out of the log.        *)
LEMMA QuietStepKeepsLog ==
  ASSUME TypeOK, LogPart, NEW e \in Events, NEW place \in Places, Goto(e, place),
         UNCHANGED <<auditFile, lastHash, cached, prevHash>>,
         \/ pc[e] \in {"idle", "queued", "main"} /\ place \in {"queued", "rejected"}
         \/ pc[e] = "mirror" /\ place \in {"commit", "rejected"}
  PROVE  LogPart'
<1>1. pc'[e] = place /\ \A f \in Events : f # e => pc'[f] = pc[f]
  BY DEF TypeOK, Goto
<1>2. LinesLink'
  BY LinksKept DEF LogPart
<1>3. auditFile # << >> => LastLine.id \in Events
  <2> SUFFICES ASSUME auditFile # << >>
               PROVE  LastLine.id \in Events
    OBVIOUS
  <2>1. Len(auditFile) \in DOMAIN auditFile
    BY DEF TypeOK
  <2>. QED
    BY <2>1, LineParts DEF LastLine
<1>4. LastLine' = LastLine /\ HashAfter(auditFile)' = HashAfter(auditFile)
  BY DEF LastLine, HashAfter
<1>5. LastEventAt({"rejected"}) => LastEventAt({"rejected"})'
  BY <1>1, <1>3, <1>4 DEF LastEventAt
<1>6. LastEventAt({"mirror", "commit", "rejected"})
        => LastEventAt({"mirror", "commit", "rejected"})'
  BY <1>1, <1>3, <1>4 DEF LastEventAt
<1>7. CacheFollowsLog'
  BY <1>4, <1>6 DEF LogPart, CacheFollowsLog
<1>8. HeldHashFollowsLog'
  BY <1>1, <1>4, <1>5 DEF LogPart, HeldHashFollowsLog
<1>9. InFlightIsLast'
  BY <1>1, <1>4 DEF LogPart, InFlightIsLast, LineFor
<1>10. LogMatchesPlace'
  BY <1>1 DEF LogPart, LogMatchesPlace
<1>. QED
  BY <1>2, <1>7, <1>8, <1>9, <1>10 DEF LogPart

(* A call that starts holds the hash of the last line, unless that line's  *)
(* call rejected.                                                          *)
LEMMA StartKeepsLog ==
  ASSUME TypeOK, Serial, LogPart, NEW e \in Events, StartAppend(e)
  PROVE  LogPart'
<1>1. /\ pc[e] = "queued" /\ Turn(e)
      /\ pc'[e] = "main" /\ (\A f \in Events : f # e => pc'[f] = pc[f])
      /\ prevHash'[e] = PrevHash /\ (\A f \in Events : f # e => prevHash'[f] = prevHash[f])
      /\ UNCHANGED <<auditFile, lastHash, cached>>
      /\ Goto(e, "main")
  BY DEF StartAppend, Goto, Files, Cache, TypeOK
<1>2. LinesLink'
  BY <1>1, LinksKept DEF LogPart, Places, Running
<1>3. \A f \in Events : f # e => pc[f] \notin Running
  BY <1>1, TurnRunsAlone
<1>4. auditFile # << >> => LastLine.id \in Events
  <2> SUFFICES ASSUME auditFile # << >>
               PROVE  LastLine.id \in Events
    OBVIOUS
  <2>1. Len(auditFile) \in DOMAIN auditFile
    BY DEF TypeOK
  <2>. QED
    BY <2>1, LineParts DEF LastLine
<1>5. LastLine' = LastLine /\ HashAfter(auditFile)' = HashAfter(auditFile)
  BY <1>1 DEF LastLine, HashAfter
<1>6. LastEventAt({"mirror", "commit", "rejected"})
        => LastEventAt({"rejected"}) /\ LastEventAt({"rejected"})'
  BY <1>1, <1>3, <1>4, <1>5 DEF LastEventAt, Running
<1>7. PrevHash = HashAfter(auditFile) \/ LastEventAt({"rejected"})'
  BY <1>6 DEF PrevHash, LogPart, CacheFollowsLog
<1>8. HeldHashFollowsLog'
  <2> SUFFICES ASSUME NEW f \in Events, pc'[f] = "main"
               PROVE  \/ prevHash'[f] = HashAfter(auditFile)'
                      \/ LastEventAt({"rejected"})'
    BY DEF HeldHashFollowsLog
  <2>1. f = e
    BY <1>1, <1>3 DEF Running
  <2>. QED
    BY <2>1, <1>1, <1>5, <1>7
<1>9. CacheFollowsLog'
  BY <1>1, <1>5, <1>6 DEF LogPart, CacheFollowsLog, LastEventAt
<1>10. InFlightIsLast'
  <2> SUFFICES ASSUME NEW f \in Events, pc'[f] \in {"mirror", "commit"}
               PROVE  FALSE
    BY DEF InFlightIsLast
  <2>. QED
    BY <1>1, <1>3 DEF Running
<1>11. LogMatchesPlace'
  BY <1>1 DEF LogPart, LogMatchesPlace
<1>. QED
  BY <1>2, <1>8, <1>9, <1>10, <1>11 DEF LogPart

(* The write of the line: from here until it is in the cache, or for good  *)
(* if the mirror fails, the last line is ahead of the cached hash.         *)
LEMMA WriteKeepsLog ==
  ASSUME TypeOK, Serial, LogPart, NEW e \in Events, WriteMain(e)
  PROVE  LogPart'
<1> DEFINE n == Len(auditFile)
<1>1. /\ pc[e] = "main"
      /\ pc'[e] = "mirror" /\ (\A f \in Events : f # e => pc'[f] = pc[f])
      /\ auditFile' = Append(auditFile, LineFor(e, prevHash[e]))
      /\ UNCHANGED <<lastHash, cached, prevHash>>
  BY DEF WriteMain, Goto, Cache, TypeOK
<1>2. /\ n \in Nat /\ DOMAIN auditFile = 1 .. n
      /\ Len(auditFile') = n + 1 /\ DOMAIN auditFile' = 1 .. (n + 1) /\ auditFile' # << >>
      /\ auditFile'[n + 1] = LineFor(e, prevHash[e])
      /\ \A i \in 1 .. n : auditFile'[i] = auditFile[i]
  <2>1. n \in Nat /\ DOMAIN auditFile = 1 .. n
    BY DEF TypeOK
  <2>2. Len(auditFile') = n + 1 /\ DOMAIN auditFile' = 1 .. (n + 1)
    BY <1>1 DEF TypeOK
  <2>3. auditFile'[n + 1] = LineFor(e, prevHash[e])
    BY <1>1 DEF TypeOK
  <2>4. \A i \in 1 .. n : auditFile'[i] = auditFile[i]
    BY <1>1 DEF TypeOK
  <2>5. auditFile' # << >>
    BY <2>1, <2>2
  <2>. QED
    BY <2>1, <2>2, <2>3, <2>4, <2>5
<1>3. LastLine' = LineFor(e, prevHash[e])
  BY <1>2 DEF LastLine
<1>4. LinesLink'
  BY LinksExtended DEF LogPart
<1>5. \A f \in Events : f # e => pc'[f] \notin Running
  BY <1>1, TurnRunsAlone DEF Running
<1>6. CacheFollowsLog'
  <2>1. LastLine.id' = e
    BY <1>3 DEF LineFor
  <2>. QED
    BY <1>1, <1>2, <2>1 DEF CacheFollowsLog, LastEventAt
<1>7. HeldHashFollowsLog'
  BY <1>1, <1>5 DEF HeldHashFollowsLog, Running
<1>8. InFlightIsLast'
  <2> SUFFICES ASSUME NEW f \in Events, pc'[f] \in {"mirror", "commit"}
               PROVE  auditFile' # << >> /\ LastLine' = LineFor(f, prevHash[f])'
    BY DEF InFlightIsLast
  <2>1. f = e
    BY <1>5 DEF Running
  <2>. QED
    BY <2>1, <1>1, <1>2, <1>3 DEF LineFor
<1>9. LogMatchesPlace'
  <2>1. ASSUME NEW f \in Events, pc'[f] \in {"idle", "queued", "main"}
        PROVE  \A i \in DOMAIN auditFile' : auditFile'[i].id # f
    <3>1. f # e /\ pc[f] \in {"idle", "queued", "main"}
      BY <1>1, <2>1
    <3>2. \A i \in 1 .. n : auditFile'[i].id # f
      BY <1>2, <3>1 DEF LogPart, LogMatchesPlace
    <3>3. auditFile'[n + 1].id # f
      BY <1>2, <3>1 DEF LineFor
    <3>. QED
      BY <1>2, <3>2, <3>3
  <2>2. ASSUME NEW f \in Events, pc'[f] \in {"mirror", "commit", "resolved"}
        PROVE  \E i \in DOMAIN auditFile' : auditFile'[i].id = f
    <3>1. CASE f = e
      <4>1. n + 1 \in DOMAIN auditFile' /\ auditFile'[n + 1].id = e
        BY <1>2 DEF LineFor
      <4>. QED
        BY <3>1, <4>1
    <3>2. CASE f # e
      <4>1. PICK i \in DOMAIN auditFile : auditFile[i].id = f
        BY <1>1, <2>2, <3>2 DEF LogPart, LogMatchesPlace
      <4>2. i \in DOMAIN auditFile' /\ auditFile'[i].id = f
        BY <1>2, <4>1
      <4>. QED
        BY <4>2
    <3>. QED
      BY <3>1, <3>2
  <2>. QED
    BY <2>1, <2>2 DEF LogMatchesPlace
<1>. QED
  BY <1>4, <1>6, <1>7, <1>8, <1>9 DEF LogPart

(* The cache moves to the hash of the line the call wrote, which is still  *)
(* the last one.                                                           *)
LEMMA CommitKeepsLog ==
  ASSUME TypeOK, Serial, LogPart, NEW e \in Events, Commit(e)
  PROVE  LogPart'
<1>1. /\ pc[e] = "commit" /\ Goto(e, "resolved")
      /\ pc'[e] = "resolved" /\ (\A f \in Events : f # e => pc'[f] = pc[f])
      /\ lastHash' = EventHash(e, prevHash[e])
      /\ UNCHANGED <<auditFile, prevHash>>
  BY DEF Commit, Goto, Files, TypeOK
<1>2. LinesLink'
  BY <1>1, LinksKept DEF LogPart, Places, Settled
<1>3. auditFile # << >> /\ LastLine = LineFor(e, prevHash[e])
  BY <1>1 DEF LogPart, InFlightIsLast
<1>4. CacheFollowsLog'
  <2>1. HashAfter(auditFile) = EventHash(e, prevHash[e])
    BY <1>3 DEF HashAfter, LastLine, LineFor
  <2>. QED
    BY <1>1, <2>1 DEF CacheFollowsLog, HashAfter
<1>5. \A f \in Events : f # e => pc'[f] \notin Running
  BY <1>1, TurnRunsAlone DEF Running
<1>6. HeldHashFollowsLog' /\ InFlightIsLast'
  BY <1>1, <1>5 DEF HeldHashFollowsLog, InFlightIsLast, Running
<1>7. LogMatchesPlace'
  BY <1>1 DEF LogPart, LogMatchesPlace
<1>. QED
  BY <1>2, <1>4, <1>6, <1>7 DEF LogPart

(* After a crash the next call reads the hash back from the file.          *)
LEMMA CrashKeepsLog ==
  ASSUME TypeOK, LogPart, Crash
  PROVE  LogPart'
<1>1. /\ UNCHANGED <<auditFile, prevHash>>
      /\ cached' = FALSE
      /\ \A e \in Events : pc'[e] = IF pc[e] \in {"queued"} \cup Running THEN "lost" ELSE pc[e]
  BY DEF Crash, TypeOK
<1>2. LinesLink'
  <2>1. \A f \in Events : pc[f] = "rejected" => pc'[f] = "rejected"
    BY <1>1 DEF Running
  <2>2. ASSUME NEW i \in DOMAIN auditFile, i > 1, pc[auditFile[i - 1].id] = "rejected"
        PROVE  pc'[auditFile[i - 1].id] = "rejected"
    <3>1. i - 1 \in DOMAIN auditFile
      BY <2>2 DEF TypeOK
    <3>. QED
      BY <3>1, <2>1, <2>2, LineParts
  <2>. QED
    BY <1>1, <2>2 DEF LogPart, LinesLink
<1>3. CacheFollowsLog'
  BY <1>1 DEF CacheFollowsLog
<1>4. \A e \in Events : pc'[e] \notin Running
  BY <1>1 DEF Running
<1>5. HeldHashFollowsLog' /\ InFlightIsLast'
  BY <1>4 DEF HeldHashFollowsLog, InFlightIsLast, Running
<1>6. LogMatchesPlace'
  BY <1>1 DEF LogPart, LogMatchesPlace, Running
<1>. QED
  BY <1>2, <1>3, <1>5, <1>6 DEF LogPart

(* IInv is inductive.                                                      *)
LEMMA InductiveInvariant == Spec => []IInv
<1>1. Init => Serial /\ LogPart
  BY DEF Init, Serial, LogPart, LinesLink, CacheFollowsLog, HeldHashFollowsLog,
         InFlightIsLast, LogMatchesPlace, Running
<1>2. TypeOK /\ Serial /\ LogPart /\ [Next]_vars => Serial' /\ LogPart'
  <2> SUFFICES ASSUME TypeOK, Serial, LogPart, [Next]_vars
               PROVE  LogPart'
    BY SerialInvariant
  <2>1. ASSUME NEW e \in Events, AppendCall(e)
        PROVE  LogPart'
    BY <2>1, QuietStepKeepsLog DEF AppendCall, Files, Cache, Places
  <2>2. ASSUME NEW e \in Events, StartAppend(e)
        PROVE  LogPart'
    BY <2>2, StartKeepsLog
  <2>3. ASSUME NEW e \in Events, StartFails(e)
        PROVE  LogPart'
    BY <2>3, QuietStepKeepsLog DEF StartFails, Files, Cache, Places, Settled
  <2>4. ASSUME NEW e \in Events, WriteMain(e)
        PROVE  LogPart'
    BY <2>4, WriteKeepsLog
  <2>5. ASSUME NEW e \in Events, WriteMainFails(e)
        PROVE  LogPart'
    BY <2>5, QuietStepKeepsLog DEF WriteMainFails, Files, Cache, Places, Settled
  <2>6. ASSUME NEW e \in Events, WriteMirror(e)
        PROVE  LogPart'
    BY <2>6, QuietStepKeepsLog DEF WriteMirror, Cache, Places, Running
  <2>7. ASSUME NEW e \in Events, WriteMirrorFails(e)
        PROVE  LogPart'
    BY <2>7, QuietStepKeepsLog DEF WriteMirrorFails, Files, Cache, Places, Settled
  <2>8. ASSUME NEW e \in Events, Commit(e)
        PROVE  LogPart'
    BY <2>8, CommitKeepsLog
  <2>9. CASE Crash
    BY <2>9, CrashKeepsLog
  <2>10. CASE UNCHANGED vars
    BY <2>10 DEF vars, LogPart, LinesLink, CacheFollowsLog, HeldHashFollowsLog,
                 InFlightIsLast, LogMatchesPlace, LastEventAt, LastLine, HashAfter, LineFor
  <2>. QED
    BY <2>1, <2>2, <2>3, <2>4, <2>5, <2>6, <2>7, <2>8, <2>9, <2>10 DEF Next, Step
<1>3. TypeOK /\ Serial /\ LogPart => IInv
  BY DEF IInv, LogPart
<1>. QED
  BY <1>1, <1>2, <1>3, TypeCorrect, PTL DEF Spec

-----------------------------------------------------------------------------
(* The results. *)

(* Wherever the chain is broken, the line before the break belongs to a    *)
(* call that rejected: concurrent calls, failed appends to the file and    *)
(* crashes between any two steps of appendNow never break it.              *)
THEOREM ChainCorrect == Spec => []BreakFollowsFailedMirror
<1>1. IInv => BreakFollowsFailedMirror
  BY DEF IInv, LinesLink, BreakFollowsFailedMirror, Broken, LineVerifies
<1>. QED
  BY <1>1, InductiveInvariant, PTL

(* No line of a call that rejected is in the file.                         *)
NoRejectedLine ==
  \A i \in DOMAIN auditFile : pc[auditFile[i].id] # "rejected"

(* When mirror appends cannot fail, verify() accepts every log that the    *)
(* service writes, whatever else fails and whenever the process dies.      *)
THEOREM ChainAlwaysVerifies ==
  ASSUME "mirror" \notin Faults
  PROVE  Spec => []ChainVerifies
<1>1. Init => NoRejectedLine
  BY DEF Init, NoRejectedLine
<1>2. IInv /\ NoRejectedLine /\ [Next]_vars => NoRejectedLine'
  <2> SUFFICES ASSUME IInv, NoRejectedLine, [Next]_vars
               PROVE  NoRejectedLine'
    OBVIOUS
  <2>1. ASSUME NEW e \in Events, NEW place \in Places, Goto(e, place), UNCHANGED auditFile,
               place = "rejected" => pc[e] \in {"queued", "main"}
        PROVE  NoRejectedLine'
    <3>1. ASSUME NEW i \in DOMAIN auditFile
          PROVE  pc'[auditFile[i].id] # "rejected"
      <4>1. auditFile[i].id \in Events /\ pc[auditFile[i].id] # "rejected"
        BY LineParts DEF IInv, NoRejectedLine
      <4>2. CASE auditFile[i].id = e
        <5>1. pc[e] \notin {"queued", "main"}
          BY <4>2 DEF IInv, LogMatchesPlace
        <5>. QED
          BY <2>1, <4>1, <4>2, <5>1 DEF Goto, IInv, TypeOK
      <4>3. CASE auditFile[i].id # e
        BY <2>1, <4>1, <4>3 DEF Goto, IInv, TypeOK
      <4>. QED
        BY <4>2, <4>3
    <3>. QED
      BY <2>1, <3>1 DEF NoRejectedLine
  <2>2. ASSUME NEW e \in Events, AppendCall(e)
        PROVE  NoRejectedLine'
    BY <2>1, <2>2 DEF AppendCall, Files, Places
  <2>3. ASSUME NEW e \in Events, StartAppend(e)
        PROVE  NoRejectedLine'
    BY <2>1, <2>3 DEF StartAppend, Files, Places, Running
  <2>4. ASSUME NEW e \in Events, StartFails(e)
        PROVE  NoRejectedLine'
    BY <2>1, <2>4 DEF StartFails, Files, Places, Settled
  <2>5. ASSUME NEW e \in Events, WriteMain(e)
        PROVE  NoRejectedLine'
    <3>1. /\ auditFile' = Append(auditFile, LineFor(e, prevHash[e]))
          /\ pc'[e] = "mirror" /\ \A f \in Events : f # e => pc'[f] = pc[f]
      BY <2>5 DEF WriteMain, Goto, IInv, TypeOK
    <3>2. ASSUME NEW i \in DOMAIN auditFile'
          PROVE  pc'[auditFile'[i].id] # "rejected"
      <4>1. CASE i \in DOMAIN auditFile
        <5>1. auditFile'[i] = auditFile[i]
          BY <3>1, <4>1 DEF IInv, TypeOK
        <5>2. auditFile[i].id \in Events /\ pc[auditFile[i].id] # "rejected"
          BY <4>1, LineParts DEF IInv, NoRejectedLine
        <5>. QED
          BY <3>1, <5>1, <5>2
      <4>2. CASE i \notin DOMAIN auditFile
        <5>1. auditFile'[i] = LineFor(e, prevHash[e])
          BY <3>1, <4>2 DEF IInv, TypeOK
        <5>. QED
          BY <3>1, <5>1 DEF LineFor
      <4>. QED
        BY <4>1, <4>2
    <3>. QED
      BY <3>2 DEF NoRejectedLine
  <2>6. ASSUME NEW e \in Events, WriteMainFails(e)
        PROVE  NoRejectedLine'
    BY <2>1, <2>6 DEF WriteMainFails, Files, Places, Settled
  <2>7. ASSUME NEW e \in Events, WriteMirror(e)
        PROVE  NoRejectedLine'
    BY <2>1, <2>7 DEF WriteMirror, Places, Running
  <2>8. ASSUME NEW e \in Events
        PROVE  ~WriteMirrorFails(e)
    BY DEF WriteMirrorFails
  <2>9. ASSUME NEW e \in Events, Commit(e)
        PROVE  NoRejectedLine'
    BY <2>1, <2>9 DEF Commit, Files, Places, Settled
  <2>10. CASE Crash
    <3>1. /\ UNCHANGED auditFile
          /\ \A e \in Events : pc[e] # "rejected" => pc'[e] # "rejected"
      BY <2>10 DEF Crash, IInv, TypeOK
    <3>. QED
      BY <3>1, LineParts DEF NoRejectedLine, IInv
  <2>11. CASE UNCHANGED vars
    BY <2>11 DEF vars, NoRejectedLine
  <2>. QED
    BY <2>2, <2>3, <2>4, <2>5, <2>6, <2>7, <2>8, <2>9, <2>10, <2>11 DEF Next, Step
<1>3. IInv /\ NoRejectedLine => ChainVerifies
  <2> SUFFICES ASSUME IInv, NoRejectedLine
               PROVE  Broken(auditFile) = {}
    BY DEF ChainVerifies, Verify
  <2>1. ASSUME NEW i \in DOMAIN auditFile
        PROVE  LineVerifies(auditFile, i)
    <3>1. i > 1 => i - 1 \in DOMAIN auditFile
      BY DEF IInv, TypeOK
    <3>. QED
      BY <3>1 DEF IInv, LinesLink, NoRejectedLine, LineVerifies
  <2>. QED
    BY <2>1 DEF Broken
<1>. QED
  BY <1>1, <1>2, <1>3, InductiveInvariant, PTL DEF Spec

-----------------------------------------------------------------------------
(* The mirrors.  An event is mirrored from that write on, and not before,  *)
(* as long as the log of its case can be read.                             *)
MirrorMatchesPlace ==
  \A c \in Cases :
    /\ \A e \in Mirrored(c) : CaseOf[e] = c /\ pc[e] \in {"commit", "resolved", "lost"}
    /\ \A e \in Events : pc[e] \in {"commit", "resolved"} /\ CaseOf[e] = c /\ CaseReadable(c)
                         => e \in Mirrored(c)

(* A log is cut only by the death of a call whose line is in the file.     *)
CutsFit ==
  \A c \in cutMirrors :
    \E e \in Events : pc[e] = "lost" /\ CaseOf[e] = c /\ \E i \in DOMAIN auditFile : auditFile[i].id = e

MirrorInv == MirrorMatchesPlace /\ \A c \in Cases : Follows(mirror[c], Ids)

(* A step that writes no mirror, and moves nobody past that write or back. *)
LEMMA UnmirroredKeepsPlace ==
  ASSUME TypeOK, MirrorMatchesPlace, mirror' = mirror, cutMirrors \subseteq cutMirrors',
         \A e \in Events :
           /\ pc[e] \in {"commit", "resolved", "lost"} => pc'[e] \in {"commit", "resolved", "lost"}
           /\ pc'[e] \in {"commit", "resolved"} => pc[e] \in {"commit", "resolved"}
  PROVE  MirrorMatchesPlace'
<1>1. \A c \in Cases : Mirrored(c) \subseteq Events /\ Mirrored(c)' = Mirrored(c)
  BY DEF Mirrored, TypeOK
<1>. QED
  BY <1>1 DEF MirrorMatchesPlace, CaseReadable

(* The log grows at its end: what followed it still does.                  *)
LEMMA LongerLogFollowed ==
  ASSUME TypeOK, NEW e \in Events, WriteMain(e), NEW s \in Seq(Events), Follows(s, Ids)
  PROVE  Follows(s, Ids')
<1>1. auditFile' = Append(auditFile, LineFor(e, prevHash[e]))
  BY DEF WriteMain
<1>2. \A k \in DOMAIN auditFile : k \in DOMAIN auditFile' /\ auditFile'[k] = auditFile[k]
  BY <1>1 DEF TypeOK
<1>3. DOMAIN Ids = DOMAIN auditFile /\ DOMAIN Ids' = DOMAIN auditFile'
  BY DEF Ids
<1>4. \A k \in DOMAIN Ids : k \in DOMAIN Ids' /\ Ids'[k] = Ids[k]
  BY <1>2 DEF Ids
<1>. QED
  BY <1>4 DEF Follows

(* The event a call mirrors has the last line of the log, and none of the  *)
(* events mirrored before it is the same.                                  *)
LEMMA LastIsAppended ==
  ASSUME IInv, MirrorInv, NEW e \in Events, WriteMirror(e), NEW c \in Cases, CaseOf[e] = c
  PROVE  Follows(Append(mirror[c], e), Ids)
<1> DEFINE s == mirror[c]
           n == Len(auditFile)
<1>1. s \in Seq(Events) /\ Follows(s, Ids)
  BY DEF IInv, TypeOK, MirrorInv
<1>2. n \in Nat \ {0} /\ DOMAIN Ids = 1 .. n /\ Ids[n] = e
  <2>1. auditFile # << >> /\ LastLine = LineFor(e, prevHash[e]) /\ auditFile \in Seq(Line)
    BY DEF WriteMirror, IInv, InFlightIsLast, TypeOK
  <2>2. n \in Nat \ {0} /\ DOMAIN auditFile = 1 .. n
    BY <2>1
  <2>3. auditFile[n].id = e
    BY <2>1 DEF LastLine, LineFor
  <2>. QED
    BY <2>2, <2>3 DEF Ids
<1>3. ASSUME NEW i \in DOMAIN s
      PROVE  \E k \in DOMAIN Ids : k < n /\ Ids[k] = s[i]
  <2>1. pc[e] = "mirror" /\ s[i] \in Mirrored(c)
    BY <1>3 DEF WriteMirror, Mirrored
  <2>2. s[i] # e
    BY <2>1 DEF MirrorInv, MirrorMatchesPlace
  <2>3. PICK k \in DOMAIN Ids : Ids[k] = s[i]
    BY <1>1, <1>3 DEF Follows
  <2>. QED
    BY <1>2, <2>2, <2>3
<1> DEFINE t == Append(s, e)
<1>4. /\ DOMAIN t = 1 .. (Len(s) + 1) /\ DOMAIN s = 1 .. Len(s) /\ Len(s) \in Nat
      /\ t[Len(s) + 1] = e /\ \A i \in DOMAIN s : t[i] = s[i]
  BY <1>1
<1> HIDE DEF s, t, n
<1>5. ASSUME NEW i \in DOMAIN t
      PROVE  \E k \in DOMAIN Ids : Ids[k] = t[i]
  <2>1. CASE i \in DOMAIN s
    BY <1>3, <1>4, <2>1
  <2>2. CASE i \notin DOMAIN s
    BY <1>2, <1>4, <1>5, <2>2
  <2>. QED
    BY <2>1, <2>2
<1>6. ASSUME NEW i \in DOMAIN t, NEW j \in DOMAIN t, i < j
      PROVE  \E k, l \in DOMAIN Ids : k < l /\ Ids[k] = t[i] /\ Ids[l] = t[j]
  <2>1. i \in DOMAIN s
    BY <1>4, <1>6
  <2>2. CASE j \in DOMAIN s
    BY <1>1, <1>4, <1>6, <2>1, <2>2 DEF Follows, s
  <2>3. CASE j \notin DOMAIN s
    <3>1. t[j] = e
      BY <1>4, <2>3
    <3>. QED
      BY <1>2, <1>3, <1>4, <2>1, <3>1
  <2>. QED
    BY <2>2, <2>3
<1>7. Follows(t, Ids)
  BY <1>5, <1>6 DEF Follows
<1>. QED
  BY <1>7 DEF t, s

LEMMA StepKeepsMirror == IInv /\ MirrorInv /\ [Next]_vars => MirrorInv'
<1> SUFFICES ASSUME IInv, MirrorInv, [Next]_vars
             PROVE  MirrorInv'
  OBVIOUS
<1>0. /\ TypeOK /\ MirrorMatchesPlace /\ pc \in [Events -> Places]
      /\ \A c \in Cases : mirror[c] \in Seq(Events) /\ Follows(mirror[c], Ids)
  BY DEF IInv, TypeOK, MirrorInv
<1>1. ASSUME NEW e \in Events, NEW place \in Places, Goto(e, place), UNCHANGED <<auditFile, mirror, cutMirrors>>,
             \/ pc[e] \notin {"commit", "resolved", "lost"} /\ place \notin {"commit", "resolved"}
             \/ pc[e] = "commit" /\ place = "resolved"
      PROVE  MirrorInv'
  <2>1. MirrorMatchesPlace'
    BY <1>0, <1>1, UnmirroredKeepsPlace DEF Goto
  <2>2. Ids' = Ids
    BY <1>1 DEF Ids
  <2>. QED
    BY <1>0, <1>1, <2>1, <2>2 DEF MirrorInv
<1>2. ASSUME NEW e \in Events,
             AppendCall(e) \/ StartAppend(e) \/ StartFails(e) \/ WriteMainFails(e) \/ WriteMirrorFails(e)
      PROVE  MirrorInv'
  <2>1. \E place \in {"queued", "main", "rejected"} : Goto(e, place)
    BY <1>2 DEF AppendCall, StartAppend, StartFails, WriteMainFails, WriteMirrorFails
  <2>2. UNCHANGED <<auditFile, mirror, cutMirrors>> /\ pc[e] \in {"idle", "queued", "main", "mirror"}
    BY <1>2 DEF AppendCall, StartAppend, StartFails, WriteMainFails, WriteMirrorFails, Files
  <2>. QED
    BY <1>1, <2>1, <2>2 DEF Places, Running, Settled
<1>3. ASSUME NEW e \in Events, WriteMain(e)
      PROVE  MirrorInv'
  <2>1. UNCHANGED <<mirror, cutMirrors>> /\ pc[e] = "main" /\ Goto(e, "mirror")
    BY <1>3 DEF WriteMain
  <2>2. MirrorMatchesPlace'
    BY <1>0, <2>1, UnmirroredKeepsPlace DEF Goto
  <2>3. \A c \in Cases : Follows(mirror[c], Ids')
    BY <1>0, <1>3, LongerLogFollowed
  <2>. QED
    BY <2>1, <2>2, <2>3 DEF MirrorInv
<1>4. ASSUME NEW e \in Events, WriteMirror(e)
      PROVE  MirrorInv'
  <2>1. /\ pc[e] = "mirror" /\ UNCHANGED <<auditFile, cutMirrors>>
        /\ \A f \in Events : pc'[f] = IF f = e THEN "commit" ELSE pc[f]
    BY <1>0, <1>4 DEF WriteMirror, Goto
  <2>2. \A c \in Cases : mirror'[c] = IF CaseOf[e] = c /\ CaseReadable(c)
                                      THEN Append(mirror[c], e) ELSE mirror[c]
    BY <1>4 DEF WriteMirror
  <2>3. \A c \in Cases : Follows(mirror'[c], Ids')
    <3>1. Ids' = Ids
      BY <2>1 DEF Ids
    <3>. QED
      BY <1>0, <1>4, <2>2, <3>1, LastIsAppended
  <2>4. \A c \in Cases : Mirrored(c)' = IF CaseOf[e] = c /\ CaseReadable(c)
                                        THEN Mirrored(c) \cup {e} ELSE Mirrored(c)
    <3>1. ASSUME NEW c \in Cases, CaseOf[e] = c, CaseReadable(c)
          PROVE  Mirrored(c)' = Mirrored(c) \cup {e}
      <4> DEFINE s == mirror[c]
                 t == Append(s, e)
      <4>1. /\ DOMAIN t = 1 .. (Len(s) + 1) /\ DOMAIN s = 1 .. Len(s) /\ Len(s) \in Nat
            /\ t[Len(s) + 1] = e /\ \A i \in DOMAIN s : t[i] = s[i]
        BY <1>0
      <4>2. mirror'[c] = t
        BY <2>2, <3>1
      <4> HIDE DEF s, t
      <4>3. {t[i] : i \in DOMAIN t} = {s[i] : i \in DOMAIN s} \cup {e}
        BY <4>1
      <4>. QED
        BY <4>2, <4>3 DEF Mirrored, s
    <3>. QED
      BY <2>2, <3>1 DEF Mirrored
  <2>5. MirrorMatchesPlace'
    <3>1. \A c \in Cases : Mirrored(c) \subseteq Events
      BY <1>0 DEF Mirrored
    <3>. QED
      BY <1>0, <2>1, <2>4, <3>1 DEF MirrorMatchesPlace, CaseReadable
  <2>. QED
    BY <2>3, <2>5 DEF MirrorInv
<1>5. ASSUME NEW e \in Events, Commit(e)
      PROVE  MirrorInv'
  BY <1>1, <1>5 DEF Commit, Files, Places, Settled
<1>6. CASE Crash
  <2>1. /\ UNCHANGED <<auditFile, mirror>> /\ cutMirrors \subseteq cutMirrors'
        /\ \A e \in Events : pc'[e] = IF pc[e] \in {"queued"} \cup Running THEN "lost" ELSE pc[e]
    BY <1>6 DEF Crash
  <2>2. MirrorMatchesPlace'
    BY <1>0, <2>1, UnmirroredKeepsPlace DEF Running
  <2>3. Ids' = Ids
    BY <2>1 DEF Ids
  <2>. QED
    BY <1>0, <2>1, <2>2, <2>3 DEF MirrorInv
<1>7. CASE UNCHANGED vars
  <2>1. MirrorMatchesPlace' /\ Ids' = Ids /\ mirror' = mirror
    BY <1>0, <1>7 DEF vars, MirrorMatchesPlace, Mirrored, CaseReadable, Ids
  <2>. QED
    BY <1>0, <2>1 DEF MirrorInv
<1>. QED
  BY <1>2, <1>3, <1>4, <1>5, <1>6, <1>7 DEF Next, Step

(* A step that moves nobody from "lost" and tears no log.                  *)
LEMMA UncutKeepsCuts ==
  ASSUME CutsFit, cutMirrors' = cutMirrors,
         \A e \in Events : pc[e] = "lost" => pc'[e] = "lost",
         \A i \in DOMAIN auditFile : i \in DOMAIN auditFile' /\ auditFile'[i] = auditFile[i]
  PROVE  CutsFit'
<1> SUFFICES ASSUME NEW c \in cutMirrors
             PROVE  \E e \in Events : /\ pc'[e] = "lost" /\ CaseOf[e] = c
                                     /\ \E i \in DOMAIN auditFile' : auditFile'[i].id = e
  BY DEF CutsFit
<1>1. PICK e \in Events : pc[e] = "lost" /\ CaseOf[e] = c /\ \E i \in DOMAIN auditFile : auditFile[i].id = e
  BY DEF CutsFit
<1>2. PICK i \in DOMAIN auditFile : auditFile[i].id = e
  BY <1>1
<1>. QED
  BY <1>1, <1>2

LEMMA StepKeepsCuts == IInv /\ CutsFit /\ [Next]_vars => CutsFit'
<1> SUFFICES ASSUME IInv, CutsFit, [Next]_vars
             PROVE  CutsFit'
  OBVIOUS
<1>0. TypeOK /\ LogMatchesPlace /\ pc \in [Events -> Places] /\ auditFile \in Seq(Line)
  BY DEF IInv, TypeOK
<1>1. ASSUME NEW e \in Events, NEW place \in Places, Goto(e, place), pc[e] # "lost",
             UNCHANGED <<auditFile, cutMirrors>>
      PROVE  CutsFit'
  BY <1>0, <1>1, UncutKeepsCuts DEF Goto
<1>2. ASSUME NEW e \in Events, AppendCall(e) \/ Step(e)
      PROVE  CutsFit'
  <2>1. CASE WriteMain(e)
    <3>1. \A i \in DOMAIN auditFile : i \in DOMAIN auditFile' /\ auditFile'[i] = auditFile[i]
      BY <1>0, <2>1 DEF WriteMain
    <3>. QED
      BY <1>0, <2>1, <3>1, UncutKeepsCuts DEF WriteMain, Goto
  <2>2. CASE AppendCall(e) \/ StartAppend(e) \/ StartFails(e) \/ WriteMainFails(e)
    BY <1>1, <2>2 DEF AppendCall, StartAppend, StartFails, WriteMainFails, Files, Places, Running, Settled
  <2>3. CASE WriteMirror(e) \/ WriteMirrorFails(e) \/ Commit(e)
    BY <1>1, <2>3 DEF WriteMirror, WriteMirrorFails, Commit, Files, Places, Running, Settled
  <2>. QED
    BY <1>2, <2>1, <2>2, <2>3 DEF Step
<1>3. CASE Crash
  <2>1. auditFile' = auditFile /\ cutMirrors' \subseteq cutMirrors \cup MayBeCut
    BY <1>3 DEF Crash
  <2>2. \A e \in Events : pc[e] \in {"lost", "mirror"} => pc'[e] = "lost"
    BY <1>0, <1>3 DEF Crash, Running
  <2>3. ASSUME NEW c \in cutMirrors'
        PROVE  \E e \in Events : pc'[e] = "lost" /\ CaseOf[e] = c /\ \E i \in DOMAIN auditFile : auditFile[i].id = e
    <3>1. CASE c \in cutMirrors
      BY <2>2, <3>1 DEF CutsFit
    <3>2. CASE c \in MayBeCut
      <4>1. PICK e \in Events : pc[e] = "mirror" /\ CaseOf[e] = c
        BY <3>2 DEF MayBeCut, MayTear
      <4>. QED
        BY <1>0, <2>2, <4>1 DEF LogMatchesPlace
    <3>. QED
      BY <2>1, <2>3, <3>1, <3>2
  <2>. QED
    BY <2>1, <2>3 DEF CutsFit
<1>4. CASE UNCHANGED vars
  BY <1>4 DEF vars, CutsFit
<1>. QED
  BY <1>2, <1>3, <1>4 DEF Next

(* The log of a case shows events of that case only, in the order of the   *)
(* global log and never one that is not there, and every append of the     *)
(* case that resolved, unless it cannot be read: which only a crash inside *)
(* an append to it brings about, of an event that is in the global log.    *)
THEOREM MirrorsFollow == Spec => []MirrorFollowsLog
<1>1. Init => MirrorInv
  <2> SUFFICES ASSUME Init
               PROVE  MirrorInv
    OBVIOUS
  <2>1. \A c \in Cases : mirror[c] = << >> /\ Mirrored(c) = {}
    BY DEF Init, Mirrored
  <2>2. \A c \in Cases : Follows(mirror[c], Ids)
    BY <2>1 DEF Follows
  <2>3. \A e \in Events : pc[e] = "idle"
    BY DEF Init
  <2>. QED
    BY <2>1, <2>2, <2>3 DEF MirrorInv, MirrorMatchesPlace
<1>2. Init => CutsFit
  BY DEF Init, CutsFit
<1>3. MirrorInv /\ CutsFit /\ TypeOK => MirrorFollowsLog
  <2> SUFFICES ASSUME MirrorInv, CutsFit, TypeOK
               PROVE  MirrorFollowsLog
    OBVIOUS
  <2>1. \A c \in Cases : ~CaseReadable(c) =>
          \E e \in Events : pc[e] = "lost" /\ CaseOf[e] = c /\ \E i \in DOMAIN Ids : Ids[i] = e
    BY DEF CutsFit, CaseReadable, Ids
  <2>. QED
    BY <2>1 DEF MirrorInv, MirrorMatchesPlace, MirrorFollowsLog
<1>. QED
  BY <1>1, <1>2, <1>3, InductiveInvariant, StepKeepsMirror, StepKeepsCuts, TypeCorrect, PTL DEF Spec

-----------------------------------------------------------------------------
(* The chain implements the abstract log. *)

Outcome == [e \in Events |-> OutcomeOf(pc[e])]

(* A call that is running, or whose turn it is, is the next one of the     *)
(* abstract log.                                                           *)
LEMMA TurnIsNext ==
  ASSUME TypeOK, Serial, NEW e \in Events,
         \/ pc[e] \in Running
         \/ pc[e] = "queued" /\ Turn(e)
  PROVE  Log!IsNext(e)
<1>1. PICK j \in DOMAIN calls :
        calls[j] = e /\ \A i \in 1 .. (j - 1) : pc[calls[i]] \in Settled
  <2>1. CASE pc[e] \in Running
    <3>1. PICK j \in DOMAIN calls : calls[j] = e
      BY <2>1 DEF Serial
    <3>. QED
      BY <2>1, <3>1 DEF Serial
  <2>2. CASE pc[e] = "queued" /\ Turn(e)
    BY <2>2 DEF Turn
  <2>. QED
    BY <2>1, <2>2
<1>2. ASSUME NEW i \in 1 .. (j - 1)
      PROVE  Outcome[calls[i]] # "pending"
  <2>1. calls[i] \in Events
    BY DEF TypeOK
  <2>2. pc[calls[i]] \in Settled
    BY <1>1
  <2>. QED
    BY <2>1, <2>2 DEF Outcome, OutcomeOf, Settled, Running
<1>. QED
  BY <1>1, <1>2 DEF Log!IsNext, Outcome

(* What moving one call does to the abstract outcome.                      *)
LEMMA OutcomeMoves ==
  ASSUME TypeOK, NEW e \in Events, NEW place \in Places, Goto(e, place)
  PROVE  /\ Outcome' = [Outcome EXCEPT ![e] = OutcomeOf(place)]
         /\ Outcome[e] = OutcomeOf(pc[e])
BY DEF TypeOK, Goto, Outcome

(* Every step of the chain is a step of the abstract log, or none: the     *)
(* append to the file records, the move of the cache accepts, a failure    *)
(* refuses.  So the callers may rely on AuditLog.                          *)
THEOREM ImplementsLog == Spec => RefinesLog
<1>1. Init => Log!Init
  <2> SUFFICES ASSUME Init
               PROVE  Log!Init
    OBVIOUS
  <2>1. Ids = << >>
    BY DEF Init, Ids
  <2>2. Outcome = [e \in Events |-> "none"]
    <3>1. OutcomeOf("idle") = "none"
      BY DEF OutcomeOf, Running
    <3>2. \A e \in Events : pc[e] = "idle"
      BY DEF Init
    <3>. QED
      BY <3>1, <3>2, Zenon DEF Outcome
  <2>. QED
    BY <2>1, <2>2 DEF Init, Log!Init, Outcome
<1>2. IInv /\ [Next]_vars => [Log!Next]_(Log!vars)
  <2> SUFFICES ASSUME IInv, [Next]_vars
               PROVE  [Log!Next]_(Log!vars)
    OBVIOUS
  <2>0. TypeOK /\ Serial
    BY DEF IInv
  <2> DEFINE Stutter == UNCHANGED <<Ids, calls, Outcome>>
  <2>s. Stutter => UNCHANGED Log!vars
    BY DEF Log!vars, Outcome
  <2>1. ASSUME NEW e \in Events, AppendCall(e)
        PROVE  Log!Call(e)
    <3>1. Outcome[e] = "none" /\ Outcome' = [Outcome EXCEPT ![e] = "pending"]
      BY <2>0, <2>1, OutcomeMoves DEF AppendCall, OutcomeOf, Places, Running
    <3>2. Ids' = Ids
      BY <2>1 DEF AppendCall, Files, Ids
    <3>. QED
      BY <2>1, <3>1, <3>2 DEF AppendCall, Log!Call, Outcome
  <2>2. ASSUME NEW e \in Events, NEW place \in Running,
               pc[e] \in {"queued"} \cup Running, Goto(e, place), UNCHANGED <<auditFile, calls>>
        PROVE  Stutter
    <3>1. Outcome' = [Outcome EXCEPT ![e] = "pending"] /\ Outcome[e] = "pending"
      BY <2>0, <2>2, OutcomeMoves DEF OutcomeOf, Places, Running
    <3>2. Outcome' = Outcome
      BY <3>1 DEF Outcome
    <3>. QED
      BY <2>2, <3>2 DEF Ids
  <2>3. ASSUME NEW e \in Events, Goto(e, "rejected"), UNCHANGED <<auditFile, calls>>,
               pc[e] \in Running \/ (pc[e] = "queued" /\ Turn(e))
        PROVE  Log!Refuse(e)
    <3>1. Outcome[e] = "pending" /\ Outcome' = [Outcome EXCEPT ![e] = "error"]
      BY <2>0, <2>3, OutcomeMoves DEF OutcomeOf, Places, Running, Settled
    <3>2. Log!IsNext(e)
      BY <2>0, <2>3, TurnIsNext
    <3>. QED
      BY <2>3, <3>1, <3>2 DEF Log!Refuse, Outcome, Ids
  <2>4. ASSUME NEW e \in Events, WriteMain(e)
        PROVE  Log!Record(e)
    <3>1. pc[e] \in Running /\ Outcome[e] = "pending"
      BY <2>4 DEF WriteMain, Outcome, OutcomeOf, Running
    <3>2. Outcome' = Outcome
      <4>1. Outcome' = [Outcome EXCEPT ![e] = "pending"]
        BY <2>0, <2>4, OutcomeMoves DEF WriteMain, OutcomeOf, Places, Running
      <4>. QED
        BY <3>1, <4>1 DEF Outcome
    <3>3. Ids' = Append(Ids, e)
      <4>1. auditFile' = Append(auditFile, LineFor(e, prevHash[e]))
        BY <2>4 DEF WriteMain
      <4>2. /\ DOMAIN Ids = 1 .. Len(auditFile)
            /\ DOMAIN Ids' = 1 .. (Len(auditFile) + 1)
            /\ Ids'[Len(auditFile) + 1] = e
            /\ \A i \in 1 .. Len(auditFile) : Ids'[i] = Ids[i]
        BY <2>0, <4>1 DEF TypeOK, Ids, LineFor
      <4>3. Ids \in Seq(Events) /\ Len(Ids) = Len(auditFile)
        <5>1. \A i \in 1 .. Len(auditFile) : Ids[i] \in Events
          BY <2>0, LineParts DEF Ids, TypeOK
        <5>2. Ids = [i \in 1 .. Len(auditFile) |-> Ids[i]] /\ Len(auditFile) \in Nat
          BY <2>0 DEF Ids, TypeOK
        <5>. QED
          BY <5>1, <5>2
      <4>4. Ids' = [i \in 1 .. (Len(auditFile) + 1) |-> Ids'[i]]
        BY <4>2 DEF Ids
      <4>. QED
        BY <4>2, <4>3, <4>4
    <3>4. ~Log!InLog(e)
      BY <2>4 DEF WriteMain, IInv, LogMatchesPlace, Log!InLog, Ids
    <3>5. Log!IsNext(e)
      BY <2>0, <3>1, TurnIsNext
    <3>. QED
      BY <2>4, <3>1, <3>2, <3>3, <3>4, <3>5 DEF WriteMain, Log!Record, Outcome
  <2>5. ASSUME NEW e \in Events, Commit(e)
        PROVE  Log!Accept(e)
    <3>1. Outcome[e] = "pending" /\ Outcome' = [Outcome EXCEPT ![e] = "ok"]
      BY <2>0, <2>5, OutcomeMoves DEF Commit, OutcomeOf, Places, Running, Settled
    <3>2. Log!InLog(e)
      BY <2>5 DEF Commit, IInv, LogMatchesPlace, Log!InLog, Ids
    <3>. QED
      BY <2>5, <3>1, <3>2 DEF Commit, Files, Log!Accept, Outcome, Ids
  <2>6. CASE Crash
    <3>1. Outcome' = [e \in Events |-> IF Outcome[e] = "pending" THEN "lost" ELSE Outcome[e]]
      <4>1. ASSUME NEW e \in Events
            PROVE  Outcome'[e] = IF Outcome[e] = "pending" THEN "lost" ELSE Outcome[e]
        <5>1. pc'[e] = IF pc[e] = "queued" \/ pc[e] \in Running THEN "lost" ELSE pc[e]
          BY <2>6 DEF Crash
        <5>2. pc[e] \in Places
          BY <2>0 DEF TypeOK
        <5>. QED
          BY <5>1, <5>2 DEF Outcome, OutcomeOf, Places, Running, Settled
      <4>. QED
        BY <4>1 DEF Outcome
    <3>. QED
      BY <2>6, <3>1 DEF Crash, Log!Crash, Log!Next, Outcome, Ids
  <2>7. CASE UNCHANGED vars
    BY <2>7, <2>s DEF vars, Ids, Outcome
  <2>8. ASSUME NEW e \in Events, Step(e)
        PROVE  [Log!Next]_(Log!vars)
    <3>1. CASE StartAppend(e) \/ WriteMirror(e)
      BY <2>2, <2>s, <3>1 DEF StartAppend, WriteMirror, Files, Running
    <3>2. CASE StartFails(e) \/ WriteMainFails(e) \/ WriteMirrorFails(e)
      BY <2>3, <3>2 DEF StartFails, WriteMainFails, WriteMirrorFails, Files, Running, Log!Next
    <3>3. CASE WriteMain(e) \/ Commit(e)
      BY <2>4, <2>5, <3>3 DEF Log!Next
    <3>. QED
      BY <2>8, <3>1, <3>2, <3>3 DEF Step
  <2>. QED
    BY <2>1, <2>6, <2>7, <2>8 DEF Next, Log!Next
<1>. QED
  BY <1>1, <1>2, InductiveInvariant, PTL DEF Spec, RefinesLog, Log!Spec

=============================================================================
