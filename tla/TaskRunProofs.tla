--------------------------- MODULE TaskRunProofs ----------------------------
(***************************************************************************)
(* Proofs about the guided task, for any template, any number of requests, *)
(* any changes of the facts and any restarts.                              *)
(*                                                                         *)
(* None of the properties is inductive: what a request writes was decided  *)
(* on a copy, several reads earlier.  IInv says that one request at a time *)
(* is in the queue (Exclusive), so that its copy is still the file         *)
(* (CopyIsFile) when it decides and its change is a legal one of the file  *)
(* when it writes (ChangeFits); and what a checkpoint's two fields may be  *)
(* (CheckpointFields), without which a checkpoint could be passed by a     *)
(* verdict alone.  GInv, on top of it, keeps what a request has read       *)
(* (KnownWasSo) tied to the states the case was in since its turn came.    *)
(***************************************************************************)
EXTENDS TaskRun, TLAPS

Exclusive ==
  \A q, r \in Requests : pc[q] \in QueuePlaces /\ pc[r] \in QueuePlaces => q = r

CopyFits(r) ==
  /\ pc[r] \in {"create", "decide"} \cup ReadPlaces => copy[r] = run
  /\ pc[r] \in {"decide"} \cup ReadPlaces => run \in Runs
  /\ pc[r] # "write" => target[r] = 0

CopyIsFile == \A r \in Requests : CopyFits(r)

(* A checkpoint is marked done exactly when it is confirmed, and is never  *)
(* skipped.                                                                *)
FieldsFit(t) ==
  \A i \in Stages :
    Checkpoint(i) =>
      /\ t.verdict[i] = "done" <=> i \in t.confirmed
      /\ t.verdict[i] # "skipped"

CheckpointFields == run # NoRun => FieldsFit(run)

(* u is the task t with a verdict on stage i, which had none or the same,  *)
(* behind confirmed checkpoints.                                           *)
Decides(t, u, i) ==
  /\ i \in Stages
  /\ u.verdict[i] \in Verdicts
  /\ t.verdict[i] \in {"open", u.verdict[i]}
  /\ u = Decided(t, i, u.verdict[i], t.confirmed \cup (u.confirmed \cap {i}))
  /\ \A j \in 1 .. (i - 1) : Checkpoint(j) => j \in t.confirmed
  /\ FieldsFit(u)

WriteFits(r) ==
  pc[r] = "write" =>
    \/ target[r] = 0 /\ run = NoRun /\ copy[r] = NewRun(r)
    \/ run \in Runs /\ copy[r] \in Runs /\ Decides(run, copy[r], target[r])

ChangeFits == \A r \in Requests : WriteFits(r)

(* What TypeOK says of what a request holds. *)
HoldsFit(r) ==
  /\ pc[r] \in {"decide", "write"} \cup ReadPlaces => copy[r] \in Runs
  /\ pc[r] \in {"decide"} \cup ReadPlaces => known[r] \in Facts

IInv ==
  /\ TypeOK
  /\ Exclusive
  /\ CopyIsFile
  /\ CheckpointFields
  /\ ChangeFits
  /\ NothingLost
  /\ CheckpointsHold

-----------------------------------------------------------------------------
(* What a decision does to the task it was made on. *)

(* A checkpoint that is passed is confirmed.                               *)
LEMMA PassedIsConfirmed ==
  ASSUME NEW t \in Runs, FieldsFit(t), NEW f, NEW i \in Stages,
         Checkpoint(i), Passed(t, i, f)
  PROVE  i \in t.confirmed
BY DEF FieldsFit, Passed, OwnStatus

(* What lies before an unblocked stage is confirmed where it has to be.    *)
LEMMA ReachedBehindCheckpoints ==
  ASSUME NEW t \in Runs, FieldsFit(t), NEW f, NEW i \in Stages, ~Blocked(t, i, f)
  PROVE  \A j \in 1 .. (i - 1) : Checkpoint(j) => j \in t.confirmed
<1> SUFFICES ASSUME NEW j \in 1 .. (i - 1), Checkpoint(j)
             PROVE  j \in t.confirmed
  OBVIOUS
<1>1. j \in Stages
  BY TemplateAssumption DEF Stages
<1>2. Passed(t, j, f)
  BY DEF Blocked
<1>. QED
  BY <1>1, <1>2, PassedIsConfirmed

(* A decision on a stage touches that stage only.                          *)
LEMMA DecidedParts ==
  ASSUME NEW t \in Runs, NEW i \in Stages, NEW v \in Verdicts,
         NEW c \in SUBSET {j \in Stages : Checkpoint(j)}
  PROVE  LET u == Decided(t, i, v, c)
         IN  /\ u \in Runs
             /\ u.verdict[i] = v /\ u.confirmed = c /\ u.by = t.by
             /\ \A j \in Stages : j # i => u.verdict[j] = t.verdict[j]
<1>1. t.verdict \in [Stages -> Verdicts \cup {"open"}] /\ t.by \in Requests
  BY DEF Runs
<1>2. [t.verdict EXCEPT ![i] = v] \in [Stages -> Verdicts \cup {"open"}]
  BY <1>1
<1>. QED
  BY <1>1, <1>2 DEF Decided, Runs

(* A stage that advances had no verdict, and lies behind confirmed         *)
(* checkpoints.                                                            *)
LEMMA AdvanceDecides ==
  ASSUME NEW t \in Runs, FieldsFit(t), NEW f, NEW i \in Stages, NEW v \in Verdicts,
         MayAdvance(t, i, v, f)
  PROVE  LET u == Decided(t, i, v, t.confirmed)
         IN  u \in Runs /\ Decides(t, u, i)
<1> DEFINE u == Decided(t, i, v, t.confirmed)
<1>1. ~Blocked(t, i, f) /\ OwnStatus(t, i, f) = "active"
  BY DEF MayAdvance, StageStatus
<1>2. t.verdict[i] = "open"
  BY <1>1 DEF OwnStatus, FieldsFit, Runs, Verdicts
<1>3. /\ u \in Runs
      /\ u.verdict[i] = v /\ u.confirmed = t.confirmed
      /\ \A j \in Stages : j # i => u.verdict[j] = t.verdict[j]
  BY DecidedParts DEF Runs
<1>4. Checkpoint(i) => v = "failed" /\ i \notin t.confirmed
  BY <1>1, <1>2 DEF MayAdvance, OwnStatus, Verdicts, FieldsFit
<1>5. FieldsFit(u)
  BY <1>3, <1>4 DEF FieldsFit
<1>6. u = Decided(t, i, u.verdict[i], t.confirmed \cup (u.confirmed \cap {i}))
  BY <1>3
<1>7. \A j \in 1 .. (i - 1) : Checkpoint(j) => j \in t.confirmed
  BY <1>1, ReachedBehindCheckpoints
<1> HIDE DEF u
<1>8. Decides(t, u, i)
  BY <1>2, <1>3, <1>5, <1>6, <1>7 DEF Decides
<1>. QED
  BY <1>3, <1>8 DEF u

(* A checkpoint that is confirmed had no verdict or was confirmed before,  *)
(* and lies behind confirmed checkpoints.                                  *)
LEMMA ConfirmDecides ==
  ASSUME NEW t \in Runs, FieldsFit(t), NEW f, NEW i \in Stages, MayConfirm(t, i, f)
  PROVE  LET u == Decided(t, i, "done", t.confirmed \cup {i})
         IN  u \in Runs /\ Decides(t, u, i)
<1> DEFINE u == Decided(t, i, "done", t.confirmed \cup {i})
<1>1. Checkpoint(i) /\ ~Blocked(t, i, f) /\ OwnStatus(t, i, f) \in {"active", "done"}
  BY DEF MayConfirm, StageStatus
<1>2. t.verdict[i] \in {"open", "done"}
  BY <1>1 DEF OwnStatus, FieldsFit, Runs, Verdicts
<1>3. t.confirmed \cup {i} \in SUBSET {j \in Stages : Checkpoint(j)}
  BY <1>1 DEF Runs
<1>4. /\ u \in Runs
      /\ u.verdict[i] = "done" /\ u.confirmed = t.confirmed \cup {i}
      /\ \A j \in Stages : j # i => u.verdict[j] = t.verdict[j]
  BY <1>3, DecidedParts DEF Verdicts
<1>5. FieldsFit(u)
  BY <1>4 DEF FieldsFit
<1>6. u = Decided(t, i, u.verdict[i], t.confirmed \cup (u.confirmed \cap {i}))
  <2>1. t.confirmed \cup (u.confirmed \cap {i}) = t.confirmed \cup {i}
    BY <1>4
  <2>. QED
    BY <1>4, <2>1
<1>7. \A j \in 1 .. (i - 1) : Checkpoint(j) => j \in t.confirmed
  BY <1>1, ReachedBehindCheckpoints
<1> HIDE DEF u
<1>8. Decides(t, u, i)
  BY <1>2, <1>4, <1>5, <1>6, <1>7 DEF Decides, Verdicts
<1>. QED
  BY <1>4, <1>8 DEF u

-----------------------------------------------------------------------------
(* The invariant, action by action. *)

(* A step of one request that leaves the file alone, and enters the queue  *)
(* only at its turn, keeps the invariant if what it holds then fits.       *)
LEMMA StepOfOne ==
  ASSUME IInv, NEW r \in Requests,
         UNCHANGED <<facts, run, accepted>>,
         pc' \in [Requests -> Places],
         copy' \in [Requests -> Runs \cup {NoRun}],
         known' \in [Requests -> Facts \cup {NoRun}],
         target' \in [Requests -> Stages \cup {0}],
         \A q \in Requests \ {r} :
           /\ pc'[q] = pc[q] /\ copy'[q] = copy[q]
           /\ known'[q] = known[q] /\ target'[q] = target[q],
         pc'[r] \in QueuePlaces => pc[r] \in QueuePlaces \/ MyTurn,
         HoldsFit(r)', CopyFits(r)', WriteFits(r)'
  PROVE  IInv'
<1>1. TypeOK'
  BY DEF IInv, TypeOK, HoldsFit
<1>2. Exclusive'
  BY DEF IInv, Exclusive, MyTurn
<1>3. CopyIsFile'
  <2> SUFFICES ASSUME NEW q \in Requests, q # r PROVE CopyFits(q)'
    BY DEF CopyIsFile
  <2>. QED
    BY DEF IInv, CopyIsFile, CopyFits
<1>4. ChangeFits'
  <2> SUFFICES ASSUME NEW q \in Requests, q # r PROVE WriteFits(q)'
    BY DEF ChangeFits
  <2>. QED
    BY DEF IInv, ChangeFits, WriteFits
<1>5. CheckpointFields' /\ NothingLost' /\ CheckpointsHold'
  BY DEF IInv, CheckpointFields, FieldsFit, NothingLost, CheckpointsHold
<1>. QED
  BY <1>1, <1>2, <1>3, <1>4, <1>5 DEF IInv

(* Leaving the queue without a change.                                     *)
LEMMA LeaveKeeps ==
  ASSUME IInv, NEW r \in Requests, NEW place \in Ended \cup {"audit"},
         Leave(r, place), UNCHANGED <<facts, run, accepted>>
  PROVE  IInv'
<1>1. /\ pc' \in [Requests -> Places]
      /\ copy' \in [Requests -> Runs \cup {NoRun}]
      /\ known' \in [Requests -> Facts \cup {NoRun}]
      /\ target' \in [Requests -> Stages \cup {0}]
  BY DEF IInv, TypeOK, Leave, Goto, Places
<1>2. pc'[r] = place /\ place \notin QueuePlaces /\ target'[r] = 0
  BY DEF IInv, TypeOK, Leave, Goto, Ended, QueuePlaces, ReadPlaces
<1>3. \A q \in Requests \ {r} :
        /\ pc'[q] = pc[q] /\ copy'[q] = copy[q]
        /\ known'[q] = known[q] /\ target'[q] = target[q]
  BY DEF IInv, TypeOK, Leave, Goto
<1>4. HoldsFit(r)' /\ CopyFits(r)' /\ WriteFits(r)'
  BY <1>2 DEF HoldsFit, CopyFits, WriteFits, QueuePlaces
<1>. QED
  BY <1>1, <1>2, <1>3, <1>4, StepOfOne

(* A request's turn: its copy is the file.                                 *)
LEMMA EnterKeeps ==
  ASSUME IInv, NEW r \in Requests, Enter(r)
  PROVE  IInv'
<1> DEFINE place == IF r \in Creates THEN "create" ELSE "manifest"
<1>1. place \in {"create", "manifest"} /\ pc' = [pc EXCEPT ![r] = place]
  BY DEF Enter, Goto
<1> HIDE DEF place
<1>2. /\ pc' \in [Requests -> Places]
      /\ copy' \in [Requests -> Runs \cup {NoRun}]
      /\ known' \in [Requests -> Facts \cup {NoRun}]
      /\ target' \in [Requests -> Stages \cup {0}]
  BY <1>1 DEF IInv, TypeOK, Enter, History, Places, QueuePlaces, ReadPlaces
<1>3. \A q \in Requests \ {r} :
        /\ pc'[q] = pc[q] /\ copy'[q] = copy[q]
        /\ known'[q] = known[q] /\ target'[q] = target[q]
  BY <1>1 DEF IInv, TypeOK, Enter
<1>4. pc'[r] = place /\ copy'[r] = run /\ known'[r] = facts
  BY <1>1 DEF IInv, TypeOK, Enter
<1>5. place = "manifest" => run \in Runs
  BY DEF IInv, TypeOK, Enter, Found, place
<1>6. HoldsFit(r)' /\ CopyFits(r)' /\ WriteFits(r)'
  <2>1. target'[r] = 0 /\ run' = run
    BY DEF IInv, CopyIsFile, CopyFits, Enter
  <2>. QED
    BY <1>1, <1>4, <1>5, <2>1 DEF HoldsFit, CopyFits, WriteFits, IInv, TypeOK, ReadPlaces
<1>. QED
  BY <1>2, <1>3, <1>6, StepOfOne DEF Enter

(* A new task in memory: its first write will be legal.                    *)
LEMMA CreateKeeps ==
  ASSUME IInv, NEW r \in Requests, Create(r)
  PROVE  IInv'
<1>1. NewRun(r) \in Runs
  BY DEF NewRun, Runs
<1>2. /\ pc' \in [Requests -> Places]
      /\ copy' \in [Requests -> Runs \cup {NoRun}]
      /\ known' \in [Requests -> Facts \cup {NoRun}]
      /\ target' \in [Requests -> Stages \cup {0}]
  BY <1>1 DEF IInv, TypeOK, Create, Goto, History, Places, QueuePlaces
<1>3. \A q \in Requests \ {r} :
        /\ pc'[q] = pc[q] /\ copy'[q] = copy[q]
        /\ known'[q] = known[q] /\ target'[q] = target[q]
  BY DEF IInv, TypeOK, Create, Goto, History
<1>4. pc'[r] = "write" /\ copy'[r] = NewRun(r)
  BY DEF IInv, TypeOK, Create, Goto
<1>5. run' = NoRun /\ target'[r] = 0 /\ pc[r] \in QueuePlaces
  BY DEF IInv, CopyIsFile, CopyFits, Create, History, QueuePlaces
<1>6. HoldsFit(r)' /\ CopyFits(r)' /\ WriteFits(r)'
  BY <1>1, <1>4, <1>5 DEF HoldsFit, CopyFits, WriteFits, ReadPlaces, NewRun
<1>. QED
  BY <1>2, <1>3, <1>5, <1>6, StepOfOne DEF Create, History

(* Reading facts keeps the copy.                                           *)
LEMMA ReadKeeps ==
  ASSUME IInv, NEW r \in Requests, ReadFacts(r)
  PROVE  IInv'
<1>1. pc' = [pc EXCEPT ![r] = PlaceAfter[pc[r]]]
      /\ PlaceAfter[pc[r]] \in {"decide"} \cup ReadPlaces
  BY DEF ReadFacts, Goto, PlaceAfter, ReadPlaces
<1>2. known'[r] \in Facts /\ known' \in [Requests -> Facts \cup {NoRun}]
  <2>1. known[r] \in Facts /\ facts \in Facts
    BY DEF IInv, TypeOK, ReadFacts
  <2>2. [x \in DOMAIN known[r] |-> IF x \in FactsIn[pc[r]] THEN facts[x] ELSE known[r][x]]
          \in Facts
    BY <2>1 DEF Facts
  <2>. QED
    BY <2>2 DEF IInv, TypeOK, ReadFacts
<1>3. /\ pc' \in [Requests -> Places]
      /\ copy' \in [Requests -> Runs \cup {NoRun}]
      /\ target' \in [Requests -> Stages \cup {0}]
  BY <1>1 DEF IInv, TypeOK, ReadFacts, History, Places, QueuePlaces
<1>4. \A q \in Requests \ {r} :
        /\ pc'[q] = pc[q] /\ copy'[q] = copy[q]
        /\ known'[q] = known[q] /\ target'[q] = target[q]
  BY <1>1 DEF IInv, TypeOK, ReadFacts, History
<1>5. pc[r] \in ReadPlaces /\ pc'[r] \in {"decide"} \cup ReadPlaces /\ pc'[r] # "write"
  BY <1>1 DEF IInv, TypeOK, ReadFacts, ReadPlaces
<1>6. copy'[r] = run /\ run' = run /\ target'[r] = 0 /\ run \in Runs
  BY <1>5 DEF IInv, CopyIsFile, CopyFits, ReadFacts, ReadPlaces, History
<1>7. HoldsFit(r)' /\ CopyFits(r)' /\ WriteFits(r)'
  BY <1>2, <1>5, <1>6 DEF HoldsFit, CopyFits, WriteFits
<1>. QED
  BY <1>2, <1>3, <1>4, <1>5, <1>7, StepOfOne DEF ReadFacts, QueuePlaces, History

(* A decision on a copy that is still the file is a legal change of it.    *)
LEMMA ChangeKeeps ==
  ASSUME IInv, NEW r \in Requests, NEW i \in Stages, NEW u \in Runs,
         pc[r] = "decide", Change(r, i, u), Decides(copy[r], u, i)
  PROVE  IInv'
<1>1. /\ pc' \in [Requests -> Places]
      /\ copy' \in [Requests -> Runs \cup {NoRun}]
      /\ known' \in [Requests -> Facts \cup {NoRun}]
      /\ target' \in [Requests -> Stages \cup {0}]
  BY DEF IInv, TypeOK, Change, Goto, Places, QueuePlaces
<1>2. \A q \in Requests \ {r} :
        /\ pc'[q] = pc[q] /\ copy'[q] = copy[q]
        /\ known'[q] = known[q] /\ target'[q] = target[q]
  BY DEF IInv, TypeOK, Change, Goto
<1>3. pc'[r] = "write" /\ copy'[r] = u /\ target'[r] = i
  BY DEF IInv, TypeOK, Change, Goto
<1>4. copy[r] = run /\ run' = run /\ run \in Runs
  BY DEF IInv, CopyIsFile, CopyFits, Change
<1>5. HoldsFit(r)' /\ CopyFits(r)' /\ WriteFits(r)'
  BY <1>3, <1>4 DEF HoldsFit, CopyFits, WriteFits, ReadPlaces
<1>. QED
  BY <1>1, <1>2, <1>5, StepOfOne DEF Change, QueuePlaces

(* What a request writes is the file with its own change and no other's.   *)
LEMMA WriteMakes ==
  ASSUME IInv, NEW r \in Requests, Write(r)
  PROVE  /\ run' \in Runs /\ run' # NoRun
         /\ accepted' = run'
         /\ FieldsFit(run')
         /\ \/ run = NoRun /\ \A i \in Stages : run'.verdict[i] = "open"
            \/ run \in Runs /\ Decides(run, run', target[r])
<1>1. run' = copy[r] /\ accepted = run
  BY DEF IInv, NothingLost, Write
<1>2. CASE target[r] = 0 /\ run = NoRun /\ copy[r] = NewRun(r)
  <2>1. copy[r] \in Runs
    BY <1>2 DEF NewRun, Runs
  <2>2. accepted' = copy[r]
    BY <1>1, <1>2, TemplateAssumption DEF Write, Stages
  <2>3. FieldsFit(copy[r]) /\ \A i \in Stages : copy[r].verdict[i] = "open"
    BY <1>2 DEF NewRun, FieldsFit
  <2>. QED
    BY <1>1, <1>2, <2>1, <2>2, <2>3, NoRunAssumption
<1>3. CASE run \in Runs /\ copy[r] \in Runs /\ Decides(run, copy[r], target[r])
  <2>1. accepted' = Decided(run, target[r], copy[r].verdict[target[r]],
                            run.confirmed \cup (copy[r].confirmed \cap {target[r]}))
    BY <1>1, <1>3 DEF Write, Decides
  <2>2. accepted' = copy[r]
    BY <1>3, <2>1 DEF Decides
  <2>3. FieldsFit(copy[r])
    BY <1>3 DEF Decides
  <2>. QED
    BY <1>1, <1>3, <2>2, <2>3, NoRunAssumption
<1>. QED
  BY <1>2, <1>3 DEF IInv, ChangeFits, WriteFits, Write

(* A legal change keeps what was stored: other stages, an earlier verdict  *)
(* of the same stage and every confirmation.                               *)
LEMMA DecidesKeeps ==
  ASSUME NEW t \in Runs, NEW u \in Runs, NEW i, Decides(t, u, i)
  PROVE  /\ u.by = t.by
         /\ t.confirmed \subseteq u.confirmed
         /\ \A j \in Stages : j # i => u.verdict[j] = t.verdict[j]
         /\ \A j \in Stages : t.verdict[j] # "open" => u.verdict[j] = t.verdict[j]
<1> DEFINE c == t.confirmed \cup (u.confirmed \cap {i})
<1>1. i \in Stages /\ u.verdict[i] \in Verdicts /\ u = Decided(t, i, u.verdict[i], c)
  BY DEF Decides
<1>2. c \in SUBSET {j \in Stages : Checkpoint(j)}
  BY DEF Runs
<1>3. /\ u.by = t.by /\ u.confirmed = c
      /\ \A j \in Stages : j # i => u.verdict[j] = t.verdict[j]
  <2> HIDE DEF c
  <2>. QED
    BY <1>1, <1>2, DecidedParts
<1>. QED
  BY <1>3 DEF Decides

(* The write, with which the next request may enter the queue.             *)
LEMMA WriteKeeps ==
  ASSUME IInv, NEW r \in Requests, Write(r)
  PROVE  IInv'
<1>1. /\ pc' = [pc EXCEPT ![r] = "audit"]
      /\ copy' = [copy EXCEPT ![r] = NoRun]
      /\ known' = [known EXCEPT ![r] = NoRun]
      /\ target' = [target EXCEPT ![r] = 0]
  BY DEF Write, Leave, Goto
<1>2. pc[r] = "write" /\ \A q \in Requests : pc'[q] \notin QueuePlaces
  BY <1>1 DEF Write, IInv, TypeOK, Exclusive, QueuePlaces, ReadPlaces
<1>3. TypeOK'
  <2>1. pc' \in [Requests -> Places] /\ target' \in [Requests -> Stages \cup {0}]
    BY <1>1 DEF IInv, TypeOK, Places
  <2>2. copy' \in [Requests -> Runs \cup {NoRun}] /\ known' \in [Requests -> Facts \cup {NoRun}]
    BY <1>1 DEF IInv, TypeOK
  <2>3. run' \in Runs /\ facts' \in Facts
    BY WriteMakes DEF IInv, TypeOK, Write
  <2>. QED
    BY <1>2, <2>1, <2>2, <2>3 DEF TypeOK, QueuePlaces
<1>4. Exclusive'
  BY <1>2 DEF Exclusive
<1>5. CopyIsFile' /\ ChangeFits'
  <2>1. \A q \in Requests : pc'[q] # "write" /\ target'[q] = 0
    BY <1>1, <1>2 DEF IInv, TypeOK, CopyIsFile, CopyFits, Exclusive, QueuePlaces
  <2>. QED
    BY <1>2, <2>1 DEF CopyIsFile, CopyFits, ChangeFits, WriteFits, QueuePlaces
<1>6. CheckpointFields' /\ NothingLost'
  BY WriteMakes DEF CheckpointFields, NothingLost, FieldsFit
<1>7. CheckpointsHold'
  <2>1. CASE run = NoRun /\ \A i \in Stages : run'.verdict[i] = "open"
    BY <2>1 DEF CheckpointsHold
  <2>2. CASE run \in Runs /\ Decides(run, run', target[r])
    <3>1. run # NoRun /\ run' \in Runs
      BY <2>2, NoRunAssumption, WriteMakes
    <3> SUFFICES ASSUME NEW i \in Stages, run'.verdict[i] # "open",
                        NEW j \in 1 .. (i - 1), Checkpoint(j)
                 PROVE  j \in run'.confirmed
      BY DEF CheckpointsHold
    <3>2. run.confirmed \subseteq run'.confirmed
      BY <2>2, <3>1, DecidesKeeps
    <3>3. CASE i = target[r]
      BY <2>2, <3>2, <3>3 DEF Decides
    <3>4. CASE i # target[r]
      <4>1. run.verdict[i] # "open"
        BY <2>2, <3>1, <3>4, DecidesKeeps
      <4>. QED
        BY <3>1, <3>2, <4>1 DEF IInv, CheckpointsHold
    <3>. QED
      BY <3>3, <3>4
  <2>. QED
    BY <2>1, <2>2, WriteMakes
<1>. QED
  BY <1>3, <1>4, <1>5, <1>6, <1>7 DEF IInv

(* A change of the facts touches neither the file nor what a request holds.*)
LEMMA FactsChangeKeeps ==
  ASSUME IInv, FactsChange
  PROVE  IInv'
<1>1. facts' \in Facts
  BY DEF FactsChange
<1>2. TypeOK'
  BY <1>1 DEF IInv, TypeOK, FactsChange
<1>. QED
  BY <1>2 DEF IInv, FactsChange, Exclusive, CopyIsFile, CopyFits, CheckpointFields, FieldsFit,
              ChangeFits, WriteFits, NewRun, Decides, Decided, NothingLost, CheckpointsHold

(* A restart empties the queue and leaves the file.                        *)
LEMMA RestartKeeps ==
  ASSUME IInv, Restart
  PROVE  IInv'
<1>1. \A r \in Requests :
        pc'[r] \in Places /\ pc'[r] \notin QueuePlaces
  BY DEF IInv, TypeOK, Restart, Places, Ended, QueuePlaces, ReadPlaces
<1>2. TypeOK'
  <2>1. pc' \in [Requests -> Places]
    BY <1>1 DEF Restart
  <2>. QED
    BY <1>1, <2>1 DEF IInv, TypeOK, Restart, QueuePlaces
<1>3. Exclusive' /\ CopyIsFile' /\ ChangeFits'
  BY <1>1 DEF Exclusive, CopyIsFile, CopyFits, ChangeFits, WriteFits, Restart, QueuePlaces
<1>4. CheckpointFields' /\ NothingLost' /\ CheckpointsHold'
  BY DEF IInv, Restart, CheckpointFields, FieldsFit, NothingLost, CheckpointsHold
<1>. QED
  BY <1>2, <1>3, <1>4 DEF IInv

(* A request outside the queue that only moves on or ends.                 *)
LEMMA MoveKeeps ==
  ASSUME IInv, NEW r \in Requests, NEW place \in Ended,
         pc[r] \in {"idle", "audit"}, Goto(r, place),
         UNCHANGED <<facts, run, copy, known, Counters, History>>
  PROVE  IInv'
<1>1. pc' \in [Requests -> Places] /\ pc'[r] = place /\ place \notin QueuePlaces
  BY DEF IInv, TypeOK, Goto, Places, Ended, QueuePlaces, ReadPlaces
<1>2. \A q \in Requests \ {r} : pc'[q] = pc[q]
  BY DEF IInv, TypeOK, Goto
<1>3. target'[r] = 0
  BY DEF IInv, CopyIsFile, CopyFits, History
<1>4. HoldsFit(r)' /\ CopyFits(r)' /\ WriteFits(r)'
  BY <1>1, <1>3 DEF HoldsFit, CopyFits, WriteFits, QueuePlaces
<1>. QED
  BY <1>1, <1>2, <1>4, StepOfOne DEF IInv, TypeOK, History

(* The invariant holds of every state the service reaches.                 *)
LEMMA InductiveInvariant == Spec => []IInv
<1>1. Init => IInv
  BY FactsAssumption
     DEF Init, IInv, TypeOK, Places, Exclusive, QueuePlaces, ReadPlaces, CopyIsFile, CopyFits,
         CheckpointFields, ChangeFits, WriteFits, NothingLost, CheckpointsHold
<1>2. IInv /\ [Next]_vars => IInv'
  <2> SUFFICES ASSUME IInv, [Next]_vars PROVE IInv'
    OBVIOUS
  <2>1. ASSUME NEW r \in Requests, Step(r) PROVE IInv'
    <3>1. CASE Enter(r)
      BY <3>1, EnterKeeps
    <3>2. CASE NoTask(r)
      BY <3>2, MoveKeeps DEF NoTask, Ended
    <3>3. CASE Create(r)
      BY <3>3, CreateKeeps
    <3>4. CASE AlreadyCreated(r)
      BY <3>4, LeaveKeeps DEF AlreadyCreated, Ended
    <3>5. CASE ReadFacts(r)
      BY <3>5, ReadKeeps
    <3>6. CASE Advance(r) \/ Confirm(r)
      <4>1. pc[r] = "decide" /\ copy[r] \in Runs /\ FieldsFit(copy[r])
        BY <3>6, NoRunAssumption
           DEF Advance, Confirm, IInv, CopyIsFile, CopyFits, CheckpointFields
      <4>2. CASE Advance(r)
        <5>1. PICK i \in Stages, v \in Verdicts :
                /\ MayAdvance(copy[r], i, v, known[r])
                /\ Change(r, i, Decided(copy[r], i, v, copy[r].confirmed))
          BY <4>2 DEF Advance
        <5>. QED
          BY <4>1, <5>1, AdvanceDecides, ChangeKeeps
      <4>3. CASE Confirm(r)
        <5>1. PICK i \in Stages :
                /\ MayConfirm(copy[r], i, known[r])
                /\ Change(r, i, Decided(copy[r], i, "done", copy[r].confirmed \cup {i}))
          BY <4>3 DEF Confirm
        <5>. QED
          BY <4>1, <5>1, ConfirmDecides, ChangeKeeps
      <4>. QED
        BY <3>6, <4>2, <4>3
    <3>7. CASE Refuse(r)
      BY <3>7, LeaveKeeps DEF Refuse, Ended
    <3>8. CASE Fail(r)
      BY <3>8, LeaveKeeps DEF Fail, Ended
    <3>9. CASE Write(r)
      BY <3>9, WriteKeeps
    <3>10. CASE Audit(r)
      BY <3>10, MoveKeeps DEF Audit, Ended
    <3>. QED
      BY <2>1, <3>1, <3>2, <3>3, <3>4, <3>5, <3>6, <3>7, <3>8, <3>9, <3>10
       DEF Step
  <2>2. CASE UNCHANGED vars
    BY <2>2 DEF vars, IInv, TypeOK, Exclusive, CopyIsFile, CopyFits, CheckpointFields, FieldsFit,
                ChangeFits, WriteFits, NewRun, Decides, Decided, NothingLost, CheckpointsHold
  <2>. QED
    BY <2>1, <2>2, FactsChangeKeeps, RestartKeeps DEF Next
<1>. QED
  BY <1>1, <1>2, PTL DEF Spec

-----------------------------------------------------------------------------
(* The theorems. *)

(* Every variable of the task service keeps its type, and a request that   *)
(* decides or writes has a task to decide on.                              *)
THEOREM TypeCorrect == Spec => []TypeOK
<1>1. IInv => TypeOK
  BY DEF IInv
<1>. QED
  BY <1>1, InductiveInvariant, PTL

(* No creation, verdict or confirmation is lost to another request or to a *)
(* restart, however many there are.                                        *)
THEOREM FileIsAccepted == Spec => []NothingLost
<1>1. IInv => NothingLost
  BY DEF IInv
<1>. QED
  BY <1>1, InductiveInvariant, PTL

(* Nobody gets past a checkpoint that was not confirmed, whatever the      *)
(* template, the order of the requests and the changes of the case.        *)
THEOREM CheckpointsAlwaysHold == Spec => []CheckpointsHold
<1>1. IInv => CheckpointsHold
  BY DEF IInv
<1>. QED
  BY <1>1, InductiveInvariant, PTL

(* A verdict and a confirmation, once stored, are never changed or undone, *)
(* and the task they belong to is never replaced.                          *)
THEOREM VerdictsAlwaysStand == Spec => VerdictStands
<1> DEFINE Stands ==
      run # NoRun =>
        /\ run' # NoRun /\ run'.by = run.by
        /\ \A i \in Stages : run.verdict[i] # "open" => run'.verdict[i] = run.verdict[i]
        /\ run.confirmed \subseteq run'.confirmed
<1>1. IInv /\ [Next]_vars => [Stands]_vars
  <2> SUFFICES ASSUME IInv, [Next]_vars, run' # run
               PROVE  Stands
    BY DEF Stands
  <2>1. PICK r \in Requests : Write(r)
    BY DEF Next, Step, Enter, NoTask, Create, AlreadyCreated, ReadFacts, Advance, Confirm,
           Change, Refuse, Fail, Audit, FactsChange, Restart, vars
  <2>2. CASE run = NoRun
    BY <2>2
  <2>3. CASE run \in Runs /\ Decides(run, run', target[r])
    BY <2>1, <2>3, WriteMakes, DecidesKeeps
  <2>. QED
    BY <2>1, <2>2, <2>3, WriteMakes
<1>. QED
  BY <1>1, InductiveInvariant, PTL DEF Spec, VerdictStands
-----------------------------------------------------------------------------
(* What a decision rests on. *)

FactNames == {"materials", "quality", "detection", "report", "elements", "findings"}

(* Each value a request has read was the value at some moment since its    *)
(* turn came; and so were the grounds of what it is about to write.        *)
KnownWasSo ==
  \A r \in Requests :
    pc[r] \in {"decide"} \cup ReadPlaces =>
      /\ seen[r] \subseteq Facts /\ facts \in seen[r]
      /\ \A x \in FactNames : \E f \in seen[r] : f[x] = known[r][x]

(* A stage looks at one fact at most: if every fact k is about was so in   *)
(* one of the states S, what k shows of a stage one of them shows.         *)
LEMMA FactByFact ==
  ASSUME NEW S \in SUBSET Facts, NEW k \in Facts,
         \A x \in FactNames : \E f \in S : f[x] = k[x],
         NEW t, NEW j \in Stages
  PROVE  /\ Passed(t, j, k) => \E f \in S : Passed(t, j, f)
         /\ CheckpointReady(j, k) => \E f \in S : CheckpointReady(j, f)
<1>1. /\ \E f \in S : f.materials = k.materials
      /\ \E f \in S : f.quality = k.quality
      /\ \E f \in S : f.detection = k.detection
      /\ \E f \in S : f.report = k.report
      /\ \E f \in S : f.elements = k.elements
      /\ \E f \in S : f.findings = k.findings
  BY DEF FactNames
<1>2. ASSUME Passed(t, j, k) PROVE \E f \in S : Passed(t, j, f)
  <2>1. CASE Template[j] = "contradiction-detection"
    <3>1. PICK f \in S : f.detection = k.detection
      BY <1>1
    <3>. QED
      BY <1>2, <2>1, <3>1 DEF Passed, OwnStatus, Checkpoint
  <2>2. CASE Template[j] # "contradiction-detection" /\ (Checkpoint(j) \/ ~DerivedDone(j, k))
    <3>1. PICK f \in S : f.detection = k.detection
      BY <1>1
    <3>. QED
      BY <1>2, <2>2, <3>1 DEF Passed, OwnStatus
  <2>3. CASE Template[j] # "contradiction-detection" /\ ~Checkpoint(j) /\ DerivedDone(j, k)
    <3>1. PICK f \in S : DerivedDone(j, f)
      BY <1>1, <2>3 DEF DerivedDone
    <3>. QED
      BY <1>2, <2>3, <3>1 DEF Passed, OwnStatus
  <2>. QED
    BY <2>1, <2>2, <2>3
<1>3. ASSUME CheckpointReady(j, k) PROVE \E f \in S : CheckpointReady(j, f)
  BY <1>1, <1>3 DEF CheckpointReady
<1>. QED
  BY <1>2, <1>3

SeenType == seen \in [Requests -> SUBSET Facts]

(* The grounds of a decision of r, at the moment it is made.               *)
Grounds(t, i, S) ==
  /\ \A j \in 1 .. (i - 1) : \E f \in S : Passed(t, j, f)
  /\ i \in t.confirmed => \E f \in S : CheckpointReady(i, f)

(* What is passed before a stage does not depend on that stage.            *)
LEMMA PassedBefore ==
  ASSUME NEW t \in Runs, NEW i \in Stages, NEW v \in Verdicts,
         NEW c \in SUBSET {j \in Stages : Checkpoint(j)},
         \A j \in Stages : j # i => (j \in c <=> j \in t.confirmed),
         NEW j \in 1 .. (i - 1), NEW f
  PROVE  j \in Stages /\ (Passed(t, j, f) <=> Passed(Decided(t, i, v, c), j, f))
<1>1. j \in Stages /\ j # i
  BY TemplateAssumption DEF Stages
<1>. QED
  BY <1>1, DecidedParts DEF Passed, OwnStatus

(* The grounds of a verdict.                                               *)
LEMMA AdvanceGrounds ==
  ASSUME NEW t \in Runs, FieldsFit(t), NEW i \in Stages, NEW v \in Verdicts,
         NEW S \in SUBSET Facts, NEW k \in Facts,
         \A x \in FactNames : \E f \in S : f[x] = k[x],
         MayAdvance(t, i, v, k)
  PROVE  Grounds(Decided(t, i, v, t.confirmed), i, S)
<1> DEFINE u == Decided(t, i, v, t.confirmed)
<1>1. ~Blocked(t, i, k) /\ OwnStatus(t, i, k) = "active"
  BY DEF MayAdvance, StageStatus
<1>2. t.confirmed \in SUBSET {j \in Stages : Checkpoint(j)}
  BY DEF Runs
<1>3. \A j \in 1 .. (i - 1) : \E f \in S : Passed(u, j, f)
  <2> SUFFICES ASSUME NEW j \in 1 .. (i - 1) PROVE \E f \in S : Passed(u, j, f)
    OBVIOUS
  <2>1. Passed(t, j, k)
    BY <1>1 DEF Blocked
  <2>2. j \in Stages /\ \A f : Passed(t, j, f) <=> Passed(u, j, f)
    BY <1>2, PassedBefore
  <2>. QED
    BY <2>1, <2>2, FactByFact
<1>4. i \notin u.confirmed
  <2>1. i \notin t.confirmed
    BY <1>1, <1>2 DEF OwnStatus
  <2>. QED
    BY <1>2, <2>1, DecidedParts
<1>. QED
  BY <1>3, <1>4 DEF Grounds

(* The grounds of a confirmation.                                          *)
LEMMA ConfirmGrounds ==
  ASSUME NEW t \in Runs, FieldsFit(t), NEW i \in Stages,
         NEW S \in SUBSET Facts, NEW k \in Facts,
         \A x \in FactNames : \E f \in S : f[x] = k[x],
         MayConfirm(t, i, k)
  PROVE  Grounds(Decided(t, i, "done", t.confirmed \cup {i}), i, S)
<1> DEFINE c == t.confirmed \cup {i}
           u == Decided(t, i, "done", c)
<1>1. Checkpoint(i) /\ ~Blocked(t, i, k) /\ CheckpointReady(i, k)
  BY DEF MayConfirm, StageStatus
<1>2. c \in SUBSET {j \in Stages : Checkpoint(j)} /\ "done" \in Verdicts
  BY <1>1 DEF Runs, Verdicts
<1>3. \A j \in 1 .. (i - 1) : \E f \in S : Passed(u, j, f)
  <2> SUFFICES ASSUME NEW j \in 1 .. (i - 1) PROVE \E f \in S : Passed(u, j, f)
    OBVIOUS
  <2>1. Passed(t, j, k)
    BY <1>1 DEF Blocked
  <2>2. j \in Stages /\ \A f : Passed(t, j, f) <=> Passed(u, j, f)
    <3>1. \A m \in Stages : m # i => (m \in c <=> m \in t.confirmed)
      OBVIOUS
    <3> HIDE DEF c
    <3>. QED
      BY <1>2, <3>1, PassedBefore
  <2>. QED
    BY <2>1, <2>2, FactByFact
<1>4. \E f \in S : CheckpointReady(i, f)
  BY <1>1, FactByFact
<1>. QED
  BY <1>3, <1>4 DEF Grounds

(* A step that changes nothing of what the grounds are made of, for the    *)
(* requests that decide or write after it.                                 *)
LEMMA GroundsStay ==
  ASSUME KnownWasSo, GroundsHeld, facts' = facts, SeenType',
         \A r \in Requests :
           /\ pc'[r] \in {"decide"} \cup ReadPlaces =>
                pc[r] \in {"decide"} \cup ReadPlaces /\ seen'[r] = seen[r] /\ known'[r] = known[r]
           /\ pc'[r] = "write" =>
                \/ target'[r] = 0
                \/ /\ pc[r] = "write" /\ seen'[r] = seen[r]
                   /\ copy'[r] = copy[r] /\ target'[r] = target[r]
  PROVE  KnownWasSo' /\ GroundsHeld'
<1>1. KnownWasSo'
  BY DEF KnownWasSo
<1>2. GroundsHeld'
  BY DEF GroundsHeld, Passed, OwnStatus, DerivedDone, CheckpointReady, Checkpoint
<1>. QED
  BY <1>1, <1>2

(* A decision rests on what was so: the step to the write.                 *)
LEMMA DecisionGrounded ==
  ASSUME IInv, KnownWasSo, GroundsHeld, SeenType,
         NEW r \in Requests, NEW i \in Stages, NEW u,
         pc[r] = "decide", Change(r, i, u), Grounds(u, i, seen[r])
  PROVE  SeenType' /\ KnownWasSo' /\ GroundsHeld'
<1>1. /\ pc'[r] = "write" /\ copy'[r] = u /\ target'[r] = i
      /\ UNCHANGED <<facts, known, seen>>
      /\ \A q \in Requests \ {r} :
           pc'[q] = pc[q] /\ copy'[q] = copy[q] /\ target'[q] = target[q]
  BY DEF Change, Goto, IInv, TypeOK
<1>2. SeenType'
  BY <1>1 DEF SeenType
<1>3. KnownWasSo'
  BY <1>1 DEF KnownWasSo, ReadPlaces
<1>4. GroundsHeld'
  <2> SUFFICES ASSUME NEW q \in Requests, pc'[q] = "write", target'[q] # 0
               PROVE  Grounds(copy'[q], target'[q], seen'[q])
    BY DEF GroundsHeld, Grounds, Passed, OwnStatus, DerivedDone, CheckpointReady, Checkpoint
  <2>1. CASE q = r
    BY <1>1, <2>1
  <2>2. CASE q # r
    BY <1>1, <2>2 DEF GroundsHeld, Grounds
  <2>. QED
    BY <2>1, <2>2
<1>. QED
  BY <1>2, <1>3, <1>4

(* Every value a request reads is the value there is.                      *)
LEMMA ReadGrounded ==
  ASSUME IInv, KnownWasSo, GroundsHeld, SeenType, NEW r \in Requests, ReadFacts(r)
  PROVE  SeenType' /\ KnownWasSo' /\ GroundsHeld'
<1>1. /\ pc[r] \in ReadPlaces /\ pc'[r] # "write"
      /\ UNCHANGED <<facts, copy, target, seen>>
      /\ \A q \in Requests \ {r} : pc'[q] = pc[q] /\ known'[q] = known[q]
  BY DEF ReadFacts, Goto, IInv, TypeOK, History, ReadPlaces, PlaceAfter
<1>2. known[r] \in Facts /\ facts \in Facts /\ facts \in seen[r]
  BY <1>1 DEF IInv, TypeOK, KnownWasSo
<1>3. \A x \in FactNames : known'[r][x] \in {facts[x], known[r][x]}
  BY <1>2 DEF ReadFacts, IInv, TypeOK, Facts, FactNames
<1>4. KnownWasSo'
  <2> SUFFICES ASSUME NEW q \in Requests, pc'[q] \in {"decide"} \cup ReadPlaces
               PROVE  /\ seen[q] \subseteq Facts /\ facts \in seen[q]
                      /\ \A x \in FactNames : \E f \in seen[q] : f[x] = known'[q][x]
    BY <1>1 DEF KnownWasSo
  <2>1. CASE q = r
    BY <1>1, <1>2, <1>3, <2>1 DEF KnownWasSo
  <2>2. CASE q # r
    BY <1>1, <2>2 DEF KnownWasSo
  <2>. QED
    BY <2>1, <2>2
<1>5. GroundsHeld'
  BY <1>1 DEF GroundsHeld, Passed, OwnStatus, DerivedDone, CheckpointReady, Checkpoint
<1>. QED
  BY <1>1, <1>4, <1>5 DEF SeenType

(* The turn of a request comes: what it holds is the case as it is.        *)
LEMMA EnterGrounded ==
  ASSUME IInv, KnownWasSo, GroundsHeld, SeenType, NEW r \in Requests, Enter(r)
  PROVE  SeenType' /\ KnownWasSo' /\ GroundsHeld'
<1>1. /\ pc'[r] # "write" /\ known'[r] = facts /\ seen'[r] = {facts}
      /\ facts \in Facts
      /\ UNCHANGED <<facts, target>>
      /\ \A q \in Requests \ {r} :
           pc'[q] = pc[q] /\ copy'[q] = copy[q] /\ known'[q] = known[q] /\ seen'[q] = seen[q]
  BY DEF Enter, Goto, IInv, TypeOK, SeenType
<1>2. SeenType'
  BY DEF Enter, IInv, TypeOK, SeenType
<1>3. KnownWasSo'
  <2> SUFFICES ASSUME NEW q \in Requests, pc'[q] \in {"decide"} \cup ReadPlaces
               PROVE  /\ seen'[q] \subseteq Facts /\ facts \in seen'[q]
                      /\ \A x \in FactNames : \E f \in seen'[q] : f[x] = known'[q][x]
    BY <1>1 DEF KnownWasSo
  <2>1. CASE q = r
    BY <1>1, <2>1
  <2>2. CASE q # r
    BY <1>1, <2>2 DEF KnownWasSo
  <2>. QED
    BY <2>1, <2>2
<1>4. GroundsHeld'
  BY <1>1 DEF GroundsHeld, Passed, OwnStatus, DerivedDone, CheckpointReady, Checkpoint
<1>. QED
  BY <1>2, <1>3, <1>4

(* The case changes: there is one moment more.                             *)
LEMMA FactsChangeGrounded ==
  ASSUME IInv, KnownWasSo, GroundsHeld, SeenType, FactsChange
  PROVE  SeenType' /\ KnownWasSo' /\ GroundsHeld'
<1>1. /\ facts' \in Facts /\ UNCHANGED <<pc, copy, known, target>>
      /\ \A r \in Requests :
           seen'[r] = IF seen[r] = {} THEN {} ELSE seen[r] \cup {facts'}
  BY DEF FactsChange
<1>2. \A r \in Requests : seen[r] \subseteq seen'[r]
  BY <1>1
<1>3. SeenType'
  BY DEF FactsChange, SeenType
<1>4. KnownWasSo'
  <2> SUFFICES ASSUME NEW r \in Requests, pc[r] \in {"decide"} \cup ReadPlaces
               PROVE  /\ seen'[r] \subseteq Facts /\ facts' \in seen'[r]
                      /\ \A x \in FactNames : \E f \in seen'[r] : f[x] = known[r][x]
    BY <1>1 DEF KnownWasSo
  <2>1. /\ seen[r] \subseteq Facts /\ facts \in seen[r]
        /\ \A x \in FactNames : \E f \in seen[r] : f[x] = known[r][x]
    BY DEF KnownWasSo
  <2>2. seen'[r] = seen[r] \cup {facts'}
    BY <1>1, <2>1
  <2>. QED
    BY <1>1, <2>1, <2>2
<1>5. GroundsHeld'
  <2> SUFFICES ASSUME NEW r \in Requests, pc[r] = "write", target[r] # 0
               PROVE  Grounds(copy[r], target[r], seen'[r])
    BY <1>1 DEF GroundsHeld, Grounds, Passed, OwnStatus, DerivedDone, CheckpointReady, Checkpoint
  <2>1. Grounds(copy[r], target[r], seen[r])
    BY DEF GroundsHeld, Grounds
  <2>. QED
    BY <1>2, <2>1 DEF Grounds
<1>. QED
  BY <1>3, <1>4, <1>5

(* A request that leaves the queue, or has not been in it.                 *)
LEMMA AwayGrounded ==
  ASSUME IInv, KnownWasSo, GroundsHeld, SeenType,
         NEW r \in Requests, NEW place \in Ended \cup {"audit"}, facts' = facts,
         \/ Leave(r, place)
         \/ Goto(r, place) /\ UNCHANGED <<copy, known, target, seen>>
  PROVE  SeenType' /\ KnownWasSo' /\ GroundsHeld'
<1>1. SeenType'
  BY DEF Leave, SeenType
<1>2. /\ pc'[r] = place /\ place \notin {"decide", "write"} \cup ReadPlaces
      /\ \A q \in Requests \ {r} :
           /\ pc'[q] = pc[q] /\ copy'[q] = copy[q] /\ known'[q] = known[q]
           /\ target'[q] = target[q] /\ seen'[q] = seen[q]
  BY DEF Leave, Goto, IInv, TypeOK, SeenType, Ended, ReadPlaces
<1>. QED
  BY <1>1, <1>2, GroundsStay

(* A restart: no request decides or writes.                                *)
LEMMA RestartGrounded ==
  ASSUME Restart
  PROVE  SeenType' /\ KnownWasSo' /\ GroundsHeld'
<1>1. \A r \in Requests : pc'[r] \notin {"decide", "write"} \cup ReadPlaces
  <2> SUFFICES ASSUME NEW r \in Requests PROVE pc'[r] \notin {"decide", "write"} \cup ReadPlaces
    OBVIOUS
  <2>1. pc'[r] = "lost" \/ pc'[r] \notin QueuePlaces
    BY DEF Restart
  <2>. QED
    BY <2>1 DEF QueuePlaces, ReadPlaces
<1>. QED
  BY <1>1 DEF Restart, SeenType, KnownWasSo, GroundsHeld

GInv == SeenType /\ KnownWasSo /\ GroundsHeld

(* The grounds of every decision, step by step.                            *)
LEMMA GroundsKept == IInv /\ GInv /\ [Next]_vars => GInv'
<1> SUFFICES ASSUME IInv, SeenType, KnownWasSo, GroundsHeld, [Next]_vars
             PROVE  SeenType' /\ KnownWasSo' /\ GroundsHeld'
  BY DEF GInv
<1>1. ASSUME NEW r \in Requests, Step(r)
      PROVE  SeenType' /\ KnownWasSo' /\ GroundsHeld'
  <2>1. CASE Enter(r)
    BY <2>1, EnterGrounded
  <2>2. CASE NoTask(r)
    BY <2>2, AwayGrounded DEF NoTask, Ended, History
  <2>3. CASE Create(r)
    <3>1. /\ pc'[r] = "write" /\ target'[r] = 0
          /\ UNCHANGED <<facts, known, seen, target>>
          /\ \A q \in Requests \ {r} : pc'[q] = pc[q] /\ copy'[q] = copy[q]
      BY <2>3 DEF Create, Goto, History, IInv, TypeOK, CopyIsFile, CopyFits
    <3>. QED
      BY <3>1, GroundsStay DEF SeenType, ReadPlaces
  <2>4. CASE AlreadyCreated(r)
    BY <2>4, AwayGrounded DEF AlreadyCreated, Ended
  <2>5. CASE ReadFacts(r)
    BY <2>5, ReadGrounded
  <2>6. CASE Advance(r) \/ Confirm(r)
    <3>1. /\ pc[r] = "decide" /\ copy[r] \in Runs /\ FieldsFit(copy[r])
          /\ known[r] \in Facts
      BY <2>6, NoRunAssumption
         DEF Advance, Confirm, IInv, TypeOK, CopyIsFile, CopyFits, CheckpointFields
    <3>2. /\ seen[r] \in SUBSET Facts
          /\ \A x \in FactNames : \E f \in seen[r] : f[x] = known[r][x]
      BY <3>1 DEF KnownWasSo
    <3>3. CASE Advance(r)
      <4>1. PICK i \in Stages, v \in Verdicts :
              /\ MayAdvance(copy[r], i, v, known[r])
              /\ Change(r, i, Decided(copy[r], i, v, copy[r].confirmed))
        BY <3>3 DEF Advance
      <4>2. Grounds(Decided(copy[r], i, v, copy[r].confirmed), i, seen[r])
        BY <3>1, <3>2, <4>1, AdvanceGrounds
      <4>. QED
        BY <3>1, <4>1, <4>2, DecisionGrounded
    <3>4. CASE Confirm(r)
      <4>1. PICK i \in Stages :
              /\ MayConfirm(copy[r], i, known[r])
              /\ Change(r, i, Decided(copy[r], i, "done", copy[r].confirmed \cup {i}))
        BY <3>4 DEF Confirm
      <4>2. Grounds(Decided(copy[r], i, "done", copy[r].confirmed \cup {i}), i, seen[r])
        BY <3>1, <3>2, <4>1, ConfirmGrounds
      <4>. QED
        BY <3>1, <4>1, <4>2, DecisionGrounded
    <3>. QED
      BY <2>6, <3>3, <3>4
  <2>7. CASE Refuse(r)
    BY <2>7, AwayGrounded DEF Refuse, Ended
  <2>8. CASE Fail(r)
    BY <2>8, AwayGrounded DEF Fail, Ended
  <2>9. CASE Write(r)
    BY <2>9, AwayGrounded DEF Write
  <2>10. CASE Audit(r)
    BY <2>10, AwayGrounded DEF Audit, Ended, History
  <2>. QED
    BY <1>1, <2>1, <2>2, <2>3, <2>4, <2>5, <2>6, <2>7, <2>8, <2>9, <2>10
     DEF Step
<1>2. CASE UNCHANGED vars
  BY <1>2, GroundsStay DEF vars, SeenType
<1>. QED
  BY <1>1, <1>2, FactsChangeGrounded, RestartGrounded DEF Next

(* Whatever the case does while a request reads it, what it decides rests  *)
(* on facts that were so since its turn came.                              *)
THEOREM DecisionsGrounded == Spec => []GroundsHeld
<1>1. Init => GInv
  BY DEF Init, GInv, SeenType, KnownWasSo, GroundsHeld, ReadPlaces
<1>2. GInv => GroundsHeld
  BY DEF GInv
<1>. QED
  BY <1>1, <1>2, GroundsKept, InductiveInvariant, PTL DEF Spec

=============================================================================
