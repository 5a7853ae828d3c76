--------------------------- MODULE AgentRunProofs ---------------------------
(***************************************************************************)
(* What a conversation promises, for any number of sends, turns and calls, *)
(* any tools, timeouts, aborts, writes that fail and restarts: TypeOK,     *)
(* EditsCompose, TraceTellsTheRun, JournalBreaksOnlyBehindInterruption and *)
(* ModelSeesAnsweredCalls.                                                 *)
(*                                                                         *)
(* First the tools.  The invariant they need is what FileMutationQueue is  *)
(* for: a call that is about to replace the file is the first of the       *)
(* queue, so it is the only one, and what an edit has read is still what   *)
(* the file is, unless a command wrote to it.  Then the run: its trace (TraceFits), what a strict load   *)
(* finds open at the end of the journal (JournalFits), and which answers   *)
(* its messages still await (MessagesFit).                                 *)
(***************************************************************************)
EXTENDS AgentRun, FiniteSetTheorems, WellFoundedInduction, TLAPS

Holds(c) ==
  /\ queue # <<>> /\ Head(queue) = c
  /\ kind[c] = "edit" => copy[c] = file \/ c \in overtaken
  /\ kind[c] # "edit" => copy[c] = {}

Exclusive ==
  \A c \in Calls : IF tool[c] = "change" THEN Holds(c) ELSE copy[c] = {}

ToolInv == ToolTypeOK /\ Exclusive

(* The first of a queue stays first when another one joins it.             *)
LEMMA HeadOfAppend ==
  ASSUME NEW S, NEW q \in Seq(S), NEW c \in S
  PROVE  /\ Append(q, c) \in Seq(S) /\ Append(q, c) # <<>>
         /\ q # <<>> => Head(Append(q, c)) = Head(q) /\ Tail(q) \in Seq(S)
  OBVIOUS

LEMMA ToolInitInv == ToolInit => ToolInv
<1> SUFFICES ASSUME ToolInit PROVE ToolInv
  OBVIOUS
<1>1. kind \in [Calls -> Kinds]
  BY ToolsAssumption DEF ToolInit
<1>2. tool \in [Calls -> Working \cup {"none", "done"}] /\ \A c \in Calls : tool[c] = "none"
  BY DEF ToolInit
<1>3. outcome \in [Calls -> Outcomes]
  BY DEF ToolInit, Outcomes
<1>4. copy \in [Calls -> SUBSET Calls] /\ \A c \in Calls : copy[c] = {}
  BY DEF ToolInit
<1>5. signal \in SUBSET Calls /\ file \in SUBSET Calls
  BY DEF ToolInit
<1>6. queue \in Seq(Calls)
  BY DEF ToolInit
<1>7. active \in BOOLEAN /\ commands \in SUBSET Calls /\ overtaken \in SUBSET Calls
  BY Zenon DEF ToolInit
<1> QED  BY <1>1, <1>2, <1>3, <1>4, <1>5, <1>6, <1>7 DEF ToolInv, ToolTypeOK, Exclusive

(* A call may leave its tool, or move on, as long as the queue is kept.    *)
LEMMA MoveKeepsToolInv ==
  ASSUME ToolInv, NEW c \in Calls, tool[c] # "change",
         \/ \E o \in Outcomes : Return(c, o)
         \/ \E p \in Working \ {"change"} : Goto(c, p),
         queue' = queue, kind' = kind, copy' = copy, file' = file, active' \in BOOLEAN,
         commands' \in SUBSET Calls, overtaken' = overtaken
  PROVE  ToolInv'
<1>1. tool' \in [Calls -> Working \cup {"none", "done"}]
  BY DEF ToolInv, ToolTypeOK, Return, Goto
<1>2. \A d \in Calls : d # c => tool'[d] = tool[d]
  BY DEF ToolInv, ToolTypeOK, Return, Goto
<1>3. tool'[c] # "change"
  BY DEF ToolInv, ToolTypeOK, Return, Goto
<1>4. signal' \in SUBSET Calls /\ outcome' \in [Calls -> Outcomes]
  BY DEF ToolInv, ToolTypeOK, Return, Goto, Answered
<1>5. ToolTypeOK'
  BY <1>1, <1>4 DEF ToolInv, ToolTypeOK
<1>6. Exclusive'
  BY <1>2, <1>3 DEF ToolInv, Exclusive, Holds
<1> QED  BY <1>5, <1>6 DEF ToolInv

(* A call may join the queue.                                              *)
LEMMA EnqueueKeepsToolInv ==
  ASSUME ToolInv, NEW c \in Calls, tool[c] # "change", Enqueue(c),
         kind' = kind, copy' = copy, file' = file, active' = active,
         commands' \in SUBSET Calls, overtaken' = overtaken
  PROVE  ToolInv'
<1>1. queue' \in Seq(Calls)
      /\ (queue # <<>> => queue' # <<>> /\ Head(queue') = Head(queue))
  <2>1. queue \in Seq(Calls) /\ queue' = Append(queue, c)
    BY DEF ToolInv, ToolTypeOK, Enqueue
  <2> QED  BY <2>1, HeadOfAppend
<1>2. /\ tool' \in [Calls -> Working \cup {"none", "done"}]
      /\ \A d \in Calls : d # c => tool'[d] = tool[d]
      /\ tool'[c] # "change"
      /\ outcome' = outcome /\ signal' = signal
  BY DEF ToolInv, ToolTypeOK, Enqueue, Goto, Working
<1>3. ToolTypeOK'
  BY <1>1, <1>2 DEF ToolInv, ToolTypeOK
<1>4. Exclusive'
  BY <1>1, <1>2 DEF ToolInv, Exclusive, Holds
<1> QED  BY <1>3, <1>4 DEF ToolInv

(* The first of the queue may leave it, when nobody is about to replace    *)
(* the file, or when that one has just done so.                            *)
LEMMA LeaveKeepsToolInv ==
  ASSUME ToolInv, NEW c \in Calls, queue # <<>>, Head(queue) = c,
         NEW o \in Outcomes, Return(c, o), queue' = Tail(queue),
         kind' = kind, active' = active, file' \in SUBSET Calls,
         copy' \in [Calls -> SUBSET Calls], copy'[c] = {},
         commands' \in SUBSET Calls, overtaken' \in SUBSET Calls,
         \A d \in Calls : d # c => copy'[d] = copy[d]
  PROVE  ToolInv'
<1>1. queue' \in Seq(Calls)
  BY HeadOfAppend DEF ToolInv, ToolTypeOK
<1>2. /\ tool' \in [Calls -> Working \cup {"none", "done"}]
      /\ \A d \in Calls : d # c => tool'[d] = tool[d]
      /\ tool'[c] # "change"
      /\ signal' \in SUBSET Calls /\ outcome' \in [Calls -> Outcomes]
  BY DEF ToolInv, ToolTypeOK, Return, Answered
<1>3. \A d \in Calls : d # c => tool[d] # "change"
  BY DEF ToolInv, Exclusive, Holds
<1>4. Exclusive'
  BY <1>2, <1>3 DEF ToolInv, Exclusive
<1> QED  BY <1>1, <1>2, <1>4 DEF ToolInv, ToolTypeOK

LEMMA ToolStepKeepsInv == ToolInv /\ [ToolNext]_toolVars => ToolInv'
<1> SUFFICES ASSUME ToolInv, [ToolNext]_toolVars PROVE ToolInv'
  OBVIOUS
<1>1. ASSUME NEW c \in Calls, NEW cancelled \in BOOLEAN, Execute(c, cancelled)
      PROVE  ToolInv'
  <2>1. tool[c] # "change" /\ kind' = kind /\ copy' = copy /\ file' = file /\ active' = active
    BY <1>1 DEF Execute
  <2>2. active' \in BOOLEAN /\ commands' \in SUBSET Calls /\ overtaken' = overtaken
    BY <1>1, <2>1 DEF Execute, ToolInv, ToolTypeOK
  <2>3. CASE Enqueue(c)
    BY <2>1, <2>2, <2>3, EnqueueKeepsToolInv
  <2>4. CASE ~Enqueue(c)
    <3>1. kind[c] \in Kinds
      BY DEF ToolInv, ToolTypeOK
    <3>2. queue' = queue /\ (\/ \E o \in Outcomes : Return(c, o)
                             \/ \E p \in Working \ {"change"} : Goto(c, p))
      BY <1>1, <2>4, <3>1
      DEF Execute, Start, StartBash, StartChange, Refuse, Kinds, Outcomes, Working
    <3> QED  BY <2>1, <2>2, <3>2, MoveKeepsToolInv
  <2> QED  BY <2>3, <2>4
<1>2. ASSUME NEW c \in Calls, TimeOut(c)
      PROVE  ToolInv'
  BY <1>2 DEF TimeOut, Answered, ToolInv, ToolTypeOK, Exclusive, Holds, Outcomes, shellVars
<1>3. ASSUME NEW c \in Calls,
             \/ ChildCloses(c) \/ ReadFile(c) \/ Probe(c) \/ ActivateSkill(c)
             \/ ResolveAudio(c) \/ ResolveMedia(c) \/ Publish(c)
      PROVE  ToolInv'
  <2>1. /\ tool[c] # "change" /\ queue' = queue /\ kind' = kind /\ copy' = copy /\ file' = file
        /\ active' \in BOOLEAN /\ commands' \in SUBSET Calls /\ overtaken' = overtaken
    BY <1>3
    DEF ChildCloses, ReadFile, Probe, ActivateSkill, ResolveAudio, ResolveMedia, Publish,
        ToolInv, ToolTypeOK, shellVars
  <2>2. \/ \E o \in Outcomes : Return(c, o)
        \/ \E p \in Working \ {"change"} : Goto(c, p)
    BY <1>3
    DEF ChildCloses, ReadFile, Probe, ActivateSkill, Newly, ResolveAudio, ResolveMedia, Publish,
        Outcomes, Working
  <2> QED  BY <2>1, <2>2, MoveKeepsToolInv
<1>4. ASSUME NEW c \in Calls, Transcribe(c) \/ Poll(c) \/ CallOmni(c)
      PROVE  ToolInv'
  <2>1. tool[c] # "change" /\ kind' = kind /\ copy' = copy /\ file' = file /\ active' = active
    BY <1>4 DEF Transcribe, Poll, CallOmni
  <2>2. active' \in BOOLEAN /\ commands' \in SUBSET Calls /\ overtaken' = overtaken
    BY <1>4, <2>1 DEF Transcribe, Poll, CallOmni, ToolInv, ToolTypeOK, shellVars
  <2>3. CASE Enqueue(c)
    BY <2>1, <2>2, <2>3, EnqueueKeepsToolInv
  <2>4. CASE ~Enqueue(c)
    <3>1. queue' = queue /\ (\/ \E o \in Outcomes : Return(c, o)
                             \/ \E p \in Working \ {"change"} : Goto(c, p))
      BY <1>4, <2>4 DEF Transcribe, Poll, CallOmni, Deliver, RequestFails, Outcomes, Working
    <3> QED  BY <2>1, <2>2, <3>1, MoveKeepsToolInv
  <2> QED  BY <2>3, <2>4
<1>5. ASSUME NEW c \in Calls, OpenEdit(c) \/ OpenWrite(c)
      PROVE  ToolInv'
  <2>1. /\ tool[c] = "queue" /\ queue # <<>> /\ Head(queue) = c
        /\ kind' = kind /\ file' = file /\ active' = active
        /\ commands' = commands /\ overtaken' = overtaken
    BY <1>5 DEF OpenEdit, OpenWrite, EnterQueue, shellVars
  <2>2. copy[c] = {}
    BY <2>1 DEF ToolInv, Exclusive
  <2>3. CASE Return(c, "failed") /\ queue' = Tail(queue) /\ copy' = copy
    <3>1. /\ "failed" \in Outcomes /\ file' \in SUBSET Calls /\ copy' \in [Calls -> SUBSET Calls]
          /\ commands' \in SUBSET Calls /\ overtaken' \in SUBSET Calls
      BY <2>1, <2>3 DEF Outcomes, ToolInv, ToolTypeOK
    <3> QED  BY <2>1, <2>2, <2>3, <3>1, LeaveKeepsToolInv
  <2>4. CASE /\ Goto(c, "change") /\ queue' = queue
             /\ copy' = [copy EXCEPT ![c] = IF kind[c] = "edit" THEN file ELSE {}]
    <3>1. tool' = [tool EXCEPT ![c] = "change"] /\ outcome' = outcome /\ signal' = signal
      BY <2>4 DEF Goto
    <3>2. ToolTypeOK'
      BY <2>1, <2>4, <3>1 DEF ToolInv, ToolTypeOK, Working
    <3>3. \A d \in Calls : d # c => tool[d] # "change"
      BY <2>1 DEF ToolInv, Exclusive, Holds
    <3>4. Exclusive'
      BY <2>1, <2>4, <3>1, <3>3 DEF ToolInv, ToolTypeOK, Exclusive, Holds
    <3> QED  BY <3>2, <3>4 DEF ToolInv
  <2>5. OpenWrite(c) => kind[c] # "edit" /\ copy' = copy
    BY DEF OpenWrite
  <2>6. [copy EXCEPT ![c] = {}] = copy
    BY <2>2 DEF ToolInv, ToolTypeOK
  <2> QED  BY <1>5, <2>3, <2>4, <2>5, <2>6 DEF OpenEdit, OpenWrite
<1>6. ASSUME NEW c \in Calls, ReplaceFile(c)
      PROVE  ToolInv'
  <2>1. /\ queue # <<>> /\ Head(queue) = c /\ queue' = Tail(queue)
        /\ kind' = kind /\ active' = active /\ copy' = [copy EXCEPT ![c] = {}]
    BY <1>6 DEF ReplaceFile, ToolInv, Exclusive, Holds
  <2>2. file' \in SUBSET Calls /\ commands' \in SUBSET Calls /\ overtaken' \in SUBSET Calls
    BY <1>6 DEF ReplaceFile, ToolInv, ToolTypeOK
  <2>3. /\ copy' \in [Calls -> SUBSET Calls] /\ copy'[c] = {}
        /\ \A d \in Calls : d # c => copy'[d] = copy[d]
    BY <2>1 DEF ToolInv, ToolTypeOK
  <2>4. \E o \in Outcomes : Return(c, o)
    BY <1>6 DEF ReplaceFile, Outcomes
  <2> QED  BY <2>1, <2>2, <2>3, <2>4, LeaveKeepsToolInv
<1>7. ASSUME AbortCalls PROVE ToolInv'
  <2>1. /\ signal' \in SUBSET Calls
        /\ UNCHANGED <<tool, kind, outcome, queue, copy, file, active, commands, overtaken>>
    BY <1>7 DEF AbortCalls, ToolInv, ToolTypeOK, shellVars
  <2>2. ToolTypeOK'
    BY <2>1 DEF ToolInv, ToolTypeOK
  <2>3. Exclusive'
    BY <2>1 DEF ToolInv, Exclusive, Holds
  <2> QED  BY <2>2, <2>3 DEF ToolInv
<1>8. ASSUME LoseCalls PROVE ToolInv'
  <2>1. /\ tool' \in [Calls -> Working \cup {"none", "done"}]
        /\ \A c \in Calls : tool'[c] # "change" /\ copy'[c] = {}
        /\ copy' \in [Calls -> SUBSET Calls] /\ signal' \in SUBSET Calls
    BY <1>8 DEF LoseCalls
  <2>2. queue' \in Seq(Calls)
    BY <1>8 DEF LoseCalls
  <2>3. active' \in BOOLEAN
    BY <1>8, Zenon DEF LoseCalls
  <2>4. UNCHANGED <<kind, outcome, file, commands>> /\ overtaken' = {}
    BY <1>8 DEF LoseCalls
  <2>5. ToolTypeOK'
    BY <2>1, <2>2, <2>3, <2>4 DEF ToolInv, ToolTypeOK
  <2>6. Exclusive'
    BY <2>1 DEF Exclusive
  <2> QED  BY <2>5, <2>6 DEF ToolInv
<1>9. ASSUME UNCHANGED toolVars PROVE ToolInv'
  BY <1>9 DEF toolVars, shellVars, ToolInv, ToolTypeOK, Exclusive, Holds
<1>10. ASSUME NEW c \in Calls, CommandWrites(c)
       PROVE  ToolInv'
  <2>1. /\ UNCHANGED <<tool, kind, signal, outcome, queue, copy, active, commands>>
        /\ file' \in SUBSET Calls /\ overtaken' \in SUBSET Calls
        /\ \A d \in Calls : kind[d] = "edit" /\ tool[d] = "change" => d \in overtaken'
    BY <1>10 DEF CommandWrites, ToolInv, ToolTypeOK
  <2>2. ToolTypeOK'
    BY <2>1 DEF ToolInv, ToolTypeOK
  <2>3. Exclusive'
    BY <2>1 DEF ToolInv, Exclusive, Holds
  <2> QED  BY <2>2, <2>3 DEF ToolInv
<1> QED
  BY <1>1, <1>2, <1>3, <1>4, <1>5, <1>6, <1>7, <1>8, <1>9, <1>10 DEF ToolNext, ToolStep

(* The variables of the tool calls have their types, and FileMutationQueue *)
(* lets one call at a time read and replace the file.                      *)
THEOREM ToolTypeCorrect == ToolSpec => []ToolTypeOK
<1>1. ToolInv => ToolTypeOK
  BY DEF ToolInv
<1> QED  BY <1>1, ToolInitInv, ToolStepKeepsInv, PTL DEF ToolSpec

(* The file is written by a command, or replaced by the call at the head   *)
(* of the queue.                                                           *)
LEMMA ComposedSteps ==
  ASSUME ToolInv, [ToolNext]_toolVars, file' # file
  PROVE  \/ \E c \in commands : c \in file' /\ UNCHANGED tool
         \/ \E c \in Calls :
              /\ tool[c] = "change" /\ tool' = [tool EXCEPT ![c] = "done"]
              /\ kind[c] # "edit" => file' = {c}
              /\ kind[c] = "edit" /\ c \notin overtaken => file' = file \cup {c}
<1>1. \E c \in Calls : ReplaceFile(c) \/ CommandWrites(c)
  BY DEF ToolNext, ToolStep, Execute, TimeOut, ChildCloses, ReadFile, Probe, ActivateSkill,
         ResolveAudio, ResolveMedia, Publish, Transcribe, Poll, CallOmni, OpenEdit, OpenWrite,
         AbortCalls, LoseCalls, toolVars
<1>2. ASSUME NEW c \in Calls, CommandWrites(c)
      PROVE  c \in commands /\ c \in file' /\ UNCHANGED tool
  BY <1>2 DEF CommandWrites
<1>3. ASSUME NEW c \in Calls, ReplaceFile(c)
      PROVE  /\ tool[c] = "change" /\ tool' = [tool EXCEPT ![c] = "done"]
             /\ kind[c] # "edit" => file' = {c}
             /\ kind[c] = "edit" /\ c \notin overtaken => file' = file \cup {c}
  <2>1. /\ tool[c] = "change" /\ tool' = [tool EXCEPT ![c] = "done"]
        /\ file' = copy[c] \cup {c}
    BY <1>3 DEF ReplaceFile, Return
  <2>2. Holds(c)
    BY <2>1 DEF ToolInv, Exclusive
  <2> QED  BY <2>1, <2>2 DEF Holds
<1> QED  BY <1>1, <1>2, <1>3

(* A file tool that changes the file leaves one whole content, or an edit  *)
(* of what the file is: no change is lost to an edit that had read the     *)
(* file before it, but that of a shell command, which does not queue.      *)
THEOREM NoEditIsLost == ToolSpec => EditsCompose
<1> DEFINE Composed ==
      file' # file =>
        \/ \E c \in commands : c \in file' /\ UNCHANGED tool
        \/ \E c \in Calls :
             /\ tool[c] = "change" /\ tool' = [tool EXCEPT ![c] = "done"]
             /\ kind[c] # "edit" => file' = {c}
             /\ kind[c] = "edit" /\ c \notin overtaken => file' = file \cup {c}
<1>1. ToolInv /\ [ToolNext]_toolVars => [Composed]_toolVars
  BY ComposedSteps
<1> QED  BY <1>1, ToolInitInv, ToolStepKeepsInv, PTL DEF ToolSpec, EditsCompose

-----------------------------------------------------------------------------
(* The conversation.                                                       *)

(* The run is at work: nobody has been told what became of it.             *)
AtWork == {"start", "user", "ask", "model", "next", "tool", "told", "catch", "finish",
           "close", "finalize"}
Ended == {"idle", "down", "corrupted"}

LineTypes ==
  {"user", "assistant", "tool", "tool_call", "tool_result", "skill_activation", "error", "torn"}
EventTypes == {"run_started", "tool_started", "tool_completed"} \cup Results
Events == [type : EventTypes, call : Calls \cup {0}]

RunTypes ==
  /\ journal \in Seq(Lines)
  /\ trace \in [Runs -> Seq(Events)]
  /\ meta \in [Runs -> {"absent", "pending", "running", "finalizing"} \cup Results]
  /\ result \in [Runs -> Results]
  /\ run \in 0..MaxSends /\ pc \in AtWork \cup Ended
  /\ todo \in Seq(Calls) /\ call \in Calls \cup {0}
  /\ cause \in {"none", "failed", "cancelled"}
  /\ called \in 0..Cardinality(Calls)
  /\ faults \subseteq Runs
  /\ pc \in AtWork => run \in Runs
  /\ pc \in {"tool", "told"} => call \in Calls

(* The trace of a run that goes on: what WellFormed asks for but the end.  *)
OpenTrace(t) ==
  /\ t # <<>> /\ t[1].type = "run_started"
  /\ \A i \in DOMAIN t :
       /\ t[i].type \notin Terminal
       /\ t[i].type = "tool_completed" =>
            \E j \in 1..(i - 1) :
              t[j] = Event("tool_started", t[i].call)
              /\ \A k \in (j + 1)..(i - 1) : t[k].call # t[i].call

Closed(t, verdict) == WellFormed(t) /\ t[Len(t)].type = verdict

(* The runs before this one are settled, those behind it have not begun.   *)
RunsFit ==
  /\ \A r \in Runs : r > run => result[r] = "none" /\ meta[r] = "absent" /\ trace[r] = <<>>
  /\ \A r \in Runs : r < run => result[r] # "none"
  /\ run \in Runs => (result[run] = "none" <=> pc \in AtWork)

TraceFits ==
  /\ TraceTellsTheRun
  /\ pc = "start" => trace[run] = <<>>
  /\ pc \in AtWork \ {"start", "finalize"} => OpenTrace(trace[run])
  /\ pc \in {"tool", "told"} => trace[run][Len(trace[run])] = Event("tool_started", call)
  /\ pc = "finalize" => Closed(trace[run], Verdict)
  /\ pc \in AtWork => meta[run] \notin Terminal

(* An activation is only ever of a call that activates a skill.            *)
SkillFits ==
  \A c \in Calls : tool[c] = "skill" \/ outcome[c] = "activated" => kind[c] = "activate_skill"

(* The run whose calls were left is one that did not end well, and what it *)
(* had begun is without a result only if it crashed or a write failed.     *)
Interrupted(i) ==
  \E j \in 1..(i - 1) :
    /\ journal[j].calls # NoCalls
    /\ result[journal[j].run] \notin {"none", "completed"}
    /\ Open(i) # {} => journal[j].run \in faults \/ result[journal[j].run] = "lost"

(* Where the next line goes.                                               *)
End == Len(journal) + 1
Sound == \A i \in DOMAIN journal : ~Misplaced(i)
Asking == \E j \in DOMAIN journal : journal[j].run = run /\ journal[j].calls # NoCalls

(* The calls a strict load would find open and pending at the end of the   *)
(* journal, by where the run is.                                           *)
CallsFit ==
  /\ pc \in {"idle", "down", "start", "user"} =>
       (Open(End) \cup Pending(End) # {} => Interrupted(End))
  /\ pc \in {"ask", "model", "finish"} \/ (pc \in {"close", "finalize"} /\ cause = "none") =>
       Open(End) = {} /\ Pending(End) = {}
  /\ pc \in {"next", "tool", "told"} => Pending(End) = ToSet(todo) /\ Asking
  /\ pc \in {"next", "told"} => Open(End) = {}
  /\ pc = "tool" => Open(End) = {call}
  /\ pc \in {"catch", "close", "finalize"} =>
       /\ Open(End) \cup Pending(End) # {} => Asking
       /\ Open(End) # {} => run \in faults
  /\ pc = "told" => journal # <<>> /\ Said(Len(journal), "tool_result", call)

Distinct(calls) == \A i, k \in DOMAIN calls : i # k => calls[i] # calls[k]

JournalFits ==
  /\ JournalBreaksOnlyBehindInterruption
  /\ Sound => CallsFit
  /\ Distinct(todo)
  /\ pc = "catch" => cause # "none"

-----------------------------------------------------------------------------
(* The variables of the run have their types.                              *)
LEMMA InitRunTypes == Init => RunTypes
<1> SUFFICES ASSUME Init PROVE RunTypes
  OBVIOUS
<1>1. 0 \in 0..MaxSends /\ 0 \in 0..Cardinality(Calls) /\ \A r \in Runs : r \in Nat
  BY CallsAssumption, BoundsAssumption, FS_CardinalityType DEF Runs
<1> QED
  BY <1>1 DEF Init, RunTypes, Events, AtWork, Ended, Results

LEMMA LineFits ==
  ASSUME run \in Runs, NEW type \in LineTypes, NEW calls \in Seq(Calls), NEW c \in Calls \cup {0}
  PROVE  /\ Line(type, calls, c) \in Lines
         /\ Line(type, calls, c).type = type /\ Line(type, calls, c).run = run
         /\ Line(type, calls, c).calls = calls /\ Line(type, calls, c).call = c
  BY DEF Line, Lines, LineTypes

LEMMA EventFits ==
  ASSUME NEW type \in EventTypes, NEW c \in Calls \cup {0}
  PROVE  /\ Event(type, c) \in Events /\ Event(type, c).type = type /\ Event(type, c).call = c
  BY DEF Event, Events

(* A step that journals at most one line and emits at most one event.      *)
LEMMA JournalTypes ==
  ASSUME RunTypes, run \in Runs, NEW line \in Lines, Journal(<<line>>)
  PROVE  /\ journal' \in Seq(Lines) /\ Len(journal') = Len(journal) + 1
         /\ journal'[Len(journal) + 1] = line
         /\ \A i \in DOMAIN journal : journal'[i] = journal[i]
  BY DEF RunTypes, Journal

LEMMA EmitTypes ==
  ASSUME RunTypes, run \in Runs, NEW event \in Events, Emit(<<event>>)
  PROVE  /\ trace' \in [Runs -> Seq(Events)]
         /\ trace'[run] = Append(trace[run], event)
         /\ \A r \in Runs \ {run} : trace'[r] = trace[r]
<1>1. trace[run] \in Seq(Events) /\ trace' = [trace EXCEPT ![run] = trace[run] \o <<event>>]
  BY DEF RunTypes, Emit
<1>2. trace[run] \o <<event>> = Append(trace[run], event)
  BY <1>1
<1> QED
  BY <1>1, <1>2 DEF RunTypes

LEMMA EmitNothing ==
  ASSUME RunTypes
  PROVE  /\ Journal(<<>>) => journal' = journal
         /\ Emit(<<>>) => trace' = trace
  BY DEF RunTypes, Journal, Emit

(* A write that fails, and what follows from it.                           *)
LEMMA FailTypes ==
  ASSUME RunTypes, run \in Runs, WriteFails, run' = run,
         Raise \/ Reject \/ CreateFails
  PROVE  RunTypes'
<1>1. faults' \subseteq Runs /\ UNCHANGED <<journal, trace, run, called>>
  BY DEF RunTypes, WriteFails, Raise, Reject, CreateFails
<1>2. meta' \in [Runs -> {"absent", "pending", "running", "finalizing"} \cup Results]
  BY DEF RunTypes, Raise, Reject, CreateFails
<1>3. result' \in [Runs -> Results]
  BY DEF RunTypes, Raise, Reject, CreateFails, Settle, Results
<1>4. /\ pc' \in {"catch", "idle"} /\ cause' \in {"none", "failed", "cancelled"}
      /\ todo' = <<>> /\ call' = 0
  BY DEF Raise, Reject, CreateFails, Settle, Throw, Forget
<1> QED
  BY <1>1, <1>2, <1>3, <1>4 DEF RunTypes, AtWork, Ended

(* A step that journals a line without calls. *)
LEMMA PlainLine ==
  ASSUME RunTypes, run \in Runs, NEW type \in LineTypes, NEW c \in Calls \cup {0},
         Journal(<<Line(type, NoCalls, c)>>)
  PROVE  journal' \in Seq(Lines)
<1>1. NoCalls \in Seq(Calls)
  BY DEF NoCalls
<1>2. Line(type, NoCalls, c) \in Lines
  BY <1>1, LineFits
<1> QED
  BY <1>2, JournalTypes

LEMMA AskedTypes ==
  ASSUME RunTypes, NEW n \in 0..(Cardinality(Calls) - called)
  PROVE  /\ Asked(n) \in Seq(Calls) /\ Len(Asked(n)) = n
         /\ called + n \in 0..Cardinality(Calls)
         /\ Distinct(Asked(n))
<1>1. called \in Nat /\ n \in Nat /\ Cardinality(Calls) \in Nat /\ called + n <= Cardinality(Calls)
  BY CallsAssumption, FS_CardinalityType DEF RunTypes
<1>2. \A i \in 1..n : called + i \in Calls
  BY <1>1, CallsAssumption
<1> QED
  BY <1>1, <1>2 DEF Asked, Distinct

LEMMA RunTypesKept == RunTypes /\ [Next]_vars => RunTypes'
<1> SUFFICES ASSUME RunTypes, Next PROVE RunTypes'
  BY DEF RunTypes, vars, runVars
<1> USE DEF AtWork, Ended
<1>0. pc \in AtWork => run \in Runs
  BY DEF RunTypes
<1>1. CASE Send
  <2>1. run + 1 \in Runs
    BY <1>1, BoundsAssumption DEF Send, RunTypes, Runs
  <2> QED
    BY <1>1, <2>1 DEF Send, RunTypes, Runs
<1>2. CASE StartRun
  <2>1. run \in Runs /\ run' = run
    BY <1>0, <1>2 DEF StartRun
  <2>2. CASE WriteFails /\ CreateFails
    BY <2>1, <2>2, FailTypes
  <2>3. CASE ~(WriteFails /\ CreateFails)
    <3>1. trace' \in [Runs -> Seq(Events)]
      BY <1>2, <2>1, <2>3, EventFits, EmitTypes DEF StartRun, EventTypes
    <3> QED
      BY <1>2, <2>1, <2>3, <3>1 DEF StartRun, RunTypes
  <2> QED
    BY <2>2, <2>3
<1>3. CASE AppendUser
  <2>1. run \in Runs /\ run' = run
    BY <1>0, <1>3 DEF AppendUser
  <2>2. CASE WriteFails /\ Reject
    BY <2>1, <2>2, FailTypes
  <2>3. CASE ~(WriteFails /\ Reject)
    <3>1. journal' \in Seq(Lines)
      BY <1>3, <2>1, <2>3, PlainLine DEF AppendUser, LineTypes
    <3> QED
      BY <1>3, <2>1, <2>3, <3>1 DEF AppendUser, RunTypes
  <2> QED
    BY <2>2, <2>3
<1>4. CASE RequestModel
  <2>1. Throw("cancelled") \/ Request
    BY <1>4, Zenon DEF RequestModel
  <2>2. UNCHANGED <<journal, trace, meta, run, result, called, faults>> /\ pc = "ask"
    BY <1>4, Zenon DEF RequestModel
  <2>3. \/ pc' = "catch" /\ cause' = "cancelled" /\ todo' = <<>> /\ call' = 0
        \/ pc' = "model" /\ cause' = cause /\ todo' = todo /\ call' = call
    BY <2>1, Zenon DEF Throw, Forget, Request
  <2> QED
    <3>1. CASE pc' = "catch" /\ cause' = "cancelled" /\ todo' = <<>> /\ call' = 0
      BY <2>2, <3>1 DEF RunTypes
    <3>2. CASE pc' = "model" /\ cause' = cause /\ todo' = todo /\ call' = call
      BY <2>2, <3>2 DEF RunTypes
    <3> QED
      BY <2>3, <3>1, <3>2
<1>5. CASE ModelAnswers
  <2>1. run \in Runs /\ run' = run
    BY <1>0, <1>5 DEF ModelAnswers
  <2>2. CASE ProviderFails
    BY <2>1, <2>2 DEF ProviderFails, Raise, Throw, Forget, RunTypes
  <2>3. CASE WriteFails /\ Raise
    BY <2>1, <2>3, FailTypes
  <2>4. CASE ~ProviderFails /\ ~(WriteFails /\ Raise)
    <3>1. PICK n \in 0..(Cardinality(Calls) - called) :
            /\ Journal(<<Line("assistant", Asked(n), 0)>>)
            /\ todo' = Asked(n) /\ called' = called + n
            /\ pc' = IF n = 0 THEN "finish" ELSE "next"
            /\ UNCHANGED <<trace, meta, call, cause, result, faults>>
      BY <1>5, <2>4 DEF ModelAnswers
    <3>2. Asked(n) \in Seq(Calls) /\ called + n \in 0..Cardinality(Calls)
      BY AskedTypes
    <3>3. journal' \in Seq(Lines)
      BY <2>1, <3>1, <3>2, LineFits, JournalTypes DEF LineTypes
    <3> QED
      BY <2>1, <3>1, <3>2, <3>3 DEF RunTypes
  <2> QED
    BY <2>2, <2>3, <2>4
<1>6. CASE ModelAborted
  BY <1>6 DEF ModelAborted, Throw, Forget, RunTypes
<1>7. CASE AllCalled
  BY <1>7 DEF AllCalled, RunTypes
<1>8. CASE StartCall
  <2>1. run \in Runs /\ run' = run
    BY <1>0, <1>8 DEF StartCall
  <2>2. Head(todo) \in Calls /\ Tail(todo) \in Seq(Calls)
    BY <1>8 DEF StartCall, RunTypes
  <2>6. aborted => ~(~aborted /\ WriteFails /\ Raise /\ UNCHANGED toolVars)
    OBVIOUS
  <2>3. CASE aborted
    <3>1. Throw("cancelled") /\ UNCHANGED <<journal, trace, meta, result, called, faults>>
      BY <1>8, <2>3, <2>6, Zenon DEF StartCall
    <3> QED
      BY <2>1, <3>1 DEF Throw, Forget, RunTypes
  <2>4. CASE WriteFails /\ Raise
    BY <2>1, <2>4, FailTypes
  <2>5. CASE ~aborted /\ ~(WriteFails /\ Raise)
    <3>1. /\ Emit(<<Event("tool_started", Head(todo))>>)
          /\ Journal(<<Line("tool_call", NoCalls, Head(todo))>>)
          /\ call' = Head(todo) /\ todo' = Tail(todo) /\ pc' = "tool"
          /\ UNCHANGED <<meta, cause, result, called, faults>>
      BY <1>8, <2>5 DEF StartCall
    <3>2. journal' \in Seq(Lines)
      BY <2>1, <2>2, <3>1, PlainLine DEF LineTypes
    <3>3. trace' \in [Runs -> Seq(Events)]
      BY <2>1, <2>2, <3>1, EventFits, EmitTypes DEF EventTypes
    <3> QED
      BY <2>1, <2>2, <3>1, <3>2, <3>3 DEF RunTypes
  <2> QED
    BY <2>3, <2>4, <2>5
<1>9. CASE JournalResult
  <2>1. run \in Runs /\ run' = run
    BY <1>0, <1>9 DEF JournalResult
  <2>2. CASE WriteFails /\ Raise
    BY <2>1, <2>2, FailTypes
  <2>3. CASE ~(WriteFails /\ Raise)
    <3>1. journal' \in Seq(Lines)
      BY <1>9, <2>1, <2>3, PlainLine DEF JournalResult, ResultLines, LineTypes, RunTypes
    <3> QED
      BY <1>9, <2>1, <2>3, <3>1 DEF JournalResult, RunTypes
  <2> QED
    BY <2>2, <2>3
<1>10. CASE CompleteCall
  <2>1. run \in Runs /\ run' = run
    BY <1>0, <1>10 DEF CompleteCall
  <2>2. CASE WriteFails /\ Raise
    BY <2>1, <2>2, FailTypes
  <2>3. CASE ~(WriteFails /\ Raise)
    <3>1. call \in Calls
      BY <1>10 DEF CompleteCall, RunTypes
    <3>2. journal' \in Seq(Lines)
      <4>1. \/ Journal(<<>>)
            \/ Journal(<<Line("skill_activation", NoCalls, call)>>)
        BY <1>10, <2>3 DEF CompleteCall
      <4> QED
        BY <2>1, <3>1, <4>1, PlainLine, EmitNothing DEF LineTypes, RunTypes
    <3>3. trace' \in [Runs -> Seq(Events)]
      BY <1>10, <2>1, <2>3, <3>1, EventFits, EmitTypes DEF CompleteCall, EventTypes
    <3>4. /\ pc' \in {"catch", "next"} /\ cause' \in {"none", "failed", "cancelled"}
          /\ todo' \in Seq(Calls) /\ call' \in Calls \cup {0}
          /\ UNCHANGED <<meta, result, called, faults>>
      <4>1. \/ Throw("failed") \/ Throw("cancelled")
            \/ pc' = "next" /\ UNCHANGED <<cause, messages, todo, call, turn>>
        BY <1>10, <2>3, Zenon DEF CompleteCall
      <4>2. UNCHANGED <<meta, result, called, faults>>
        BY <1>10, <2>3, Zenon DEF CompleteCall
      <4>3. CASE Throw("failed") \/ Throw("cancelled")
        <5>1. pc' = "catch" /\ cause' \in {"failed", "cancelled"} /\ todo' = <<>> /\ call' = 0
          BY <4>3 DEF Throw, Forget
        <5> QED
          BY <4>2, <5>1
      <4>4. CASE pc' = "next" /\ UNCHANGED <<cause, messages, todo, call, turn>>
        BY <4>2, <4>4 DEF RunTypes
      <4> QED
        BY <4>1, <4>3, <4>4
    <3> QED
      BY <2>1, <3>2, <3>3, <3>4 DEF RunTypes
  <2> QED
    BY <2>2, <2>3
<1>11. CASE JournalError \/ HandOff
  <2>1. run \in Runs /\ run' = run
    BY <1>0, <1>11 DEF JournalError, HandOff
  <2>2. CASE WriteFails /\ Reject
    BY <2>1, <2>2, FailTypes
  <2>3. CASE ~(WriteFails /\ Reject)
    <3>1. journal' \in Seq(Lines)
      BY <1>11, <2>1, <2>3, PlainLine DEF JournalError, HandOff, LineTypes
    <3> QED
      BY <1>11, <2>1, <2>3, <3>1 DEF JournalError, HandOff, RunTypes
  <2> QED
    BY <2>2, <2>3
<1>12. CASE Finish \/ FinalizeRun
  <2>1. run \in Runs /\ run' = run
    BY <1>0, <1>12 DEF Finish, FinalizeRun
  <2>2. CASE WriteFails /\ Reject
    BY <2>1, <2>2, FailTypes
  <2>3. CASE ~(WriteFails /\ Reject)
    <3>1. Verdict \in Results
      BY DEF Verdict, Results, RunTypes
    <3>2. CASE Finish
      BY <2>1, <2>3, <3>2 DEF Finish, StatusAtEnd, RunTypes
    <3>3. CASE FinalizeRun
      <4>1. /\ meta' = [meta EXCEPT ![run] = Verdict] /\ result' = [result EXCEPT ![run] = Verdict]
            /\ pc' = "idle" /\ cause' = "none" /\ todo' = <<>> /\ call' = 0
            /\ UNCHANGED <<journal, trace, called, faults>>
        BY <2>3, <3>3, Zenon DEF FinalizeRun, Settle, Forget
      <4> QED
        BY <2>1, <3>1, <4>1 DEF RunTypes
    <3> QED
      BY <1>12, <3>2, <3>3
  <2> QED
    BY <2>2, <2>3
<1>13. CASE EmitTerminal
  <2>1. run \in Runs /\ run' = run
    BY <1>0, <1>13 DEF EmitTerminal
  <2>2. CASE WriteFails /\ Reject
    BY <2>1, <2>2, FailTypes
  <2>3. CASE ~(WriteFails /\ Reject)
    <3>1. Verdict \in EventTypes
      BY DEF Verdict, EventTypes, Results, RunTypes
    <3>2. trace' \in [Runs -> Seq(Events)]
      BY <1>13, <2>1, <2>3, <3>1, EventFits, EmitTypes DEF EmitTerminal
    <3> QED
      BY <1>13, <2>1, <2>3, <3>2 DEF EmitTerminal, RunTypes
  <2> QED
    BY <2>2, <2>3
<1>14. CASE Abort \/ Resume
  BY <1>14 DEF Abort, Resume, RunTypes
<1>15. CASE Crash
  <2>1. journal' \in Seq(Lines)
    BY <1>0, <1>15, PlainLine DEF Crash, LineTypes, RunTypes
  <2> QED
    BY <1>15, <2>1 DEF Crash, Forget, RunTypes, Results
<1>16. ASSUME UNCHANGED runVars PROVE RunTypes'
  BY <1>16 DEF runVars, RunTypes
<1> QED
  BY <1>1, <1>2, <1>3, <1>4, <1>5, <1>6, <1>7, <1>8, <1>9, <1>10, <1>11, <1>12, <1>13, <1>14,
     <1>15, <1>16 DEF Next, LoopStep

-----------------------------------------------------------------------------
(* The tools of the conversation.  A new process knows which skills were   *)
(* active; but for that its steps are steps of the registry.               *)
AbortFits == aborted \in BOOLEAN

LEMMA AbortFitsKept == AbortFits /\ [Next]_vars => AbortFits'
<1> SUFFICES ASSUME aborted \in BOOLEAN, [Next]_vars PROVE aborted' \in BOOLEAN
  BY DEF AbortFits
<1>1. CASE aborted' = aborted
  BY <1>1
<1>2. CASE aborted' = TRUE
  BY <1>2
<1>3. CASE aborted' = FALSE
  BY <1>3
<1>4. ASSUME Send \/ StartRun \/ AppendUser \/ RequestModel \/ ModelAnswers \/ ModelAborted \/ AllCalled
      PROVE  aborted' = aborted \/ aborted' = FALSE
  BY <1>4, Zenon
  DEF Send, StartRun, AppendUser, RequestModel, ModelAnswers, ModelAborted, AllCalled, CreateFails,
      Reject, Raise, ProviderFails, Settle
<1>5. ASSUME \/ StartCall \/ JournalResult \/ CompleteCall \/ JournalError \/ HandOff \/ Finish
             \/ EmitTerminal \/ FinalizeRun
      PROVE  aborted' = aborted \/ aborted' = FALSE
  BY <1>5, Zenon
  DEF StartCall, JournalResult, CompleteCall, JournalError, HandOff, Finish, EmitTerminal,
      FinalizeRun, Reject, Raise, Settle
<1>6. ASSUME Abort PROVE aborted' = TRUE
  BY <1>6, Zenon DEF Abort
<1>7. ASSUME Crash PROVE aborted' = FALSE
  BY <1>7, Zenon DEF Crash
<1>8. ASSUME Resume \/ UNCHANGED runVars PROVE aborted' = aborted
  BY <1>8, Zenon DEF Resume, runVars
<1> QED
  BY <1>1, <1>2, <1>3, <1>4, <1>5, <1>6, <1>7, <1>8, Zenon DEF Next, LoopStep, vars, runVars

LEMMA ToolSteps ==
  ASSUME [Next]_vars, RunTypes, AbortFits
  PROVE  [ToolNext]_toolVars \/ Resume
<1>1. ASSUME StartCall PROVE [ToolNext]_toolVars
  <2>1. Head(todo) \in Calls
    BY <1>1 DEF StartCall, RunTypes
  <2>2. UNCHANGED toolVars \/ Execute(Head(todo), aborted)
    BY <1>1, Zenon DEF StartCall
  <2> QED
    BY <2>1, <2>2, Zenon DEF ToolNext, AbortFits
<1>2. ASSUME Abort PROVE ToolNext
  BY <1>2, Zenon DEF Abort, ToolNext
<1>3. ASSUME Crash PROVE ToolNext
  BY <1>3, Zenon DEF Crash, ToolNext
<1>4. ASSUME NEW c \in Calls, ToolStep(c) PROVE ToolNext
  BY <1>4, Zenon DEF ToolNext
<1>5. ASSUME \/ Send \/ StartRun \/ AppendUser \/ RequestModel \/ ModelAnswers \/ ModelAborted
             \/ AllCalled \/ JournalResult \/ CompleteCall \/ JournalError \/ HandOff \/ Finish
             \/ EmitTerminal \/ FinalizeRun
      PROVE  UNCHANGED toolVars
  BY <1>5, Zenon
  DEF Send, StartRun, AppendUser, RequestModel, ModelAnswers, ModelAborted, AllCalled, JournalResult,
      CompleteCall, JournalError, HandOff, Finish, EmitTerminal, FinalizeRun
<1> QED
  BY <1>1, <1>2, <1>3, <1>4, <1>5, Zenon DEF Next, LoopStep, vars

LEMMA ToolInvKept == ToolInv /\ RunTypes /\ AbortFits /\ [Next]_vars => ToolInv'
<1> SUFFICES ASSUME ToolInv, RunTypes, AbortFits, [Next]_vars PROVE ToolInv'
  OBVIOUS
<1>1. CASE [ToolNext]_toolVars
  BY <1>1, ToolStepKeepsInv
<1>2. CASE Resume
  <2>1. UNCHANGED <<tool, kind, signal, outcome, queue, copy, file, commands, overtaken>>
    BY <1>2 DEF Resume, shellVars
  <2>2. active' \in BOOLEAN
    <3>1. \/ active' = active
          \/ active' = \E i \in DOMAIN journal : journal[i].type = "skill_activation"
      BY <1>2, Zenon DEF Resume
    <3>2. active \in BOOLEAN
      BY Zenon DEF ToolInv, ToolTypeOK
    <3> QED
      BY <3>1, <3>2, Zenon
  <2>3. ToolTypeOK'
    BY <2>1, <2>2 DEF ToolInv, ToolTypeOK
  <2>4. Exclusive'
    BY <2>1 DEF ToolInv, Exclusive, Holds
  <2> QED
    BY <2>3, <2>4 DEF ToolInv
<1> QED
  BY <1>1, <1>2, ToolSteps

LEMMA KindStays == RunTypes /\ AbortFits /\ [Next]_vars => kind' = kind
<1>1. [ToolNext]_toolVars => kind' = kind
  BY DEF ToolNext, ToolStep, Execute, TimeOut, ChildCloses, CommandWrites, ReadFile, Probe,
         ActivateSkill, ResolveAudio, ResolveMedia, Publish, Transcribe, Poll, CallOmni, OpenEdit,
         OpenWrite, ReplaceFile, AbortCalls, LoseCalls, toolVars
<1> QED
  BY <1>1, ToolSteps DEF Resume

LEMMA SkillFitsKept == ToolInv /\ SkillFits /\ RunTypes /\ AbortFits /\ [Next]_vars => SkillFits'
<1> SUFFICES ASSUME ToolInv, SkillFits, RunTypes, AbortFits, [Next]_vars PROVE SkillFits'
  OBVIOUS
<1>0. tool \in [Calls -> Working \cup {"none", "done"}] /\ outcome \in [Calls -> Outcomes]
      /\ kind' = kind
  BY KindStays DEF ToolInv, ToolTypeOK
<1>1. ASSUME NEW c \in Calls,
             \/ \E o \in Outcomes \ {"activated"} : Return(c, o)
             \/ \E place \in Working \ {"skill"} : Goto(c, place)
             \/ kind[c] = "activate_skill" /\ Goto(c, "skill")
             \/ kind[c] = "activate_skill" /\ \E o \in Outcomes : Return(c, o)
      PROVE  SkillFits'
  BY <1>0, <1>1 DEF SkillFits, Return, Answered, Goto
<1>2. ASSUME NEW c \in Calls, NEW cancelled \in BOOLEAN, Execute(c, cancelled)
      PROVE  SkillFits'
  <2>1. kind[c] \in Kinds
    BY DEF ToolInv, ToolTypeOK
  <2>2. \/ \E o \in Outcomes \ {"activated"} : Return(c, o)
        \/ \E place \in Working \ {"skill"} : Goto(c, place)
        \/ kind[c] = "activate_skill" /\ Goto(c, "skill")
    BY <1>2, <2>1
    DEF Execute, Start, StartBash, StartChange, Refuse, Enqueue, Kinds, Outcomes, Working
  <2> QED
    BY <1>1, <2>2
<1>3. ASSUME NEW c \in Calls, TimeOut(c) PROVE SkillFits'
  BY <1>0, <1>3 DEF TimeOut, Answered, SkillFits
<1>4. ASSUME NEW c \in Calls, ActivateSkill(c) PROVE SkillFits'
  <2>1. kind[c] = "activate_skill"
    BY <1>4 DEF ActivateSkill, SkillFits
  <2>2. \E o \in Outcomes : Return(c, o)
    BY <1>4 DEF ActivateSkill, Newly, Outcomes
  <2> QED
    BY <1>1, <2>1, <2>2
<1>5. ASSUME NEW c \in Calls,
             \/ ChildCloses(c) \/ ReadFile(c) \/ Probe(c)
             \/ ResolveAudio(c) \/ ResolveMedia(c) \/ Publish(c)
      PROVE  SkillFits'
  <2>1. \/ \E o \in Outcomes \ {"activated"} : Return(c, o)
        \/ \E place \in Working \ {"skill"} : Goto(c, place)
    BY <1>5 DEF ChildCloses, ReadFile, Probe, ResolveAudio, ResolveMedia, Publish, Outcomes, Working
  <2> QED
    BY <1>1, <2>1
<1>6. ASSUME NEW c \in Calls, \/ Transcribe(c) \/ Poll(c) \/ CallOmni(c)
                              \/ OpenEdit(c) \/ OpenWrite(c) \/ ReplaceFile(c)
      PROVE  SkillFits'
  <2>1. \/ \E o \in Outcomes \ {"activated"} : Return(c, o)
        \/ \E place \in Working \ {"skill"} : Goto(c, place)
    BY <1>6
    DEF Transcribe, Poll, CallOmni, Deliver, RequestFails, Enqueue, OpenEdit, OpenWrite, ReplaceFile,
        Outcomes, Working
  <2> QED
    BY <1>1, <2>1
<1>7. ASSUME \/ AbortCalls \/ LoseCalls \/ Resume \/ UNCHANGED toolVars
             \/ \E c \in Calls : CommandWrites(c)
      PROVE  SkillFits'
  <2>1. outcome' = outcome /\ \A c \in Calls : tool'[c] = "skill" => tool[c] = "skill"
    BY <1>7 DEF AbortCalls, LoseCalls, Resume, toolVars, CommandWrites
  <2> QED
    BY <1>0, <2>1 DEF SkillFits
<1> QED
  BY <1>2, <1>3, <1>4, <1>5, <1>6, <1>7, ToolSteps, Zenon DEF ToolNext, ToolStep

-----------------------------------------------------------------------------
(* The traces.                                                             *)

(* What a step of the loop is to the runs: it writes to the files of its   *)
(* run alone, and settles it when it goes back to being idle.              *)
LoopShape ==
  /\ pc \in AtWork /\ run \in Runs /\ run' = run
  /\ trace' = trace \/ \E e \in Events : Emit(<<e>>)
  /\ \E m : meta' = [meta EXCEPT ![run] = m]
  /\ \/ pc' \in AtWork /\ result' = result
     \/ pc' = "idle" /\ \E v \in Results \ {"none"} : result' = [result EXCEPT ![run] = v]

LEMMA FailShape ==
  ASSUME RunTypes, pc \in AtWork, run' = run, WriteFails \/ trace' = trace,
         Raise \/ Reject \/ CreateFails
  PROVE  LoopShape
<1>1. run \in Runs /\ trace' = trace
  BY DEF RunTypes, WriteFails
<1>2. \E m : meta' = [meta EXCEPT ![run] = m]
  <2>1. CASE meta' = meta
    BY <1>1, <2>1 DEF RunTypes
  <2>2. CASE meta' # meta
    BY <2>2 DEF Raise, Reject, CreateFails
  <2> QED
    BY <2>1, <2>2
<1>3. CASE Raise
  BY <1>1, <1>2, <1>3 DEF Raise, Throw, LoopShape, AtWork
<1>4. CASE Reject \/ CreateFails
  <2>1. Settle("rejected") /\ "rejected" \in Results \ {"none"}
    BY <1>4 DEF Reject, CreateFails, Results
  <2> QED
    BY <1>1, <1>2, <2>1 DEF Settle, LoopShape
<1> QED
  BY <1>3, <1>4

LEMMA LoopShapes == RunTypes /\ LoopStep => LoopShape
<1> SUFFICES ASSUME RunTypes, LoopStep PROVE LoopShape
  OBVIOUS
<1>0. pc \in AtWork /\ run \in Runs /\ run' = run
  <2>1. pc \in AtWork /\ run' = run
    BY DEF LoopStep, StartRun, AppendUser, RequestModel, ModelAnswers, ModelAborted, AllCalled,
           StartCall, JournalResult, CompleteCall, JournalError, HandOff, Finish, EmitTerminal,
           FinalizeRun, AtWork
  <2> QED
    BY <2>1 DEF RunTypes
<1>a. ASSUME meta' = meta PROVE \E m : meta' = [meta EXCEPT ![run] = m]
  BY <1>0, <1>a DEF RunTypes
<1>b. ASSUME Verdict \notin Results \ {"none"} PROVE FALSE
  BY <1>b DEF Verdict, Results, RunTypes
<1>1. CASE WriteFails /\ (Raise \/ Reject \/ CreateFails)
  BY <1>0, <1>1, FailShape
<1>2. CASE ProviderFails
  BY <1>0, <1>2, FailShape DEF ProviderFails
<1>3. CASE ~(WriteFails /\ (Raise \/ Reject \/ CreateFails)) /\ ~ProviderFails
  <2>1. CASE StartRun
    <3>1. Event("run_started", 0) \in Events
      BY EventFits DEF EventTypes
    <3> QED
      BY <1>0, <1>3, <2>1, <3>1 DEF StartRun, LoopShape, AtWork
  <2>2. CASE RequestModel \/ ModelAborted
    <3>1. UNCHANGED <<trace, meta, result>>
      BY <2>2, Zenon DEF RequestModel, ModelAborted
    <3>2. pc' \in {"catch", "model"}
      BY <2>2, Zenon DEF RequestModel, ModelAborted, Throw, Request
    <3> QED
      BY <1>0, <1>a, <3>1, <3>2 DEF LoopShape, AtWork
  <2>3. CASE AppendUser \/ AllCalled \/ JournalResult \/ JournalError \/ HandOff
    <3>1. UNCHANGED <<trace, meta, result>>
      BY <1>3, <2>3 DEF AppendUser, AllCalled, JournalResult, JournalError, HandOff
    <3>2. pc' \in {"ask", "told", "close", "finish"}
      BY <1>3, <2>3 DEF AppendUser, AllCalled, JournalResult, JournalError, HandOff
    <3> QED
      BY <1>0, <1>a, <3>1, <3>2 DEF LoopShape, AtWork
  <2>4. CASE ModelAnswers
    <3>1. pc' \in {"finish", "next"} /\ UNCHANGED <<trace, meta, result>>
      BY <1>3, <2>4 DEF ModelAnswers
    <3> QED
      BY <1>0, <1>a, <3>1 DEF LoopShape, AtWork
  <2>5. CASE StartCall
    <3>1. Event("tool_started", Head(todo)) \in Events
      BY <2>5, EventFits DEF StartCall, EventTypes, RunTypes
    <3>2. UNCHANGED <<meta, result>>
      BY <1>3, <2>5, Zenon DEF StartCall
    <3>3. \/ pc' = "catch" /\ trace' = trace
          \/ pc' = "tool" /\ Emit(<<Event("tool_started", Head(todo))>>)
      BY <1>3, <2>5, Zenon DEF StartCall, Throw
    <3> QED
      BY <1>0, <1>a, <3>1, <3>2, <3>3 DEF LoopShape, AtWork
  <2>6. CASE CompleteCall
    <3>1. Event("tool_completed", call) \in Events
      BY EventFits DEF EventTypes, RunTypes
    <3>2. UNCHANGED <<meta, result>> /\ Emit(<<Event("tool_completed", call)>>)
      BY <1>3, <2>6, Zenon DEF CompleteCall
    <3>3. pc' \in {"catch", "next"}
      BY <1>3, <2>6, Zenon DEF CompleteCall, Throw
    <3> QED
      BY <1>0, <1>a, <3>1, <3>2, <3>3 DEF LoopShape, AtWork
  <2>7. CASE Finish
    BY <1>0, <1>3, <2>7 DEF Finish, LoopShape, AtWork
  <2>8. CASE EmitTerminal
    <3>1. Event(Verdict, 0) \in Events
      BY <1>b, EventFits DEF EventTypes
    <3> QED
      BY <1>0, <1>3, <1>a, <2>8, <3>1 DEF EmitTerminal, LoopShape, AtWork
  <2>9. CASE FinalizeRun
    BY <1>0, <1>3, <1>b, <2>9 DEF FinalizeRun, Settle, LoopShape, AtWork
  <2> QED
    BY <2>1, <2>2, <2>3, <2>4, <2>5, <2>6, <2>7, <2>8, <2>9 DEF LoopStep
<1> QED
  BY <1>1, <1>2, <1>3

(* The other runs keep their files.                                        *)
LEMMA OthersStay ==
  ASSUME RunTypes, LoopShape
  PROVE  \A r \in Runs \ {run} : trace'[r] = trace[r] /\ meta'[r] = meta[r] /\ result'[r] = result[r]
<1>1. run \in Runs
  BY DEF LoopShape
<1>2. \A r \in Runs \ {run} : trace'[r] = trace[r]
  <2>1. CASE trace' = trace
    BY <2>1
  <2>2. ASSUME NEW e \in Events, Emit(<<e>>) PROVE \A r \in Runs \ {run} : trace'[r] = trace[r]
    BY <1>1, <2>2, EmitTypes
  <2> QED
    BY <2>1, <2>2 DEF LoopShape
<1>3. \A r \in Runs \ {run} : meta'[r] = meta[r]
  BY <1>1 DEF LoopShape, RunTypes
<1>4. \A r \in Runs \ {run} : result'[r] = result[r]
  BY <1>1 DEF LoopShape, RunTypes
<1> QED
  BY <1>2, <1>3, <1>4

LEMMA RunsFitKept == RunTypes /\ RunsFit /\ [Next]_vars => RunsFit'
<1> SUFFICES ASSUME RunTypes, RunsFit, [Next]_vars PROVE RunsFit'
  OBVIOUS
<1>0. run \in Nat /\ \A r \in Runs : r \in Nat
  BY BoundsAssumption DEF RunTypes, Runs
<1>1. CASE LoopStep
  <2>1. LoopShape
    BY <1>1, LoopShapes
  <2>2. run \in Runs /\ run' = run
    BY <2>1 DEF LoopShape
  <2>3. result'[run] = "none" <=> pc' \in AtWork
    BY <2>1, <2>2 DEF LoopShape, RunsFit, AtWork, RunTypes
  <2> QED
    BY <1>0, <2>1, <2>2, <2>3, OthersStay DEF RunsFit
<1>2. CASE Send
  <2>1. /\ run' = run + 1 /\ UNCHANGED <<result, meta, trace>> /\ pc = "idle" /\ pc' = "start"
    BY <1>2 DEF Send
  <2>2. run \in Runs => result[run] # "none"
    BY <2>1 DEF RunsFit, AtWork
  <2>3. run + 1 \in Runs => result[run + 1] = "none"
    BY <1>0 DEF RunsFit
  <2> QED
    BY <1>0, <2>1, <2>2, <2>3 DEF RunsFit, AtWork
<1>3. CASE Crash
  <2>1. run' = run /\ pc' = "down" /\ UNCHANGED <<trace, meta>>
    BY <1>3 DEF Crash
  <2>2. \/ pc = "idle" /\ result' = result
        \/ pc \in AtWork /\ run \in Runs /\ result' = [result EXCEPT ![run] = "lost"]
    BY <1>3 DEF Crash, RunTypes, Ended
  <2>3. CASE pc = "idle" /\ result' = result
    BY <2>1, <2>3 DEF RunsFit, AtWork
  <2>4. CASE pc \in AtWork /\ run \in Runs /\ result' = [result EXCEPT ![run] = "lost"]
    <3>1. result'[run] = "lost" /\ \A r \in Runs \ {run} : result'[r] = result[r]
      BY <2>4 DEF RunTypes
    <3> QED
      BY <1>0, <2>1, <2>4, <3>1 DEF RunsFit, AtWork
  <2> QED
    BY <2>2, <2>3, <2>4
<1>4. CASE Resume
  BY <1>4 DEF Resume, RunsFit, AtWork
<1>5. CASE Abort \/ UNCHANGED runVars
  <2>1. UNCHANGED <<run, pc, result, meta, trace>>
    BY <1>5 DEF Abort, runVars
  <2> QED
    BY <2>1 DEF RunsFit
<1> QED
  BY <1>1, <1>2, <1>3, <1>4, <1>5 DEF Next, vars

(* What a trace may go on with, as long as no terminal event is in it.     *)
LEMMA OpenGoesOn ==
  ASSUME NEW t \in Seq(Events), OpenTrace(t), NEW c \in Calls \cup {0}, NEW type \in EventTypes \ Terminal,
         type = "tool_completed" => t[Len(t)] = Event("tool_started", c)
  PROVE  OpenTrace(Append(t, Event(type, c)))
<1> DEFINE e == Event(type, c)
           u == Append(t, e)
<1>1. e \in Events /\ e.type = type /\ e.call = c
  BY EventFits
<1> HIDE DEF e
<1>2. /\ t # <<>> /\ Len(t) \in Nat \ {0} /\ u \in Seq(Events)
      /\ Len(u) = Len(t) + 1 /\ u[Len(t) + 1] = e
      /\ \A i \in 1..Len(t) : u[i] = t[i]
  BY <1>1 DEF OpenTrace
<1>3. u # <<>> /\ u[1].type = "run_started"
  BY <1>2 DEF OpenTrace
<1> HIDE DEF u
<1>4. ASSUME NEW i \in 1..Len(t)
      PROVE  /\ u[i].type \notin Terminal
             /\ u[i].type = "tool_completed" =>
                  \E j \in 1..(i - 1) :
                    u[j] = Event("tool_started", u[i].call)
                    /\ \A k \in (j + 1)..(i - 1) : u[k].call # u[i].call
  <2>1. u[i] = t[i] /\ \A j \in 1..(i - 1) : j \in 1..Len(t) /\ u[j] = t[j]
    BY <1>2
  <2>2. t[i].type \notin Terminal
    BY DEF OpenTrace
  <2>3. ASSUME t[i].type = "tool_completed"
        PROVE  \E j \in 1..(i - 1) :
                 u[j] = Event("tool_started", u[i].call)
                 /\ \A k \in (j + 1)..(i - 1) : u[k].call # u[i].call
    <3>1. PICK j \in 1..(i - 1) :
            t[j] = Event("tool_started", t[i].call)
            /\ \A k \in (j + 1)..(i - 1) : t[k].call # t[i].call
      BY <2>3 DEF OpenTrace
    <3>2. \A k \in (j + 1)..(i - 1) : k \in 1..(i - 1)
      BY <3>1
    <3> QED
      BY <2>1, <3>1, <3>2
  <2> QED
    BY <2>1, <2>2, <2>3
<1>5. ASSUME e.type = "tool_completed"
      PROVE  \E j \in 1..Len(t) :
               u[j] = Event("tool_started", e.call)
               /\ \A k \in (j + 1)..Len(t) : u[k].call # e.call
  <2>1. u[Len(t)] = Event("tool_started", e.call) /\ Len(t) \in 1..Len(t)
    BY <1>1, <1>2, <1>5
  <2>2. \A k \in (Len(t) + 1)..Len(t) : FALSE
    BY <1>2
  <2> QED
    BY <2>1, <2>2
<1>6. \A i \in 1..(Len(t) + 1) : i \in 1..Len(t) \/ i = Len(t) + 1
  BY <1>2
<1>7. Len(t) + 1 - 1 = Len(t) /\ DOMAIN u = 1..(Len(t) + 1)
  BY <1>2
<1> SUFFICES ASSUME NEW i \in DOMAIN u
             PROVE  /\ u[i].type \notin Terminal
                    /\ u[i].type = "tool_completed" =>
                         \E j \in 1..(i - 1) :
                           u[j] = Event("tool_started", u[i].call)
                           /\ \A k \in (j + 1)..(i - 1) : u[k].call # u[i].call
  BY <1>3 DEF OpenTrace, u, e
<1>8. CASE i \in 1..Len(t)
  BY <1>4, <1>8
<1>9. CASE i = Len(t) + 1
  BY <1>1, <1>2, <1>5, <1>7, <1>9
<1> QED
  BY <1>6, <1>7, <1>8, <1>9

LEMMA OpenCloses ==
  ASSUME NEW t \in Seq(Events), OpenTrace(t), NEW verdict \in Terminal
  PROVE  Closed(Append(t, Event(verdict, 0)), verdict)
<1> DEFINE e == Event(verdict, 0)
           u == Append(t, e)
<1>1. e \in Events /\ e.type = verdict
  BY EventFits DEF Terminal, EventTypes, Results
<1> HIDE DEF e
<1>2. /\ t # <<>> /\ Len(t) \in Nat \ {0} /\ u \in Seq(Events)
      /\ Len(u) = Len(t) + 1 /\ u[Len(t) + 1] = e
      /\ \A i \in 1..Len(t) : u[i] = t[i]
  BY <1>1 DEF OpenTrace
<1>3. u # <<>> /\ u[1].type = "run_started"
  BY <1>2 DEF OpenTrace
<1> HIDE DEF u
<1>4. ASSUME NEW i \in 1..Len(t), t[i].type = "tool_completed"
      PROVE  \E j \in 1..(i - 1) :
               u[j] = Event("tool_started", u[i].call)
               /\ \A k \in (j + 1)..(i - 1) : u[k].call # u[i].call
  <2>1. u[i] = t[i] /\ \A j \in 1..(i - 1) : j \in 1..Len(t) /\ u[j] = t[j]
    BY <1>2
  <2>2. PICK j \in 1..(i - 1) :
          t[j] = Event("tool_started", t[i].call)
          /\ \A k \in (j + 1)..(i - 1) : t[k].call # t[i].call
    BY <1>4 DEF OpenTrace
  <2>3. \A k \in (j + 1)..(i - 1) : k \in 1..(i - 1)
    BY <2>2
  <2> QED
    BY <2>1, <2>2, <2>3
<1>5. \A i \in 1..Len(t) : u[i].type \notin Terminal
  BY <1>2 DEF OpenTrace
<1>6. DOMAIN u = 1..(Len(t) + 1) /\ \A i \in 1..(Len(t) + 1) : i \in 1..Len(t) \/ i = Len(t) + 1
  BY <1>2
<1>7. u[Len(t) + 1].type # "tool_completed"
  BY <1>1, <1>2 DEF Terminal
<1>8. WellFormed(u)
  <2> SUFFICES ASSUME NEW i \in DOMAIN u
               PROVE  /\ u[i].type \in Terminal => i = Len(u)
                      /\ u[i].type = "tool_completed" =>
                           \E j \in 1..(i - 1) :
                             u[j] = Event("tool_started", u[i].call)
                             /\ \A k \in (j + 1)..(i - 1) : u[k].call # u[i].call
    BY <1>3 DEF WellFormed
  <2>1. CASE i \in 1..Len(t)
    BY <1>2, <1>4, <1>5, <2>1
  <2>2. CASE i = Len(t) + 1
    BY <1>2, <1>7, <2>2
  <2> QED
    BY <1>6, <2>1, <2>2
<1>9. u[Len(u)].type = verdict
  BY <1>1, <1>2
<1> QED
  BY <1>8, <1>9 DEF Closed, u, e

(* A step that tells nobody that the run has ended.                        *)
LEMMA NothingTold ==
  ASSUME RunTypes, LoopShape, TraceTellsTheRun,
         result'[run] \notin Terminal, meta'[run] \notin Terminal
  PROVE  TraceTellsTheRun'
  BY OthersStay DEF TraceTellsTheRun, LoopShape

LEMMA InitTraceFits == Init => TraceFits
<1> SUFFICES ASSUME Init PROVE TraceFits
  OBVIOUS
<1>1. pc = "idle" /\ \A r \in Runs : result[r] = "none" /\ meta[r] = "absent"
  BY DEF Init
<1> QED
  BY <1>1 DEF TraceFits, TraceTellsTheRun, Terminal, AtWork

LEMMA LoopTraceFits == RunTypes /\ RunsFit /\ TraceFits /\ LoopStep => TraceFits'
<1> SUFFICES ASSUME RunTypes, RunsFit, TraceFits, LoopStep PROVE TraceFits'
  OBVIOUS
<1>0. LoopShape
  BY LoopShapes
<1>1. /\ pc \in AtWork /\ run \in Runs /\ run' = run
      /\ result[run] = "none" /\ meta[run] \notin Terminal /\ trace[run] \in Seq(Events)
      /\ result \in [Runs -> Results] /\ DOMAIN meta = Runs
  BY <1>0 DEF LoopShape, RunsFit, TraceFits, RunTypes
<1>2. pc \notin {"start", "finalize"} => OpenTrace(trace[run])
  BY <1>1 DEF TraceFits
(* A step inside of the loop which says nothing final, and emits nothing. *)
<1>3. ASSUME UNCHANGED <<trace, result>>, meta'[run] \notin Terminal, pc \notin {"start", "finalize"},
             pc' \in AtWork \ {"start", "finalize"},
             pc' \in {"tool", "told"} => pc \in {"tool", "told"} /\ call' = call
      PROVE  TraceFits'
  <2>1. TraceTellsTheRun'
    BY <1>0, <1>1, <1>3, NothingTold DEF TraceFits, Terminal
  <2> QED
    BY <1>1, <1>2, <1>3, <2>1 DEF TraceFits
(* One after which the send is rejected.                                   *)
<1>4. ASSUME trace' = trace, Reject \/ CreateFails PROVE TraceFits'
  <2>1. pc' = "idle" /\ result'[run] = "rejected"
    BY <1>1, <1>4 DEF Reject, CreateFails, Settle
  <2>2. meta'[run] \notin Terminal
    BY <1>1, <1>4 DEF Reject, CreateFails, Terminal
  <2>3. TraceTellsTheRun'
    BY <1>0, <2>1, <2>2, NothingTold DEF TraceFits, Terminal
  <2> QED
    BY <2>1, <2>3 DEF TraceFits, AtWork
<1>5. ASSUME UNCHANGED <<trace, result, meta>>, pc' = "catch", pc \notin {"start", "finalize"}
      PROVE  TraceFits'
  BY <1>1, <1>3, <1>5 DEF AtWork
<1>6. ASSUME NEW e \in Events, Emit(<<e>>), result' = result, meta'[run] \notin Terminal,
             OpenTrace(Append(trace[run], e)), pc' \in AtWork \ {"start", "finalize", "told"},
             pc' = "tool" => e = Event("tool_started", call')
      PROVE  TraceFits'
  <2>1. TraceTellsTheRun'
    BY <1>0, <1>1, <1>6, NothingTold DEF TraceFits, Terminal
  <2>2. trace'[run] = Append(trace[run], e)
    BY <1>1, <1>6, EmitTypes
  <2>3. trace'[run][Len(trace'[run])] = e
    BY <1>1, <2>2
  <2> QED
    BY <1>1, <1>6, <2>1, <2>2, <2>3 DEF TraceFits
<1>7. CASE StartRun
  <2>1. CASE WriteFails /\ CreateFails
    BY <1>4, <2>1 DEF WriteFails
  <2>2. CASE ~(WriteFails /\ CreateFails)
    <3>1. /\ pc = "start" /\ pc' = "user" /\ meta'[run] = "running" /\ result' = result
          /\ Emit(<<Event("run_started", 0)>>)
      BY <1>1, <1>7, <2>2 DEF StartRun
    <3>2. Event("run_started", 0) \in Events /\ Event("run_started", 0).type = "run_started"
      BY EventFits DEF EventTypes
    <3>3. trace[run] = <<>>
      BY <3>1 DEF TraceFits
    <3>4. OpenTrace(Append(trace[run], Event("run_started", 0)))
      BY <3>2, <3>3 DEF OpenTrace, Terminal
    <3> QED
      BY <1>6, <3>1, <3>2, <3>4 DEF AtWork, Terminal
  <2> QED
    BY <2>1, <2>2
<1>8. CASE AppendUser \/ JournalError \/ HandOff
  <2>1. CASE WriteFails /\ Reject
    BY <1>4, <2>1 DEF WriteFails
  <2>2. CASE ~(WriteFails /\ Reject)
    <3>1. UNCHANGED <<trace, result, meta>> /\ pc' \in {"ask", "close", "finish"}
          /\ pc \notin {"start", "finalize"}
      BY <1>8, <2>2 DEF AppendUser, JournalError, HandOff
    <3> QED
      BY <1>1, <1>3, <3>1 DEF AtWork
  <2> QED
    BY <2>1, <2>2
<1>9. CASE RequestModel \/ ModelAborted \/ AllCalled
  <2>1. UNCHANGED <<trace, result, meta>> /\ pc \notin {"start", "finalize"}
    BY <1>9, Zenon DEF RequestModel, ModelAborted, AllCalled
  <2>2. pc' \in {"catch", "model", "ask"}
    BY <1>9, Zenon DEF RequestModel, ModelAborted, AllCalled, Throw, Request
  <2> QED
    BY <1>1, <1>3, <2>1, <2>2 DEF AtWork
<1>10. CASE ModelAnswers
  <2>1. CASE ProviderFails \/ (WriteFails /\ Raise)
    BY <1>5, <1>10, <2>1 DEF ModelAnswers, ProviderFails, WriteFails, Raise, Throw
  <2>2. CASE ~ProviderFails /\ ~(WriteFails /\ Raise)
    <3>1. pc = "model" /\ pc' \in {"finish", "next"} /\ UNCHANGED <<trace, meta, result>>
      BY <1>10, <2>2 DEF ModelAnswers
    <3> QED
      BY <1>1, <1>3, <3>1 DEF AtWork
  <2> QED
    BY <2>1, <2>2
<1>11. CASE StartCall
  <2>1. pc = "next" /\ UNCHANGED <<meta, result>>
    BY <1>11, Zenon DEF StartCall, Raise
  <2>2. \/ pc' = "catch" /\ trace' = trace
        \/ pc' = "tool" /\ call' = Head(todo) /\ Emit(<<Event("tool_started", Head(todo))>>)
    BY <1>11, Zenon DEF StartCall, Raise, WriteFails, Throw
  <2>3. CASE pc' = "catch" /\ trace' = trace
    BY <1>5, <2>1, <2>3
  <2>4. CASE pc' = "tool" /\ call' = Head(todo) /\ Emit(<<Event("tool_started", Head(todo))>>)
    <3>1. Head(todo) \in Calls
      BY <1>11 DEF StartCall, RunTypes
    <3>2. Event("tool_started", Head(todo)) \in Events
      BY <3>1, EventFits DEF EventTypes
    <3>3. OpenTrace(Append(trace[run], Event("tool_started", Head(todo))))
      BY <1>1, <1>2, <2>1, <3>1, OpenGoesOn DEF EventTypes, Terminal
    <3> QED
      BY <1>1, <1>6, <2>1, <2>4, <3>2, <3>3 DEF AtWork
  <2> QED
    BY <2>2, <2>3, <2>4
<1>12. CASE JournalResult
  <2>1. pc = "tool" /\ UNCHANGED <<trace, meta, result>>
    BY <1>12, Zenon DEF JournalResult, Raise, WriteFails
  <2>2. pc' = "catch" \/ (pc' = "told" /\ call' = call)
    BY <1>12, Zenon DEF JournalResult, Raise, Throw
  <2> QED
    BY <1>1, <1>3, <2>1, <2>2 DEF AtWork
<1>13. CASE CompleteCall
  <2>1. pc = "told" /\ UNCHANGED <<meta, result>>
    BY <1>13, Zenon DEF CompleteCall, Raise
  <2>2. CASE WriteFails /\ Raise
    BY <1>5, <2>1, <2>2 DEF WriteFails, Raise, Throw
  <2>3. CASE ~(WriteFails /\ Raise)
    <3>1. Emit(<<Event("tool_completed", call)>>)
      BY <1>13, <2>3, Zenon DEF CompleteCall
    <3>2. pc' \in {"catch", "next"}
      BY <1>13, <2>3, Zenon DEF CompleteCall, Throw
    <3>3. call \in Calls /\ trace[run][Len(trace[run])] = Event("tool_started", call)
      BY <2>1 DEF TraceFits, RunTypes
    <3>4. Event("tool_completed", call) \in Events
      BY <3>3, EventFits DEF EventTypes
    <3>5. OpenTrace(Append(trace[run], Event("tool_completed", call)))
      BY <1>1, <1>2, <2>1, <3>3, OpenGoesOn DEF EventTypes, Terminal
    <3> QED
      BY <1>1, <1>6, <2>1, <3>1, <3>2, <3>4, <3>5 DEF AtWork
  <2> QED
    BY <2>2, <2>3
<1>14. CASE Finish
  <2>1. CASE WriteFails /\ Reject
    BY <1>4, <2>1 DEF WriteFails
  <2>2. CASE ~(WriteFails /\ Reject)
    <3>1. /\ pc = "finish" /\ pc' = "close" /\ meta'[run] = "finalizing"
          /\ UNCHANGED <<trace, result>>
      BY <1>1, <1>14, <2>2 DEF Finish, StatusAtEnd
    <3> QED
      BY <1>1, <1>3, <3>1 DEF AtWork, Terminal
  <2> QED
    BY <2>1, <2>2
<1>15. CASE EmitTerminal
  <2>1. CASE WriteFails /\ Reject
    BY <1>4, <2>1 DEF WriteFails
  <2>2. CASE ~(WriteFails /\ Reject)
    <3>1. /\ pc = "close" /\ pc' = "finalize" /\ UNCHANGED <<meta, result, cause>>
          /\ Emit(<<Event(Verdict, 0)>>)
      BY <1>15, <2>2 DEF EmitTerminal
    <3>2. Verdict \in Terminal /\ Verdict' = Verdict
      BY <3>1 DEF Verdict, Terminal, RunTypes
    <3>3. Event(Verdict, 0) \in Events
      BY <3>2, EventFits DEF EventTypes, Terminal, Results
    <3>4. trace'[run] = Append(trace[run], Event(Verdict, 0))
      BY <1>1, <3>1, <3>3, EmitTypes
    <3>5. Closed(trace'[run], Verdict)
      BY <1>1, <1>2, <3>1, <3>2, <3>4, OpenCloses
    <3>6. TraceTellsTheRun'
      BY <1>0, <1>1, <3>1, NothingTold DEF TraceFits, Terminal
    <3> QED
      BY <1>1, <3>1, <3>2, <3>5, <3>6 DEF TraceFits
  <2> QED
    BY <2>1, <2>2
<1>16. CASE FinalizeRun
  <2>1. CASE WriteFails /\ Reject
    BY <1>4, <2>1 DEF WriteFails
  <2>2. CASE ~(WriteFails /\ Reject)
    <3>1. /\ pc = "finalize" /\ pc' = "idle" /\ trace' = trace
          /\ meta'[run] = Verdict /\ result'[run] = Verdict
      BY <1>1, <1>16, <2>2 DEF FinalizeRun, Settle
    <3>2. Closed(trace'[run], Verdict)
      BY <3>1 DEF TraceFits
    <3>3. TraceTellsTheRun'
      BY <1>0, <1>1, <3>1, <3>2, OthersStay DEF TraceFits, TraceTellsTheRun, Closed
    <3> QED
      BY <3>1, <3>3 DEF TraceFits, AtWork
  <2> QED
    BY <2>1, <2>2
<1> QED
  BY <1>7, <1>8, <1>9, <1>10, <1>11, <1>12, <1>13, <1>14, <1>15, <1>16 DEF LoopStep

LEMMA TraceFitsKept == RunTypes /\ RunsFit /\ TraceFits /\ [Next]_vars => TraceFits'
<1> SUFFICES ASSUME RunTypes, RunsFit, TraceFits, [Next]_vars PROVE TraceFits'
  OBVIOUS
<1>1. CASE LoopStep
  BY <1>1, LoopTraceFits
<1>2. CASE Send
  <2>1. pc' = "start" /\ run' = run + 1 /\ run + 1 \in Runs /\ UNCHANGED <<trace, meta, result>>
    BY <1>2, BoundsAssumption DEF Send, RunTypes, Runs
  <2>2. run + 1 > run
    BY DEF RunTypes
  <2>3. trace[run + 1] = <<>> /\ meta[run + 1] = "absent"
    BY <2>1, <2>2 DEF RunsFit
  <2> QED
    BY <2>1, <2>3 DEF TraceFits, TraceTellsTheRun, Terminal
<1>3. CASE Crash
  <2>1. pc' = "down" /\ UNCHANGED <<trace, meta>>
    BY <1>3 DEF Crash
  <2>2. \A r \in Runs : result'[r] = result[r] \/ result'[r] = "lost"
    BY <1>3 DEF Crash, RunTypes
  <2>3. TraceTellsTheRun'
    BY <2>1, <2>2 DEF TraceFits, TraceTellsTheRun, Terminal
  <2> QED
    BY <2>1, <2>3 DEF TraceFits, AtWork
<1>4. CASE Resume
  <2>1. pc' \in {"corrupted", "idle"} /\ UNCHANGED <<trace, meta, result>>
    BY <1>4 DEF Resume
  <2> QED
    BY <2>1 DEF TraceFits, TraceTellsTheRun, AtWork
<1>5. CASE Abort \/ UNCHANGED runVars
  <2>1. UNCHANGED <<trace, meta, result, run, pc, call, cause>>
    BY <1>5 DEF Abort, runVars
  <2> QED
    BY <2>1 DEF TraceFits, TraceTellsTheRun, Verdict
<1> QED
  BY <1>1, <1>2, <1>3, <1>4, <1>5 DEF Next, vars

LEMMA InitRunsFit == Init => RunsFit
<1> SUFFICES ASSUME Init PROVE RunsFit
  OBVIOUS
<1>1. /\ pc = "idle" /\ run = 0
      /\ \A r \in Runs : result[r] = "none" /\ meta[r] = "absent" /\ trace[r] = <<>> /\ r \in Nat \ {0}
  BY BoundsAssumption DEF Init, Runs
<1> QED
  BY <1>1 DEF RunsFit

(* Whoever asks about a run that is over is told the truth: its trace is   *)
(* whole and ends with what the send came to, and meta.json does not say   *)
(* so before.                                                              *)
THEOREM TraceIsTrue == Spec => []TraceTellsTheRun
<1> DEFINE Inv == RunTypes /\ RunsFit /\ TraceFits
<1>1. Init => Inv
  BY InitRunTypes, InitRunsFit, InitTraceFits
<1>2. Inv /\ [Next]_vars => Inv'
  BY RunTypesKept, RunsFitKept, TraceFitsKept
<1>3. Inv => TraceTellsTheRun
  BY DEF TraceFits
<1> QED
  BY <1>1, <1>2, <1>3, PTL DEF Spec

LEMMA InitTools == Init => ToolInv /\ AbortFits
  BY ToolInitInv DEF Init, AbortFits

(* The same of the conversation, whose process can end and whose next one  *)
(* takes the file as it is; a command it has started may outlive it.       *)
THEOREM ConversationLosesNoEdit == Spec => EditsCompose
<1> DEFINE Composed ==
      file' # file =>
        \/ \E c \in commands : c \in file' /\ UNCHANGED tool
        \/ \E c \in Calls :
             /\ tool[c] = "change" /\ tool' = [tool EXCEPT ![c] = "done"]
             /\ kind[c] # "edit" => file' = {c}
             /\ kind[c] = "edit" /\ c \notin overtaken => file' = file \cup {c}
           Inv == RunTypes /\ ToolInv /\ AbortFits
<1>1. Init => Inv
  BY InitRunTypes, InitTools
<1>2. Inv /\ [Next]_vars => Inv'
  BY RunTypesKept, ToolInvKept, AbortFitsKept
<1>3. Inv /\ [Next]_vars => [Composed]_toolVars
  <2>1. ASSUME Inv, [Next]_vars PROVE [ToolNext]_toolVars \/ Resume
    BY <2>1, ToolSteps
  <2>2. ASSUME Resume PROVE Composed
    BY <2>2 DEF Resume
  <2> QED
    BY <2>1, <2>2, ComposedSteps
<1> QED
  BY <1>1, <1>2, <1>3, PTL DEF Spec, EditsCompose

-----------------------------------------------------------------------------
(* The journal, as it was and as it is after a step.                       *)
SaidIn(s, i, type, c) == s[i].type = type /\ s[i].call = c

OpenIn(s, i) ==
  {c \in Calls : \E j \in 1..(i - 1) :
     SaidIn(s, j, "tool_call", c) /\ \A k \in j..(i - 1) : ~SaidIn(s, k, "tool_result", c)}

PendingIn(s, i) ==
  UNION {{c \in ToSet(s[j].calls) : \A k \in j..(i - 1) : ~SaidIn(s, k, "tool_call", c)} :
           j \in {j \in 1..(i - 1) : /\ s[j].type = "assistant"
                                     /\ \A k \in (j + 1)..(i - 1) : s[k].type \notin {"user", "assistant"}}}

LEMMA ReadsOf ==
  ASSUME NEW i
  PROVE  /\ Open(i) = OpenIn(journal, i) /\ Pending(i) = PendingIn(journal, i)
         /\ Open(i)' = OpenIn(journal', i) /\ Pending(i)' = PendingIn(journal', i)
<1>1. Open(i) = OpenIn(journal, i)
  BY DEF Open, OpenIn, Said, SaidIn
<1>2. Pending(i) = PendingIn(journal, i)
  BY DEF Pending, PendingIn, Said, SaidIn, IsMessage
<1>3. Open(i)' = OpenIn(journal', i)
  BY DEF Open, OpenIn, Said, SaidIn
<1>4. Pending(i)' = PendingIn(journal', i)
  BY DEF Pending, PendingIn, Said, SaidIn, IsMessage
<1> QED
  BY <1>1, <1>2, <1>3, <1>4

LEMMA ReadsOfEnd ==
  /\ Open(End) = OpenIn(journal, End) /\ Pending(End) = PendingIn(journal, End)
  /\ Open(End)' = OpenIn(journal', End') /\ Pending(End)' = PendingIn(journal', End')
<1>1. Open(End) = OpenIn(journal, End)
  BY DEF Open, OpenIn, Said, SaidIn
<1>2. Pending(End) = PendingIn(journal, End)
  BY DEF Pending, PendingIn, Said, SaidIn, IsMessage
<1>3. Open(End)' = OpenIn(journal', End')
  BY DEF Open, OpenIn, Said, SaidIn
<1>4. Pending(End)' = PendingIn(journal', End')
  BY DEF Pending, PendingIn, Said, SaidIn, IsMessage
<1> QED
  BY <1>1, <1>2, <1>3, <1>4

(* What stands before a line is read the same, whatever comes behind.      *)
LEMMA ReadsStay ==
  ASSUME NEW s, NEW u, NEW n \in Nat, \A i \in 1..(n - 1) : u[i] = s[i]
  PROVE  OpenIn(u, n) = OpenIn(s, n) /\ PendingIn(u, n) = PendingIn(s, n)
<1>0. \A j \in 1..(n - 1) : \A k : (k \in j..(n - 1) \/ k \in (j + 1)..(n - 1)) => k \in 1..(n - 1)
  OBVIOUS
<1>1. OpenIn(u, n) = OpenIn(s, n)
  <2>1. \A c, type : \A i \in 1..(n - 1) : SaidIn(u, i, type, c) <=> SaidIn(s, i, type, c)
    BY DEF SaidIn
  <2> QED
    BY <1>0, <2>1 DEF OpenIn
<1>2. \A c : c \in PendingIn(u, n) <=>
        \E j \in 1..(n - 1) :
          /\ u[j].type = "assistant"
          /\ \A k \in (j + 1)..(n - 1) : u[k].type \notin {"user", "assistant"}
          /\ c \in ToSet(u[j].calls) /\ \A k \in j..(n - 1) : ~SaidIn(u, k, "tool_call", c)
  BY DEF PendingIn
<1>3. \A c : c \in PendingIn(s, n) <=>
        \E j \in 1..(n - 1) :
          /\ s[j].type = "assistant"
          /\ \A k \in (j + 1)..(n - 1) : s[k].type \notin {"user", "assistant"}
          /\ c \in ToSet(s[j].calls) /\ \A k \in j..(n - 1) : ~SaidIn(s, k, "tool_call", c)
  BY DEF PendingIn
<1>4. ASSUME NEW c PROVE c \in PendingIn(u, n) <=> c \in PendingIn(s, n)
  BY <1>0, <1>2, <1>3 DEF SaidIn
<1> QED
  BY <1>1, <1>4

(* What one more line opens, closes and asks for.                          *)
LEMMA OpenNext ==
  ASSUME NEW u, NEW n \in Nat \ {0}
  PROVE  /\ u[n].type = "tool_call" /\ u[n].call \in Calls => OpenIn(u, n + 1) = OpenIn(u, n) \cup {u[n].call}
         /\ u[n].type = "tool_result" => OpenIn(u, n + 1) = OpenIn(u, n) \ {u[n].call}
         /\ u[n].type \notin {"tool_call", "tool_result"} => OpenIn(u, n + 1) = OpenIn(u, n)
<1>1. \A j : j \in 1..(n + 1 - 1) <=> j \in 1..(n - 1) \/ j = n
  OBVIOUS
<1>2. \A j \in 1..(n - 1) : \A k : k \in j..(n + 1 - 1) <=> k \in j..(n - 1) \/ k = n
  OBVIOUS
<1>3. \A k : k \in n..(n + 1 - 1) <=> k = n
  OBVIOUS
<1>4. ASSUME NEW c \in Calls
      PROVE  c \in OpenIn(u, n + 1) <=>
               \/ c \in OpenIn(u, n) /\ ~SaidIn(u, n, "tool_result", c)
               \/ SaidIn(u, n, "tool_call", c)
  <2>1. SaidIn(u, n, "tool_call", c) => ~SaidIn(u, n, "tool_result", c)
    BY DEF SaidIn
  <2>2. ASSUME NEW j \in 1..(n - 1)
        PROVE  (\A k \in j..(n + 1 - 1) : ~SaidIn(u, k, "tool_result", c)) <=>
                 (\A k \in j..(n - 1) : ~SaidIn(u, k, "tool_result", c)) /\ ~SaidIn(u, n, "tool_result", c)
    BY <1>2, Zenon
  <2>3. (\A k \in n..(n + 1 - 1) : ~SaidIn(u, k, "tool_result", c)) <=> ~SaidIn(u, n, "tool_result", c)
    BY <1>3
  <2>4. c \in OpenIn(u, n + 1) <=>
          \E j \in 1..(n + 1 - 1) : /\ SaidIn(u, j, "tool_call", c)
                                    /\ \A k \in j..(n + 1 - 1) : ~SaidIn(u, k, "tool_result", c)
    BY DEF OpenIn
  <2>5. c \in OpenIn(u, n) <=>
          \E j \in 1..(n - 1) : /\ SaidIn(u, j, "tool_call", c)
                                /\ \A k \in j..(n - 1) : ~SaidIn(u, k, "tool_result", c)
    BY Zenon DEF OpenIn
  <2> QED
    BY <1>1, <2>1, <2>2, <2>3, <2>4, <2>5, Zenon
<1>5. OpenIn(u, n) \subseteq Calls /\ OpenIn(u, n + 1) \subseteq Calls
  BY DEF OpenIn
<1> QED
  BY <1>4, <1>5 DEF SaidIn

LEMMA PendingNext ==
  ASSUME NEW u, NEW n \in Nat \ {0}
  PROVE  /\ u[n].type = "assistant" => PendingIn(u, n + 1) = ToSet(u[n].calls)
         /\ u[n].type = "user" => PendingIn(u, n + 1) = {}
         /\ u[n].type = "tool_call" => PendingIn(u, n + 1) = PendingIn(u, n) \ {u[n].call}
         /\ u[n].type \notin {"user", "assistant", "tool_call"} => PendingIn(u, n + 1) = PendingIn(u, n)
<1> DEFINE Asks(j, m) == /\ u[j].type = "assistant"
                         /\ \A k \in (j + 1)..m : u[k].type \notin {"user", "assistant"}
           Left(j, m, c) == c \in ToSet(u[j].calls) /\ \A k \in j..m : ~SaidIn(u, k, "tool_call", c)
<1>1. \A j : j \in 1..(n + 1 - 1) <=> j \in 1..(n - 1) \/ j = n
  OBVIOUS
<1>2. \A j \in 1..(n - 1) : \A k : /\ k \in j..(n + 1 - 1) <=> k \in j..(n - 1) \/ k = n
                                   /\ k \in (j + 1)..(n + 1 - 1) <=> k \in (j + 1)..(n - 1) \/ k = n
  OBVIOUS
<1>3. \A k : (k \in n..(n + 1 - 1) <=> k = n) /\ k \notin (n + 1)..(n + 1 - 1)
  OBVIOUS
<1>4. \A c : c \in PendingIn(u, n + 1) <=> \E j \in 1..(n + 1 - 1) : Asks(j, n + 1 - 1) /\ Left(j, n + 1 - 1, c)
  BY DEF PendingIn
<1>5. \A c : c \in PendingIn(u, n) <=> \E j \in 1..(n - 1) : Asks(j, n - 1) /\ Left(j, n - 1, c)
  BY DEF PendingIn
<1>6. \A j \in 1..(n - 1) : Asks(j, n + 1 - 1) <=> Asks(j, n - 1) /\ u[n].type \notin {"user", "assistant"}
  BY <1>2
<1>7. \A j \in 1..(n - 1) : \A c : Left(j, n + 1 - 1, c) <=> Left(j, n - 1, c) /\ ~SaidIn(u, n, "tool_call", c)
  BY <1>2, Zenon
<1>8. Asks(n, n + 1 - 1) <=> u[n].type = "assistant"
  BY <1>3
<1>9. \A c : Left(n, n + 1 - 1, c) <=> c \in ToSet(u[n].calls) /\ ~SaidIn(u, n, "tool_call", c)
  BY <1>3
<1> HIDE DEF Asks, Left
<1>10. ASSUME NEW c
       PROVE  c \in PendingIn(u, n + 1) <=>
                \/ /\ c \in PendingIn(u, n) /\ u[n].type \notin {"user", "assistant"}
                   /\ ~SaidIn(u, n, "tool_call", c)
                \/ /\ u[n].type = "assistant" /\ c \in ToSet(u[n].calls)
                   /\ ~SaidIn(u, n, "tool_call", c)
  BY <1>1, <1>4, <1>5, <1>6, <1>7, <1>8, <1>9, Zenon
<1>11. CASE u[n].type = "assistant"
  BY <1>10, <1>11 DEF SaidIn
<1>12. CASE u[n].type = "user"
  BY <1>10, <1>12 DEF SaidIn
<1>13. CASE u[n].type = "tool_call"
  BY <1>10, <1>13 DEF SaidIn
<1>14. CASE u[n].type \notin {"user", "assistant", "tool_call"}
  BY <1>10, <1>14 DEF SaidIn
<1> QED
  BY <1>11, <1>12, <1>13, <1>14

(* A settled run stays what it came to, and a fault is not forgotten.      *)
SettledStays ==
  /\ \A r \in Runs : result[r] # "none" => result'[r] = result[r]
  /\ faults \subseteq faults'

LEMMA ResultsStay == RunTypes /\ RunsFit /\ [Next]_vars => SettledStays
<1> SUFFICES ASSUME RunTypes, RunsFit, [Next]_vars PROVE SettledStays
  OBVIOUS
<1>1. faults \subseteq faults'
  <2>1. faults' = faults \/ faults' = faults \cup {run}
    <3>1. ASSUME \/ Send \/ StartRun \/ AppendUser \/ RequestModel \/ ModelAnswers \/ ModelAborted
                 \/ AllCalled \/ StartCall
          PROVE  faults' = faults \/ faults' = faults \cup {run}
      BY <3>1, Zenon DEF Send, StartRun, AppendUser, RequestModel, ModelAnswers, ModelAborted,
         AllCalled, StartCall, WriteFails, ProviderFails
    <3>2. ASSUME \/ JournalResult \/ CompleteCall \/ JournalError \/ HandOff \/ Finish
                 \/ EmitTerminal \/ FinalizeRun \/ Abort \/ Crash \/ Resume \/ UNCHANGED runVars
          PROVE  faults' = faults \/ faults' = faults \cup {run}
      BY <3>2, Zenon DEF JournalResult, CompleteCall, JournalError, HandOff, Finish, EmitTerminal,
         FinalizeRun, Abort, Crash, Resume, WriteFails, runVars
    <3> QED
      BY <3>1, <3>2 DEF Next, LoopStep, vars, runVars
  <2> QED
    BY <2>1
<1>2. ASSUME NEW r \in Runs, result[r] # "none" PROVE result'[r] = result[r]
  <2>1. CASE LoopStep
    <3>1. LoopShape
      BY <2>1, LoopShapes
    <3>2. r # run
      BY <1>2, <3>1 DEF LoopShape, RunsFit
    <3> QED
      BY <3>1, <3>2, OthersStay
  <2>2. CASE Crash
    <3>1. pc # "idle" => run \in Runs /\ result[run] = "none"
      BY <2>2 DEF Crash, RunTypes, RunsFit, AtWork, Ended
    <3> QED
      BY <1>2, <2>2, <3>1 DEF Crash, RunTypes
  <2>3. CASE Send \/ Abort \/ Resume \/ UNCHANGED runVars
    BY <2>3 DEF Send, Abort, Resume, runVars
  <2> QED
    BY <2>1, <2>2, <2>3 DEF Next, vars
<1> QED
  BY <1>1, <1>2 DEF SettledStays

(* What a line more does to what a strict load would say.                  *)
Wrong(l, o, p, before) ==
  \/ l.type = "torn"
  \/ l.type \in {"user", "assistant"} /\ o \cup p # {}
  \/ l.type = "tool_call" /\ l.call \notin p
  \/ l.type = "tool_result" /\ l.call \notin o
  \/ l.type = "skill_activation" /\ ~before

Grown(l) ==
  /\ End \in Nat \ {0} /\ End' = End + 1
  /\ DOMAIN journal = 1..(End - 1) /\ DOMAIN journal' = 1..End
  /\ journal'[End] = l /\ \A i \in 1..(End - 1) : journal'[i] = journal[i]

LEMMA JournalGrown ==
  ASSUME RunTypes, run \in Runs, NEW l \in Lines, Journal(<<l>>)
  PROVE  Grown(l)
<1>1. journal \in Seq(Lines) /\ journal' \in Seq(Lines)
  BY JournalTypes DEF RunTypes
<1> QED
  BY <1>1, JournalTypes DEF Grown, End

LEMMA MisplacedStays ==
  ASSUME NEW l, Grown(l), kind' = kind
  PROVE  /\ \A i \in 1..End : Open(i)' = Open(i) /\ Pending(i)' = Pending(i)
         /\ \A i \in 1..(End - 1) : Misplaced(i)' <=> Misplaced(i)
<1>0. End \in Nat \ {0} /\ \A i \in 1..(End - 1) : journal'[i] = journal[i]
  BY DEF Grown
<1> DEFINE n == End
<1> HIDE DEF n
<1>a. n \in Nat \ {0} /\ n = End /\ \A i \in 1..(n - 1) : journal'[i] = journal[i]
  BY <1>0 DEF n
<1>1. ASSUME NEW i \in 1..n PROVE Open(i)' = Open(i) /\ Pending(i)' = Pending(i)
  <2>1. i \in Nat /\ \A k \in 1..(i - 1) : journal'[k] = journal[k]
    BY <1>a
  <2> QED
    BY <2>1, ReadsStay, ReadsOf
<1>2. ASSUME NEW i \in 1..(n - 1) PROVE Misplaced(i)' <=> Misplaced(i)
  <2>1. Open(i)' = Open(i) /\ Pending(i)' = Pending(i)
    BY <1>a, <1>1
  <2>2. journal'[i] = journal[i] /\ (i > 1 => journal'[i - 1] = journal[i - 1])
    BY <1>a
  <2> QED
    BY <2>1, <2>2 DEF Misplaced, IsMessage
<1> QED
  BY <1>a, <1>1, <1>2

LEMMA MisplacedNext ==
  ASSUME NEW l \in Lines, Grown(l), kind' = kind, NEW n, n = End
  PROVE  Misplaced(n)' <=>
           Wrong(l, Open(End), Pending(End),
                 /\ n > 1 /\ journal[n - 1].type = "tool_result"
                 /\ kind[journal[n - 1].call] = "activate_skill")
<1>0. n \in Nat \ {0}
  BY DEF Grown
<1>1. Open(n)' = Open(n) /\ Pending(n)' = Pending(n)
  BY <1>0, MisplacedStays
<1>2. Open(n) = Open(End) /\ Pending(n) = Pending(End)
  BY ReadsOf, ReadsOfEnd
<1>3. journal'[n] = l /\ (n > 1 => journal'[n - 1] = journal[n - 1])
  BY <1>0 DEF Grown
<1> DEFINE before == /\ n > 1 /\ journal[n - 1].type = "tool_result"
                     /\ kind[journal[n - 1].call] = "activate_skill"
<1>4. before <=> /\ n > 1 /\ journal'[n - 1].type = "tool_result"
                 /\ kind'[journal'[n - 1].call] = "activate_skill"
  BY <1>3
<1> HIDE DEF before
<1>5. Misplaced(n)' <=> Wrong(l, Open(n)', Pending(n)', before)
  BY <1>3, <1>4, Zenon DEF Misplaced, IsMessage, Wrong
<1>6. Misplaced(n)' <=> Wrong(l, Open(End), Pending(End), before)
  BY <1>1, <1>2, <1>5
<1> QED
  BY <1>6 DEF before

LEMMA CallsNext ==
  ASSUME NEW l \in Lines, Grown(l), kind' = kind
  PROVE  /\ l.type = "user" => Open(End)' = Open(End) /\ Pending(End)' = {}
         /\ l.type = "assistant" => Open(End)' = Open(End) /\ Pending(End)' = ToSet(l.calls)
         /\ l.type = "tool_call" /\ l.call \in Calls =>
              Open(End)' = Open(End) \cup {l.call} /\ Pending(End)' = Pending(End) \ {l.call}
         /\ l.type = "tool_result" => Open(End)' = Open(End) \ {l.call} /\ Pending(End)' = Pending(End)
         /\ l.type \in {"error", "skill_activation", "torn"} =>
              Open(End)' = Open(End) /\ Pending(End)' = Pending(End)
<1> DEFINE n == End
<1>0. n \in Nat \ {0} /\ End' = n + 1 /\ journal'[n] = l /\ \A i \in 1..(n - 1) : journal'[i] = journal[i]
  BY DEF Grown
<1>1. OpenIn(journal', n) = Open(End) /\ PendingIn(journal', n) = Pending(End)
  BY <1>0, ReadsStay, ReadsOfEnd
<1>2. OpenIn(journal', n + 1) = Open(End)' /\ PendingIn(journal', n + 1) = Pending(End)'
  BY <1>0, ReadsOfEnd
<1> HIDE DEF n
<1>3. /\ l.type = "tool_call" /\ l.call \in Calls =>
           OpenIn(journal', n + 1) = OpenIn(journal', n) \cup {l.call}
      /\ l.type = "tool_result" => OpenIn(journal', n + 1) = OpenIn(journal', n) \ {l.call}
      /\ l.type \notin {"tool_call", "tool_result"} => OpenIn(journal', n + 1) = OpenIn(journal', n)
  BY <1>0, OpenNext
<1>4. /\ l.type = "assistant" => PendingIn(journal', n + 1) = ToSet(l.calls)
      /\ l.type = "user" => PendingIn(journal', n + 1) = {}
      /\ l.type = "tool_call" => PendingIn(journal', n + 1) = PendingIn(journal', n) \ {l.call}
      /\ l.type \notin {"user", "assistant", "tool_call"} =>
           PendingIn(journal', n + 1) = PendingIn(journal', n)
  BY <1>0, PendingNext
<1> DEFINE o == Open(End)
           p == Pending(End)
           o1 == Open(End)'
           p1 == Pending(End)'
<1>5. /\ l.type = "tool_call" /\ l.call \in Calls => o1 = o \cup {l.call}
      /\ l.type = "tool_result" => o1 = o \ {l.call}
      /\ l.type \notin {"tool_call", "tool_result"} => o1 = o
  BY <1>1, <1>2, <1>3
<1>6. /\ l.type = "assistant" => p1 = ToSet(l.calls)
      /\ l.type = "user" => p1 = {}
      /\ l.type = "tool_call" => p1 = p \ {l.call}
      /\ l.type \notin {"user", "assistant", "tool_call"} => p1 = p
  BY <1>1, <1>2, <1>4
<1> HIDE DEF o, p, o1, p1
<1>7. /\ l.type = "user" => o1 = o /\ p1 = {}
      /\ l.type = "assistant" => o1 = o /\ p1 = ToSet(l.calls)
      /\ l.type = "tool_call" /\ l.call \in Calls => o1 = o \cup {l.call} /\ p1 = p \ {l.call}
      /\ l.type = "tool_result" => o1 = o \ {l.call} /\ p1 = p
      /\ l.type \in {"error", "skill_activation", "torn"} => o1 = o /\ p1 = p
  BY <1>5, <1>6
<1> QED
  BY <1>7 DEF o, p, o1, p1

LEMMA SoundNext ==
  ASSUME NEW l \in Lines, Grown(l), kind' = kind, NEW n, n = End
  PROVE  Sound' <=> Sound /\ ~Misplaced(n)'
<1>1. n \in Nat \ {0} /\ DOMAIN journal = 1..(n - 1) /\ DOMAIN journal' = 1..n
  BY DEF Grown
<1>2. \A i \in 1..(n - 1) : Misplaced(i)' <=> Misplaced(i)
  BY MisplacedStays
<1>3. \A i : i \in 1..n <=> i \in 1..(n - 1) \/ i = n
  BY <1>1
<1>4. Sound <=> \A i \in 1..(n - 1) : ~Misplaced(i)
  BY <1>1, Zenon DEF Sound
<1>5. Sound' <=> \A i \in 1..n : ~Misplaced(i)'
  BY <1>1, Zenon DEF Sound
<1> QED
  BY <1>2, <1>3, <1>4, <1>5, Zenon

(* The excuse of a line remains one.                                       *)
LEMMA ExcuseStays ==
  ASSUME RunTypes, SettledStays, NEW i \in 1..End, Interrupted(i),
         Open(i)' = Open(i), \A j \in 1..(End - 1) : journal'[j] = journal[j]
  PROVE  Interrupted(i)'
<1>1. PICK j \in 1..(i - 1) :
        /\ journal[j].calls # NoCalls
        /\ result[journal[j].run] \notin {"none", "completed"}
        /\ Open(i) # {} => journal[j].run \in faults \/ result[journal[j].run] = "lost"
  BY DEF Interrupted
<1>2. j \in 1..(End - 1) /\ journal[j] \in Lines
  BY DEF End, RunTypes
<1>3. journal[j].run \in Runs /\ journal'[j] = journal[j]
  BY <1>2 DEF Lines
<1>4. result'[journal[j].run] = result[journal[j].run]
  BY <1>1, <1>3 DEF SettledStays
<1>5. journal[j].run \in faults => journal[j].run \in faults'
  BY DEF SettledStays
<1>6. /\ journal'[j].calls # NoCalls
      /\ result'[journal'[j].run] \notin {"none", "completed"}
      /\ Open(i)' # {} => journal'[j].run \in faults' \/ result'[journal'[j].run] = "lost"
  BY <1>1, <1>3, <1>4, <1>5
<1> QED
  BY <1>6 DEF Interrupted

LEMMA BreaksFold ==
  /\ JournalBreaksOnlyBehindInterruption <=>
       \A i \in DOMAIN journal :
         (Misplaced(i) /\ \A j \in 1..(i - 1) : ~Misplaced(j)) =>
           journal[i].type = "torn" \/ (journal[i].type = "user" /\ Interrupted(i))
  /\ JournalBreaksOnlyBehindInterruption' <=>
       \A i \in DOMAIN journal' :
         (Misplaced(i)' /\ \A j \in 1..(i - 1) : ~Misplaced(j)') =>
           journal'[i].type = "torn" \/ (journal'[i].type = "user" /\ Interrupted(i)')
<1>1. JournalBreaksOnlyBehindInterruption <=>
        \A i \in DOMAIN journal :
          (Misplaced(i) /\ \A j \in 1..(i - 1) : ~Misplaced(j)) =>
            journal[i].type = "torn" \/ (journal[i].type = "user" /\ Interrupted(i))
  BY Zenon DEF JournalBreaksOnlyBehindInterruption, Interrupted
<1>2. JournalBreaksOnlyBehindInterruption' <=>
        \A i \in DOMAIN journal' :
          (Misplaced(i)' /\ \A j \in 1..(i - 1) : ~Misplaced(j)') =>
            journal'[i].type = "torn" \/ (journal'[i].type = "user" /\ Interrupted(i)')
  BY Zenon DEF JournalBreaksOnlyBehindInterruption, Interrupted
<1> QED
  BY <1>1, <1>2

(* A step that journals nothing.                                           *)
LEMMA JournalSame ==
  ASSUME RunTypes, SettledStays, kind' = kind, journal' = journal
  PROVE  /\ JournalBreaksOnlyBehindInterruption => JournalBreaksOnlyBehindInterruption'
         /\ Sound' <=> Sound
         /\ Open(End)' = Open(End) /\ Pending(End)' = Pending(End)
         /\ Interrupted(End) => Interrupted(End)'
<1>0. PICK n : n = End
  OBVIOUS
<1>1. n \in Nat \ {0} /\ End' = n /\ DOMAIN journal = 1..(n - 1)
  BY <1>0 DEF End, RunTypes
<1>2. \A i : Open(i)' = Open(i) /\ Pending(i)' = Pending(i)
  BY ReadsOf
<1>3. \A i : Misplaced(i)' <=> Misplaced(i)
  BY <1>2 DEF Misplaced, IsMessage
<1>4. Open(End)' = Open(End) /\ Pending(End)' = Pending(End)
  <2>1. End' = End
    BY DEF End
  <2> QED
    BY <2>1, ReadsOfEnd
<1>5. Sound' <=> Sound
  BY <1>3, Zenon DEF Sound
<1>6. ASSUME NEW i \in 1..n, Interrupted(i) PROVE Interrupted(i)'
  <2>1. i \in 1..End
    BY <1>0, <1>6
  <2> QED
    BY <1>2, <1>6, <2>1, ExcuseStays
<1>7. Interrupted(End) => Interrupted(End)'
  <2>1. Interrupted(End) <=> Interrupted(n)
    BY <1>0
  <2>2. Interrupted(End)' <=> Interrupted(n)'
    <3>1. Interrupted(End)' <=>
            \E j \in 1..(n - 1) :
              /\ journal'[j].calls # NoCalls
              /\ result'[journal'[j].run] \notin {"none", "completed"}
              /\ Open(End)' # {} => journal'[j].run \in faults' \/ result'[journal'[j].run] = "lost"
      BY <1>1, Zenon DEF Interrupted
    <3>2. Interrupted(n)' <=>
            \E j \in 1..(n - 1) :
              /\ journal'[j].calls # NoCalls
              /\ result'[journal'[j].run] \notin {"none", "completed"}
              /\ Open(n)' # {} => journal'[j].run \in faults' \/ result'[journal'[j].run] = "lost"
      BY Zenon DEF Interrupted
    <3>3. Open(End)' = Open(n)'
      <4>1. Open(n) = Open(End)
        BY <1>0
      <4> QED
        BY <1>2, <1>4, <4>1
    <3> QED
      BY <3>1, <3>2, <3>3
  <2>3. n \in 1..n
    BY <1>1
  <2> QED
    BY <1>6, <2>1, <2>2, <2>3
<1>8. JournalBreaksOnlyBehindInterruption => JournalBreaksOnlyBehindInterruption'
  <2>1. \A i \in DOMAIN journal : i \in 1..n
    BY <1>1
  <2> QED
    BY <1>3, <1>6, <2>1, BreaksFold, Zenon
<1> QED
  BY <1>4, <1>5, <1>7, <1>8

(* A step that journals a line.                                            *)
LEMMA JournalLonger ==
  ASSUME RunTypes, SettledStays, kind' = kind, NEW l \in Lines, Grown(l), NEW n, n = End,
         JournalBreaksOnlyBehindInterruption,
         Sound /\ Misplaced(n)' => l.type = "torn" \/ (l.type = "user" /\ Interrupted(n)')
  PROVE  JournalBreaksOnlyBehindInterruption'
<1>1. /\ n \in Nat \ {0} /\ DOMAIN journal = 1..(n - 1) /\ DOMAIN journal' = 1..n
      /\ journal'[n] = l /\ \A i \in 1..(n - 1) : journal'[i] = journal[i]
  BY DEF Grown
<1>2. \A i \in 1..(n - 1) : Misplaced(i)' <=> Misplaced(i)
  BY MisplacedStays
<1>3. ASSUME NEW i \in 1..(n - 1), Misplaced(i)', \A j \in 1..(i - 1) : ~Misplaced(j)'
      PROVE  journal'[i].type = "torn" \/ (journal'[i].type = "user" /\ Interrupted(i)')
  <2>1. Misplaced(i) /\ \A j \in 1..(i - 1) : ~Misplaced(j)
    <3>1. \A j \in 1..(i - 1) : j \in 1..(n - 1)
      BY <1>1
    <3> QED
      BY <1>2, <1>3, <3>1
  <2>2. journal[i].type = "torn" \/ (journal[i].type = "user" /\ Interrupted(i))
    BY <1>1, <2>1, BreaksFold
  <2>3. i \in 1..End /\ \A j \in 1..(End - 1) : journal'[j] = journal[j]
    BY <1>1
  <2>4. Open(i)' = Open(i)
    BY <2>3, MisplacedStays
  <2>5. Interrupted(i) => Interrupted(i)'
    BY <2>3, <2>4, ExcuseStays
  <2> QED
    BY <1>1, <2>2, <2>5
<1>4. ASSUME Misplaced(n)', \A j \in 1..(n - 1) : ~Misplaced(j)'
      PROVE  journal'[n].type = "torn" \/ (journal'[n].type = "user" /\ Interrupted(n)')
  <2>1. Sound
    BY <1>1, <1>2, <1>4 DEF Sound
  <2> QED
    BY <1>1, <1>4, <2>1
<1>5. \A i \in 1..n : i \in 1..(n - 1) \/ i = n
  BY <1>1
<1> QED
  BY <1>1, <1>3, <1>4, <1>5, BreaksFold

(* What may leave the calls at the end of the journal as they are.         *)
NoneLeft ==
  Open(End) = {} /\ Pending(End) = {} /\ pc' \notin {"next", "tool", "told"}
Fails ==
  /\ Open(End) \cup Pending(End) # {} => Asking
  /\ Open(End) # {} => run \in faults'
  /\ run' = run /\ pc' \in {"catch", "close", "finalize"} /\ cause' # "none"
Interrupts ==
  /\ Open(End) \cup Pending(End) # {} => Asking
  /\ Open(End) # {} => run \in faults' \/ result'[run] = "lost"
  /\ pc' \in {"idle", "down"} /\ result'[run] \notin {"none", "completed"}
Between == pc \in {"idle", "down", "start", "user"} /\ pc' \in {"idle", "down", "start", "user"}

LEMMA InterruptsThis ==
  ASSUME RunTypes, journal' = journal, Asking, Interrupts, Open(End)' = Open(End)
  PROVE  Interrupted(End)'
<1>1. PICK j \in DOMAIN journal : journal[j].run = run /\ journal[j].calls # NoCalls
  BY DEF Asking
<1>2. j \in 1..(End' - 1) /\ journal'[j] = journal[j]
  BY <1>1 DEF End, RunTypes
<1>3. /\ journal'[j].calls # NoCalls
      /\ result'[journal'[j].run] \notin {"none", "completed"}
      /\ Open(End)' # {} => journal'[j].run \in faults' \/ result'[journal'[j].run] = "lost"
  BY <1>1, <1>2 DEF Interrupts
<1> QED
  BY <1>2, <1>3 DEF Interrupted

LEMMA SameFits ==
  ASSUME RunTypes, SettledStays, kind' = kind, journal' = journal, JournalFits,
         Distinct(todo'), pc' = "catch" => cause' # "none",
         Sound /\ CallsFit => NoneLeft \/ Fails \/ Interrupts \/ Between \/ pc' = "corrupted"
  PROVE  JournalFits'
<1>1. /\ JournalBreaksOnlyBehindInterruption'
      /\ Sound' <=> Sound
      /\ Open(End)' = Open(End) /\ Pending(End)' = Pending(End)
      /\ Interrupted(End) => Interrupted(End)'
  BY JournalSame DEF JournalFits
<1>2. ASSUME Sound, CallsFit PROVE CallsFit'
  <2>1. CASE NoneLeft
    BY <1>1, <2>1 DEF NoneLeft, CallsFit
  <2>2. CASE Fails
    <3>1. Asking => Asking'
      BY <2>2 DEF Asking, Fails
    <3>2. /\ pc' \in {"catch", "close", "finalize"} /\ cause' # "none"
          /\ Open(End)' \cup Pending(End)' # {} => Asking'
          /\ Open(End)' # {} => run' \in faults'
      BY <1>1, <2>2, <3>1 DEF Fails
    <3> QED
      BY <3>2 DEF CallsFit
  <2>3. CASE Interrupts
    <3>1. Asking => Interrupted(End)'
      BY <1>1, <2>3, InterruptsThis
    <3>2. /\ pc' \in {"idle", "down"}
          /\ Open(End)' \cup Pending(End)' # {} => Interrupted(End)'
      BY <1>1, <2>3, <3>1 DEF Interrupts
    <3> QED
      BY <3>2 DEF CallsFit
  <2>4. CASE Between
    <3>1. /\ pc' \in {"idle", "down", "start", "user"}
          /\ Open(End)' \cup Pending(End)' # {} => Interrupted(End)'
      BY <1>1, <1>2, <2>4 DEF Between, CallsFit
    <3> QED
      BY <3>1 DEF CallsFit
  <2>5. CASE pc' = "corrupted"
    BY <2>5 DEF CallsFit
  <2> QED
    BY <1>2, <2>1, <2>2, <2>3, <2>4, <2>5
<1> QED
  BY <1>1, <1>2 DEF JournalFits

LEMMA LongerFits ==
  ASSUME RunTypes, run \in Runs, SettledStays, kind' = kind, NEW l \in Lines, Journal(<<l>>),
         JournalFits, Distinct(todo'), pc' = "catch" => cause' # "none",
         NEW before \in BOOLEAN,
         before <=> /\ End > 1 /\ journal[End - 1].type = "tool_result"
                    /\ kind[journal[End - 1].call] = "activate_skill",
         Sound /\ CallsFit =>
           \/ l.type = "torn"
           \/ l.type = "user" /\ (Open(End) \cup Pending(End) # {} => Interrupted(End))
           \/ ~Wrong(l, Open(End), Pending(End), before),
         Sound /\ CallsFit /\ ~Wrong(l, Open(End), Pending(End), before) => CallsFit'
  PROVE  JournalFits'
<1>1. Grown(l)
  BY JournalGrown
<1>2. PICK n : n = End
  OBVIOUS
<1>3. Misplaced(n)' <=> Wrong(l, Open(End), Pending(End), before)
  BY <1>1, <1>2, MisplacedNext
<1>4. n \in 1..End /\ \A j \in 1..(End - 1) : journal'[j] = journal[j]
  BY <1>1, <1>2 DEF Grown
<1>5. Open(n)' = Open(n) /\ (Interrupted(End) <=> Interrupted(n))
  BY <1>1, <1>2, <1>4, MisplacedStays
<1>6. Interrupted(End) => Interrupted(n)'
  BY <1>4, <1>5, ExcuseStays
<1>7. Sound /\ Misplaced(n)' => l.type = "torn" \/ (l.type = "user" /\ Interrupted(n)')
  BY <1>3, <1>6 DEF Wrong, JournalFits
<1>8. JournalBreaksOnlyBehindInterruption'
  BY <1>1, <1>2, <1>7, JournalLonger DEF JournalFits
<1>9. Sound' => Sound /\ ~Wrong(l, Open(End), Pending(End), before)
  BY <1>1, <1>2, <1>3, SoundNext
<1>10. Sound' => CallsFit'
  BY <1>9 DEF JournalFits
<1> QED
  BY <1>8, <1>10 DEF JournalFits

LEMMA AskingStays ==
  ASSUME NEW l, Grown(l), run' = run, Asking
  PROVE  Asking'
<1>1. PICK j \in DOMAIN journal : journal[j].run = run /\ journal[j].calls # NoCalls
  BY DEF Asking
<1>2. j \in DOMAIN journal' /\ journal'[j] = journal[j]
  BY <1>1 DEF Grown
<1> QED
  BY <1>1, <1>2 DEF Asking

LEMMA DistinctTail ==
  ASSUME NEW calls \in Seq(Calls), calls # <<>>, Distinct(calls)
  PROVE  Distinct(Tail(calls)) /\ ToSet(Tail(calls)) = ToSet(calls) \ {Head(calls)}
<1>1. /\ Len(calls) \in Nat \ {0} /\ Tail(calls) \in Seq(Calls) /\ Len(Tail(calls)) = Len(calls) - 1
      /\ \A i \in 1..(Len(calls) - 1) : Tail(calls)[i] = calls[i + 1]
      /\ Head(calls) = calls[1]
  OBVIOUS
<1>2. DOMAIN calls = 1..Len(calls) /\ DOMAIN Tail(calls) = 1..(Len(calls) - 1)
  BY <1>1
<1> DEFINE rest == Tail(calls)
<1>3. DOMAIN rest = 1..(Len(calls) - 1) /\ \A i \in 1..(Len(calls) - 1) : rest[i] = calls[i + 1]
  BY <1>1, <1>2
<1> HIDE DEF rest
<1>4. Distinct(rest)
  BY <1>1, <1>2, <1>3 DEF Distinct
<1>5. ASSUME NEW c PROVE c \in ToSet(rest) <=> c \in ToSet(calls) /\ c # Head(calls)
  <2>1. c \in ToSet(rest) <=> \E i \in 1..(Len(calls) - 1) : rest[i] = c
    BY <1>3 DEF ToSet
  <2>2. c \in ToSet(calls) <=> \E i \in 1..Len(calls) : calls[i] = c
    BY <1>2 DEF ToSet
  <2>3. ASSUME NEW i \in 1..(Len(calls) - 1), rest[i] = c PROVE c \in ToSet(calls) /\ c # Head(calls)
    BY <1>1, <1>2, <1>3, <2>2, <2>3 DEF Distinct
  <2>4. ASSUME NEW i \in 1..Len(calls), calls[i] = c, c # Head(calls) PROVE c \in ToSet(rest)
    <3>1. i # 1 /\ i - 1 \in 1..(Len(calls) - 1) /\ i - 1 + 1 = i
      BY <1>1, <2>4
    <3>2. rest[i - 1] = c
      BY <1>3, <2>4, <3>1
    <3> QED
      BY <2>1, <3>1, <3>2
  <2> QED
    BY <2>1, <2>2, <2>3, <2>4
<1> QED
  BY <1>4, <1>5 DEF rest

(* The steps of the loop that journal nothing, and the writes that fail.   *)
LEMMA FailedWrites ==
  ASSUME RunTypes, RunsFit, SettledStays, kind' = kind, JournalFits, run' = run,
         \/ WriteFails /\ CreateFails /\ pc = "start"
         \/ WriteFails /\ Reject /\ pc \in {"user", "catch", "ask", "finish", "close", "finalize"}
         \/ WriteFails /\ Raise /\ pc \in {"model", "next", "tool", "told"}
         \/ ProviderFails /\ pc = "model"
  PROVE  JournalFits'
<1>1. pc \in AtWork /\ run \in Runs /\ journal' = journal
  BY DEF AtWork, RunTypes, WriteFails, ProviderFails
<1>2. todo' = <<>>
  BY DEF CreateFails, Reject, Raise, ProviderFails, Throw, Settle, Forget
<1>3. Distinct(todo')
  BY <1>2 DEF Distinct
<1>4. WriteFails => run \in faults'
  BY DEF WriteFails
<1>5. CASE WriteFails /\ (CreateFails \/ Reject)
  <2>1. pc' = "idle" /\ result'[run] = "rejected"
    BY <1>1, <1>5 DEF CreateFails, Reject, Settle, RunTypes
  <2>2. ASSUME Sound, CallsFit PROVE NoneLeft \/ Interrupts \/ Between
    <3>1. CASE pc \in {"start", "user"}
      BY <2>1, <3>1 DEF Between
    <3>2. CASE pc \in {"ask", "finish"}
      BY <2>1, <2>2, <3>2 DEF CallsFit, NoneLeft
    <3>3. CASE pc \in {"catch", "close", "finalize"}
      BY <1>4, <1>5, <2>1, <2>2, <3>3 DEF CallsFit, Interrupts
    <3> QED
      BY <1>5, <3>1, <3>2, <3>3 DEF Raise, Reject, CreateFails, ProviderFails, Throw, Settle
  <2> QED
    BY <1>1, <1>3, <2>1, <2>2, SameFits
<1>6. CASE (WriteFails /\ Raise) \/ ProviderFails
  <2>1. pc' = "catch" /\ cause' = "failed" /\ pc \in {"model", "next", "tool", "told"}
    <3>1. pc' = "catch" /\ cause' = "failed"
      BY <1>6 DEF Raise, ProviderFails, Throw
    <3> QED
      BY <3>1 DEF CreateFails, Reject, Settle
  <2>2. ASSUME Sound, CallsFit PROVE NoneLeft \/ Fails
    <3>1. CASE pc = "model"
      BY <2>1, <2>2, <3>1 DEF CallsFit, NoneLeft
    <3>2. CASE pc \in {"next", "tool", "told"}
      <4>1. run \in faults'
        <5>1. ~ProviderFails \/ WriteFails
          BY <3>2 DEF WriteFails
        <5> QED
          BY <1>4, <1>6, <3>2, <5>1
      <4> QED
        BY <2>1, <2>2, <3>2, <4>1 DEF CallsFit, Fails
    <3> QED
      BY <2>1, <3>1, <3>2
  <2> QED
    BY <1>1, <1>3, <2>1, <2>2, SameFits
<1> QED
  BY <1>5, <1>6

LEMMA QuietLoopFits ==
  ASSUME RunTypes, RunsFit, SettledStays, kind' = kind, JournalFits,
         \/ RequestModel \/ ModelAborted \/ AllCalled
         \/ StartCall /\ aborted
         \/ StartRun /\ ~(WriteFails /\ CreateFails)
         \/ (Finish \/ EmitTerminal \/ FinalizeRun) /\ ~(WriteFails /\ Reject)
  PROVE  JournalFits'
<1>1. pc \in AtWork /\ run \in Runs /\ run' = run
  <2>1. pc \in AtWork /\ run' = run
    BY DEF RequestModel, ModelAborted, AllCalled, StartCall, StartRun, Finish, EmitTerminal,
           FinalizeRun, AtWork
  <2> QED
    BY <2>1 DEF RunTypes
<1>2. Distinct(<<>>)
  BY DEF Distinct
<1>3. CASE RequestModel \/ ModelAborted
  <2>1. journal' = journal /\ pc \in {"ask", "model"}
    BY <1>3, Zenon DEF RequestModel, ModelAborted
  <2>2. \/ pc' = "catch" /\ cause' = "cancelled" /\ todo' = <<>>
        \/ pc' = "model" /\ todo' = todo
    BY <1>3, Zenon DEF RequestModel, ModelAborted, Throw, Forget, Request
  <2>3. Distinct(todo') /\ (pc' = "catch" => cause' # "none")
    BY <1>2, <2>2 DEF JournalFits
  <2>4. Sound /\ CallsFit => NoneLeft
    BY <2>1, <2>2 DEF CallsFit, NoneLeft
  <2> QED
    BY <2>1, <2>3, <2>4, SameFits
<1>4. CASE AllCalled
  <2>1. journal' = journal /\ pc = "next" /\ pc' = "ask" /\ todo = <<>> /\ todo' = todo
    BY <1>4 DEF AllCalled
  <2>2. ToSet(todo) = {}
    BY <2>1 DEF ToSet
  <2>3. Sound /\ CallsFit => NoneLeft
    BY <2>1, <2>2 DEF CallsFit, NoneLeft
  <2>4. Distinct(todo')
    BY <2>1 DEF JournalFits
  <2> QED
    BY <2>1, <2>3, <2>4, SameFits
<1>5. CASE StartCall /\ aborted
  <2>1. pc = "next" /\ Throw("cancelled") /\ journal' = journal
    BY <1>5, Zenon DEF StartCall
  <2>2. pc' = "catch" /\ cause' = "cancelled" /\ todo' = <<>>
    BY <2>1 DEF Throw, Forget
  <2>3. Sound /\ CallsFit => Fails
    BY <1>1, <2>1, <2>2 DEF CallsFit, Fails
  <2> QED
    BY <1>2, <2>1, <2>2, <2>3, SameFits
<1>6. CASE StartRun /\ ~(WriteFails /\ CreateFails)
  <2>1. journal' = journal /\ pc = "start" /\ pc' = "user" /\ todo' = todo
    BY <1>6 DEF StartRun
  <2>2. Between /\ Distinct(todo')
    BY <2>1 DEF Between, JournalFits
  <2> QED
    BY <2>1, <2>2, SameFits
<1>7. CASE Finish /\ ~(WriteFails /\ Reject)
  <2>1. journal' = journal /\ pc = "finish" /\ pc' = "close" /\ todo' = todo
    BY <1>7 DEF Finish
  <2>2. Distinct(todo')
    BY <2>1 DEF JournalFits
  <2>3. Sound /\ CallsFit => NoneLeft
    BY <2>1 DEF CallsFit, NoneLeft
  <2> QED
    BY <2>1, <2>2, <2>3, SameFits
<1>8. CASE EmitTerminal /\ ~(WriteFails /\ Reject)
  <2>1. /\ journal' = journal /\ pc = "close" /\ pc' = "finalize" /\ todo' = todo /\ cause' = cause
        /\ faults' = faults
    BY <1>8 DEF EmitTerminal
  <2>2. Distinct(todo')
    BY <2>1 DEF JournalFits
  <2>3. Sound /\ CallsFit => NoneLeft \/ Fails
    BY <1>1, <2>1 DEF CallsFit, NoneLeft, Fails
  <2> QED
    BY <2>1, <2>2, <2>3, SameFits
<1>9. CASE FinalizeRun /\ ~(WriteFails /\ Reject)
  <2>1. /\ journal' = journal /\ pc = "finalize" /\ pc' = "idle" /\ todo' = <<>>
        /\ faults' = faults /\ result'[run] = Verdict
    BY <1>1, <1>9 DEF FinalizeRun, Settle, Forget, RunTypes
  <2>2. cause # "none" => Verdict \notin {"none", "completed"}
    BY DEF Verdict, RunTypes
  <2>3. Sound /\ CallsFit => NoneLeft \/ Interrupts
    BY <2>1, <2>2 DEF CallsFit, NoneLeft, Interrupts
  <2> QED
    BY <1>2, <2>1, <2>3, SameFits
<1> QED
  BY <1>3, <1>4, <1>5, <1>6, <1>7, <1>8, <1>9

(* A line of the loop, and what it is. *)
LEMMA PlainLineFits ==
  ASSUME run \in Runs, NEW type \in LineTypes, NEW c \in Calls \cup {0}
  PROVE  /\ Line(type, NoCalls, c) \in Lines
         /\ Line(type, NoCalls, c).type = type /\ Line(type, NoCalls, c).call = c
         /\ Line(type, NoCalls, c).calls = <<>> /\ Line(type, NoCalls, c).run = run
<1>1. NoCalls \in Seq(Calls)
  BY DEF NoCalls
<1>2. /\ Line(type, NoCalls, c) \in Lines
      /\ Line(type, NoCalls, c).type = type /\ Line(type, NoCalls, c).run = run
      /\ Line(type, NoCalls, c).calls = NoCalls /\ Line(type, NoCalls, c).call = c
  BY <1>1, LineFits
<1> QED
  BY <1>2 DEF NoCalls

(* The steps of the loop that journal a line. *)
LEMMA JournalingFits ==
  ASSUME RunTypes, RunsFit, SettledStays, SkillFits, kind' = kind, JournalFits,
         \/ (AppendUser \/ JournalError \/ HandOff) /\ ~(WriteFails /\ Reject)
         \/ ModelAnswers /\ ~(WriteFails /\ Raise) /\ ~ProviderFails
         \/ StartCall /\ ~aborted /\ ~(WriteFails /\ Raise)
         \/ (JournalResult \/ CompleteCall) /\ ~(WriteFails /\ Raise)
  PROVE  JournalFits'
<1>1. pc \in AtWork /\ run \in Runs /\ run' = run
  <2>1. pc \in AtWork /\ run' = run
    BY DEF AppendUser, JournalError, HandOff, ModelAnswers, StartCall, JournalResult, CompleteCall, AtWork
  <2> QED
    BY <2>1 DEF RunTypes
<1>2. Distinct(<<>>) /\ ToSet(<<>>) = {}
  BY DEF Distinct, ToSet
<1> DEFINE before == /\ End > 1 /\ journal[End - 1].type = "tool_result"
                     /\ kind[journal[End - 1].call] = "activate_skill"
<1>b. before \in BOOLEAN
  OBVIOUS
<1>3. ASSUME AppendUser, ~(WriteFails /\ Reject) PROVE JournalFits'
  <2> DEFINE l == Line("user", NoCalls, 0)
  <2>1. /\ pc = "user" /\ pc' = "ask" /\ todo' = todo /\ Journal(<<l>>)
    BY <1>3 DEF AppendUser
  <2>2. l \in Lines /\ l.type = "user"
    BY <1>1, PlainLineFits DEF LineTypes
  <2> HIDE DEF l
  <2>3. Grown(l)
    BY <1>1, <2>1, <2>2, JournalGrown
  <2>4. Sound /\ CallsFit /\ ~Wrong(l, Open(End), Pending(End), before) => CallsFit'
    <3> SUFFICES ASSUME ~Wrong(l, Open(End), Pending(End), before) PROVE CallsFit'
      OBVIOUS
    <3>1. Open(End)' = {} /\ Pending(End)' = {}
      BY <2>2, <2>3, CallsNext DEF Wrong
    <3> QED
      BY <2>1, <3>1 DEF CallsFit
  <2>5. Sound /\ CallsFit => (Open(End) \cup Pending(End) # {} => Interrupted(End))
    BY <2>1 DEF CallsFit
  <2>6. Distinct(todo')
    BY <2>1 DEF JournalFits
  <2> HIDE DEF before
  <2> QED
    BY <1>1, <1>b, <2>1, <2>2, <2>4, <2>5, <2>6, LongerFits DEF before
<1>4. ASSUME JournalError, ~(WriteFails /\ Reject) PROVE JournalFits'
  <2> DEFINE l == Line("error", NoCalls, 0)
  <2>1. /\ pc = "catch" /\ pc' = "close" /\ UNCHANGED <<todo, cause, faults>> /\ Journal(<<l>>)
    BY <1>4 DEF JournalError
  <2>2. l \in Lines /\ l.type = "error"
    BY <1>1, PlainLineFits DEF LineTypes
  <2> HIDE DEF l
  <2>3. Grown(l)
    BY <1>1, <2>1, <2>2, JournalGrown
  <2>4. Sound /\ CallsFit => CallsFit'
    <3>1. Open(End)' = Open(End) /\ Pending(End)' = Pending(End)
      BY <2>2, <2>3, CallsNext
    <3>2. Asking => Asking'
      BY <1>1, <2>3, AskingStays
    <3>3. cause' # "none"
      BY <2>1 DEF JournalFits
    <3> QED
      BY <1>1, <2>1, <3>1, <3>2, <3>3 DEF CallsFit
  <2>5. ~Wrong(l, Open(End), Pending(End), before)
    BY <2>2 DEF Wrong
  <2>6. Distinct(todo')
    BY <2>1 DEF JournalFits
  <2> HIDE DEF before
  <2> QED
    BY <1>1, <1>b, <2>1, <2>2, <2>4, <2>5, <2>6, LongerFits DEF before
<1>5. ASSUME HandOff, ~(WriteFails /\ Reject) PROVE JournalFits'
  <2> DEFINE l == Line("assistant", NoCalls, 0)
  <2>1. /\ pc = "ask" /\ pc' = "finish" /\ todo' = todo /\ Journal(<<l>>)
    BY <1>5 DEF HandOff
  <2>2. l \in Lines /\ l.type = "assistant" /\ l.calls = <<>>
    BY <1>1, PlainLineFits DEF LineTypes
  <2> HIDE DEF l
  <2>3. Grown(l)
    BY <1>1, <2>1, <2>2, JournalGrown
  <2>4. Sound /\ CallsFit => Open(End) = {} /\ Pending(End) = {}
    BY <2>1 DEF CallsFit
  <2>5. Sound /\ CallsFit => CallsFit'
    <3> SUFFICES ASSUME Sound, CallsFit PROVE CallsFit'
      OBVIOUS
    <3>1. Open(End)' = {} /\ Pending(End)' = {}
      BY <1>2, <2>2, <2>3, <2>4, CallsNext
    <3> QED
      BY <2>1, <3>1 DEF CallsFit
  <2>6. Sound /\ CallsFit => ~Wrong(l, Open(End), Pending(End), before)
    BY <2>2, <2>4 DEF Wrong
  <2>7. Distinct(todo')
    BY <2>1 DEF JournalFits
  <2> HIDE DEF before
  <2> QED
    BY <1>1, <1>b, <2>1, <2>2, <2>5, <2>6, <2>7, LongerFits DEF before
<1>6. ASSUME ModelAnswers, ~(WriteFails /\ Raise), ~ProviderFails PROVE JournalFits'
  <2>1. PICK n \in 0..(Cardinality(Calls) - called) :
          /\ Journal(<<Line("assistant", Asked(n), 0)>>)
          /\ todo' = Asked(n)
          /\ pc' = IF n = 0 THEN "finish" ELSE "next"
    BY <1>6 DEF ModelAnswers
  <2> DEFINE l == Line("assistant", Asked(n), 0)
  <2>2. Asked(n) \in Seq(Calls) /\ Len(Asked(n)) = n /\ Distinct(Asked(n)) /\ n \in Nat
    BY AskedTypes
  <2>3. l \in Lines /\ l.type = "assistant" /\ l.calls = Asked(n) /\ l.run = run
    BY <1>1, <2>2, LineFits DEF LineTypes
  <2>4. pc = "model" /\ Journal(<<l>>)
    BY <1>6, <2>1 DEF ModelAnswers
  <2> HIDE DEF l
  <2>5. Grown(l)
    BY <1>1, <2>3, <2>4, JournalGrown
  <2>6. Sound /\ CallsFit => Open(End) = {} /\ Pending(End) = {}
    BY <2>4 DEF CallsFit
  <2>7. Sound /\ CallsFit => CallsFit'
    <3> SUFFICES ASSUME Sound, CallsFit PROVE CallsFit'
      OBVIOUS
    <3>1. Open(End)' = {} /\ Pending(End)' = ToSet(todo')
      BY <2>1, <2>3, <2>5, <2>6, CallsNext
    <3>2. CASE n = 0
      <4>1. Asked(n) = <<>> /\ pc' = "finish"
        BY <2>1, <2>2, <3>2
      <4>2. Pending(End)' = {}
        BY <1>2, <2>1, <3>1, <4>1
      <4> QED
        BY <3>1, <4>1, <4>2 DEF CallsFit
    <3>3. CASE n # 0
      <4>1. Asked(n) # NoCalls /\ pc' = "next"
        BY <2>1, <2>2, <3>3 DEF NoCalls
      <4>2. End \in DOMAIN journal' /\ journal'[End] = l
        BY <2>5 DEF Grown
      <4>3. Asking'
        BY <1>1, <2>3, <4>1, <4>2 DEF Asking
      <4> QED
        BY <3>1, <4>1, <4>3 DEF CallsFit
    <3> QED
      BY <3>2, <3>3
  <2>8. Sound /\ CallsFit => ~Wrong(l, Open(End), Pending(End), before)
    BY <2>3, <2>6 DEF Wrong
  <2>9. Distinct(todo') /\ pc' # "catch"
    BY <2>1, <2>2
  <2> HIDE DEF before
  <2> QED
    BY <1>1, <1>b, <2>3, <2>4, <2>7, <2>8, <2>9, LongerFits DEF before
<1>7. ASSUME StartCall, ~aborted, ~(WriteFails /\ Raise) PROVE JournalFits'
  <2> DEFINE c == Head(todo)
             l == Line("tool_call", NoCalls, c)
  <2>1. /\ pc = "next" /\ pc' = "tool" /\ todo # <<>>
        /\ call' = c /\ todo' = Tail(todo) /\ Journal(<<l>>)
    BY <1>7 DEF StartCall
  <2>2. c \in Calls /\ todo \in Seq(Calls)
    BY <2>1 DEF RunTypes
  <2>3. l \in Lines /\ l.type = "tool_call" /\ l.call = c
    BY <1>1, <2>2, PlainLineFits DEF LineTypes
  <2>4. Distinct(todo') /\ ToSet(todo') = ToSet(todo) \ {c} /\ c \in ToSet(todo)
    <3>1. c \in ToSet(todo)
      BY <2>1, <2>2 DEF ToSet
    <3> QED
      BY <2>1, <2>2, <3>1, DistinctTail DEF JournalFits
  <2> HIDE DEF l, c
  <2>5. Grown(l)
    BY <1>1, <2>1, <2>3, JournalGrown
  <2>6. Sound /\ CallsFit => Open(End) = {} /\ Pending(End) = ToSet(todo) /\ Asking
    BY <2>1 DEF CallsFit
  <2>7. Sound /\ CallsFit => CallsFit'
    <3> SUFFICES ASSUME Sound, CallsFit PROVE CallsFit'
      OBVIOUS
    <3>1. Open(End)' = {c} /\ Pending(End)' = ToSet(todo')
      BY <2>2, <2>3, <2>4, <2>5, <2>6, CallsNext
    <3>2. Asking'
      BY <1>1, <2>5, <2>6, AskingStays
    <3> QED
      BY <2>1, <3>1, <3>2 DEF CallsFit
  <2>8. Sound /\ CallsFit => ~Wrong(l, Open(End), Pending(End), before)
    BY <2>3, <2>4, <2>6 DEF Wrong
  <2> HIDE DEF before
  <2> QED
    BY <1>1, <1>b, <2>1, <2>3, <2>4, <2>7, <2>8, LongerFits DEF before
<1>8. ASSUME JournalResult, ~(WriteFails /\ Raise) PROVE JournalFits'
  <2> DEFINE l == Line("tool_result", NoCalls, call)
  <2>1. /\ pc = "tool" /\ pc' = "told" /\ UNCHANGED <<todo, call>> /\ Journal(<<l>>)
    BY <1>8 DEF JournalResult, ResultLines
  <2>2. l \in Lines /\ l.type = "tool_result" /\ l.call = call
    BY <1>1, PlainLineFits DEF LineTypes, RunTypes
  <2> HIDE DEF l
  <2>3. Grown(l)
    BY <1>1, <2>1, <2>2, JournalGrown
  <2>4. Sound /\ CallsFit => Open(End) = {call} /\ Pending(End) = ToSet(todo) /\ Asking
    BY <2>1 DEF CallsFit
  <2>5. Sound /\ CallsFit => CallsFit'
    <3> SUFFICES ASSUME Sound, CallsFit PROVE CallsFit'
      OBVIOUS
    <3>1. Open(End)' = {} /\ Pending(End)' = ToSet(todo')
      BY <2>1, <2>2, <2>3, <2>4, CallsNext
    <3>2. Asking'
      BY <1>1, <2>3, <2>4, AskingStays
    <3>3. journal' # <<>> /\ Said(Len(journal), "tool_result", call)'
      <4>1. Len(journal)' = End /\ journal'[End] = l /\ End \in DOMAIN journal'
        BY <1>1, <2>1, <2>2, <2>3, JournalTypes DEF End, Grown
      <4> QED
        BY <2>1, <2>2, <4>1 DEF Said
    <3> QED
      BY <2>1, <3>1, <3>2, <3>3 DEF CallsFit
  <2>6. Sound /\ CallsFit => ~Wrong(l, Open(End), Pending(End), before)
    BY <2>2, <2>4 DEF Wrong
  <2>7. Distinct(todo')
    BY <2>1 DEF JournalFits
  <2> HIDE DEF before
  <2> QED
    BY <1>1, <1>b, <2>1, <2>2, <2>5, <2>6, <2>7, LongerFits DEF before
<1>9. ASSUME CompleteCall, ~(WriteFails /\ Raise) PROVE JournalFits'
  <2> DEFINE l == Line("skill_activation", NoCalls, call)
  <2>0. pc = "told" /\ call \in Calls
    BY <1>9 DEF CompleteCall, RunTypes
  <2>1. \/ pc' = "catch" /\ cause' \in {"failed", "cancelled"} /\ todo' = <<>>
        \/ pc' = "next" /\ todo' = todo
    BY <1>9, Zenon DEF CompleteCall, Throw, Forget
  <2>2. \/ outcome[call] = "activated" /\ Journal(<<l>>)
        \/ journal' = journal
    <3>1. \/ outcome[call] = "activated" /\ Journal(<<l>>)
          \/ Journal(<<>>)
      BY <1>9 DEF CompleteCall
    <3> QED
      BY <3>1, EmitNothing
  <2>3. Distinct(todo') /\ (pc' = "catch" => cause' # "none")
    BY <1>2, <2>1 DEF JournalFits
  <2>4. Sound /\ CallsFit => /\ Open(End) = {} /\ Pending(End) = ToSet(todo) /\ Asking
                             /\ journal # <<>> /\ Said(Len(journal), "tool_result", call)
    BY <2>0 DEF CallsFit
  <2>5. ASSUME Sound, CallsFit, Asking', Open(End)' = Open(End), Pending(End)' = Pending(End)
        PROVE  CallsFit'
    BY <2>1, <2>4, <2>5 DEF CallsFit
  <2>6. CASE journal' = journal
    <3>1. /\ JournalBreaksOnlyBehindInterruption' /\ (Sound' <=> Sound)
          /\ Open(End)' = Open(End) /\ Pending(End)' = Pending(End)
      BY <2>6, JournalSame DEF JournalFits
    <3>2. Asking => Asking'
      BY <1>1, <2>6 DEF Asking
    <3> QED
      BY <2>3, <2>4, <2>5, <3>1, <3>2 DEF JournalFits
  <2>7. CASE outcome[call] = "activated" /\ Journal(<<l>>)
    <3>1. l \in Lines /\ l.type = "skill_activation"
      BY <1>1, <2>0, PlainLineFits DEF LineTypes
    <3>2. Grown(l)
      BY <1>1, <2>7, <3>1, JournalGrown
    <3>3. Sound /\ CallsFit => CallsFit'
      BY <1>1, <2>4, <2>5, <3>1, <3>2, AskingStays, CallsNext
    <3>4. Sound /\ CallsFit => before
      <4> SUFFICES ASSUME Sound, CallsFit PROVE before
        OBVIOUS
      <4>1. journal \in Seq(Lines) /\ journal # <<>>
        BY <2>4 DEF RunTypes
      <4>2. End > 1 /\ End - 1 = Len(journal)
        BY <4>1 DEF End
      <4>3. kind[call] = "activate_skill"
        BY <2>0, <2>7 DEF SkillFits
      <4> QED
        BY <2>4, <4>2, <4>3 DEF Said
    <3>5. Sound /\ CallsFit => ~Wrong(l, Open(End), Pending(End), before)
      BY <3>1, <3>4 DEF Wrong
    <3> HIDE DEF before, l
    <3> QED
      BY <1>1, <1>b, <2>3, <2>7, <3>1, <3>3, <3>5, LongerFits DEF before
  <2> QED
    BY <2>2, <2>6, <2>7
<1> QED
  BY <1>3, <1>4, <1>5, <1>6, <1>7, <1>8, <1>9

LEMMA LoopJournalFits ==
  ASSUME RunTypes, RunsFit, SettledStays, SkillFits, kind' = kind, JournalFits, LoopStep
  PROVE  JournalFits'
<1>0. run' = run
  BY LoopShapes DEF LoopShape
<1>1. CASE StartRun
  BY <1>0, <1>1, FailedWrites, QuietLoopFits DEF StartRun
<1>2. CASE RequestModel \/ ModelAborted \/ AllCalled
  BY <1>2, QuietLoopFits
<1>3. CASE AppendUser \/ JournalError \/ HandOff
  <2>1. pc \in {"user", "catch", "ask"}
    BY <1>3 DEF AppendUser, JournalError, HandOff
  <2> QED
    BY <1>0, <1>3, <2>1, FailedWrites, JournalingFits
<1>4. CASE ModelAnswers
  <2>1. pc = "model"
    BY <1>4 DEF ModelAnswers
  <2> QED
    BY <1>0, <1>4, <2>1, FailedWrites, JournalingFits
<1>5. CASE StartCall
  <2>1. pc = "next"
    BY <1>5 DEF StartCall
  <2> QED
    BY <1>0, <1>5, <2>1, FailedWrites, QuietLoopFits, JournalingFits
<1>6. CASE JournalResult \/ CompleteCall
  <2>1. pc \in {"tool", "told"}
    BY <1>6 DEF JournalResult, CompleteCall
  <2> QED
    BY <1>0, <1>6, <2>1, FailedWrites, JournalingFits
<1>7. CASE Finish \/ EmitTerminal \/ FinalizeRun
  <2>1. pc \in {"finish", "close", "finalize"}
    BY <1>7 DEF Finish, EmitTerminal, FinalizeRun
  <2> QED
    BY <1>0, <1>7, <2>1, FailedWrites, QuietLoopFits
<1> QED
  BY <1>1, <1>2, <1>3, <1>4, <1>5, <1>6, <1>7 DEF LoopStep

LEMMA CrashJournalFits ==
  ASSUME RunTypes, RunsFit, SettledStays, kind' = kind, JournalFits, Crash
  PROVE  JournalFits'
<1>1. /\ pc' = "down" /\ todo' = <<>> /\ run' = run /\ faults' = faults
      /\ pc \in AtWork \cup {"idle"}
  BY DEF Crash, Forget, RunTypes, Ended
<1>2. Distinct(todo')
  BY <1>1 DEF Distinct
<1>3. CASE journal' = journal
  <2>1. pc # "idle" => run \in Runs /\ result'[run] = "lost"
    BY <1>1 DEF Crash, RunTypes
  <2>2. Sound /\ CallsFit => NoneLeft \/ Interrupts \/ Between
    <3> SUFFICES ASSUME Sound, CallsFit PROVE NoneLeft \/ Interrupts \/ Between
      OBVIOUS
    <3>1. CASE pc \in {"idle", "start", "user"}
      BY <1>1, <3>1 DEF Between
    <3>2. CASE pc \in {"ask", "model", "finish"}
      BY <1>1, <3>2 DEF CallsFit, NoneLeft
    <3>3. CASE pc \in {"next", "tool", "told", "catch", "close", "finalize"}
      BY <1>1, <2>1, <3>3 DEF CallsFit, Interrupts
    <3> QED
      BY <1>1, <3>1, <3>2, <3>3 DEF AtWork
  <2> QED
    BY <1>1, <1>2, <1>3, <2>2, SameFits
<1>4. CASE journal' # journal
  <2> DEFINE l == Line("torn", NoCalls, 0)
             before == /\ End > 1 /\ journal[End - 1].type = "tool_result"
                       /\ kind[journal[End - 1].call] = "activate_skill"
  <2>1. Journal(<<l>>) /\ pc \in AtWork
    BY <1>4 DEF Crash, AtWork
  <2>2. run \in Runs
    BY <2>1 DEF RunTypes
  <2>3. l \in Lines /\ l.type = "torn"
    BY <2>2, PlainLineFits DEF LineTypes
  <2>4. before \in BOOLEAN /\ Wrong(l, Open(End), Pending(End), before)
    BY <2>3 DEF Wrong
  <2> HIDE DEF l, before
  <2> QED
    BY <1>1, <1>2, <2>1, <2>2, <2>3, <2>4, LongerFits DEF before
<1> QED
  BY <1>3, <1>4

LEMMA JournalFitsKept ==
  RunTypes /\ RunsFit /\ SkillFits /\ AbortFits /\ JournalFits /\ [Next]_vars => JournalFits'
<1> SUFFICES ASSUME RunTypes, RunsFit, SkillFits, AbortFits, JournalFits, [Next]_vars PROVE JournalFits'
  OBVIOUS
<1>0. SettledStays /\ kind' = kind
  BY ResultsStay, KindStays
<1>1. CASE LoopStep
  BY <1>0, <1>1, LoopJournalFits
<1>2. CASE Crash
  BY <1>0, <1>2, CrashJournalFits
<1>3. CASE Send \/ Resume
  <2>1. /\ journal' = journal /\ todo' = todo /\ pc' # "catch"
        /\ Between \/ pc' = "corrupted"
    BY <1>3 DEF Send, Resume, Between
  <2>2. Distinct(todo')
    BY <2>1 DEF JournalFits
  <2> QED
    BY <1>0, <2>1, <2>2, SameFits
<1>4. CASE Abort \/ UNCHANGED runVars
  <2>1. UNCHANGED <<journal, run, pc, todo, call, cause, result, faults>>
    BY <1>4 DEF Abort, runVars
  <2>2. /\ JournalBreaksOnlyBehindInterruption' /\ (Sound' <=> Sound)
        /\ Open(End)' = Open(End) /\ Pending(End)' = Pending(End)
        /\ Interrupted(End) => Interrupted(End)'
    BY <1>0, <2>1, JournalSame DEF JournalFits
  <2>3. Asking => Asking'
    BY <2>1 DEF Asking
  <2>4. CallsFit => CallsFit'
    BY <2>1, <2>2, <2>3 DEF CallsFit, Said
  <2> QED
    BY <2>1, <2>2, <2>4 DEF JournalFits
<1> QED
  BY <1>1, <1>2, <1>3, <1>4 DEF Next, vars

LEMMA InitJournalFits == Init => SkillFits /\ JournalFits
<1> SUFFICES ASSUME Init PROVE SkillFits /\ JournalFits
  OBVIOUS
<1>1. SkillFits
  BY DEF Init, ToolInit, SkillFits
<1>2. journal = <<>> /\ todo = <<>> /\ pc = "idle"
  BY DEF Init
<1>3. Distinct(todo) /\ End = 1
  BY <1>2 DEF Distinct, End
<1>4. Open(End) = {} /\ Pending(End) = {}
  BY <1>3 DEF Open, Pending
<1>5. CallsFit
  BY <1>2, <1>4 DEF CallsFit
<1>6. JournalBreaksOnlyBehindInterruption
  BY <1>2 DEF JournalBreaksOnlyBehindInterruption
<1> QED
  BY <1>1, <1>2, <1>3, <1>5, <1>6 DEF JournalFits

(* A session stays usable until a crash tears a line, or the user goes on  *)
(* behind calls that a run which did not end well has left; and a call     *)
(* that was begun has its result unless that run crashed or a write of it  *)
(* failed.                                                                 *)
THEOREM SessionBreaksWithReason == Spec => []JournalBreaksOnlyBehindInterruption
<1> DEFINE Inv == RunTypes /\ RunsFit /\ ToolInv /\ AbortFits /\ SkillFits /\ JournalFits
<1>1. Init => Inv
  BY InitRunTypes, InitRunsFit, InitTools, InitJournalFits
<1>2. Inv /\ [Next]_vars => Inv'
  BY RunTypesKept, RunsFitKept, ToolInvKept, AbortFitsKept, SkillFitsKept, JournalFitsKept
<1>3. Inv => JournalBreaksOnlyBehindInterruption
  BY DEF JournalFits
<1> QED
  BY <1>1, <1>2, <1>3, PTL DEF Spec

-----------------------------------------------------------------------------
(* FlattenSeq, by induction over the sequences it puts together: a set of  *)
(* natural numbers has a least one, the form of induction that takes no    *)
(* operator.                                                               *)
LEMMA LeastNat ==
  ASSUME NEW T, T \subseteq Nat, T # {}
  PROVE  \E x \in T : \A y \in T : x <= y
<1>1. PICK x \in T : \A y \in T : ~(<<y, x>> \in OpToRel(<, Nat))
  BY NatLessThanWellFounded, WFMin, Zenon
<1>2. \A y \in T : ~(y < x)
  BY <1>1 DEF OpToRel
<1> QED
  BY <1>2

(* The sequences before and with each, put together.                       *)
Joins(F, s, n) == F = [i \in 1..n |-> IF i = 1 THEN s[i] ELSE F[i - 1] \o s[i]]

LEMMA JoinsExist ==
  ASSUME NEW s, NEW n \in Nat
  PROVE  \E F : Joins(F, s, n)
<1> DEFINE T == {k \in Nat : ~\E F : Joins(F, s, k)}
<1> SUFFICES ASSUME T # {} PROVE FALSE
  OBVIOUS
<1>1. PICK k \in T : \A y \in T : k <= y
  <2>1. T \subseteq Nat
    OBVIOUS
  <2> HIDE DEF T
  <2> QED
    BY <2>1, LeastNat
<1>2. k # 0
  <2>1. Joins(<<>>, s, 0)
    BY DEF Joins
  <2> QED
    BY <2>1
<1>3. k \in Nat \ {0} /\ k - 1 \in Nat /\ k - 1 \notin T
  BY <1>1, <1>2
<1>4. PICK F : Joins(F, s, k - 1)
  BY <1>3
<1> DEFINE G == [i \in 1..k |-> IF i = k THEN (IF i = 1 THEN s[i] ELSE F[i - 1] \o s[i]) ELSE F[i]]
<1>5. \A i \in 1..(k - 1) : F[i] = IF i = 1 THEN s[i] ELSE F[i - 1] \o s[i]
  BY <1>4 DEF Joins
<1>6. ASSUME NEW i \in 1..k PROVE G[i] = IF i = 1 THEN s[i] ELSE G[i - 1] \o s[i]
  <2>1. i # 1 => i - 1 \in 1..k /\ i - 1 # k /\ G[i - 1] = F[i - 1]
    BY <1>3
  <2>2. CASE i = k
    BY <2>1, <2>2
  <2>3. CASE i # k
    <3>1. i \in 1..(k - 1) /\ G[i] = F[i]
      BY <1>3, <2>3
    <3> QED
      BY <1>5, <2>1, <3>1
  <2> QED
    BY <2>2, <2>3
<1>7. Joins(G, s, k)
  <2>1. G = [i \in 1..k |-> G[i]]
    OBVIOUS
  <2> HIDE DEF G
  <2> QED
    BY <1>6, <2>1 DEF Joins
<1> QED
  BY <1>1, <1>7

LEMMA FlattenIsJoin ==
  ASSUME NEW S, NEW s \in Seq(S), s # <<>>
  PROVE  \E F : Joins(F, s, Len(s)) /\ FlattenSeq(s) = F[Len(s)]
<1> DEFINE F == CHOOSE F : F = [i \in 1..Len(s) |-> IF i = 1 THEN s[i] ELSE F[i - 1] \o s[i]]
<1>1. Len(s) \in Nat /\ Len(s) # 0
  OBVIOUS
<1>2. \E G : Joins(G, s, Len(s))
  BY <1>1, JoinsExist
<1>3. Joins(F, s, Len(s))
  BY <1>2 DEF Joins
<1>4. FlattenSeq(s) = F[Len(s)]
  BY <1>1 DEF FlattenSeq
<1> QED
  BY <1>3, <1>4

(* What has been put together when n sequences have been.                  *)
Joined(S, s, F, at, n) ==
  /\ F[n] \in Seq(S) /\ at[n + 1] = Len(F[n]) /\ at[n + 1] = at[n] + Len(s[n])
  /\ \A k \in 1..n : \A i \in 1..Len(s[k]) :
       at[k] + i \in 1..Len(F[n]) /\ F[n][at[k] + i] = s[k][i]
  /\ \A p \in 1..Len(F[n]) : \E k \in 1..n : \E i \in 1..Len(s[k]) : p = at[k] + i

LEMMA JoinedAll ==
  ASSUME NEW S, NEW s \in Seq(Seq(S)), NEW F, Joins(F, s, Len(s)),
         NEW at, at = [k \in 1..(Len(s) + 1) |-> IF k = 1 THEN 0 ELSE Len(F[k - 1])]
  PROVE  \A n \in 1..Len(s) : Joined(S, s, F, at, n)
<1> DEFINE T == {k \in 1..Len(s) : ~Joined(S, s, F, at, k)}
<1> SUFFICES ASSUME T # {} PROVE FALSE
  OBVIOUS
<1>0. Len(s) \in Nat
  OBVIOUS
<1>1. PICK n \in T : \A y \in T : n <= y
  <2>1. T \subseteq Nat
    BY <1>0
  <2> HIDE DEF T
  <2> QED
    BY <2>1, LeastNat
<1>2. n \in 1..Len(s) /\ ~Joined(S, s, F, at, n) /\ (n # 1 => Joined(S, s, F, at, n - 1))
  <2>1. n \in 1..Len(s) /\ ~Joined(S, s, F, at, n)
    OBVIOUS
  <2>2. ASSUME n # 1 PROVE Joined(S, s, F, at, n - 1)
    <3>1. n - 1 \in 1..Len(s) /\ ~(n <= n - 1)
      BY <2>1, <2>2
    <3>2. n - 1 \notin T
      BY <1>1, <3>1
    <3> QED
      BY <3>1, <3>2
  <2> QED
    BY <2>1, <2>2
<1> HIDE DEF T
<1>3. F[n] = IF n = 1 THEN s[n] ELSE F[n - 1] \o s[n]
  BY <1>2 DEF Joins
<1>4. s[n] \in Seq(S) /\ at[n + 1] = Len(F[n]) /\ at[1] = 0
      /\ (n # 1 => at[n] = Len(F[n - 1]))
  BY <1>0, <1>2
<1>5. CASE n = 1
  <2>1. F[1] = s[1] /\ s[1] \in Seq(S) /\ at[2] = Len(s[1]) /\ Len(s[1]) \in Nat
    BY <1>3, <1>4, <1>5
  <2>2. \A k \in 1..1 : k = 1
    OBVIOUS
  <2>3. Joined(S, s, F, at, 1)
    <3>1. /\ F[1] \in Seq(S) /\ at[1] = 0 /\ at[1 + 1] = Len(F[1]) /\ at[1 + 1] = at[1] + Len(s[1])
      BY <1>4, <1>5, <2>1
    <3>2. \A k \in 1..1 : \A i \in 1..Len(s[k]) :
            at[k] + i \in 1..Len(F[1]) /\ F[1][at[k] + i] = s[k][i]
      <4>1. \A i \in 1..Len(s[1]) : 0 + i = i
        BY <2>1
      <4> QED
        BY <2>1, <2>2, <3>1, <4>1
    <3>3. \A p \in 1..Len(F[1]) : \E k \in 1..1 : \E i \in 1..Len(s[k]) : p = at[k] + i
      <4>1. 1 \in 1..1 /\ \A p \in 1..Len(s[1]) : p = 0 + p
        BY <2>1
      <4> QED
        BY <2>1, <3>1, <4>1
    <3> QED
      BY <3>1, <3>2, <3>3 DEF Joined
  <2> QED
    BY <1>2, <1>5, <2>3
<1>6. CASE n # 1
  <2>1. n - 1 \in 1..Len(s) /\ n - 1 + 1 = n /\ Joined(S, s, F, at, n - 1)
    BY <1>0, <1>2, <1>6
  <2> DEFINE f == F[n - 1]
             g == F[n]
             t == s[n]
  <2>2. f \in Seq(S) /\ t \in Seq(S) /\ g = f \o t /\ at[n] = Len(f)
    BY <1>3, <1>4, <1>6, <2>1 DEF Joined
  <2> HIDE DEF f, g, t
  <2>3. /\ g \in Seq(S) /\ Len(g) = Len(f) + Len(t) /\ Len(f) \in Nat /\ Len(t) \in Nat
        /\ \A i \in 1..Len(f) : g[i] = f[i]
        /\ \A i \in 1..Len(t) : g[Len(f) + i] = t[i]
    BY <2>2
  <2>4. ASSUME NEW k \in 1..n, NEW i \in 1..Len(s[k])
        PROVE  at[k] + i \in 1..Len(g) /\ g[at[k] + i] = s[k][i]
    <3>1. CASE k = n
      <4>1. i \in 1..Len(t) /\ s[k][i] = t[i] /\ at[k] = Len(f)
        BY <2>2, <3>1 DEF t
      <4>2. Len(f) + i \in 1..Len(g) /\ g[Len(f) + i] = t[i]
        BY <2>3, <4>1
      <4> QED
        BY <4>1, <4>2
    <3>2. CASE k # n
      <4>1. k \in 1..(n - 1)
        BY <1>2, <3>2
      <4>2. at[k] + i \in 1..Len(f) /\ f[at[k] + i] = s[k][i]
        BY <2>1, <4>1 DEF Joined, f
      <4>3. at[k] + i \in 1..Len(g)
        <5>1. PICK x \in 1..Len(f) : x = at[k] + i
          BY <4>2
        <5>2. x \in 1..Len(g)
          BY <2>3
        <5> QED
          BY <5>1, <5>2
      <4>4. g[at[k] + i] = f[at[k] + i]
        BY <2>3, <4>2
      <4> QED
        BY <4>2, <4>3, <4>4
    <3> QED
      BY <3>1, <3>2
  <2>5. ASSUME NEW p \in 1..Len(g)
        PROVE  \E k \in 1..n : \E i \in 1..Len(s[k]) : p = at[k] + i
    <3>1. CASE p \in 1..Len(f)
      <4>1. PICK k \in 1..(n - 1) : \E i \in 1..Len(s[k]) : p = at[k] + i
        BY <2>1, <3>1 DEF Joined, f
      <4>2. k \in 1..n
        BY <1>2
      <4> QED
        BY <4>1, <4>2
    <3>2. CASE p \notin 1..Len(f)
      <4>1. p - Len(f) \in 1..Len(t) /\ p = Len(f) + (p - Len(f))
        BY <2>3, <3>2
      <4>2. n \in 1..n
        BY <1>2
      <4> QED
        BY <2>2, <4>1, <4>2 DEF t
    <3> QED
      BY <3>1, <3>2
  <2>6. at[n + 1] = Len(g) /\ at[n + 1] = at[n] + Len(s[n])
    BY <1>4, <2>2, <2>3 DEF g, t
  <2>7. Joined(S, s, F, at, n)
    BY <2>3, <2>4, <2>5, <2>6 DEF Joined, g
  <2> QED
    BY <1>2, <2>7
<1> QED
  BY <1>5, <1>6

(* Where each sequence begins in what FlattenSeq makes of them.            *)
Starts(S, s, at) ==
  /\ at \in [1..(Len(s) + 1) -> Nat] /\ FlattenSeq(s) \in Seq(S)
  /\ at[1] = 0 /\ at[Len(s) + 1] = Len(FlattenSeq(s))
  /\ \A k \in 1..Len(s) : at[k + 1] = at[k] + Len(s[k])
  /\ \A k \in 1..Len(s) : \A i \in 1..Len(s[k]) :
       at[k] + i \in 1..Len(FlattenSeq(s)) /\ FlattenSeq(s)[at[k] + i] = s[k][i]
  /\ \A p \in 1..Len(FlattenSeq(s)) : \E k \in 1..Len(s) : \E i \in 1..Len(s[k]) : p = at[k] + i

LEMMA FlattenStarts ==
  ASSUME NEW S, NEW s \in Seq(Seq(S))
  PROVE  \E at : Starts(S, s, at)
<1>0. Len(s) \in Nat
  OBVIOUS
<1>1. CASE s = <<>>
  <2>1. FlattenSeq(s) = <<>> /\ Len(s) = 0
    BY <1>1 DEF FlattenSeq
  <2> DEFINE at == [k \in 1..1 |-> 0]
  <2>2. at \in [1..(Len(s) + 1) -> Nat] /\ at[1] = 0
    BY <2>1
  <2> HIDE DEF at
  <2>3. Starts(S, s, at)
    BY <2>1, <2>2 DEF Starts
  <2> QED
    BY <2>3
<1>2. CASE s # <<>>
  <2>1. PICK F : Joins(F, s, Len(s)) /\ FlattenSeq(s) = F[Len(s)]
    BY <1>2, FlattenIsJoin
  <2> DEFINE at == [k \in 1..(Len(s) + 1) |-> IF k = 1 THEN 0 ELSE Len(F[k - 1])]
  <2>2. \A n \in 1..Len(s) : Joined(S, s, F, at, n)
    BY <2>1, JoinedAll
  <2>3. Len(s) \in 1..Len(s)
    BY <1>0, <1>2
  <2>4. at[1] = 0
    BY <1>0
  <2>5. at \in [1..(Len(s) + 1) -> Nat]
    <3>1. \A k \in 1..(Len(s) + 1) : k = 1 \/ k - 1 \in 1..Len(s)
      BY <1>0
    <3>2. \A k \in 1..Len(s) : Len(F[k]) \in Nat
      BY <2>2 DEF Joined
    <3> QED
      BY <3>1, <3>2
  <2> HIDE DEF at
  <2>6. FlattenSeq(s) \in Seq(S) /\ at[Len(s) + 1] = Len(FlattenSeq(s))
    BY <2>1, <2>2, <2>3 DEF Joined
  <2>7. \A k \in 1..Len(s) : at[k + 1] = at[k] + Len(s[k])
    BY <2>2 DEF Joined
  <2>8. /\ \A k \in 1..Len(s) : \A i \in 1..Len(s[k]) :
             at[k] + i \in 1..Len(FlattenSeq(s)) /\ FlattenSeq(s)[at[k] + i] = s[k][i]
        /\ \A p \in 1..Len(FlattenSeq(s)) : \E k \in 1..Len(s) : \E i \in 1..Len(s[k]) : p = at[k] + i
    <3>1. /\ \A k \in 1..Len(s) : \A i \in 1..Len(s[k]) :
               at[k] + i \in 1..Len(F[Len(s)]) /\ F[Len(s)][at[k] + i] = s[k][i]
          /\ \A p \in 1..Len(F[Len(s)]) : \E k \in 1..Len(s) : \E i \in 1..Len(s[k]) : p = at[k] + i
      BY <2>2, <2>3, Zenon DEF Joined
    <3> QED
      BY <2>1, <3>1, Zenon
  <2> QED
    BY <2>4, <2>5, <2>6, <2>7, <2>8 DEF Starts
<1> QED
  BY <1>1, <1>2

(* A later one does not begin before an earlier one has ended.             *)
LEMMA StartsGrow ==
  ASSUME NEW S, NEW s \in Seq(Seq(S)), NEW at, Starts(S, s, at),
         NEW i \in 1..Len(s)
  PROVE  \A k \in (i + 1)..(Len(s) + 1) : at[i] + Len(s[i]) <= at[k]
<1> DEFINE T == {k \in (i + 1)..(Len(s) + 1) : ~(at[i] + Len(s[i]) <= at[k])}
<1> SUFFICES ASSUME T # {} PROVE FALSE
  OBVIOUS
<1>0. Len(s) \in Nat /\ \A k \in 1..Len(s) : Len(s[k]) \in Nat
  OBVIOUS
<1>1. PICK n \in T : \A y \in T : n <= y
  <2>1. T \subseteq Nat
    BY <1>0
  <2> HIDE DEF T
  <2> QED
    BY <2>1, LeastNat
<1>a. /\ \A k \in 1..(Len(s) + 1) : at[k] \in Nat
      /\ \A k \in 1..Len(s) : at[k + 1] = at[k] + Len(s[k])
  BY DEF Starts
<1>2. at[i + 1] = at[i] + Len(s[i]) /\ at[i + 1] \in Nat /\ i + 1 \in 1..(Len(s) + 1)
  BY <1>0, <1>a
<1>3. n # i + 1
  BY <1>1, <1>2
<1>4. n - 1 \in (i + 1)..(Len(s) + 1) /\ n - 1 \in 1..Len(s) /\ n \in 1..(Len(s) + 1)
  BY <1>0, <1>1, <1>3
<1>5. at[i] + Len(s[i]) <= at[n - 1]
  BY <1>1, <1>4
<1>b. n - 1 + 1 = n
  BY <1>4
<1>6. at[n] = at[n - 1] + Len(s[n - 1]) /\ at[n - 1] \in Nat /\ Len(s[n - 1]) \in Nat
  BY <1>0, <1>4, <1>a, <1>b
<1>7. at[i] + Len(s[i]) <= at[n]
  BY <1>2, <1>5, <1>6
<1> QED
  BY <1>1, <1>7

-----------------------------------------------------------------------------
(* The messages.  What a provider demands, and when it is what              *)
(* repairDanglingToolCalls makes.                                          *)
Answer(m, i, c) ==
  \E j \in DOMAIN m : /\ i < j /\ m[j].call = c
                      /\ \A k \in (i + 1)..j : m[k].type = "tool"
AllAnswered(m) == \A i \in DOMAIN m : \A c \in ToSet(m[i].calls) : Answer(m, i, c)

(* Messages that may be repaired: they do not begin with an answer, and    *)
(* answers ask for nothing.                                                *)
Orderly(m) ==
  /\ m \in Seq(Lines)
  /\ m # <<>> => m[1].type # "tool"
  /\ \A i \in DOMAIN m : m[i].type = "tool" => m[i].calls = <<>>

MadeUp == {l \in Lines : l.type = "tool" /\ l.calls = <<>>}

OwnerOf(m, i) ==
  CHOOSE j \in 1..i : m[j].type # "tool" /\ \A k \in (j + 1)..i : m[k].type = "tool"
Closing(m, i) == i = Len(m) \/ m[i + 1].type # "tool"
AnswersTo(m, i, c) ==
  IF \E k \in (OwnerOf(m, i) + 1)..i : m[k].call = c THEN <<>>
  ELSE <<[type |-> "tool", run |-> m[i].run, calls |-> NoCalls, call |-> c]>>
AnswersBehind(m, i) ==
  [n \in DOMAIN m[OwnerOf(m, i)].calls |-> AnswersTo(m, i, m[OwnerOf(m, i)].calls[n])]
Blocks(m) ==
  [i \in DOMAIN m |->
     <<m[i]>> \o (IF Closing(m, i) THEN FlattenSeq(AnswersBehind(m, i)) ELSE <<>>)]

LEMMA RepairedIsFlat ==
  ASSUME NEW m
  PROVE  Repaired(m) = FlattenSeq(Blocks(m))
  BY DEF Repaired, Blocks, AnswersBehind, AnswersTo, Closing, OwnerOf

LEMMA OwnerIs ==
  ASSUME NEW m, NEW i \in Nat, NEW j \in 1..i,
         m[j].type # "tool", \A k \in (j + 1)..i : m[k].type = "tool"
  PROVE  OwnerOf(m, i) = j
<1>1. ASSUME NEW h \in 1..i, m[h].type # "tool", \A k \in (h + 1)..i : m[k].type = "tool"
      PROVE  h = j
  <2>1. ~(h < j)
    <3>1. h < j => j \in (h + 1)..i
      OBVIOUS
    <3> QED
      BY <1>1, <3>1
  <2>2. ~(j < h)
    <3>1. j < h => h \in (j + 1)..i
      OBVIOUS
    <3> QED
      BY <1>1, <3>1
  <2> QED
    BY <2>1, <2>2
<1> QED
  BY <1>1 DEF OwnerOf

LEMMA OwnerExists ==
  ASSUME NEW m, Orderly(m)
  PROVE  \A i \in DOMAIN m :
           OwnerOf(m, i) \in 1..i /\ m[OwnerOf(m, i)].type # "tool"
<1> DEFINE Owns(j, i) == m[j].type # "tool" /\ \A k \in (j + 1)..i : m[k].type = "tool"
           T == {i \in DOMAIN m : ~\E j \in 1..i : Owns(j, i)}
<1>0. DOMAIN m = 1..Len(m) /\ Len(m) \in Nat
  BY DEF Orderly
<1>1. T = {}
  <2> SUFFICES ASSUME T # {} PROVE FALSE
    OBVIOUS
  <2>1. PICK n \in T : \A y \in T : n <= y
    <3>1. T \subseteq Nat
      BY <1>0
    <3> HIDE DEF T
    <3> QED
      BY <3>1, LeastNat
  <2>2. n \in 1..Len(m) /\ ~\E j \in 1..n : Owns(j, n)
    BY <1>0
  <2>3. m[n].type = "tool"
    <3>1. \A k \in (n + 1)..n : FALSE
      BY <2>2
    <3>2. n \in 1..n
      BY <2>2
    <3> QED
      BY <2>2, <3>1, <3>2
  <2>4. n # 1
    BY <1>0, <2>2, <2>3 DEF Orderly
  <2>5. n - 1 \in DOMAIN m /\ ~(n <= n - 1)
    BY <1>0, <2>2, <2>4
  <2>6. n - 1 \notin T
    BY <2>1, <2>5
  <2>7. PICK j \in 1..(n - 1) : Owns(j, n - 1)
    BY <2>5, <2>6
  <2>8. \A k \in (j + 1)..n : k \in (j + 1)..(n - 1) \/ k = n
    BY <2>2, <2>7
  <2>9. j \in 1..n /\ Owns(j, n)
    BY <2>2, <2>3, <2>7, <2>8
  <2> QED
    BY <2>2, <2>9
<1> SUFFICES ASSUME NEW i \in DOMAIN m
             PROVE  OwnerOf(m, i) \in 1..i /\ m[OwnerOf(m, i)].type # "tool"
  OBVIOUS
<1>2. PICK j \in 1..i : Owns(j, i)
  BY <1>1
<1>3. OwnerOf(m, i) = j
  BY <1>0, <1>2, OwnerIs
<1> QED
  BY <1>2, <1>3

LEMMA MadeUpFrom ==
  ASSUME NEW x \in Lines, NEW c \in Calls
  PROVE  /\ [type |-> "tool", run |-> x.run, calls |-> NoCalls, call |-> c] \in MadeUp
         /\ [type |-> "tool", run |-> x.run, calls |-> NoCalls, call |-> c].call = c
<1>1. x.run \in Runs
  BY DEF Lines
<1>2. NoCalls \in Seq(Calls)
  BY DEF NoCalls
<1> QED
  BY <1>1, <1>2 DEF Lines, MadeUp, NoCalls

(* Every call the owner has made has an answer among its own, or one that  *)
(* is made up.                                                             *)
AnsweredBy(m, i, c) ==
  \/ \E k \in (OwnerOf(m, i) + 1)..i : m[k].call = c
  \/ \E q \in 1..Len(FlattenSeq(AnswersBehind(m, i))) :
       FlattenSeq(AnswersBehind(m, i))[q].call = c

LEMMA BehindFits ==
  ASSUME NEW m, Orderly(m), NEW i \in DOMAIN m
  PROVE  /\ FlattenSeq(AnswersBehind(m, i)) \in Seq(MadeUp)
         /\ \A c \in ToSet(m[OwnerOf(m, i)].calls) : AnsweredBy(m, i, c)
<1> DEFINE o == OwnerOf(m, i)
           calls == m[o].calls
           a == AnswersBehind(m, i)
<1>1. DOMAIN m = 1..Len(m) /\ Len(m) \in Nat /\ o \in 1..i /\ o \in DOMAIN m
  BY OwnerExists DEF Orderly
<1>2. m[o] \in Lines /\ m[i] \in Lines /\ calls \in Seq(Calls)
  <2>1. m \in Seq(Lines)
    BY DEF Orderly
  <2>2. m[o] \in Lines /\ m[i] \in Lines
    BY <1>1, <2>1
  <2>3. \A l \in Lines : l.calls \in Seq(Calls)
    BY DEF Lines
  <2> QED
    BY <2>2, <2>3
<1>3. DOMAIN calls = 1..Len(calls) /\ Len(calls) \in Nat /\ \A n \in 1..Len(calls) : calls[n] \in Calls
  BY <1>2
<1>4. a = [n \in 1..Len(calls) |-> AnswersTo(m, i, calls[n])]
  BY <1>3 DEF AnswersBehind
<1> HIDE DEF o, calls, a
<1>5. ASSUME NEW c \in Calls
      PROVE  /\ AnswersTo(m, i, c) \in Seq(MadeUp)
             /\ \/ AnswersTo(m, i, c) = <<>> /\ \E k \in (o + 1)..i : m[k].call = c
                \/ Len(AnswersTo(m, i, c)) = 1 /\ AnswersTo(m, i, c)[1].call = c
  <2> DEFINE l == [type |-> "tool", run |-> m[i].run, calls |-> NoCalls, call |-> c]
  <2>1. l \in MadeUp /\ l.call = c
    BY <1>2, MadeUpFrom
  <2> HIDE DEF l
  <2>2. AnswersTo(m, i, c) = IF \E k \in (o + 1)..i : m[k].call = c THEN <<>> ELSE <<l>>
    BY DEF AnswersTo, o, l
  <2>3. CASE \E k \in (o + 1)..i : m[k].call = c
    BY <2>2, <2>3
  <2>4. CASE ~\E k \in (o + 1)..i : m[k].call = c
    <3>1. AnswersTo(m, i, c) = <<l>>
      BY <2>2, <2>4
    <3> QED
      BY <2>1, <3>1
  <2> QED
    BY <2>3, <2>4
<1>6. a \in Seq(Seq(MadeUp)) /\ Len(a) = Len(calls)
  BY <1>3, <1>4, <1>5
<1>7. PICK at : Starts(MadeUp, a, at)
  BY <1>6, FlattenStarts
<1>8. FlattenSeq(a) \in Seq(MadeUp)
  BY <1>7 DEF Starts
<1>9. ASSUME NEW c \in ToSet(calls)
      PROVE  \/ \E k \in (o + 1)..i : m[k].call = c
             \/ \E q \in 1..Len(FlattenSeq(a)) : FlattenSeq(a)[q].call = c
  <2>1. PICK n \in 1..Len(calls) : calls[n] = c
    BY <1>3 DEF ToSet
  <2>2. c \in Calls /\ a[n] = AnswersTo(m, i, c)
    BY <1>3, <1>4, <2>1
  <2>3. CASE \E k \in (o + 1)..i : m[k].call = c
    BY <2>3
  <2>4. CASE Len(AnswersTo(m, i, c)) = 1 /\ AnswersTo(m, i, c)[1].call = c
    <3>1. n \in 1..Len(a) /\ 1 \in 1..Len(a[n]) /\ a[n][1].call = c
      BY <1>6, <2>2, <2>4
    <3>2. at[n] + 1 \in 1..Len(FlattenSeq(a)) /\ FlattenSeq(a)[at[n] + 1] = a[n][1]
      BY <1>7, <3>1 DEF Starts
    <3> QED
      BY <3>1, <3>2
  <2> QED
    BY <1>5, <2>2, <2>3, <2>4
<1> QED
  BY <1>8, <1>9 DEF o, calls, a, AnsweredBy

(* What the repair makes of one message: the message, and behind the last  *)
(* answer those that are made up.                                          *)
BlockFits(m, i, b) ==
  /\ b \in Seq(Lines) /\ Len(b) \in Nat \ {0} /\ b[1] = m[i]
  /\ \A r \in 2..Len(b) : b[r] \in MadeUp
  /\ Closing(m, i) =>
       \A q \in 1..Len(FlattenSeq(AnswersBehind(m, i))) :
         1 + q \in 1..Len(b) /\ b[1 + q] = FlattenSeq(AnswersBehind(m, i))[q]

LEMMA BlocksFit ==
  ASSUME NEW m, Orderly(m)
  PROVE  /\ Blocks(m) \in Seq(Seq(Lines)) /\ Len(Blocks(m)) = Len(m)
         /\ \A i \in 1..Len(m) : BlockFits(m, i, Blocks(m)[i])
<1>1. DOMAIN m = 1..Len(m) /\ Len(m) \in Nat /\ \A i \in 1..Len(m) : m[i] \in Lines
  BY DEF Orderly
<1>2. ASSUME NEW i \in 1..Len(m) PROVE BlockFits(m, i, Blocks(m)[i])
  <2> DEFINE f == FlattenSeq(AnswersBehind(m, i))
             b == Blocks(m)[i]
  <2>1. f \in Seq(MadeUp)
    BY <1>1, BehindFits
  <2>2. MadeUp \subseteq Lines /\ m[i] \in Lines
    BY <1>1 DEF MadeUp
  <2>3. b = <<m[i]>> \o (IF Closing(m, i) THEN f ELSE <<>>)
    BY <1>1 DEF Blocks
  <2> HIDE DEF f, b
  <2>4. CASE Closing(m, i)
    <3>1. b = <<m[i]>> \o f
      BY <2>3, <2>4
    <3>2. <<m[i]>> \in Seq(Lines) /\ Len(<<m[i]>>) = 1 /\ f \in Seq(Lines)
      BY <2>1, <2>2
    <3>3. /\ b \in Seq(Lines) /\ Len(b) = 1 + Len(f) /\ Len(f) \in Nat /\ b[1] = m[i]
          /\ \A q \in 1..Len(f) : b[1 + q] = f[q]
      BY <3>1, <3>2
    <3>4. ASSUME NEW r \in 2..Len(b) PROVE b[r] \in MadeUp
      <4>1. r - 1 \in 1..Len(f) /\ 1 + (r - 1) = r
        BY <3>3
      <4>2. b[r] = f[r - 1]
        BY <3>3, <4>1
      <4> QED
        BY <2>1, <4>1, <4>2
    <3>5. \A q \in 1..Len(f) : 1 + q \in 1..Len(b)
      BY <3>3
    <3> QED
      BY <3>3, <3>4, <3>5 DEF BlockFits, f, b
  <2>5. CASE ~Closing(m, i)
    <3>1. b = <<m[i]>>
      BY <2>3, <2>5
    <3>2. b \in Seq(Lines) /\ Len(b) = 1 /\ b[1] = m[i]
      BY <2>2, <3>1
    <3>3. 2..Len(b) = {}
      BY <3>2
    <3> QED
      BY <2>5, <3>2, <3>3 DEF BlockFits, b
  <2> QED
    BY <2>4, <2>5
<1>3. \A i \in 1..Len(m) : Blocks(m)[i] \in Seq(Lines)
  BY <1>2 DEF BlockFits
<1>4. Blocks(m) = [i \in 1..Len(m) |-> Blocks(m)[i]]
  BY <1>1 DEF Blocks
<1>5. Blocks(m) \in Seq(Seq(Lines)) /\ Len(Blocks(m)) = Len(m)
  BY <1>1, <1>3, <1>4
<1> QED
  BY <1>2, <1>5

(* The run of answers behind a message ends with one that closes it.       *)
LEMMA CloserExists ==
  ASSUME NEW m, Orderly(m), NEW k \in 1..Len(m), m[k].type # "tool"
  PROVE  \E e \in k..Len(m) :
           /\ Closing(m, e) /\ OwnerOf(m, e) = k
           /\ \A x \in (k + 1)..e : m[x].type = "tool"
<1>0. Len(m) \in Nat
  BY DEF Orderly
<1> DEFINE T == {e \in k..Len(m) : Closing(m, e)}
<1>1. T \subseteq Nat /\ Len(m) \in T
  BY <1>0 DEF Closing
<1>2. PICK e \in T : \A y \in T : e <= y
  <2> HIDE DEF T
  <2> QED
    BY <1>1, LeastNat
<1>3. ASSUME NEW x \in (k + 1)..e PROVE m[x].type = "tool"
  <2>1. x - 1 \in k..Len(m) /\ ~(e <= x - 1) /\ x - 1 + 1 = x
    BY <1>0, <1>2
  <2>2. x - 1 \notin T
    BY <1>2, <2>1
  <2> QED
    BY <2>1, <2>2 DEF Closing
<1>4. OwnerOf(m, e) = k
  BY <1>0, <1>3, OwnerIs
<1> QED
  BY <1>3, <1>4

(* repairDanglingToolCalls does what it is for, whatever is missing.       *)
LEMMA RepairAnswers ==
  ASSUME NEW m, Orderly(m)
  PROVE  Repaired(m) \in Seq(Lines) /\ AllAnswered(Repaired(m))
<1> DEFINE w == Repaired(m)
           b == Blocks(m)
<1>1. w = FlattenSeq(b)
  BY RepairedIsFlat
<1>2. b \in Seq(Seq(Lines)) /\ Len(b) = Len(m) /\ Len(m) \in Nat
  BY BlocksFit DEF Orderly
<1>3. \A i \in 1..Len(m) : BlockFits(m, i, b[i])
  BY BlocksFit
<1> HIDE DEF w, b
<1>4. PICK at : Starts(Lines, b, at)
  BY <1>2, FlattenStarts
<1>5. /\ w \in Seq(Lines) /\ DOMAIN w = 1..Len(w) /\ Len(w) \in Nat
      /\ \A k \in 1..Len(m) : \A i \in 1..Len(b[k]) :
           at[k] + i \in 1..Len(w) /\ w[at[k] + i] = b[k][i]
      /\ \A p \in 1..Len(w) : \E k \in 1..Len(m) : \E i \in 1..Len(b[k]) : p = at[k] + i
  BY <1>1, <1>2, <1>4 DEF Starts
(* Where a block begins and where it ends.                                 *)
<1> DEFINE to == [k \in 1..Len(m) |-> at[k] + Len(b[k])]
<1>6. \A k \in 1..Len(m) : Len(b[k]) \in Nat \ {0} /\ b[k][1] = m[k]
  BY <1>3 DEF BlockFits
<1>7. ASSUME NEW k \in 1..Len(m)
      PROVE  /\ at[k] \in Nat /\ to[k] \in Nat /\ at[k] + 1 <= to[k]
             /\ \A q \in 1..Len(b[k]) : q \in Nat /\ 1 <= q /\ at[k] + q <= to[k]
  <2>1. at[k] \in Nat
    <3>1. k \in 1..(Len(b) + 1)
      BY <1>2
    <3> QED
      BY <1>4, <3>1 DEF Starts
  <2>2. PICK n \in Nat \ {0} : n = Len(b[k])
    BY <1>6
  <2>3. to[k] = at[k] + n
    BY <2>2
  <2> HIDE DEF to
  <2> QED
    BY <2>1, <2>2, <2>3
<1>8. ASSUME NEW i \in 1..Len(m), NEW k \in 1..Len(m), i < k
      PROVE  to[i] <= at[k]
  <2>1. k \in (i + 1)..(Len(b) + 1) /\ i \in 1..Len(b)
    BY <1>2, <1>8
  <2>2. at[i] + Len(b[i]) <= at[k]
    BY <1>2, <1>4, <2>1, StartsGrow
  <2> QED
    BY <2>2
<1> HIDE DEF to
(* Between a message and the end of the block that closes it.              *)
<1>9. ASSUME NEW k \in 1..Len(m), NEW h \in 1..Len(m), NEW e \in 1..Len(m), k < h, h <= e
       PROVE  at[k] + 1 < at[h] + 1 /\ at[h] + 1 <= to[e]
  <2>1. /\ at[k] \in Nat /\ to[k] \in Nat /\ at[k] + 1 <= to[k] /\ to[k] <= at[h]
        /\ at[h] \in Nat /\ to[h] \in Nat /\ at[h] + 1 <= to[h]
        /\ at[e] \in Nat /\ to[e] \in Nat /\ at[e] + 1 <= to[e]
    BY <1>7, <1>8, <1>9
  <2>2. at[k] + 1 < at[h] + 1
    BY <2>1
  <2>3. CASE h = e
    BY <2>1, <2>2, <2>3
  <2>4. CASE h < e
    <3>1. to[h] <= at[e]
      BY <1>8, <2>4
    <3>2. to[h] <= to[e]
      BY <2>1, <3>1
    <3>3. at[h] + 1 <= to[e]
      BY <2>1, <3>2
    <3> QED
      BY <2>2, <3>3
  <2> QED
    BY <1>2, <1>9, <2>3, <2>4
<1>10. ASSUME NEW k \in 1..Len(m), NEW e \in 1..Len(m), k <= e, NEW q \in 2..Len(b[e])
       PROVE  at[k] + 1 < at[e] + q /\ at[e] + q <= to[e]
  <2>1. q \in 1..Len(b[e]) /\ q \in Nat /\ 2 <= q
    BY <1>6
  <2>2. /\ at[k] \in Nat /\ to[k] \in Nat /\ at[k] + 1 <= to[k]
        /\ at[e] \in Nat /\ at[e] + q <= to[e]
    BY <1>7, <2>1
  <2>3. CASE k = e
    BY <2>1, <2>2, <2>3
  <2>4. CASE k < e
    <3>1. to[k] <= at[e]
      BY <1>8, <2>4
    <3> QED
      BY <2>1, <2>2, <3>1
  <2> QED
    BY <1>2, <1>10, <2>3, <2>4
<1>11. ASSUME NEW k \in 1..Len(m), NEW e \in 1..Len(m), NEW x \in 1..Len(m),
              NEW q \in 1..Len(b[x]), at[k] + 1 < at[x] + q, at[x] + q <= to[e]
       PROVE  k <= x /\ x <= e /\ (q = 1 => x # k)
  <2>1. /\ at[k] \in Nat /\ at[e] \in Nat /\ at[x] \in Nat
        /\ to[k] \in Nat /\ to[e] \in Nat /\ to[x] \in Nat
        /\ q \in Nat /\ 1 <= q /\ at[x] + q <= to[x]
    BY <1>7
  <2>2. ASSUME x < k PROVE FALSE
    <3>1. to[x] <= at[k]
      BY <1>8, <2>2
    <3> QED
      BY <1>11, <2>1, <3>1
  <2>3. ASSUME e < x PROVE FALSE
    <3>1. to[e] <= at[x]
      BY <1>8, <2>3
    <3> QED
      BY <1>11, <2>1, <3>1
  <2>4. q = 1 => x # k
    BY <1>11, <2>1
  <2> QED
    BY <1>2, <2>2, <2>3, <2>4
<1>12. ASSUME NEW e \in 1..Len(m), NEW d \in ToSet(m[OwnerOf(m, e)].calls)
       PROVE  AnsweredBy(m, e, d)
  <2>1. e \in DOMAIN m
    BY DEF Orderly
  <2> QED
    BY <2>1, BehindFits
<1>13. ASSUME NEW p \in 1..Len(w), NEW c \in ToSet(w[p].calls)
      PROVE  Answer(w, p, c)
  <2>0. PICK k \in 1..Len(m) : \E r \in 1..Len(b[k]) : p = at[k] + r
    BY <1>5
  <2>1. PICK r \in 1..Len(b[k]) : p = at[k] + r
    BY <2>0
  <2>2. w[p] = b[k][r]
    BY <1>5, <2>1
  <2>3. w[p].calls # <<>>
    BY DEF ToSet
  <2>4. r = 1
    <3>1. r # 1 => r \in 2..Len(b[k])
      BY <1>6
    <3>2. r # 1 => w[p] \in MadeUp
      BY <1>3, <2>2, <3>1 DEF BlockFits
    <3> QED
      BY <2>3, <3>2 DEF MadeUp
  <2>5. w[p] = m[k] /\ p = at[k] + 1
    BY <1>6, <2>1, <2>2, <2>4
  <2>6. m[k].type # "tool" /\ DOMAIN m = 1..Len(m)
    BY <2>3, <2>5 DEF Orderly
  <2>7. PICK e \in k..Len(m) : /\ Closing(m, e) /\ OwnerOf(m, e) = k
                               /\ \A x \in (k + 1)..e : m[x].type = "tool"
    BY <2>6, CloserExists
  <2>8. e \in 1..Len(m) /\ k <= e
    BY <1>2
  <2>9. ASSUME NEW y \in 1..Len(w), p < y, y <= to[e]
        PROVE  w[y].type = "tool"
    <3>0. PICK x \in 1..Len(m) : \E q \in 1..Len(b[x]) : y = at[x] + q
      BY <1>5
    <3>1. PICK q \in 1..Len(b[x]) : y = at[x] + q
      BY <3>0
    <3>2. w[y] = b[x][q]
      BY <1>5, <3>1
    <3>3. k <= x /\ x <= e /\ (q = 1 => x # k)
      BY <1>11, <2>5, <2>8, <2>9, <3>1
    <3>4. CASE q = 1
      <4>1. x \in (k + 1)..e
        BY <1>2, <3>3, <3>4
      <4> QED
        BY <1>6, <2>7, <3>2, <3>4, <4>1
    <3>5. CASE q # 1
      <4>1. q \in 2..Len(b[x])
        BY <1>6, <3>5
      <4>2. w[y] \in MadeUp
        BY <1>3, <3>2, <4>1 DEF BlockFits
      <4> QED
        BY <4>2 DEF MadeUp
    <3> QED
      BY <3>4, <3>5
  <2>10. ASSUME NEW j \in 1..Len(w), p < j, j <= to[e], w[j].call = c
         PROVE  Answer(w, p, c)
    <3>1. to[e] \in Nat
      BY <1>7, <2>8
    <3>2. ASSUME NEW y \in (p + 1)..j PROVE w[y].type = "tool"
      <4>1. y \in 1..Len(w) /\ p < y /\ y <= to[e]
        BY <1>5, <2>10, <3>1
      <4> QED
        BY <2>9, <4>1
    <3> QED
      BY <1>5, <2>10, <3>2 DEF Answer
  <2>11. \/ \E h \in (k + 1)..e : m[h].call = c
         \/ \E q \in 1..Len(FlattenSeq(AnswersBehind(m, e))) :
              FlattenSeq(AnswersBehind(m, e))[q].call = c
    <3>1. e \in DOMAIN m /\ c \in ToSet(m[OwnerOf(m, e)].calls)
      BY <2>5, <2>6, <2>7, <2>8
    <3>2. AnsweredBy(m, e, c)
      BY <1>12, <2>8, <3>1, Zenon
    <3> QED
      BY <2>7, <3>2, Zenon DEF AnsweredBy
  <2>12. ASSUME NEW h \in (k + 1)..e, m[h].call = c PROVE Answer(w, p, c)
    <3>1. h \in 1..Len(m) /\ k < h /\ h <= e
      BY <1>2
    <3>2. at[h] + 1 \in 1..Len(w) /\ w[at[h] + 1].call = c
      BY <1>5, <1>6, <2>12, <3>1
    <3>3. p < at[h] + 1 /\ at[h] + 1 <= to[e]
      BY <1>9, <2>5, <2>8, <3>1
    <3> QED
      BY <2>10, <3>2, <3>3
  <2>13. ASSUME NEW q \in 1..Len(FlattenSeq(AnswersBehind(m, e))),
                FlattenSeq(AnswersBehind(m, e))[q].call = c
         PROVE  Answer(w, p, c)
    <3>1. 1 + q \in 1..Len(b[e]) /\ b[e][1 + q].call = c
      BY <1>3, <2>7, <2>8, <2>13 DEF BlockFits
    <3>2. at[e] + (1 + q) \in 1..Len(w) /\ w[at[e] + (1 + q)].call = c
      BY <1>5, <2>8, <3>1
    <3>3. q \in Nat /\ 1 <= q
      <4>1. FlattenSeq(AnswersBehind(m, e)) \in Seq(MadeUp)
        BY <2>6, <2>8, BehindFits
      <4> QED
        BY <4>1
    <3>4. 1 + q \in 2..Len(b[e])
      BY <1>6, <2>8, <3>1, <3>3
    <3>5. p < at[e] + (1 + q) /\ at[e] + (1 + q) <= to[e]
      BY <1>10, <2>5, <2>8, <3>4
    <3> QED
      BY <2>10, <3>2, <3>5
  <2> QED
    BY <2>11, <2>12, <2>13
<1> QED
  BY <1>5, <1>13 DEF AllAnswered, w

(* Before every answer the journal has a message, and only the model's     *)
(* messages ask for anything: this is what makes its messages orderly.     *)
LeadFits ==
  /\ \A i \in DOMAIN journal :
       /\ journal[i].type # "assistant" => journal[i].calls = NoCalls
       /\ journal[i].type = "tool_result" => \E j \in 1..(i - 1) : IsMessage(j)
  /\ pc \in {"ask", "model", "next", "tool", "told"} => \E j \in DOMAIN journal : IsMessage(j)

(* A message waits for its answers: those that are not behind it yet are   *)
(* to come, and the messages before it have theirs.                        *)
Awaiting(m, i, coming) ==
  /\ \A k \in (i + 1)..Len(m) : m[k].type = "tool"
  /\ \A c \in ToSet(m[i].calls) : c \in coming \/ Answer(m, i, c)
  /\ \A h \in DOMAIN m \ {i} : \A c \in ToSet(m[h].calls) : Answer(m, h, c)

Coming == ToSet(todo) \cup (IF pc = "tool" THEN {call} ELSE {})

MessagesFit ==
  /\ memory \in Seq(Lines) /\ AllAnswered(memory)
  /\ messages \in Seq(Lines)
  /\ IF pc \in {"next", "tool", "told"}
       THEN \E i \in DOMAIN messages : Awaiting(messages, i, Coming)
       ELSE AllAnswered(messages)

-----------------------------------------------------------------------------
(* What a line of the journal is to a new process: Message of Replayed.    *)
Heard(l) ==
  CASE l.type \in {"user", "assistant"} -> <<l>>
    [] l.type = "tool_result" -> <<[l EXCEPT !.type = "tool"]>>
    [] OTHER -> <<>>

LEMMA HeardFits ==
  ASSUME NEW l \in Lines, l.type # "assistant" => l.calls = <<>>
  PROVE  /\ Heard(l) \in Seq(Lines)
         /\ l.type \in {"user", "assistant"} => Len(Heard(l)) = 1
         /\ \A i \in 1..Len(Heard(l)) :
              /\ i = 1
              /\ Heard(l)[i].type = "tool" => l.type = "tool_result" /\ Heard(l)[i].calls = <<>>
<1>1. CASE l.type \in {"user", "assistant"}
  <2>1. Heard(l) = <<l>>
    BY <1>1 DEF Heard
  <2>2. l.type # "tool"
    BY <1>1
  <2> QED
    BY <2>1, <2>2
<1>2. CASE l.type = "tool_result"
  <2> DEFINE x == [l EXCEPT !.type = "tool"]
  <2>1. x \in Lines /\ x.calls = l.calls
    BY DEF Lines
  <2>2. Heard(l) = <<x>>
    BY <1>2 DEF Heard
  <2> HIDE DEF x
  <2>3. x.calls = <<>> /\ l.type \notin {"user", "assistant"}
    BY <1>2, <2>1
  <2> QED
    BY <1>2, <2>1, <2>2, <2>3
<1>3. CASE l.type \notin {"user", "assistant", "tool_result"}
  <2>1. Heard(l) = <<>>
    BY <1>3 DEF Heard
  <2> QED
    BY <1>3, <2>1
<1> QED
  BY <1>1, <1>2, <1>3

LEMMA ReplayedOrderly ==
  ASSUME RunTypes, LeadFits
  PROVE  Orderly(Replayed)
<1> DEFINE s == [i \in DOMAIN journal |-> Heard(journal[i])]
           w == Replayed
<1>1. w = FlattenSeq(s)
  BY DEF Replayed, Heard
<1>2. DOMAIN journal = 1..Len(journal) /\ Len(journal) \in Nat
  BY DEF RunTypes
<1>3. \A i \in 1..Len(journal) :
        journal[i] \in Lines /\ (journal[i].type # "assistant" => journal[i].calls = <<>>)
  <2>1. \A i \in 1..Len(journal) : journal[i] \in Lines
    BY <1>2 DEF RunTypes
  <2>2. \A i \in 1..Len(journal) : journal[i].type # "assistant" => journal[i].calls = <<>>
    BY <1>2, Zenon DEF LeadFits, NoCalls
  <2> QED
    BY <2>1, <2>2
<1>4. s = [i \in 1..Len(journal) |-> Heard(journal[i])]
  BY <1>2
<1>5. \A i \in 1..Len(journal) : s[i] = Heard(journal[i])
  BY <1>4
<1>6. s \in Seq(Seq(Lines)) /\ Len(s) = Len(journal)
  <2>1. \A i \in 1..Len(journal) : Heard(journal[i]) \in Seq(Lines)
    BY <1>3, HeardFits
  <2> QED
    BY <1>2, <1>4, <2>1
<1> HIDE DEF s, w
<1>7. PICK at : Starts(Lines, s, at)
  BY <1>6, FlattenStarts
<1>8. w \in Seq(Lines) /\ DOMAIN w = 1..Len(w) /\ Len(w) \in Nat
  BY <1>1, <1>7 DEF Starts
<1>9. ASSUME NEW p \in 1..Len(w)
      PROVE  \E k \in 1..Len(journal) :
               /\ p = at[k] + 1
               /\ w[p].type = "tool" => journal[k].type = "tool_result" /\ w[p].calls = <<>>
  <2>1. PICK k \in 1..Len(journal) : \E i \in 1..Len(s[k]) : p = at[k] + i
    <3>1. p \in 1..Len(FlattenSeq(s))
      BY <1>1
    <3>2. \E k \in 1..Len(s) : \E i \in 1..Len(s[k]) : p = at[k] + i
      BY <1>7, <3>1, Zenon DEF Starts
    <3> QED
      BY <1>6, <3>2, Zenon
  <2>2. PICK i \in 1..Len(s[k]) : p = at[k] + i
    BY <2>1
  <2>3. w[p] = Heard(journal[k])[i]
    <3>1. k \in 1..Len(s) /\ s[k] = Heard(journal[k])
      BY <1>5, <1>6
    <3>2. FlattenSeq(s)[at[k] + i] = s[k][i]
      BY <1>7, <3>1 DEF Starts
    <3> QED
      BY <1>1, <2>2, <3>1, <3>2, Zenon
  <2>4. i \in 1..Len(Heard(journal[k]))
    BY <1>5
  <2> QED
    BY <1>3, <2>2, <2>3, <2>4, HeardFits
<1>10. ASSUME w # <<>>, w[1].type = "tool" PROVE FALSE
  <2>1. 1 \in 1..Len(w)
    BY <1>8, <1>10
  <2>2. PICK k \in 1..Len(journal) : 1 = at[k] + 1 /\ journal[k].type = "tool_result"
    BY <1>9, <1>10, <2>1
  <2>3. PICK j \in 1..(k - 1) : IsMessage(j)
    BY <1>2, <2>2 DEF LeadFits
  <2>4. j \in 1..Len(journal) /\ k \in (j + 1)..(Len(s) + 1) /\ j \in 1..Len(s)
    BY <1>2, <1>6
  <2>5. Len(s[j]) = 1
    BY <1>3, <1>5, <2>3, <2>4, HeardFits DEF IsMessage
  <2>6. at[j] + Len(s[j]) <= at[k]
    BY <1>6, <1>7, <2>4, StartsGrow
  <2>7. at[j] \in Nat /\ at[k] \in Nat
    <3>1. j \in 1..(Len(s) + 1) /\ k \in 1..(Len(s) + 1)
      BY <1>2, <1>6, <2>4
    <3> QED
      BY <1>7, <3>1 DEF Starts
  <2> QED
    BY <2>2, <2>5, <2>6, <2>7
<1>11. \A p \in 1..Len(w) : w[p].type = "tool" => w[p].calls = <<>>
  BY <1>9
<1>12. Orderly(w)
  BY <1>8, <1>10, <1>11 DEF Orderly
<1> QED
  BY <1>12 DEF w

(* What one message more does to the answers.                              *)
LEMMA AppendAnswers ==
  ASSUME NEW m \in Seq(Lines), NEW l \in Lines, NEW i \in 1..Len(m), NEW c, Answer(m, i, c)
  PROVE  Answer(Append(m, l), i, c)
<1> DEFINE w == Append(m, l)
<1>1. /\ DOMAIN m = 1..Len(m) /\ DOMAIN w = 1..(Len(m) + 1) /\ Len(m) \in Nat
      /\ \A k \in 1..Len(m) : w[k] = m[k]
  OBVIOUS
<1> HIDE DEF w
<1>2. PICK j \in 1..Len(m) : i < j /\ m[j].call = c /\ \A k \in (i + 1)..j : m[k].type = "tool"
  BY <1>1 DEF Answer
<1>3. \A k \in (i + 1)..j : w[k] = m[k]
  BY <1>1, <1>2
<1>4. j \in DOMAIN w /\ w[j].call = c
  BY <1>1, <1>2
<1>5. Answer(w, i, c)
  BY <1>2, <1>3, <1>4 DEF Answer
<1> QED
  BY <1>5 DEF w

LEMMA AppendAnswered ==
  ASSUME NEW m \in Seq(Lines), NEW l \in Lines, AllAnswered(m)
  PROVE  /\ Append(m, l) \in Seq(Lines)
         /\ l.calls = <<>> => AllAnswered(Append(m, l))
         /\ Len(m) + 1 \in DOMAIN Append(m, l)
         /\ Awaiting(Append(m, l), Len(m) + 1, ToSet(l.calls))
<1> DEFINE w == Append(m, l)
           n == Len(m) + 1
<1>1. /\ w \in Seq(Lines) /\ Len(w) = n /\ DOMAIN w = 1..n /\ n \in Nat /\ n - 1 = Len(m)
      /\ w[n] = l /\ DOMAIN m = 1..(n - 1)
      /\ \A k \in 1..(n - 1) : w[k] = m[k]
  OBVIOUS
<1>2. ASSUME NEW h \in 1..(n - 1), NEW c \in ToSet(w[h].calls) PROVE Answer(w, h, c)
  <2>1. w[h] = m[h] /\ h \in 1..Len(m) /\ h \in DOMAIN m
    BY <1>1
  <2>2. Answer(m, h, c)
    BY <2>1 DEF AllAnswered
  <2> QED
    BY <2>1, <2>2, AppendAnswers
<1> HIDE DEF w, n
<1>3. ASSUME NEW h \in DOMAIN w, h # n PROVE h \in 1..(n - 1)
  BY <1>1, <1>3
<1>4. l.calls = <<>> => AllAnswered(w)
  <2>1. l.calls = <<>> => ToSet(w[n].calls) = {}
    BY <1>1 DEF ToSet
  <2> QED
    BY <1>1, <1>2, <1>3, <2>1 DEF AllAnswered
<1>5. n \in DOMAIN w /\ Awaiting(w, n, ToSet(l.calls))
  <2>1. (n + 1)..Len(w) = {} /\ n \in DOMAIN w
    BY <1>1
  <2>2. \A h \in DOMAIN w \ {n} : \A c \in ToSet(w[h].calls) : Answer(w, h, c)
    BY <1>2, <1>3
  <2> QED
    BY <1>1, <2>1, <2>2 DEF Awaiting
<1> QED
  BY <1>1, <1>4, <1>5 DEF w, n

LEMMA AppendTold ==
  ASSUME NEW m \in Seq(Lines), NEW i \in DOMAIN m, NEW S, NEW c, Awaiting(m, i, S \cup {c}),
         NEW l \in Lines, l.type = "tool", l.calls = <<>>, l.call = c
  PROVE  /\ Append(m, l) \in Seq(Lines) /\ i \in DOMAIN Append(m, l)
         /\ Awaiting(Append(m, l), i, S)
<1> DEFINE w == Append(m, l)
           n == Len(m) + 1
<1>1. /\ w \in Seq(Lines) /\ Len(w) = n /\ DOMAIN w = 1..n /\ n \in Nat /\ n - 1 = Len(m)
      /\ w[n] = l /\ DOMAIN m = 1..(n - 1) /\ i \in 1..(n - 1)
      /\ \A k \in 1..(n - 1) : w[k] = m[k]
  OBVIOUS
<1>2. \A h \in 1..(n - 1) : \A d : Answer(m, h, d) => Answer(w, h, d)
  BY <1>1, AppendAnswers
<1> HIDE DEF w, n
<1>3. \A k \in (i + 1)..n : w[k].type = "tool"
  <2> SUFFICES ASSUME NEW k \in (i + 1)..n PROVE w[k].type = "tool"
    OBVIOUS
  <2>1. CASE k = n
    BY <1>1, <2>1
  <2>2. CASE k # n
    <3>1. k \in (i + 1)..Len(m) /\ k \in 1..(n - 1)
      BY <1>1, <2>2
    <3> QED
      BY <1>1, <3>1 DEF Awaiting
  <2> QED
    BY <2>1, <2>2
<1>4. Answer(w, i, c)
  <2>1. n \in DOMAIN w /\ i < n /\ w[n].call = c
    BY <1>1
  <2> QED
    BY <1>3, <2>1 DEF Answer
<1>5. \A d \in ToSet(w[i].calls) : d \in S \/ Answer(w, i, d)
  BY <1>1, <1>2, <1>4 DEF Awaiting
<1>6. ASSUME NEW h \in DOMAIN w \ {i}, NEW d \in ToSet(w[h].calls) PROVE Answer(w, h, d)
  <2>1. h # n
    <3>1. ToSet(l.calls) = {}
      BY DEF ToSet
    <3> QED
      BY <1>1, <3>1
  <2>2. h \in 1..(n - 1) /\ h \in DOMAIN m \ {i}
    BY <1>1, <2>1
  <2> QED
    BY <1>1, <1>2, <2>2 DEF Awaiting
<1>7. Awaiting(w, i, S)
  BY <1>1, <1>3, <1>5, <1>6 DEF Awaiting
<1>8. i \in DOMAIN w
  BY <1>1
<1> QED
  BY <1>1, <1>7, <1>8 DEF w

LEMMA NoneComing ==
  ASSUME NEW m, NEW i \in DOMAIN m, Awaiting(m, i, {})
  PROVE  AllAnswered(m)
  BY DEF Awaiting, AllAnswered

LEMMA NothingAsked == <<>> \in Seq(Lines) /\ AllAnswered(<<>>)
  BY DEF AllAnswered

-----------------------------------------------------------------------------
(* The journal leads with a message.                                       *)
Talking == {"ask", "model", "next", "tool", "told"}

LEMMA LeadSame ==
  ASSUME LeadFits, journal' = journal, pc' \in Talking => pc \in Talking
  PROVE  LeadFits'
<1>1. \A j \in DOMAIN journal : IsMessage(j)' <=> IsMessage(j)
  BY DEF IsMessage
<1>2. \A i \in DOMAIN journal : i \in DOMAIN journal'
  OBVIOUS
<1>3. ASSUME NEW i \in DOMAIN journal, journal[i].type = "tool_result"
      PROVE  \E j \in 1..(i - 1) : IsMessage(j)'
  <2>1. PICK j \in 1..(i - 1) : IsMessage(j)
    BY <1>3 DEF LeadFits
  <2> QED
    BY <2>1 DEF IsMessage
<1>4. pc' \in Talking => \E j \in DOMAIN journal' : IsMessage(j)'
  BY <1>1 DEF LeadFits, Talking
<1> QED
  BY <1>3, <1>4 DEF LeadFits, Talking

LEMMA LeadNext ==
  ASSUME RunTypes, LeadFits, run \in Runs, NEW l \in Lines, Journal(<<l>>),
         l.type # "assistant" => l.calls = <<>>, l.type = "tool_result" => pc \in Talking,
         pc' \in Talking => pc \in Talking \/ l.type = "user"
  PROVE  LeadFits'
<1>1. Grown(l)
  BY JournalGrown
<1>2. /\ DOMAIN journal = 1..(End - 1) /\ DOMAIN journal' = 1..End /\ End \in Nat \ {0}
      /\ journal'[End] = l
      /\ \A i \in 1..(End - 1) : journal'[i] = journal[i]
  BY <1>1 DEF Grown
<1>3. PICK n : n = End
  OBVIOUS
<1>4. /\ DOMAIN journal = 1..(n - 1) /\ DOMAIN journal' = 1..n /\ n \in Nat \ {0}
      /\ journal'[n] = l
      /\ \A i \in 1..(n - 1) : journal'[i] = journal[i]
  BY <1>2, <1>3
<1>5. \A j \in 1..(n - 1) : IsMessage(j) => IsMessage(j)'
  BY <1>4 DEF IsMessage
<1>6. pc \in Talking => \E j \in 1..(n - 1) : IsMessage(j)'
  BY <1>4, <1>5 DEF LeadFits, Talking
<1>7. ASSUME NEW i \in 1..n
      PROVE  /\ journal'[i].type # "assistant" => journal'[i].calls = NoCalls
             /\ journal'[i].type = "tool_result" => \E j \in 1..(i - 1) : IsMessage(j)'
  <2>1. CASE i = n
    BY <1>4, <1>6, <2>1 DEF NoCalls
  <2>2. CASE i # n
    <3>1. i \in 1..(n - 1) /\ journal'[i] = journal[i]
      BY <1>4, <2>2
    <3>2. journal[i].type = "tool_result" => \E j \in 1..(i - 1) : IsMessage(j)
      BY <1>4, <3>1 DEF LeadFits
    <3>3. \A j \in 1..(i - 1) : j \in 1..(n - 1)
      BY <1>4, <3>1
    <3>4. journal[i].type # "assistant" => journal[i].calls = NoCalls
      BY <1>4, <3>1 DEF LeadFits
    <3> QED
      BY <1>5, <3>1, <3>2, <3>3, <3>4
  <2> QED
    BY <2>1, <2>2
<1>8. pc' \in Talking => \E j \in 1..n : IsMessage(j)'
  <2>1. CASE l.type = "user"
    <3>1. IsMessage(n)'
      BY <1>4, <2>1 DEF IsMessage
    <3> QED
      BY <1>4, <3>1
  <2>2. CASE l.type # "user"
    <3>1. \A j \in 1..(n - 1) : j \in 1..n
      BY <1>4
    <3> QED
      BY <1>6, <2>2, <3>1
  <2> QED
    BY <2>1, <2>2
<1> QED
  BY <1>4, <1>7, <1>8 DEF LeadFits, Talking

LEMMA LeadFitsKept == RunTypes /\ LeadFits /\ [Next]_vars => LeadFits'
<1> SUFFICES ASSUME RunTypes, LeadFits, [Next]_vars PROVE LeadFits'
  OBVIOUS
<1>0. pc \in AtWork => run \in Runs
  BY DEF RunTypes
<1>1. CASE UNCHANGED runVars
  BY <1>1, LeadSame DEF runVars
<1>2. CASE Send \/ Abort \/ Resume
  <2>1. journal' = journal /\ (pc' = pc \/ pc' \in {"start", "idle", "corrupted"})
    BY <1>2, Zenon DEF Send, Abort, Resume
  <2> QED
    BY <2>1, LeadSame DEF Talking
<1>3. CASE Crash
  <2>1. pc' = "down" /\ (journal' = journal \/ (pc \in AtWork /\ Journal(<<Line("torn", NoCalls, 0)>>)))
    BY <1>3 DEF Crash, AtWork
  <2>2. CASE journal' = journal
    BY <2>1, <2>2, LeadSame DEF Talking
  <2>3. CASE pc \in AtWork /\ Journal(<<Line("torn", NoCalls, 0)>>)
    BY <1>0, <2>1, <2>3, PlainLineFits, LeadNext DEF LineTypes, Talking
  <2> QED
    BY <2>1, <2>2, <2>3
<1>4. CASE WriteFails /\ (Raise \/ Reject \/ CreateFails)
  <2>1. journal' = journal /\ pc' \in {"catch", "idle"}
    BY <1>4 DEF WriteFails, Raise, Reject, CreateFails, Throw, Settle
  <2> QED
    BY <2>1, LeadSame DEF Talking
<1>5. CASE LoopStep /\ ~(WriteFails /\ (Raise \/ Reject \/ CreateFails))
  <2>0. run \in Runs
    BY <1>5, LoopShapes DEF LoopShape
  <2>1. CASE StartRun \/ Finish \/ EmitTerminal
    <3>1. journal' = journal /\ pc' \in {"user", "close", "finalize"}
      BY <1>5, <2>1 DEF StartRun, Finish, EmitTerminal
    <3> QED
      BY <3>1, LeadSame DEF Talking
  <2>2. CASE FinalizeRun
    <3>1. journal' = journal /\ pc' = "idle"
      BY <1>5, <2>2 DEF FinalizeRun, Settle
    <3> QED
      BY <3>1, LeadSame DEF Talking
  <2>3. CASE RequestModel \/ ModelAborted \/ AllCalled
    <3>1. journal' = journal /\ pc \in Talking
      BY <2>3, Zenon DEF RequestModel, ModelAborted, AllCalled, Talking
    <3> QED
      BY <3>1, LeadSame
  <2>4. CASE AppendUser
    <3>1. Journal(<<Line("user", NoCalls, 0)>>)
      BY <1>5, <2>4 DEF AppendUser
    <3> QED
      BY <2>0, <3>1, PlainLineFits, LeadNext DEF LineTypes
  <2>5. CASE JournalError \/ HandOff
    <3>1. /\ pc' \in {"close", "finish"}
          /\ Journal(<<Line("error", NoCalls, 0)>>) \/ Journal(<<Line("assistant", NoCalls, 0)>>)
      BY <1>5, <2>5 DEF JournalError, HandOff
    <3> QED
      BY <2>0, <3>1, PlainLineFits, LeadNext DEF LineTypes, Talking
  <2>6. CASE ModelAnswers
    <3>1. pc = "model"
      BY <2>6 DEF ModelAnswers
    <3>2. CASE ProviderFails
      BY <3>1, <3>2, LeadSame DEF ProviderFails, Talking
    <3>3. CASE ~ProviderFails
      <4>1. PICK n \in 0..(Cardinality(Calls) - called) : Journal(<<Line("assistant", Asked(n), 0)>>)
        BY <1>5, <2>6, <3>3 DEF ModelAnswers
      <4>2. Asked(n) \in Seq(Calls)
        BY AskedTypes
      <4>3. Line("assistant", Asked(n), 0) \in Lines /\ Line("assistant", Asked(n), 0).type = "assistant"
        BY <2>0, <4>2, LineFits DEF LineTypes
      <4> QED
        BY <2>0, <3>1, <4>1, <4>3, LeadNext DEF Talking
    <3> QED
      BY <3>2, <3>3
  <2>7. CASE StartCall
    <3>1. pc = "next" /\ Head(todo) \in Calls
      BY <2>7 DEF StartCall, RunTypes
    <3>2. journal' = journal \/ Journal(<<Line("tool_call", NoCalls, Head(todo))>>)
      BY <1>5, <2>7, Zenon DEF StartCall
    <3>3. pc \in Talking
      BY <3>1 DEF Talking
    <3> QED
      BY <2>0, <3>1, <3>2, <3>3, PlainLineFits, LeadSame, LeadNext DEF LineTypes
  <2>8. CASE JournalResult
    <3>1. pc = "tool" /\ Journal(<<Line("tool_result", NoCalls, call)>>)
      BY <1>5, <2>8 DEF JournalResult, ResultLines
    <3>2. pc \in Talking /\ call \in Calls
      BY <3>1 DEF Talking, RunTypes
    <3> QED
      BY <2>0, <3>1, <3>2, PlainLineFits, LeadNext DEF LineTypes
  <2>9. CASE CompleteCall
    <3>1. pc = "told" /\ (Journal(<<>>) \/ Journal(<<Line("skill_activation", NoCalls, call)>>))
      BY <1>5, <2>9 DEF CompleteCall
    <3>2. pc \in Talking /\ call \in Calls
      BY <3>1 DEF Talking, RunTypes
    <3> QED
      BY <2>0, <3>1, <3>2, EmitNothing, PlainLineFits, LeadSame, LeadNext DEF LineTypes
  <2> QED
    BY <1>5, <2>1, <2>2, <2>3, <2>4, <2>5, <2>6, <2>7, <2>8, <2>9 DEF LoopStep
<1>6. Next \/ UNCHANGED runVars
  BY DEF vars, runVars
<1> QED
  BY <1>1, <1>2, <1>3, <1>4, <1>5, <1>6 DEF Next

(* The calls that are left, but for the first.                             *)
LEMMA TailSet ==
  ASSUME NEW S, NEW s \in Seq(S), s # <<>>
  PROVE  ToSet(s) = ToSet(Tail(s)) \cup {Head(s)}
<1>1. /\ Len(s) \in Nat \ {0} /\ DOMAIN s = 1..Len(s) /\ Head(s) = s[1]
      /\ DOMAIN Tail(s) = 1..(Len(s) - 1)
      /\ \A i \in 1..(Len(s) - 1) : Tail(s)[i] = s[i + 1]
  OBVIOUS
<1>2. \A i \in 1..Len(s) : i = 1 \/ (i - 1 \in 1..(Len(s) - 1) /\ i - 1 + 1 = i)
  BY <1>1
<1>3. 1 \in 1..Len(s) /\ \A i \in 1..(Len(s) - 1) : i + 1 \in 1..Len(s)
  BY <1>1
<1>4. ASSUME NEW x \in ToSet(s) PROVE x \in ToSet(Tail(s)) \cup {Head(s)}
  <2>1. PICK i \in 1..Len(s) : s[i] = x
    BY <1>1 DEF ToSet
  <2>2. CASE i = 1
    BY <1>1, <2>1, <2>2
  <2>3. CASE i - 1 \in 1..(Len(s) - 1) /\ i - 1 + 1 = i
    <3>1. Tail(s)[i - 1] = x
      BY <1>1, <2>1, <2>3
    <3> QED
      BY <1>1, <2>3, <3>1 DEF ToSet
  <2> QED
    BY <1>2, <2>2, <2>3
<1>5. ASSUME NEW x \in ToSet(Tail(s)) PROVE x \in ToSet(s)
  <2>1. PICK i \in 1..(Len(s) - 1) : Tail(s)[i] = x
    BY <1>1 DEF ToSet
  <2> QED
    BY <1>1, <1>3, <2>1 DEF ToSet
<1>6. Head(s) \in ToSet(s)
  BY <1>1, <1>3 DEF ToSet
<1> QED
  BY <1>4, <1>5, <1>6

(* The messages: first the steps behind which no answer is awaited.        *)
Waiting == pc \in {"next", "tool", "told"}

LEMMA AnsweredFits ==
  ASSUME memory' \in Seq(Lines), AllAnswered(memory'),
         messages' \in Seq(Lines), AllAnswered(messages'),
         ~Waiting'
  PROVE  MessagesFit'
  BY DEF MessagesFit, Waiting

LEMMA AwaitingFits ==
  ASSUME MessagesFit, memory' = memory, messages' \in Seq(Lines), Waiting',
         NEW i \in DOMAIN messages', NEW S, Awaiting(messages', i, S), S = Coming'
  PROVE  MessagesFit'
  BY DEF MessagesFit, Waiting

(* What a run that is over leaves, and what a step that does nothing to    *)
(* the messages does.                                                      *)
LEMMA ForgottenFits ==
  ASSUME MessagesFit, memory' = memory, messages' = <<>>, ~Waiting'
  PROVE  MessagesFit'
  BY NothingAsked, AnsweredFits DEF MessagesFit

LEMMA UntouchedFits ==
  ASSUME MessagesFit, memory' = memory, messages' = messages, ~Waiting, ~Waiting'
  PROVE  MessagesFit'
  BY AnsweredFits DEF MessagesFit, Waiting

LEMMA MessagesFitKept ==
  RunTypes /\ LeadFits /\ MessagesFit /\ [Next]_vars => MessagesFit'
<1> SUFFICES ASSUME RunTypes, LeadFits, MessagesFit, [Next]_vars PROVE MessagesFit'
  OBVIOUS
<1>a. memory \in Seq(Lines) /\ AllAnswered(memory) /\ messages \in Seq(Lines)
  BY DEF MessagesFit
<1>b. ~Waiting => AllAnswered(messages)
  BY DEF MessagesFit, Waiting
<1>1. CASE UNCHANGED runVars \/ Abort
  <2>1. UNCHANGED <<memory, messages, pc, todo, call>>
    BY <1>1, Zenon DEF runVars, Abort
  <2> QED
    BY <2>1 DEF MessagesFit, Coming
<1>2. CASE Send
  <2>1. memory' = memory /\ messages' = messages /\ ~Waiting /\ ~Waiting'
    BY <1>2 DEF Send, Waiting
  <2> QED
    BY <2>1, UntouchedFits
<1>3. CASE Crash
  <2>1. memory' = <<>> /\ messages' = <<>> /\ ~Waiting'
    BY <1>3 DEF Crash, Forget, Waiting
  <2> QED
    BY <2>1, NothingAsked, AnsweredFits
<1>4. CASE Resume
  <2>1. messages' = messages /\ ~Waiting /\ ~Waiting'
    BY <1>4, Zenon DEF Resume, Waiting
  <2>2. memory' = memory \/ memory' = Repaired(Replayed)
    BY <1>4, Zenon DEF Resume
  <2>3. Repaired(Replayed) \in Seq(Lines) /\ AllAnswered(Repaired(Replayed))
    BY ReplayedOrderly, RepairAnswers
  <2>4. memory' \in Seq(Lines) /\ AllAnswered(memory')
    BY <1>a, <2>2, <2>3
  <2> QED
    BY <1>a, <1>b, <2>1, <2>4, AnsweredFits
<1>5. CASE (WriteFails /\ (Raise \/ Reject \/ CreateFails)) \/ ProviderFails
  <2>1. memory' = memory /\ messages' = <<>> /\ ~Waiting'
    BY <1>5 DEF Raise, Reject, CreateFails, ProviderFails, Throw, Settle, Forget, Waiting
  <2> QED
    BY <2>1, ForgottenFits
<1>6. CASE LoopStep /\ ~(WriteFails /\ (Raise \/ Reject \/ CreateFails)) /\ ~ProviderFails
  <2>0. run \in Runs
    BY <1>6, LoopShapes DEF LoopShape
  <2>1. CASE StartRun \/ JournalError \/ Finish \/ EmitTerminal
    <3>1. memory' = memory /\ messages' = messages /\ ~Waiting /\ ~Waiting'
      BY <1>6, <2>1 DEF StartRun, JournalError, Finish, EmitTerminal, Waiting
    <3> QED
      BY <3>1, UntouchedFits
  <2>2. CASE FinalizeRun
    <3>1. /\ memory' \in {memory, messages} /\ messages' = <<>> /\ ~Waiting /\ ~Waiting'
      BY <1>6, <2>2 DEF FinalizeRun, Settle, Forget, Waiting
    <3>2. memory' \in Seq(Lines) /\ AllAnswered(memory')
      BY <1>a, <1>b, <3>1
    <3> QED
      BY <3>1, <3>2, NothingAsked, AnsweredFits
  <2>3. CASE RequestModel \/ ModelAborted
    <3>1. memory' = memory /\ (messages' = messages \/ messages' = <<>>) /\ ~Waiting /\ ~Waiting'
      BY <2>3, Zenon DEF RequestModel, ModelAborted, Throw, Forget, Request, Waiting
    <3> QED
      BY <3>1, ForgottenFits, UntouchedFits
  <2>4. CASE AppendUser \/ HandOff
    <3>1. /\ memory' = memory /\ ~Waiting /\ ~Waiting'
          /\ \/ messages' = Append(memory, Line("user", NoCalls, 0))
             \/ messages' = Append(messages, Line("assistant", NoCalls, 0))
      BY <1>6, <2>4 DEF AppendUser, HandOff, Waiting
    <3>2. \A type \in LineTypes : /\ Line(type, NoCalls, 0) \in Lines
                                  /\ Line(type, NoCalls, 0).calls = <<>>
      BY <2>0, PlainLineFits
    <3>3. messages' \in Seq(Lines) /\ AllAnswered(messages')
      BY <1>a, <1>b, <3>1, <3>2, AppendAnswered DEF LineTypes
    <3> QED
      BY <1>a, <3>1, <3>3, AnsweredFits
  <2>5. CASE ModelAnswers
    <3>1. PICK n \in 0..(Cardinality(Calls) - called) :
            /\ messages' = Append(messages, Line("assistant", Asked(n), 0))
            /\ todo' = Asked(n) /\ memory' = memory
            /\ pc' = IF n = 0 THEN "finish" ELSE "next"
      BY <1>6, <2>5 DEF ModelAnswers
    <3> DEFINE l == Line("assistant", Asked(n), 0)
    <3>2. Asked(n) \in Seq(Calls) /\ Len(Asked(n)) = n
      BY AskedTypes
    <3>3. l \in Lines /\ l.calls = Asked(n)
      BY <2>0, <3>2, LineFits DEF LineTypes
    <3>4. AllAnswered(messages)
      BY <1>b, <2>5 DEF ModelAnswers, Waiting
    <3>5. messages' = Append(messages, l)
      BY <3>1
    <3> HIDE DEF l
    <3>6. CASE n = 0
      <4>1. l.calls = <<>> /\ ~Waiting'
        BY <3>1, <3>2, <3>3, <3>6 DEF Waiting
      <4> QED
        BY <1>a, <3>1, <3>3, <3>4, <3>5, <4>1, AppendAnswered, AnsweredFits
    <3>7. CASE n # 0
      <4>1. Waiting' /\ Coming' = ToSet(Asked(n))
        BY <3>1, <3>7 DEF Waiting, Coming
      <4>2. /\ messages' \in Seq(Lines) /\ Len(messages) + 1 \in DOMAIN messages'
            /\ Awaiting(messages', Len(messages) + 1, ToSet(Asked(n)))
        BY <1>a, <3>3, <3>4, <3>5, AppendAnswered
      <4> QED
        BY <3>1, <4>1, <4>2, AwaitingFits
    <3> QED
      BY <3>6, <3>7
  <2>6. ASSUME Waiting PROVE \E i \in DOMAIN messages : Awaiting(messages, i, Coming)
    BY <2>6 DEF MessagesFit, Waiting
  <2>7. CASE AllCalled
    <3>1. /\ memory' = memory /\ messages' = messages /\ pc = "next" /\ pc' = "ask" /\ todo = <<>>
      BY <2>7, Zenon DEF AllCalled
    <3>2. Waiting /\ ~Waiting' /\ Coming = {}
      BY <3>1 DEF Waiting, Coming, ToSet
    <3>3. AllAnswered(messages)
      BY <2>6, <3>2, NoneComing
    <3> QED
      BY <1>a, <3>1, <3>2, <3>3, AnsweredFits
  <2>8. CASE StartCall
    <3>1. pc = "next" /\ todo # <<>> /\ todo \in Seq(Calls) /\ Waiting
      BY <2>8 DEF StartCall, RunTypes, Waiting
    <3>2. /\ memory' = memory
          /\ \/ messages' = <<>> /\ pc' = "catch"
             \/ messages' = messages /\ call' = Head(todo) /\ todo' = Tail(todo) /\ pc' = "tool"
      BY <1>6, <2>8, Zenon DEF StartCall, Throw, Forget
    <3>3. CASE messages' = <<>> /\ pc' = "catch"
      BY <3>2, <3>3, ForgottenFits DEF Waiting
    <3>4. CASE messages' = messages /\ call' = Head(todo) /\ todo' = Tail(todo) /\ pc' = "tool"
      <4>1. ToSet(todo) = ToSet(Tail(todo)) \cup {Head(todo)}
        BY <3>1, TailSet
      <4>2. Coming' = Coming /\ Waiting'
        BY <3>1, <3>4, <4>1 DEF Coming, Waiting
      <4>3. PICK i \in DOMAIN messages' : Awaiting(messages', i, Coming)
        BY <2>6, <3>1, <3>4
      <4> QED
        BY <1>a, <3>2, <3>4, <4>2, <4>3, AwaitingFits
    <3> QED
      BY <3>2, <3>3, <3>4
  <2>9. CASE JournalResult
    <3> DEFINE l == Line("tool", NoCalls, call)
    <3>1. /\ pc = "tool" /\ pc' = "told" /\ memory' = memory /\ todo' = todo /\ call' = call
          /\ messages' = Append(messages, l)
      BY <1>6, <2>9 DEF JournalResult
    <3>2. l \in Lines /\ l.type = "tool" /\ l.calls = <<>> /\ l.call = call
      BY <2>0, <3>1, PlainLineFits DEF LineTypes, RunTypes
    <3> HIDE DEF l
    <3>3. Waiting /\ Waiting' /\ Coming = ToSet(todo) \cup {call} /\ Coming' = ToSet(todo)
      BY <3>1 DEF Waiting, Coming
    <3>4. PICK i \in DOMAIN messages : Awaiting(messages, i, ToSet(todo) \cup {call})
      BY <2>6, <3>3
    <3>5. messages' \in Seq(Lines) /\ i \in DOMAIN messages' /\ Awaiting(messages', i, ToSet(todo))
      BY <1>a, <3>1, <3>2, <3>4, AppendTold
    <3> QED
      BY <3>1, <3>3, <3>5, AwaitingFits
  <2>10. CASE CompleteCall
    <3>1. /\ memory' = memory /\ pc = "told"
          /\ \/ messages' = <<>> /\ pc' = "catch"
             \/ UNCHANGED <<messages, todo, call>> /\ pc' = "next"
      BY <1>6, <2>10, Zenon DEF CompleteCall, Throw, Forget
    <3>2. CASE messages' = <<>> /\ pc' = "catch"
      BY <3>1, <3>2, ForgottenFits DEF Waiting
    <3>3. CASE UNCHANGED <<messages, todo, call>> /\ pc' = "next"
      <4>1. Waiting /\ Waiting' /\ Coming' = Coming
        BY <3>1, <3>3 DEF Waiting, Coming
      <4>2. PICK i \in DOMAIN messages' : Awaiting(messages', i, Coming)
        BY <2>6, <3>3, <4>1
      <4> QED
        BY <1>a, <3>1, <3>3, <4>1, <4>2, AwaitingFits
    <3> QED
      BY <3>1, <3>2, <3>3
  <2> QED
    BY <1>6, <2>1, <2>2, <2>3, <2>4, <2>5, <2>7, <2>8, <2>9, <2>10 DEF LoopStep
<1>7. Next \/ UNCHANGED runVars
  BY DEF vars, runVars
<1> QED
  BY <1>1, <1>2, <1>3, <1>4, <1>5, <1>6, <1>7 DEF Next

LEMMA InitMessagesFit == Init => LeadFits /\ MessagesFit
<1> SUFFICES ASSUME Init PROVE LeadFits /\ MessagesFit
  OBVIOUS
<1>1. journal = <<>> /\ memory = <<>> /\ messages = <<>> /\ pc = "idle"
  BY DEF Init
<1>2. LeadFits
  BY <1>1 DEF LeadFits
<1>3. MessagesFit
  BY <1>1, NothingAsked DEF MessagesFit
<1> QED
  BY <1>2, <1>3

(* Whatever a crash, an abort or a failed write has left in the journal,   *)
(* the model never gets a message of its own whose calls are not answered  *)
(* right behind it, in this process or in one that has resumed the         *)
(* session.                                                                *)
THEOREM ModelIsAnswered == Spec => []ModelSeesAnsweredCalls
<1> DEFINE Inv == RunTypes /\ LeadFits /\ MessagesFit
<1>1. Init => Inv
  BY InitRunTypes, InitMessagesFit
<1>2. Inv /\ [Next]_vars => Inv'
  BY RunTypesKept, LeadFitsKept, MessagesFitKept
<1>3. Inv => ModelSeesAnsweredCalls
  BY DEF MessagesFit, AllAnswered, Answer, ModelSeesAnsweredCalls
<1> QED
  BY <1>1, <1>2, <1>3, PTL DEF Spec

-----------------------------------------------------------------------------
(* What is left of the types: the turns and mishaps keep to their bounds.  *)
BoundsFit ==
  /\ turn \in 0..MaxTurns
  /\ crashes \in Nat /\ crashes + Cardinality(faults) <= MaxMishaps

LEMMA BoundsFitKept == RunTypes /\ BoundsFit /\ [Next]_vars => BoundsFit'
<1> SUFFICES ASSUME RunTypes, BoundsFit, [Next]_vars PROVE BoundsFit'
  OBVIOUS
<1>0. MaxTurns \in Nat \ {0} /\ MaxMishaps \in Nat /\ MaxSends \in Nat
  BY BoundsAssumption
<1>1. \/ turn' = turn \/ turn' = 0
      \/ pc = "ask" /\ turn < MaxTurns /\ turn' = turn + 1
  <2>1. ASSUME Send \/ StartRun \/ AppendUser \/ ModelAnswers \/ ModelAborted \/ AllCalled
        PROVE  turn' = turn \/ turn' = 0
    BY <2>1, Zenon
    DEF Send, StartRun, AppendUser, ModelAnswers, ModelAborted, AllCalled, CreateFails,
        Reject, Raise, ProviderFails, Settle, Throw, Forget
  <2>2. ASSUME \/ StartCall \/ JournalResult \/ CompleteCall \/ JournalError \/ HandOff \/ Finish
               \/ EmitTerminal \/ FinalizeRun
        PROVE  turn' = turn \/ turn' = 0
    BY <2>2, Zenon
    DEF StartCall, JournalResult, CompleteCall, JournalError, HandOff, Finish, EmitTerminal,
        FinalizeRun, Reject, Raise, Settle, Throw, Forget
  <2>3. ASSUME RequestModel PROVE turn' = 0 \/ (pc = "ask" /\ turn < MaxTurns /\ turn' = turn + 1)
    BY <2>3, Zenon DEF RequestModel, Throw, Forget, Request, TurnLeft
  <2>4. ASSUME Abort \/ Crash \/ Resume \/ UNCHANGED runVars PROVE turn' = turn \/ turn' = 0
    BY <2>4, Zenon DEF Abort, Crash, Resume, Forget, runVars
  <2> QED
    BY <2>1, <2>2, <2>3, <2>4, Zenon DEF Next, LoopStep, vars, runVars
<1>2. turn' \in 0..MaxTurns
  BY <1>0, <1>1 DEF BoundsFit
<1>3. IsFiniteSet(faults) /\ Cardinality(faults) \in Nat
  <2>1. IsFiniteSet(Runs)
    BY <1>0, FS_Interval DEF Runs
  <2> QED
    BY <2>1, FS_Subset, FS_CardinalityType DEF RunTypes
<1>4. \/ UNCHANGED <<crashes, faults>>
      \/ crashes' = crashes /\ WriteFails
      \/ crashes' = crashes + 1 /\ faults' = faults /\ crashes + Cardinality(faults) < MaxMishaps
  <2>1. ASSUME Send \/ StartRun \/ AppendUser \/ RequestModel \/ ModelAnswers \/ ModelAborted
               \/ AllCalled
        PROVE  crashes' = crashes /\ (faults' = faults \/ WriteFails)
    BY <2>1, Zenon
    DEF Send, StartRun, AppendUser, RequestModel, ModelAnswers, ModelAborted, AllCalled,
        ProviderFails
  <2>2. ASSUME \/ StartCall \/ JournalResult \/ CompleteCall \/ JournalError \/ HandOff \/ Finish
               \/ EmitTerminal \/ FinalizeRun
        PROVE  crashes' = crashes /\ (faults' = faults \/ WriteFails)
    BY <2>2, Zenon
    DEF StartCall, JournalResult, CompleteCall, JournalError, HandOff, Finish, EmitTerminal,
        FinalizeRun
  <2>3. ASSUME Abort \/ Resume \/ UNCHANGED runVars PROVE UNCHANGED <<crashes, faults>>
    BY <2>3, Zenon DEF Abort, Resume, runVars
  <2>4. ASSUME Crash
        PROVE  crashes' = crashes + 1 /\ faults' = faults /\ crashes + Cardinality(faults) < MaxMishaps
    BY <2>4, Zenon DEF Crash
  <2> QED
    BY <2>1, <2>2, <2>3, <2>4, Zenon DEF Next, LoopStep, vars, runVars
<1>5. crashes' \in Nat /\ crashes' + Cardinality(faults') <= MaxMishaps
  <2>1. CASE UNCHANGED <<crashes, faults>>
    BY <2>1 DEF BoundsFit
  <2>2. CASE crashes' = crashes /\ WriteFails
    <3>1. faults' = faults \cup {run} /\ crashes + Cardinality(faults) < MaxMishaps
      BY <2>2 DEF WriteFails
    <3>2. Cardinality(faults') \in Nat /\ Cardinality(faults') <= Cardinality(faults) + 1
      <4>1. CASE run \in faults
        <5>1. faults' = faults
          BY <3>1, <4>1
        <5> QED
          BY <1>3, <5>1
      <4>2. CASE run \notin faults
        BY <1>3, <3>1, <4>2, FS_AddElement
      <4> QED
        BY <4>1, <4>2
    <3> QED
      BY <1>0, <1>3, <2>2, <3>1, <3>2 DEF BoundsFit
  <2>3. CASE /\ crashes' = crashes + 1 /\ faults' = faults
             /\ crashes + Cardinality(faults) < MaxMishaps
    BY <1>0, <1>3, <2>3 DEF BoundsFit
  <2> QED
    BY <1>4, <2>1, <2>2, <2>3
<1> QED
  BY <1>2, <1>5 DEF BoundsFit

(* Every variable of the conversation keeps its type.                      *)
THEOREM TypeCorrect == Spec => []TypeOK
<1> DEFINE Inv == /\ RunTypes /\ ToolInv /\ AbortFits /\ LeadFits /\ MessagesFit /\ BoundsFit
<1>1. Init => Inv
  <2> SUFFICES ASSUME Init PROVE Inv
    OBVIOUS
  <2>1. turn = 0 /\ crashes = 0 /\ faults = {}
    BY DEF Init
  <2>2. BoundsFit
    BY <2>1, BoundsAssumption, FS_EmptySet DEF BoundsFit
  <2> QED
    BY <2>2, InitRunTypes, InitTools, InitMessagesFit
<1>2. Inv /\ [Next]_vars => Inv'
  BY RunTypesKept, ToolInvKept, AbortFitsKept, LeadFitsKept, MessagesFitKept, BoundsFitKept
<1>3. Inv => TypeOK
  <2> SUFFICES ASSUME Inv PROVE TypeOK
    OBVIOUS
  <2>1. IsFiniteSet(faults)
    <3>1. IsFiniteSet(Runs)
      BY BoundsAssumption, FS_Interval DEF Runs
    <3> QED
      BY <3>1, FS_Subset DEF RunTypes
  <2>2. crashes \in 0..MaxMishaps
    BY <2>1, BoundsAssumption, FS_CardinalityType DEF BoundsFit
  <2>3. trace \in [Runs -> Seq([type : {"run_started", "tool_started", "tool_completed"} \cup Results,
                                call : Calls \cup {0}])]
    BY DEF RunTypes, Events, EventTypes
  <2>4. pc \in Places
    BY DEF RunTypes, AtWork, Ended, Places
  <2>5. aborted \in BOOLEAN
    BY DEF AbortFits
  <2>6. ToolTypeOK
    BY DEF ToolInv
  <2>7. memory \in Seq(Lines) /\ messages \in Seq(Lines)
    BY DEF MessagesFit
  <2>8. turn \in 0..MaxTurns
    BY DEF BoundsFit
  <2> QED
    BY <2>2, <2>3, <2>4, <2>5, <2>6, <2>7, <2>8, Zenon DEF RunTypes, TypeOK
<1> QED
  BY <1>1, <1>2, <1>3, PTL DEF Spec

=============================================================================
