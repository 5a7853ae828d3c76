------------------------------ MODULE AgentRun ------------------------------
(***************************************************************************)
(* One conversation of the agent: RuntimeConversation.send, runAgentLoop,  *)
(* RunManager, SessionStore and RunStore of src/packages/core/src/runtime. *)
(*                                                                         *)
(* A send is a run.  It leaves its lines in the journal of the session,    *)
(* its events in a trace and its status in meta.json, each with an append  *)
(* or a write of its own that can fail, and between any two of them the    *)
(* process can end.  The conversation keeps its messages in memory and     *)
(* takes those of a run only when the run ends well; a new process reads   *)
(* the journal, and adds answers for the calls that have none.             *)
(***************************************************************************)
EXTENDS ToolCall, SequencesExt

CONSTANTS
  MaxSends,     \* bound on the messages of the user
  MaxTurns,     \* agent.maxTurns
  MaxMishaps    \* bound on the restarts and the writes that fail

(* A call is named after its place among all the model asks for.           *)
ASSUME CallsAssumption == IsFiniteSet(Calls) /\ Calls = 1..Cardinality(Calls)

ASSUME BoundsAssumption ==
  /\ MaxSends \in Nat /\ MaxTurns \in Nat \ {0} /\ MaxMishaps \in Nat

Runs == 1..MaxSends
NoCalls == <<>>

VARIABLES
  journal,   \* the lines of the session's file behind its header
  trace,     \* the events of each run's trace.jsonl
  meta,      \* the status in each run's meta.json
  memory,    \* RuntimeConversation.messages
  messages,  \* the messages of the run, sent to the model
  run,       \* the run, the number of sends so far
  pc,        \* where it is
  todo,      \* the calls of the answer that have not begun
  call,      \* the call that is executed, the last one
  turn,
  cause,     \* why the loop was left by an exception
  aborted,   \* the signal of the run
  result     \* what each send came to

(* Bounds and history, which no code reads. *)
VARIABLES
  called,    \* calls the model has asked for so far
  crashes,   \* restarts so far
  faults     \* the runs in which a write failed

runVars ==
  <<journal, trace, meta, memory, messages, run, pc, todo, call, turn, cause, aborted,
    result, called, crashes, faults>>
vars == <<toolVars, runVars>>

Line(type, calls, c) == [type |-> type, run |-> run, calls |-> calls, call |-> c]
Event(type, c) == [type |-> type, call |-> c]

(* A session entry and an event become lines of their files.               *)
Journal(lines) == journal' = journal \o lines
Emit(events) == trace' = [trace EXCEPT ![run] = @ \o events]

(* The write of this step fails, and nothing of the step is in the file.   *)
WriteFails ==
  /\ crashes + Cardinality(faults) < MaxMishaps
  /\ faults' = faults \cup {run}
  /\ UNCHANGED <<journal, trace>>

(* The local variables of a run that is over are gone.                     *)
Forget == messages' = <<>> /\ todo' = <<>> /\ call' = 0 /\ turn' = 0

Settle(r) ==
  /\ pc' = "idle" /\ result' = [result EXCEPT ![run] = r]
  /\ cause' = "none" /\ aborted' = FALSE
  /\ Forget

(* An exception inside the loop leads to its handler; it is a cancellation *)
(* only when the abort itself was thrown.                                  *)
Throw(why) == pc' = "catch" /\ cause' = why /\ Forget

Raise == Throw("failed") /\ UNCHANGED <<meta, memory, result, called, aborted>>
Reject == Settle("rejected") /\ UNCHANGED <<meta, memory, called>>

-----------------------------------------------------------------------------
(* Sends wait for each other in sendQueue, whatever became of the last.    *)
Send ==
  /\ pc = "idle" /\ run < MaxSends
  /\ run' = run + 1
  /\ pc' = "start" /\ aborted' = FALSE
  /\ UNCHANGED <<journal, trace, meta, memory, messages, todo, call, turn, cause, result,
                 called, crashes, faults, toolVars>>

(* createRun writes meta.json twice: with no status to speak of first.      *)
CreateFails ==
  /\ \E m \in {"absent", "pending"} : meta' = [meta EXCEPT ![run] = m]
  /\ Settle("rejected")
  /\ UNCHANGED <<memory, called>>

StartRun ==
  /\ pc = "start"
  /\ \/ /\ Emit(<<Event("run_started", 0)>>)
        /\ meta' = [meta EXCEPT ![run] = "running"]
        /\ pc' = "user"
        /\ UNCHANGED <<journal, memory, messages, todo, call, turn, cause, aborted, result,
                       called, faults>>
     \/ WriteFails /\ CreateFails
  /\ UNCHANGED <<run, crashes, toolVars>>

(* This append is outside of the loop's try: when it fails, the run stays  *)
(* "running" for ever.                                                     *)
AppendUser ==
  /\ pc = "user"
  /\ \/ /\ Journal(<<Line("user", NoCalls, 0)>>)
        /\ messages' = Append(memory, Line("user", NoCalls, 0))
        /\ pc' = "ask" /\ turn' = 0
        /\ UNCHANGED <<trace, meta, memory, todo, call, cause, aborted, result, called, faults>>
     \/ WriteFails /\ Reject
  /\ UNCHANGED <<run, crashes, toolVars>>

(* Mutant: one turn too many.                                              *)
TurnLeftOffByOne == turn <= MaxTurns
TurnLeft == turn < MaxTurns

(* All messages go to the provider, each call of an answer and each result *)
(* under the identity of the call.                                         *)
Request == pc' = "model" /\ turn' = turn + 1 /\ UNCHANGED <<cause, messages, todo, call>>

RequestModel ==
  /\ pc = "ask" /\ TurnLeft
  /\ IF aborted THEN Throw("cancelled") ELSE Request
  /\ UNCHANGED <<journal, trace, meta, memory, run, aborted, result, called, crashes, faults,
                 toolVars>>

(* The calls of an answer, put together from its stream in their order.    *)
Asked(n) == [i \in 1..n |-> called + i]

(* The provider refuses, is not reached, or answers what nobody can read.  *)
ProviderFails == Raise /\ UNCHANGED <<journal, trace, faults>>

(* The answer: some calls, or none when it is the final one.               *)
ModelAnswers ==
  /\ pc = "model" /\ ~aborted
  /\ \/ \E n \in 0..(Cardinality(Calls) - called) :
          LET calls == Asked(n)
              answer == Line("assistant", calls, 0)
          IN /\ Journal(<<answer>>)
             /\ messages' = Append(messages, answer)
             /\ todo' = calls /\ called' = called + n
             /\ pc' = IF n = 0 THEN "finish" ELSE "next"
             /\ UNCHANGED <<trace, meta, memory, call, turn, cause, aborted, result, faults>>
     \/ ProviderFails
     \/ WriteFails /\ Raise
  /\ UNCHANGED <<run, crashes, toolVars>>

(* An aborted request throws; an answer that comes all the same is dropped.*)
ModelAborted ==
  /\ pc = "model" /\ aborted
  /\ Throw("cancelled")
  /\ UNCHANGED <<journal, trace, meta, memory, run, aborted, result, called, crashes, faults,
                 toolVars>>

AllCalled ==
  /\ pc = "next" /\ todo = <<>>
  /\ pc' = "ask"
  /\ UNCHANGED <<journal, trace, meta, memory, messages, run, todo, call, turn, cause,
                 aborted, result, called, crashes, faults, toolVars>>

(* Between two calls the loop looks at the signal: the calls it has not    *)
(* begun get no line.                                                      *)
StartCall ==
  /\ pc = "next" /\ todo # <<>>
  /\ \/ /\ aborted
        /\ Throw("cancelled")
        /\ UNCHANGED <<journal, trace, meta, memory, aborted, result, called, faults, toolVars>>
     \/ /\ ~aborted
        /\ Emit(<<Event("tool_started", Head(todo))>>)
        /\ Journal(<<Line("tool_call", NoCalls, Head(todo))>>)
        /\ Execute(Head(todo), aborted)
        /\ call' = Head(todo) /\ todo' = Tail(todo)
        /\ pc' = "tool"
        /\ UNCHANGED <<meta, memory, messages, turn, cause, aborted, result, called, faults>>
     \/ ~aborted /\ WriteFails /\ Raise /\ UNCHANGED toolVars
  /\ UNCHANGED <<run, crashes>>

(* The answer of the registry, or of a middleware that threw: both are     *)
(* journaled, and the exception of the middleware is thrown again later.   *)
(* Mutant: an exception of the middleware leaves no result.                *)
ResultLinesIfAny(c, why) == IF why = "failed" THEN <<>> ELSE <<Line("tool_result", NoCalls, c)>>
ResultLines(c, why) == <<Line("tool_result", NoCalls, c)>>

JournalResult ==
  /\ pc = "tool" /\ outcome[call] # "none"
  /\ \/ /\ cause' \in {"none", "failed"}
        /\ Journal(ResultLines(call, cause'))
        /\ messages' = Append(messages, Line("tool", NoCalls, call))
        /\ pc' = "told"
        /\ UNCHANGED <<trace, meta, memory, todo, call, turn, aborted, result, called, faults>>
     \/ WriteFails /\ Raise
  /\ UNCHANGED <<run, crashes, toolVars>>

(* A skill this call has activated is journaled, for the next process.     *)
CompleteCall ==
  /\ pc = "told"
  /\ \/ /\ Journal(IF outcome[call] = "activated" /\ cause = "none"
                     THEN <<Line("skill_activation", NoCalls, call)>> ELSE <<>>)
        /\ Emit(<<Event("tool_completed", call)>>)
        /\ IF cause = "failed" THEN Throw("failed")
           ELSE IF outcome[call] = "aborted" THEN Throw("cancelled")
           ELSE pc' = "next" /\ UNCHANGED <<cause, messages, todo, call, turn>>
        /\ UNCHANGED <<meta, memory, aborted, result, called, faults>>
     \/ WriteFails /\ Raise
  /\ UNCHANGED <<run, crashes, toolVars>>

JournalError ==
  /\ pc = "catch"
  /\ \/ /\ Journal(<<Line("error", NoCalls, 0)>>)
        /\ pc' = "close"
        /\ UNCHANGED <<trace, meta, memory, messages, todo, call, turn, cause, aborted, result,
                       called, faults>>
     \/ WriteFails /\ Reject
  /\ UNCHANGED <<run, crashes, toolVars>>

(* The message for the user when the turns are used up.                    *)
HandOff ==
  /\ pc = "ask" /\ turn = MaxTurns
  /\ LET message == Line("assistant", NoCalls, 0)
     IN \/ /\ Journal(<<message>>)
           /\ messages' = Append(messages, message)
           /\ pc' = "finish"
           /\ UNCHANGED <<trace, meta, memory, todo, call, turn, cause, aborted, result,
                          called, faults>>
        \/ WriteFails /\ Reject
  /\ UNCHANGED <<run, crashes, toolVars>>

(* Mutant: meta.json says so before the trace does.                        *)
StatusAtEndEarly == "completed"
StatusAtEnd == "finalizing"

Finish ==
  /\ pc = "finish"
  /\ \/ /\ meta' = [meta EXCEPT ![run] = StatusAtEnd]
        /\ cause' = "none"
        /\ pc' = "close"
        /\ UNCHANGED <<journal, trace, memory, messages, todo, call, turn, aborted, result,
                       called, faults>>
     \/ WriteFails /\ Reject
  /\ UNCHANGED <<run, crashes, toolVars>>

Verdict == IF cause = "none" THEN "completed" ELSE cause

(* complete, cancel and fail: the event first, then meta.json.             *)
EmitTerminal ==
  /\ pc = "close"
  /\ \/ /\ Emit(<<Event(Verdict, 0)>>)
        /\ pc' = "finalize"
        /\ UNCHANGED <<journal, meta, memory, messages, todo, call, turn, cause, aborted,
                       result, called, faults>>
     \/ WriteFails /\ Reject
  /\ UNCHANGED <<run, crashes, toolVars>>

(* The conversation goes on from the messages of a run that ended well; of *)
(* another one it remembers nothing.                                       *)
FinalizeRun ==
  /\ pc = "finalize"
  /\ \/ /\ meta' = [meta EXCEPT ![run] = Verdict]
        /\ memory' = IF Verdict = "completed" THEN messages ELSE memory
        /\ Settle(Verdict)
        /\ UNCHANGED <<journal, trace, called, faults>>
     \/ WriteFails /\ Reject
  /\ UNCHANGED <<run, crashes, toolVars>>

(* Nobody looks at the signal once the loop is over.                       *)
Abort ==
  /\ pc \in {"start", "user", "ask", "model", "next", "tool", "told"} /\ ~aborted
  /\ aborted' = TRUE
  /\ AbortCalls
  /\ UNCHANGED <<journal, trace, meta, memory, messages, run, pc, todo, call, turn, cause,
                 result, called, crashes, faults>>

(* The process ends, perhaps in the middle of a line of the journal.       *)
Crash ==
  /\ pc \notin {"down", "corrupted"} /\ crashes + Cardinality(faults) < MaxMishaps
  /\ crashes' = crashes + 1
  /\ \/ UNCHANGED journal
     \/ /\ pc \in {"user", "model", "next", "tool", "told", "catch", "ask"}
        /\ Journal(<<Line("torn", NoCalls, 0)>>)
  /\ result' = IF pc = "idle" THEN result ELSE [result EXCEPT ![run] = "lost"]
  /\ pc' = "down"
  /\ memory' = <<>> /\ cause' = "none" /\ aborted' = FALSE
  /\ Forget /\ LoseCalls
  /\ UNCHANGED <<trace, meta, run, called, faults>>

-----------------------------------------------------------------------------
(* SessionStore.loadSession in strict mode: the lines it has a note about. *)

Said(i, type, c) == journal[i].type = type /\ journal[i].call = c
IsMessage(i) == journal[i].type \in {"user", "assistant"}

(* The calls the last message asked for and no line has begun, before i.   *)
Pending(i) ==
  UNION {{c \in ToSet(journal[j].calls) : \A k \in j..(i - 1) : ~Said(k, "tool_call", c)} :
           j \in {j \in 1..(i - 1) : /\ journal[j].type = "assistant"
                                     /\ \A k \in (j + 1)..(i - 1) : ~IsMessage(k)}}

Open(i) ==
  {c \in Calls : \E j \in 1..(i - 1) :
     Said(j, "tool_call", c) /\ \A k \in j..(i - 1) : ~Said(k, "tool_result", c)}

Misplaced(i) ==
  LET line == journal[i]
  IN \/ line.type = "torn"
     \/ IsMessage(i) /\ Open(i) \cup Pending(i) # {}
     \/ line.type = "tool_call" /\ line.call \notin Pending(i)
     \/ line.type = "tool_result" /\ line.call \notin Open(i)
     \/ /\ line.type = "skill_activation"
        /\ ~(/\ i > 1 /\ journal[i - 1].type = "tool_result"
             /\ kind[journal[i - 1].call] = "activate_skill")

(* The messages a new process makes of the journal, and the answers it     *)
(* makes up behind the last answer of a message some calls of which have   *)
(* none.                                                                   *)
Replayed ==
  LET Message(l) == CASE l.type \in {"user", "assistant"} -> <<l>>
                      [] l.type = "tool_result" -> <<[l EXCEPT !.type = "tool"]>>
                      [] OTHER -> <<>>
  IN FlattenSeq([i \in DOMAIN journal |-> Message(journal[i])])

RepairedNot(m) == m
Repaired(m) ==
  LET Owner(i) == CHOOSE j \in 1..i : /\ m[j].type # "tool"
                                      /\ \A k \in (j + 1)..i : m[k].type = "tool"
      Closes(i) == i = Len(m) \/ m[i + 1].type # "tool"
      Answers(i, c) ==
        IF \E k \in (Owner(i) + 1)..i : m[k].call = c THEN <<>>
        ELSE <<[type |-> "tool", run |-> m[i].run, calls |-> NoCalls, call |-> c]>>
      Behind(i) == FlattenSeq([n \in DOMAIN m[Owner(i)].calls |-> Answers(i, m[Owner(i)].calls[n])])
  IN FlattenSeq([i \in DOMAIN m |-> <<m[i]>> \o (IF Closes(i) THEN Behind(i) ELSE <<>>)])

(* The next process loads the session, and repairs what is in memory only. *)
Resume ==
  /\ pc = "down"
  /\ IF \E i \in DOMAIN journal : Misplaced(i)
       THEN pc' = "corrupted" /\ UNCHANGED <<memory, active>>
       ELSE /\ pc' = "idle"
            /\ memory' = Repaired(Replayed)
            /\ active' = \E i \in DOMAIN journal : journal[i].type = "skill_activation"
  /\ UNCHANGED <<journal, trace, meta, messages, run, todo, call, turn, cause, aborted,
                 result, called, crashes, faults,
                 tool, kind, signal, outcome, queue, copy, file, shellVars>>

-----------------------------------------------------------------------------
Init ==
  /\ ToolInit
  /\ journal = <<>> /\ memory = <<>> /\ messages = <<>> /\ todo = <<>>
  /\ trace = [r \in Runs |-> <<>>]
  /\ meta = [r \in Runs |-> "absent"]
  /\ result = [r \in Runs |-> "none"]
  /\ run = 0 /\ pc = "idle" /\ call = 0 /\ turn = 0 /\ cause = "none" /\ aborted = FALSE
  /\ called = 0 /\ crashes = 0 /\ faults = {}

LoopStep ==
  \/ StartRun \/ AppendUser \/ RequestModel \/ ModelAnswers \/ ModelAborted \/ AllCalled
  \/ StartCall \/ JournalResult \/ CompleteCall \/ JournalError \/ HandOff \/ Finish
  \/ EmitTerminal \/ FinalizeRun

Next ==
  \/ Send \/ LoopStep \/ Abort \/ Crash \/ Resume
  \/ \E c \in Calls : ToolStep(c) /\ UNCHANGED runVars

(* The loop goes on by itself, a request to the model ends, and the timers *)
(* of the registry fire; a command need not end, nor a service answer.     *)
Spec ==
  /\ Init /\ [][Next]_vars
  /\ WF_vars(LoopStep)
  /\ \A c \in Calls : WF_vars(TimeOut(c) /\ UNCHANGED runVars)

-----------------------------------------------------------------------------
Results == {"none", "completed", "failed", "cancelled", "rejected", "lost"}
Places ==
  {"idle", "start", "user", "ask", "model", "next", "tool", "told", "catch", "finish",
   "close", "finalize", "down", "corrupted"}
Lines ==
  [type : {"user", "assistant", "tool", "tool_call", "tool_result", "skill_activation",
           "error", "torn"},
   run : Runs, calls : Seq(Calls), call : Calls \cup {0}]

TypeOK ==
  /\ ToolTypeOK
  /\ journal \in Seq(Lines) /\ memory \in Seq(Lines) /\ messages \in Seq(Lines)
  /\ trace \in [Runs -> Seq([type : {"run_started", "tool_started", "tool_completed"} \cup Results,
                             call : Calls \cup {0}])]
  /\ meta \in [Runs -> {"absent", "pending", "running", "finalizing"} \cup Results]
  /\ result \in [Runs -> Results]
  /\ run \in 0..MaxSends /\ pc \in Places
  /\ todo \in Seq(Calls) /\ call \in Calls \cup {0}
  /\ turn \in 0..MaxTurns /\ cause \in {"none", "failed", "cancelled"} /\ aborted \in BOOLEAN
  /\ called \in 0..Cardinality(Calls) /\ crashes \in 0..MaxMishaps /\ faults \subseteq Runs

(* What a provider demands and repairDanglingToolCalls promises: in the    *)
(* messages the model gets, the calls of an answer are answered right      *)
(* behind it, also when runs before this one were cut off.                 *)
ModelSeesAnsweredCalls ==
  pc = "model" =>
    \A i \in DOMAIN messages : \A c \in ToSet(messages[i].calls) :
      \E j \in DOMAIN messages :
        /\ i < j /\ messages[j].call = c
        /\ \A k \in (i + 1)..j : messages[k].type = "tool"

(* What keeps a session usable: the first line a strict load would refuse  *)
(* is a torn one, or a later message behind the calls of a run that did    *)
(* not end well; and a call that was begun is without its result only if a *)
(* crash or a failed write ended that run.  (A run cut off between two     *)
(* calls does make the session unusable with the next message: the repair  *)
(* is in memory only.)                                                     *)
JournalBreaksOnlyBehindInterruption ==
  \A i \in DOMAIN journal :
    (Misplaced(i) /\ \A j \in 1..(i - 1) : ~Misplaced(j)) =>
      \/ journal[i].type = "torn"
      \/ /\ journal[i].type = "user"
         /\ \E j \in 1..(i - 1) :
              /\ journal[j].calls # NoCalls
              /\ result[journal[j].run] \notin {"none", "completed"}
              /\ Open(i) # {} =>
                   journal[j].run \in faults \/ result[journal[j].run] = "lost"

(* The strict load of a trace, its progress events left aside: it begins   *)
(* with run_started, a call completes once and after it has started, and   *)
(* nothing comes behind the one terminal event.                            *)
Terminal == {"completed", "failed", "cancelled"}
WellFormed(t) ==
  /\ t # <<>> /\ t[1].type = "run_started"
  /\ \A i \in DOMAIN t :
       /\ t[i].type \in Terminal => i = Len(t)
       /\ t[i].type = "tool_completed" =>
            \E j \in 1..(i - 1) :
              t[j] = Event("tool_started", t[i].call)
              /\ \A k \in (j + 1)..(i - 1) : t[k].call # t[i].call

(* What a reader of a run is told: the trace of a send that was answered   *)
(* loads, and ends the way the send did; meta.json says so only when the   *)
(* trace does, and never says of such a run that it goes on.               *)
TraceTellsTheRun ==
  \A r \in Runs :
    LET t == trace[r]
    IN /\ result[r] \in Terminal => WellFormed(t) /\ t[Len(t)].type = result[r] /\ meta[r] = result[r]
       /\ meta[r] \in Terminal => WellFormed(t) /\ t[Len(t)].type = meta[r]

(* A send is settled or lost, whatever the tools do: only the timeout of   *)
(* the registry ends the wait for a command that ignores SIGTERM.          *)
SendSettles == \A r \in Runs : (run = r /\ pc = "start") ~> (result[r] # "none")

=============================================================================
