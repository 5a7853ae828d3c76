------------------------------ MODULE ToolCall ------------------------------
(***************************************************************************)
(* The tool calls of one agent: ToolRegistry.execute and the tools of      *)
(* src/packages/core/src/tools.                                            *)
(*                                                                         *)
(* The registry answers with whatever comes first, the tool or a timeout.  *)
(* A timeout and a cancelled run abort the signal of the call, which a     *)
(* shell command and a request look at and the file tools do not: a call   *)
(* that was answered for can go on, and change the file, while later calls *)
(* run.  The tools that write a file do so inside FileMutationQueue, first *)
(* come first served for each path; the model has one path.  A shell       *)
(* command writes where it likes, outside the queue, for as long as it or  *)
(* a process it has left behind runs.                                      *)
(***************************************************************************)
EXTENDS Naturals, Sequences

CONSTANTS
  Calls,   \* the tool calls of a behaviour
  Tools    \* the tools they may be calls of

Kinds == {"unknown", "bash", "read", "edit", "write", "activate_skill", "probe_media",
          "analyze_audio", "analyze_media"}

ASSUME ToolsAssumption == Tools \subseteq [Calls -> Kinds]

VARIABLES
  tool,     \* where each call is
  kind,     \* the tool it names, which never changes
  signal,   \* the calls whose signal is aborted
  outcome,  \* what the registry has answered
  queue,    \* who is in FileMutationQueue, or waits for it
  copy,     \* the file as an edit has read it
  file,     \* the calls whose change the file holds
  active,   \* the skill is active in SkillRegistry
  commands, \* the calls whose command was started: it may run still
  overtaken \* history: the edits to whose file a command wrote after they had read it

shellVars == <<commands, overtaken>>
toolVars == <<tool, kind, signal, outcome, queue, copy, file, active, shellVars>>

Working ==
  {"child", "read", "probe", "skill", "input", "upload", "ask", "poll", "queue", "change"}
Outcomes == {"none", "ok", "activated", "failed", "aborted", "timeout"}

Running(c) == tool[c] \in Working

(* The first of Promise.race is the answer; the later one goes nowhere.    *)
Answered(c, o) == outcome' = [outcome EXCEPT ![c] = IF @ = "none" THEN o ELSE @]

(* The tool is done, and the controller of its signal gone.                *)
Return(c, o) ==
  /\ Answered(c, o)
  /\ tool' = [tool EXCEPT ![c] = "done"]
  /\ signal' = signal \ {c}

Goto(c, place) == tool' = [tool EXCEPT ![c] = place] /\ UNCHANGED <<outcome, signal>>

Enqueue(c) == queue' = Append(queue, c) /\ Goto(c, "queue")

(* The policy resolves no path outside its roots, nor one that is secret;  *)
(* in read-only mode it resolves none to write to.                         *)
Refuse(c) == Return(c, "failed")

(* A command that would show secrets, or one that could write when the     *)
(* policy is read-only, is not run.                                        *)
StartBash(c) == (Refuse(c) \/ Goto(c, "child")) /\ UNCHANGED queue

(* A path the policy does not allow is refused before the queue.           *)
StartChange(c) == (Refuse(c) /\ UNCHANGED queue) \/ Enqueue(c)

Start(c, k) ==
  CASE k = "bash" -> StartBash(c)
    [] k = "read" -> Goto(c, "read") /\ UNCHANGED queue
    [] k = "probe_media" -> (Refuse(c) \/ Goto(c, "probe")) /\ UNCHANGED queue
    [] k = "activate_skill" -> Goto(c, "skill") /\ UNCHANGED queue
    [] k \in {"edit", "write"} -> StartChange(c)
    [] k \in {"analyze_audio", "analyze_media"} -> Goto(c, "input") /\ UNCHANGED queue

(* A tool that is unknown or does not take the arguments fails at once; in *)
(* a cancelled run no tool starts.                                         *)
Execute(c, cancelled) ==
  /\ tool[c] = "none"
  /\ \/ Return(c, "failed") /\ UNCHANGED queue
     \/ kind[c] # "unknown" /\ cancelled /\ Return(c, "aborted") /\ UNCHANGED queue
     \/ kind[c] # "unknown" /\ ~cancelled /\ Start(c, kind[c])
  /\ commands' = IF tool'[c] = "child" THEN commands \cup {c} ELSE commands
  /\ UNCHANGED <<kind, copy, file, active, overtaken>>

(* The timers the registry has set; a mutant sets none for bash, which has *)
(* a limit of its own.                                                     *)
TimedNotBash(c) == Running(c) /\ outcome[c] = "none" /\ kind[c] # "bash"
Timed(c) == Running(c) /\ outcome[c] = "none"

TimeOut(c) ==
  /\ Timed(c)
  /\ Answered(c, "timeout")
  /\ signal' = signal \cup {c}
  /\ UNCHANGED <<tool, kind, queue, copy, file, active, shellVars>>

(* The signal of the run reaches the calls nobody has answered for.        *)
AbortCalls ==
  /\ signal' = signal \cup {c \in Calls : Running(c) /\ outcome[c] = "none"}
  /\ UNCHANGED <<tool, kind, outcome, queue, copy, file, active, shellVars>>

(* The command ends by itself, or because SIGTERM was sent to its process  *)
(* group by the signal or by the time limit of the tool.  It may ignore    *)
(* SIGTERM.                                                                *)
ChildCloses(c) ==
  /\ tool[c] = "child"
  /\ \E o \in (IF c \in signal THEN {"aborted", "failed"} ELSE {"ok", "failed"}) : Return(c, o)
  /\ UNCHANGED <<kind, queue, copy, file, active, shellVars>>

(* The command, or what it has left running behind its answer, its timeout *)
(* or the end of the server (it has a process group of its own), writes    *)
(* the file: of what is there it keeps what it likes.                      *)
CommandWrites(c) ==
  /\ c \in commands
  /\ \E kept \in SUBSET file : file' = kept \cup {c}
  /\ overtaken' = overtaken \cup {d \in Calls : kind[d] = "edit" /\ tool[d] = "change"}
  /\ UNCHANGED <<tool, kind, signal, outcome, queue, copy, active, commands>>

(* The file is read to the limits of the tool, or there is none to read.   *)
ReadFile(c) ==
  /\ tool[c] = "read"
  /\ Return(c, "ok") \/ Return(c, "failed")
  /\ UNCHANGED <<kind, queue, copy, file, active, shellVars>>

(* ffprobe is sent SIGTERM by the signal; whatever its exit code but 0, or *)
(* an output that does not parse, is a failure.                            *)
Probe(c) ==
  /\ tool[c] = "probe"
  /\ (c \notin signal /\ Return(c, "ok")) \/ Return(c, "failed")
  /\ UNCHANGED <<kind, queue, copy, file, active, shellVars>>

(* A skill that is active already is not read again, nor journaled.        *)
Newly == IF active THEN "ok" ELSE "activated"

ActivateSkill(c) ==
  /\ tool[c] = "skill"
  /\ \/ Return(c, "failed") /\ UNCHANGED active
     \/ Return(c, Newly) /\ active' = TRUE
  /\ UNCHANGED <<kind, queue, copy, file, shellVars>>

(* What is sent: a URL, a small file inline, or a file published first.    *)
(* The other tool takes other formats and limits, to the same ends.        *)
ResolveAudio(c) ==
  /\ tool[c] = "input" /\ kind[c] = "analyze_audio"
  /\ Return(c, "failed") \/ Goto(c, "upload") \/ Goto(c, "ask")
  /\ UNCHANGED <<kind, queue, copy, file, active, shellVars>>

ResolveMedia(c) ==
  /\ tool[c] = "input" /\ kind[c] = "analyze_media"
  /\ Return(c, "failed") \/ Goto(c, "upload") \/ Goto(c, "ask")
  /\ UNCHANGED <<kind, queue, copy, file, active, shellVars>>

(* An upload does not look at the signal.                                  *)
Publish(c) ==
  /\ tool[c] = "upload"
  /\ Return(c, "failed") \/ Goto(c, "ask")
  /\ UNCHANGED <<kind, queue, copy, file, active, shellVars>>

(* The answer is returned, or written to a file through the queue.         *)
Deliver(c) == (Return(c, "ok") /\ UNCHANGED queue) \/ Enqueue(c)

(* A request of callAsr that throws: aborted, refused by status or by an   *)
(* answer that is no transcript, or out of time.                           *)
RequestFails(c) ==
  Return(c, IF c \in signal THEN "aborted" ELSE "failed") /\ UNCHANGED queue

(* The turbo engine answers at once, the standard one when asked again; an *)
(* answer that is there already is not dropped by an abort.                *)
Transcribe(c) ==
  /\ tool[c] = "ask" /\ kind[c] = "analyze_audio"
  /\ RequestFails(c) \/ Deliver(c) \/ (Goto(c, "poll") /\ UNCHANGED queue)
  /\ UNCHANGED <<kind, copy, file, active, shellVars>>

Poll(c) ==
  /\ tool[c] = "poll"
  /\ RequestFails(c) \/ Deliver(c)
  /\ UNCHANGED <<kind, copy, file, active, shellVars>>

(* Here an abort is a failure like any other.                              *)
CallOmni(c) ==
  /\ tool[c] = "ask" /\ kind[c] = "analyze_media"
  /\ \/ Return(c, "failed") /\ UNCHANGED queue
     \/ Deliver(c)
  /\ UNCHANGED <<kind, copy, file, active, shellVars>>

(* FileMutationQueue: each waits for the one before; a mutant for nobody.  *)
EnterUnqueued(c) == tool[c] = "queue" /\ queue # <<>>
EnterQueue(c) == tool[c] = "queue" /\ queue # <<>> /\ Head(queue) = c

(* The text an edit replaces is not there, or there more than once.        *)
OpenEdit(c) ==
  /\ kind[c] = "edit" /\ EnterQueue(c)
  /\ \/ Return(c, "failed") /\ queue' = Tail(queue) /\ UNCHANGED copy
     \/ Goto(c, "change") /\ copy' = [copy EXCEPT ![c] = file] /\ UNCHANGED queue
  /\ UNCHANGED <<kind, file, active, shellVars>>

(* The directory is not there, or the file is and must not be overwritten; *)
(* the file tools of the services have no such condition but the first.    *)
OpenWrite(c) ==
  /\ kind[c] # "edit" /\ EnterQueue(c)
  /\ \/ Return(c, "failed") /\ queue' = Tail(queue)
     \/ Goto(c, "change") /\ UNCHANGED queue
  /\ UNCHANGED <<kind, copy, file, active, shellVars>>

(* atomicWriteFile: a temporary file that replaces the old one by rename.  *)
ReplaceFile(c) ==
  /\ tool[c] = "change"
  /\ \/ Return(c, "failed") /\ UNCHANGED file
     \/ Return(c, "ok") /\ file' = copy[c] \cup {c}
  /\ queue' = Tail(queue)
  /\ copy' = [copy EXCEPT ![c] = {}]
  /\ overtaken' = overtaken \ {c}
  /\ UNCHANGED <<kind, active, commands>>

(* The process ends, and no rename is half done.                           *)
LoseCalls ==
  /\ tool' = [c \in Calls |-> IF tool[c] = "none" THEN "none" ELSE "done"]
  /\ copy' = [c \in Calls |-> {}]
  /\ queue' = <<>>
  /\ active' = FALSE
  /\ signal' = {}
  /\ overtaken' = {}
  /\ UNCHANGED <<kind, outcome, file, commands>>

ToolInit ==
  /\ tool = [c \in Calls |-> "none"]
  /\ kind \in Tools
  /\ signal = {}
  /\ outcome = [c \in Calls |-> "none"]
  /\ queue = <<>>
  /\ copy = [c \in Calls |-> {}]
  /\ file = {}
  /\ active = FALSE
  /\ commands = {}
  /\ overtaken = {}

ToolStep(c) ==
  \/ TimeOut(c) \/ ChildCloses(c) \/ CommandWrites(c) \/ ReadFile(c) \/ Probe(c) \/ ActivateSkill(c)
  \/ ResolveAudio(c) \/ ResolveMedia(c) \/ Publish(c)
  \/ Transcribe(c) \/ Poll(c) \/ CallOmni(c)
  \/ OpenEdit(c) \/ OpenWrite(c) \/ ReplaceFile(c)

(* A registry anybody may call, and whose skills somebody may activate.    *)
ToolNext ==
  \/ \E c \in Calls, cancelled \in BOOLEAN : Execute(c, cancelled)
  \/ \E c \in Calls : ToolStep(c)
  \/ AbortCalls
  \/ LoseCalls

ToolSpec == ToolInit /\ [][ToolNext]_toolVars

ToolTypeOK ==
  /\ tool \in [Calls -> Working \cup {"none", "done"}]
  /\ kind \in [Calls -> Kinds]
  /\ signal \in SUBSET Calls
  /\ outcome \in [Calls -> Outcomes]
  /\ queue \in Seq(Calls)
  /\ copy \in [Calls -> SUBSET Calls]
  /\ file \in SUBSET Calls
  /\ active \in BOOLEAN
  /\ commands \in SUBSET Calls
  /\ overtaken \in SUBSET Calls

(* FileMutationQueue under calls that outlive their timeout: a file tool   *)
(* that changes the file leaves the whole content it wrote, or an edit of  *)
(* what the file was at that moment.  No edit undoes a change that came    *)
(* after it had read the file, unless a shell command made it: commands do *)
(* not use the queue.                                                      *)
EditsCompose ==
  [][file' # file =>
       \/ \E c \in commands : c \in file' /\ UNCHANGED tool
       \/ \E c \in Calls :
            /\ tool[c] = "change" /\ tool' = [tool EXCEPT ![c] = "done"]
            /\ kind[c] # "edit" => file' = {c}
            /\ kind[c] = "edit" /\ c \notin overtaken => file' = file \cup {c}]_toolVars

=============================================================================
