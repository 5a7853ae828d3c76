# Intel Workbench in TLA+

Specifications of Intel Workbench: its server (`src/packages/server`), the agent
runtime under it (`src/packages/core`) and its web client (`src/packages/web`); the
TLC configurations that check them on small instances; and proofs checked by
TLAPS. Everything is translated from the source; comments in the modules and the
`map` of `PROJECT.json` name the lines.

    tlc -config MCAuditChain.cfg MCAuditChain.tla     # a run
    tlapm AuditChainProofs.tla                        # proofs

## 1. The system

A Node server keeps every case in plain files under one directory: a manifest, the
uploaded materials with what the pipelines extracted from them, the elements,
contradictions and findings an analyst works on, one report, and an audit log.
There is no database and no transaction. One process, one thread: two requests
interleave at every `await`, and nowhere else. What protects the files is
(a) a queue per file (`withFileMutationQueue`), used by some services and not by
others, (b) a status field in the manifest that serves as a claim, (c) atomic
renames for some files, (d) one promise chain in front of the audit log. The agent
runtime, which answers questions with tools, has the same shape: append-only
journals, one queue per file, a loop that awaits. The browser is a third actor: its
answers come late, or when the user is already elsewhere.

| Component | State it keeps | Operations | Model |
|---|---|---|---|
| Audit hash chain (`audit/`) | `audit/audit.jsonl`, a mirror per case, the cached last hash, the promise chain | append, verify, readCaseEvents, reconcile | **AuditChain**, **AuditLog** |
| Report (`report/`) | `report.json`, `bulletin.spec.json`, `bulletin.md` | draft, submit, approve, export | **ReportGate**, **ReportReview** |
| Findings (`finding/`) | `findings.json`, `contradiction-acks.json` | create, review, acknowledge | partly, in ReportGate |
| Materials (`materials/`) | the raw file, `media.json`, `chunks.jsonl`, `.vec` | ingest, process, remove, reindex | **MaterialLifecycle** (one media material) |
| Cases (`cases/`) | `case.json`: clearance, materials with status and chunk version | create, update, attach, detach, updateMaterial, sweepInterrupted | **Registries** (create, archive), **MaterialLifecycle** (the rest) |
| Jobs and batched analysis (`jobs/`, `analysis/`) | two maps of the registry; `elements.json`, `contradictions.json`, `contradictions.result.json` | start, status, cancel; extract, detect | **AnalysisJob**, **JobContract** |
| Task orchestration (`task/`) | `task-runs.json`: per stage a verdict and a confirmation | create, get, advance, confirm | **TaskRun** |
| Run trace (`core/runtime/run-*`) | `trace.jsonl` and `meta.json` of a run | start, record, complete, cancel, fail, load | **AgentRun** (progress events left out) |
| Session journal (`core/runtime/session`, `agent`, `loop`) | `<session>.jsonl`, the messages in memory, the send queue | send, abort, resume, repair, loadSession | **AgentRun** |
| Agent tools and skills (`core/tools`, `skills`) | the work tree, the active skills | execute, with read, write, edit, bash, activate_skill, probe_media, analyze_audio, analyze_media | **ToolCall** |
| File mutation queue | a promise per path | FileMutationQueue.run, atomic replacement | **ToolCall**, with a proof |
| Accounts (`auth/`) | `users.json`, sessions and failed-login counts in memory | login, logout, change of password, create, update, disable | **Accounts** |
| Administration (`admin/`) | the prompts and their versions, `skills.json` | update, roll back, switch | **Registries** |
| Inquiry and retrieval (`inquiry/`) | `inquiries.jsonl`, the shared agent, a ledger per question | ask (single, agent), search, cite, finalize, judge | **Inquiry** (ranking left out) |
| Outbound authorization (`security/`) | the allow list | assertOutbound, guarded fetch | a reason for a step to fail |
| Element graph, merging, overview, review queue | none of its own | pure functions over the files above | not modelled |
| Pipelines, parsers, model adapters | child processes, HTTP | transcribe, recognise, embed, parse | a step that yields or fails |
| Web client (`packages/web`) | session, panels, requests under way | mounting, clicks, polls, answers | **Workbench** |
| Command line (`core/cli`) | the terminal's | a loop of sends | not modelled |

How they interact: every service appends to the audit chain, and a failed append
is an exception in the middle of the caller. The report reads findings,
contradictions, acknowledgements and chunks at different moments of one export.
Removing or reprocessing a material invalidates the citations of findings.
Analyses read the chunks of done materials and are started by jobs or by a direct
route. The task service starts nothing: it computes its stages from what the other
services left on disk.

### What is hard, and what must hold

* *Audit.* Concurrent appends, an append that fails between its two files, a crash
  between or inside writes. The chain verifies; the mirrors agree with it; a call
  that resolved is in it for good; one failure blocks nobody.
* *Report.* No queue: every method reads, works on a copy, writes whole files,
  and the renderer is a child process with its own reads and writes. No report is
  approved without review; the gate misses nothing; the exported text is the
  reviewed one.
* *Materials.* The claim is the only lock, and six operations and a sweep write
  the status. One run at a time; a done material has its files, of one run; a
  removed one stays removed; processing ends.
* *Analysis.* A pool with an error, an abort and a limit; a registry; two files
  written in sequence and a failure path that writes them again. One job per case
  and kind; settled means quiet; the state told to the poller is true.
* *Tasks.* Stages are derived from facts that go back and are read file by file;
  failures are stored. Nobody gets around a checkpoint; a decision stands, is never
  lost, and rests on facts that were so.
* *Run trace and session.* Three files per run, each with appends of its own, and an
  abort, a failure or a crash between any two. The model never sees an unanswered call;
  the trace tells how the run ended; where a journal can break is known.
* *Tools.* A call that was answered for by a timeout goes on. It must not undo what
  later calls change; and it must not hold the run.
* *Inquiry.* One agent for all questions, made again when the methodology changes;
  material that changes between retrieval and judgement. No answer without grounds; no
  outdated methodology.
* *Accounts.* Counters read before an await; sessions that outlive a change of the
  account; `users.json` without a queue, emptied before it is filled. The lock holds; a
  disabled account does not get in; no acknowledged change is lost.
* *Cases, prompts, skills.* Ids derived from a directory listing, read-modify-writes
  without a queue.
* *Browser.* Polls that overlap, answers for a case, a material or a session that is not
  shown any more. What is shown belongs where it is shown; a running job is followed.
* *Retrieval, graph.* Algorithms over data with no shared state: not modelled.

## 2. The modules

A variable per piece of state, an action per stretch of code between two awaits.
Awaits that nothing else can observe are merged with the step that follows.
Variables called *history* are read by properties only.

### AuditLog, AuditChain: `audit-service.ts`

`AppendCall` is `append()`: it puts the call behind `tail`. `Turn` says that the
promises in front have settled; it accepts a rejection, because `tail` is the
caught promise. `appendNow` is then `StartAppend` (the previous hash from the cache
or the file), `WriteMain`, `WriteMirror`, `Commit` (the cache moves), with a failing
twin for each await that can throw (`StartFails`, `WriteMainFails`,
`WriteMirrorFails`). `Crash` drops the promise chain and the cache, and may leave part of a
line in the file whose append was under way, `audit.jsonl` or the log of a case, after which
`readLog` of that file throws for ever (`Readable`, `CaseReadable`); `mirror` is what the log of a
case shows up to such a line. `Verify` is `verify()`, an
operator over the file; it numbers lines from 1 where the code numbers from 0.
sha256 is taken as collision-free: a hash is the sequence of the payloads it
commits to. An append writes a line, nothing (also when it throws), or, at a crash, part of a
line; a line that lacks nothing but its end counts as cut.

`AuditLog` is what callers rely on: a log that only grows, at most one entry per
call, in the order of the calls, kept once the call resolved. `RefinesLog` maps
the file to the log and the places of a call to what its caller knows.

### ReportReview, ReportGate: `report-service.ts`

`record`, `specFile`, `markdown` are the three files. A request is a walk through
`pc`: `DraftBegins .. DraftEnds` for `draft` (the renderer is two steps, it reads the
spec file and writes the markdown), `ReadForMove`/`WriteMove` for `submit` and `approve`,
`ExportBegins .. SaveExport, Deliver` for `export` with the four reads of the gate; between the
last two the record says exported and the audit append may still throw. Each holds the
record it read in `held` and writes that copy back. A request can fail at any step and leaves
what it has written: `ExportAuditFails`, `Answered` (the audit append of the others), and `FileFails`, which is a
file that cannot be read or written, or the end of the process, which is that step of every
request under way (the service keeps nothing in memory). `Faults` says which of these a run has. The text of a report is abstracted
to who drafted it, which findings it names and whether its prose is theirs, which is
all the gate looks at. Findings, chunks, detections and acknowledgements
change between any two steps (`CreateFinding .. Acknowledge`): these actions are the
other services, as far as the gate reads them.

`ReportReview` is the state machine of the phase-1 plan: edit, submit, approve, export. An export
is two steps of it, `MarkExported` and `HandOut`: the first promises nobody the text.

### MaterialLifecycle: `material-service.ts`, `case-service.ts`

One audio, image or video material. Each update of the manifest is one step,
since it is a read-modify-write in the file's queue; every file written between
two of them is a step of its own. `status` adds "absent" and "removed" to the
manifest's values. A file is identified by the request that produced it, its
version and its number of chunks. `process()` is `ReadManifest`, `Claim`, `StartAudited`,
`PipelineDone`, `WriteMedia`, `WriteChunks`, `WriteIndex`, `Done`, `DoneAudited`, with
`Fail` for `failProcess` and `Degrade` for the end of an upload whose processing failed.
The failing twins keep the code's `try` boundaries: the audit after the claim is
outside, the one after the commit inside. Updates of the manifest may fail (`UpdateFails`,
`FailFails`, `DegradeFails`, and `RunFails` for the one that says done). A run replaces its files by rename;
a reindex writes the chunks back in place, so that is two steps (`BeginWriteBack`, `WriteBack`, or
`WriteBackFails`), between which, or after a failure or a crash in it (`CutWrites`), the file is not `Whole`.
However a request ends, it is at "ended". `Restart` is a crash and the sweep.

### JobContract, AnalysisJob: `job-registry.ts`, `batch-extract.ts`, the two services

`StartJob`, `Cancel`, `Settle` are the registry; `StartDirect` is the route that calls the
service without it. `LaunchMore`, `WorkerEnds`, `SettleMap` are `mapWithConcurrency`, by its
own counters. The rest is the order in which `extract` and `detect` write, audit, and
fail; `kind` chooses between them. `elements.json` has no status field in the
code; the status in `list` is a label of the model for that kind.

`JobContract` is what those rely on who start a job, poll it and fetch its results when it is
told as done: one job of a pair at a time, which ends once, ids that are not used again, and results
that are there by then, unless the direct route (`Bypass`) has replaced them. `RefinesContract` maps the
registry to what `status` tells (`Shown`), and the files to whose results GET gives
(`Fetched`, `Author`): of contradictions those of `contradictions.result.json`, and of
`contradictions.json` only as long as there is no other (`getResult`). `Restart` is in the contract for the server
that the client's model has; `AnalysisJob` is one life of the process. The contract says nothing of whether
a job ends: that is `JobEnds`.

### TaskRun: `task-service.ts`

`run` is the task in `task-runs.json`, reduced to a verdict per stage and the set of
confirmed checkpoints ("open" stands for the stored "active" and "pending", which
`computeStages` does not tell apart). `facts` is what the service reads of the case:
`FactsChange` is every other service. A request waits (`MyTurn`) until nobody is in the
queue of the file, and no order among those that wait is assumed. Then
`Enter` reads the file into `copy`; a creation is `Create` or `AlreadyCreated`, a change is
`ReadFacts` five times, one per file, then `Advance`, `Confirm` or `Refuse`, then `Write`
and `Audit`, whose failure rejects a change that stands. `Fail` is a read or
write that throws. `NoTask` is the 404. `OwnStatus`, `Blocked` and `StageStatus` are
`computeStages`; `DerivedDone` and `CheckpointReady` have the code's names. A request is
any stage and verdict `Advance` accepts, any checkpoint `Confirm` accepts, or one they
refuse. History: `accepted` replays the changes in the order of their writes,
`seen` collects the states of the case since a request's turn came.

### ToolCall, AgentRun: `core/src/tools`, `core/src/runtime`

`ToolCall` is the registry and the tools. `Execute` is `ToolRegistry.execute` up to the tool's
first await, with the policy's refusals; `TimeOut` is the race it wins, `AbortCalls` the
run's signal. Each tool is the steps between its awaits: `ChildCloses` (bash, which ends
only when its process closes), `CommandWrites` (what the command, or a process it has left behind, does
to the file, outside the queue, at any time from its start on), `ReadFile`, `Probe`, `ActivateSkill`, `ResolveAudio ..
CallOmni` for the media tools with uploads, polls and requests, and for `edit` and `write`
`EnterQueue`, `OpenEdit`/`OpenWrite`, `ReplaceFile`. A call whose timeout has fired
keeps running (`tool` and `outcome` are two variables). The file is the set of calls whose
change it holds: a write replaces it, an edit adds to the copy it has read, a command keeps what it likes.
History: `overtaken`, the edits to whose file a command wrote after they had read it.

`AgentRun` extends it by a conversation. `journal`, `trace` and `meta` are the files;
`memory` and `messages` the conversation's and the run's messages. `Send`, `StartRun`,
`AppendUser`, `RequestModel`, `ModelAnswers`, `StartCall`, `JournalResult`, `CompleteCall`,
`JournalError`, `HandOff`, `Finish`, `EmitTerminal`, `FinalizeRun` are the awaits of `send`,
`runAgentLoop` and `RunManager` in their order; where appends follow one another with
nothing to tell between them they are one step. Each may fail (`WriteFails`), and the place decides whether
the loop's `catch` sees it (`Raise`) or the run is left without an end (`Reject`).
`Crash` may leave a torn line; `Resume` is the strict load (`Misplaced`), the recovery of
a run that was cut off, and `repairDanglingToolCalls` (`Repaired`).

### Inquiry: `inquiry/`

`mode` chooses `askSingle` (`Retrieve`, `GenerateAndValidate`) or the agent. `JoinAgent` is
the comparison of methodologies and `getInquiryAgent`; `ReadMethodology`, `Bake`,
`TruncateInstructions`, `WriteInstructions`, `CreationEnds` are `createInquiryAgent`, whose
promise all questions await, also when it was rejected (`AgentFails`). `SearchChunks`,
`ReadMedia`, `Cite`, `FinalizeAnswer` are the tools on the ledger of a question, `Judge` the
grounding of its claims, `Persist` and `RecordCreate` the end. A chunk on disk is absent,
good, or bad: its text does not match its hash. `SelectContext` allows any ranking. History: `begun`, `mixed`, `blind`.

### Accounts, Registries: `auth/`, `admin/`, `cases/`

Requests with one step per await. In `Accounts` a write of `users.json` is `OpenUsers`
(`writeFile` has emptied it) and `FillUsers`; `ReadUsers` in between finds it `Torn`. `Judge`
uses the lock that was read in `LoginBegins`. Words are named after the request that
brought them. `Registries` extends it by the creation of cases (`AllocateId`, `MakeDirs`,
`WriteManifest`), the manifest's queue (`Turn`), prompts (`ReadPrevious`, `KeepVersion`,
`EmptyPrompt`, `WriteBody`) and `skills.json`. `Restart` keeps the files alone. History: `guesses`,
`overlapped`, `raced`, `wrote`, `barred`, `late`.

### Workbench: `packages/web/src`

`calls` are the requests under way, as sent, with `heeded` false once the effect or the
generation that sent them is gone; `Serve` gives a request the answer of the moment,
`Arrive` brings it, or a failure instead, in any order. `panel` is the state of the open
tab's component: `OpenCase` mounts it anew (`Mounted`), as the `key` of the outlet does;
`overview` is `TaskOverview`, which is not keyed. `SessionArrives`, `JobArrives`,
`ContentArrives` ... are the `then` branches; `Unauthorized` is `noteStatus`. The server is as much as the
client can tell of it. A behaviour stays with one of six tabs; they share case and
session only. `Streams` are the open streams of answers, which alone are aborted (`Aborted`); of other
requests only the answer is dropped. The poll of `TaskOverview` (`PollTask`) goes on while the page is open.
History: `polled` (a poll of this case has answered), `strayed`, `crossed`, `followed` (the last job shown as running),
`mounted` (the status asked for at mounting is what is shown), `overtaken` (it came over a job already shown), `late`,
`outdated`, `told` (the inquiries answered here), `overlapped`.

## 3. The runs

| Run | Question | Result |
|---|---|---|
| audit_chain | Concurrency, failures and two crashes, also inside a write: does the chain hold, do calls settle, is it an append-only log? | holds |
| audit_mirror_fails | Does verify accept every chain the program wrote? | no: finding 1 |
| report_concurrent | Five requests interleaved, each may fail or be cut off: can a report be approved unseen, when do text and record part? | holds |
| report_serial | One request at a time, moving evidence, failing audits: does the gate miss anything, is it the review state machine? | holds |
| report_failed_detection | Does an open contradiction always block? | no: finding 2 |
| material_lifecycle | Upload, runs, removal, reindex, failing audits and writes, a restart: files, claim, end | holds |
| analysis_job | Two analyses, a cancel at any moment: pool, registry, files, and the contract with those who poll | holds |
| task_run | Creations and decisions on a changing case: is a decision lost, undone, led around a checkpoint, or made on what never was? | holds |
| agent_run | Two sends with tools, timeouts, an abort, a failed write or a crash: what the model sees, what the files say, whether a send settles | holds |
| inquiry | Two questions while material and methodology change: grounds, methodology | holds |
| registries | Three requests to one registry, a restart: the lock, disabled accounts, acknowledged changes | holds |
| workbench | One browser, two cases, late answers: what is shown, what is followed | holds |

Where the code has a defect that no document of the repository contradicts, or that
would hide every other cause, the property names it as an exception: an
expression over history variables that says when it has happened. What such a property
says is that there is no *other* cause.

| Property | Exception | What happens then |
|---|---|---|
| BreakFollowsFailedMirror | behind a rejected call | finding 1 |
| MirrorFollowsLog | `~CaseReadable` | a crash inside the append to the log of a case (`audit-service.ts:99`): what is appended behind the cut line is glued to it or not reached, and `readCaseEvents` throws (`:130`) |
| MismatchExplained | `~rendered` | the renderer failed on a second draft; submitted and approved, it is exported with the first one's text, since `rendered` is tested nowhere (`report-service.ts:209`) |
| MismatchExplained | `overlapped` | a draft beside another request: a stale record is written back (`report-service.ts:107`) |
| MismatchExplained | a failed draft | it failed, or died with the process, between the text and the record (`report-service.ts:117`): the new text lies under the record of the draft before, which may be approved and exported |
| DoneHasChunks, ServedIsOneRun | `rewritten`, `~Whole` | a reindex writes the chunks back in place (`material-service.ts:716`): while it writes, and after a failure or a crash in it, a part of them is missing, until the next write back or run |
| OneRun, ServedIsOneRun | `doubled` | the downgrade of a failed upload sets pending over the claim of a run begun in between (`material-service.ts:367`), or a run that failed in its last audit sets failed (`:801`); a third run may then claim as well |
| ServedIsOneRun | `unembedded` | the chunks could not be embedded: the vectors of the run before are used if it had as many chunks, though the comment at `material-service.ts:891` takes their number to tell (`:905`) |
| ServedIsOneRun | `older` | a reindex worked on chunks that a run has replaced meanwhile, or on a part of them (`:703`, `:716`) |
| ProcessingEnds | `abandoned` | the audit after the claim failed (`:753`), or the update by which `failProcess` (`:845`) or the downgrade (`:367`) was to set the status failed: processing until the next start |
| FilesAgree | `overlapped` | the direct route beside the job (`routes/contradictions.ts:15`) |
| JournalBreaksOnlyBehindInterruption | a run that did not end well | an abort or a failure between the calls of one answer leaves the rest unanswered; they are repaired in memory only (`agent.ts:331`), and with the next message the strict load refuses the session (`session.ts:123`) |
| TraceTellsTheRun | a rejected or lost send | a write that fails outside the loop's `try` leaves a run without a terminal event |
| EditsCompose | `overtaken` | a shell command wrote the file after an edit had read it: commands do not queue (`bash.ts:315`, `edit.ts:61`), and the edit undoes what the command did |
| MethodologyIsCurrent | `mixed` | two creations that overlap have read different methodologies: the older may be written last. They overlap as well when one has not read yet and the other, which has replaced it in the cache, is ready already: the proof asked for this case, and TLC shows it with four questions and two edits |
| MethodologyIsCurrent | `blind` | a question meets the first creation between its reading and its remembering |
| LockoutHolds | `overlapped` | attempts at once count as one; an earlier one can undo the lock (`auth-service.ts:59`) |
| DisabledIsOut, AcknowledgedIsThere | `raced` | two requests changed one registry at once: one change, one case, one version of a prompt is lost (`user-store.ts:99`, `case-service.ts:68`, `prompt-store.ts:215`, `admin-service.ts`) |
| AcknowledgedIsThere | `Torn` | a restart between emptying and filling `users.json` or `skills.json` |
| ShownBelongs | `crossed` | a late 401 of an old token ends a new session (`api.ts:27`); an answer of fetchMe or of a change of password comes after signing in or out |
| ShownBelongs | `~polled` | TaskOverview keeps the task of the case before, with its buttons, until a poll of this case has answered, for ever if none does: nothing clears it (`CaseWorkbench.tsx:155-187`) |
| ShownBelongs | `strayed` (overview) | a button of TaskOverview answers in another case |
| ShownBelongs | `strayed`, `failed` (material) | reindex or process answers while another material is selected; a content that cannot be read leaves the one before |
| ShownBelongs | `overlapped` | the list of inquiries comes while a question is live, whose inquiry it has already: it is there twice; or it was served before a question that is answered by now: its inquiry is gone (`:1868`) |
| DoneIsListed | `listError`, `outdated` | the list could not be fetched; two list answers in the wrong order |
| DoneIsListed | `mounted` | the job was over when the panel was mounted, or ended between the answers to the list and to the status: the latter is shown without `onDone` (`:441`) |
| DoneIsListed, JobIsFollowed | `overtaken` | the status asked for at mounting comes when another job is shown (`:442`); if it says done, the end of that other job is taken for one that is known (`:391`), and if nothing runs by it, the running job is not shown until the next poll |
| DoneIsListed, JobIsFollowed | `late` | the answer of a poll comes when polling has stopped since it was sent, or is of an older job than the one followed, whose polling it ends |

### Bounds, and why they are enough

* `audit_chain`: four calls, two of one case, one of another, one of none; two
  crashes; every fault. A break needs two calls and a fault, a wrong link after a
  restart needs a crash between two more; the second crash finds a torn file or a cut mirror. The
  proofs lift the bounds.
* `report_*`: two drafts, one submit, approve and export each, one finding, one
  contradiction (none in the concurrent run, where the evidence is not the
  question). A stale write needs two requests, a wrong text two drafts. The second
  finding or approval would only repeat a role. `report_concurrent` has `Faults` "render" and
  "files", which subsumes the audit's: it stops a request after any step. `report_serial` has "audit" only, because with
  the others an export may return a text that was never in review (section 3).
* `material_lifecycle`: one upload, one run or removal, and one request of any other kind,
  one restart. The claim is between two runs and a third party gives it back: three
  requests. A run makes two chunks, so a file can hold a part of them; no other count is
  needed, because the count's only use is to compare.
* `analysis_job`: three batches, two at a time (a full pool, a refill, a last batch),
  two runs (a job and its competitor or its direct rival).
* `task_run`: the nine stages of the template; two creations (one too many) and
  three changes (a checkpoint's confirmation, a decision behind it, a competitor); a
  case that is empty or has everything up to a report; one restart. One change of the
  facts is enough to be seen by a part of a request's reads only, since each fact is
  read once. The proofs lift every bound.
* `agent_run`: two sends (a run, and one after it or after a resume), two turns (a call
  and its answer), two calls in all, so two of one answer or of two, in four
  pairs of tools that hold every tool, a command beside an edit among them; one mishap, a failed write or a crash. The proofs lift
  these bounds for every safety property of the run.
* `inquiry`: two questions (creations overlap), one chunk of the case and one made by a tool,
  one edit. The proofs lift them.
* `registries` (the proofs lift all of this): three requests, so a third meets what two have left; two wrong words lock;
  only requests to one registry are combined (`OneRegistry`), since registries share no state but
  the session that asks.
* `workbench`: two cases, two materials or prompts, two requests under way at once (a constant of
  the model; the properties need an answer and one that overtakes it), two jobs, three questions, one
  upload and one deletion, three sessions where a page only loads, else one. What follows a named
  exception is explored too. The proofs lift all of these bounds.

Requests that do the same are interchangeable in `report_concurrent`, `task_run`,
`inquiry` and `registries` (SYMMETRY), which check invariants and action properties, no
liveness. The type invariants that no run checks are proved (Inquiry, ToolCall,
MaterialLifecycle, Registries, AgentRun, TaskRun).

Deadlock is not checked: a behaviour ends when every request has ended.

### Fairness

`FairSpec` asks weak fairness of each call's, request's or run's own steps: the
event loop runs every continuation whose promise settled, file operations end, model
calls have timeouts (`AbortSignal.timeout`). Fairness chooses no outcome: a step may
always fail instead. Nothing obliges a client to send a request, a user to
cancel, or the process to crash. In AgentRun it is the loop's steps and the registry's
timers that are fair, not the tools: a command need never end. Liveness is stated of
audit calls (`EveryCallSettles`), processing (`ProcessingEnds`), jobs (`JobEnds`) and sends
(`SendSettles`).

## 4. Findings

Two disagreements between the code and what the repository says of it have a run of
their own:

1. **A failed mirror append breaks the chain for good** (`audit-service.ts:101`).
   The line is in the file, the cache is not moved, the next event links past it.
2. **A failed detection opens the export gate** (`report-service.ts:413`): it lists no
   contradictions, and the gate does not read its status.

The others are the named exceptions of section 3. Met while modelling, and in no property: the rejected promise of the inquiry's agent is kept
(`inquiry-service.ts:626`); a wrong current password is answered by 401, on which the
browser signs out (`auth-service.ts:86`, `api.ts:27`); late seeding may overwrite
accounts (`user-store.ts`); a skill activated by a call that timed out is active and not in
the journal; a question whose audit line fails is reported as failed though it was
stored; a report may be marked as exported though nobody got its text, since the audit append behind the mark
may throw (`report-service.ts:216`); an open session survives the disabling of its account (`auth-service.ts:75`).

## 5. What is proved

`AuditChainProofs`, for any sets of events and cases, any faults, any number of
crashes, from the assumptions named in `AuditChain` only:

* `TypeCorrect`: `Spec => []TypeOK`.
* `ChainCorrect`: `Spec => []BreakFollowsFailedMirror`.
* `ChainAlwaysVerifies`: where mirror appends do not fail, `Spec => []ChainVerifies`. With
  the run that refutes it otherwise, this isolates the cause of finding 1.
* `ImplementsLog`: `Spec => RefinesLog`, safety of the refinement.

The chain property is not inductive: it does not mention the cache, nor the hash a
call read some steps before it writes. `IInv` adds `Serial` (a call is in the promise
chain once, and runs only when those in front have settled), `LinesLink` (each line
hashes itself and links to its predecessor, or the predecessor's call rejected),
`CacheFollowsLog` and `HeldHashFollowsLog` (both hashes are that of the last line, unless
its call is on its way to the cache or rejected), `InFlightIsLast` and
`LogMatchesPlace`. `Serial` is kept separately (`SerialInvariant`), the others action by
action in the lemmas `QuietStepKeepsLog`, `StartKeepsLog`, `WriteKeepsLog`,
`CommitKeepsLog`, `CrashKeepsLog`. `ChainAlwaysVerifies` adds `NoRejectedLine`. The
refinement uses `IInv` to show that the call that writes is the next one in the order of
the calls and has no entry yet.

`TaskRunProofs`, for any template, any sets of requests, any changes of the case and
any number of restarts:

* `TypeCorrect`, `FileIsAccepted` (`NothingLost`), `CheckpointsAlwaysHold`
  (`CheckpointsHold`), `VerdictsAlwaysStand` (`VerdictStands`), `DecisionsGrounded`
  (`GroundsHeld`): everything `task_run` checks.

What a request writes was decided on a copy, several reads earlier. `IInv` adds that one
request at a time is in the queue (`Exclusive`), that its copy is still the file when it
decides (`CopyIsFile`), that what it writes is one legal decision on the file
(`ChangeFits`), and that a checkpoint is done exactly when confirmed and never
skipped (`CheckpointFields`). Without the last, a checkpoint could be passed by its
verdict alone. `AdvanceDecides` and `ConfirmDecides` derive a legal decision from
the guards; `WriteMakes` and `DecidesKeeps` say what it does to the file, which gives
`VerdictStands` as well. `DecisionsGrounded` needs `GInv` on top: each value a request
has read was so in some state since its turn came (`KnownWasSo`). The states may differ
from value to value, so it would not follow for a stage that looks at two facts; the
lemma `FactByFact` shows that none does.

`AgentRunProofs`, for any sends, turns, calls of any tools, timeouts, aborts, failed writes
and restarts:

* `ToolTypeCorrect`, and `NoEditIsLost` (`ToolSpec => EditsCompose`), the tools alone. The
  invariant is what the queue is for: a call about to replace the file is the head of the queue
  (`Exclusive`), so there is one of them, and what an edit has read is still the file.
  `HeadOfAppend` says that whoever joins does not take its place. `ToolSteps` shows that the
  steps of a conversation are steps of the tools, but for a restart, which keeps their
  invariant. What an edit has read is no longer the file when a command has written it: hence `overtaken` in
  the invariant and in the property. For the conversation: `ConversationLosesNoEdit` (`Spec => EditsCompose`).
* `TypeCorrect` (`TypeOK`), `TraceIsTrue` (`TraceTellsTheRun`), `SessionBreaksWithReason`
  (`JournalBreaksOnlyBehindInterruption`), `ModelIsAnswered` (`ModelSeesAnsweredCalls`): everything
  `agent_run` checks but `SendSettles`.
* `TraceFits`: the trace of a run at work is well formed but for its end, its last event
  is the call that is executed, and `meta.json` does not say that the run is over.
* `JournalFits`: what a strict load would find open or pending behind the last line is what the run
  is about to close: the call it executes, the calls it has not begun (`CallsFit`). Once the run is
  over it is what a run that did not end well has left (`Interrupted`). `OpenNext`,
  `PendingNext` and `MisplacedNext` say what a line more does to the three functions of the
  load; that no line is asked for or begun twice needs `Distinct(todo)`.
* `LeadFits` and `MessagesFit`: all messages are answered but the last of the model, whose answers are
  behind it or among the calls still to come (`Awaiting`). A new process gets there from any journal:
  `ReplayedOrderly` (no answer comes before a message), and `RepairAnswers`, that
  `repairDanglingToolCalls` leaves no call unanswered. Both are about sequences put together from
  others; `FlattenStarts` says where each part begins. It goes by induction, as `LeastNat`
  (every set of natural numbers has a least one), which needs no operator as a parameter.
  `CallsAssumption`: a call is named after its place among all that is asked for.

`InquiryProofs`, for any questions, chunks and number of edits:

* `TypeCorrect`, and `NoAnswerWithoutGrounds` (`AnswersAreGrounded`). The property speaks of
  the moment an answer is made; the invariant of every ledger before it: `Ledgers` (what was cited
  was good and has been retrieved, though a later search may have replaced it) and `Fresh`
  (nothing is cited before the tools run). `DropKeepsLedgers` and its siblings reduce
  the steps to the few things that may happen to a ledger.
* `CurrentMethodology` (`MethodologyIsCurrent`). `MethodologyInv`: nothing anybody has read is
  newer than the prompt (`NotNewer`), and as long as no two creations have mixed, those at work
  have all read what the cached one has and will write (`CacheFits`), which is new enough
  for whoever awaits it (`AwaitedServes`). The first attempt failed for a reason and widened the exception
  `mixed` (section 3).

`AuditChainProofs` has `MirrorsFollow` (`MirrorFollowsLog`) besides: `MirrorMatchesPlace` says
that an event is in the mirror of its case from that write on and in no other, unless that log was cut, so a write
puts the newest entry of the log behind all that are there. `CutsFit` ties each cut log to a call of
its case that a crash cut off behind its line in `audit.jsonl`.

`WorkbenchProofs` is about the analysis and about the client in which it is followed. For any runs,
number of batches and concurrency:

* `TypeCorrect`, `OneJobRuns`, `QuietWhenSettled`, `TruthTold`, `FilesAgreeAtRest` and the action
  property `AbortedNeverResolves`: everything `analysis_job` checks but `RefinesContract` (below) and `JobEnds`. The
  invariant ties the pool's counters, which workers set, to the phase of the run:
  past its map every batch has ended and none with an error (`WorkFits`); who is called done
  or succeeded is past it (`JobFits`, `ResultFits`); the two files part only between the two
  writes of one run, and one run at a time is active unless `overlapped` (`FilesFit`).
  `LaunchMoreType` and its siblings say what `mapWithConcurrency` does to the counters.
* `ContractHolds`: `Spec => RefinesContract`. `IInv` does not suffice: that the results are there when a
  job is told as done depends on who wrote last. `RegistryFits` says that who is at work for the
  registry is its running job, so a job that ended never writes again; `AuthorFits` that from its last
  write on what GET gives is the running job's or the direct route's, and that a run that has not begun
  has written nothing. `FetchedWritten`, `JobSettles`, `RunBegins` map the steps to `Write` or `Bypass`, `End`, `Start`; the
  rest stutters (`QuietSteps`). `FileAssumption`: a missing file is not one with results.

For any cases, materials, prompts, jobs, sessions and requests under way, it has of the client:

* `ClientHolds` (`ClientSpec => []ClientFits`), and from it `ShownWhereItBelongs` (`ShownBelongs`),
  `DoneJobIsListed` (`DoneIsListed`), `RunningJobIsFollowed` (`JobIsFollowed`): everything `workbench`
  checks. What a panel shows next depends on answers that are still under way, of which the
  properties say nothing. So the invariant says of every request what its answer may be
  (`AnswerFits`: a job is one of its case, and if it is done its results are on disk; an inquiry is in
  the file of its case), that a heeded one is of the open page and tab (`PageFits`), and what the panel
  expects of it: a job told as done is listed, or a list that has it is on its way (`Brings`, in
  `JobsFit`); the last job shown as running stays in sight as long as it runs (`JobsGoOn`, `JobsStay`); the selected content is asked for (`MaterialsFit`); the question that is live has
  at most one request, and an inquiry that will be added is not yet shown, one that was is (`InquiryFits`, `AllShown`). `Sound` is about
  sessions: the check of a stored token is the first request, a login behind it gets a newer
  session, and no password is changed with the token that is being checked. `SoundLeft`, `SoundAppend` and their siblings (`Carries...`) say what removing, forgetting and
  adding a request leave of this, so that each handler's lemma speaks of the panel only.
  That a stop or an unmount aborts the one stream there is needs `OneStream`. `NoneAssumption`:
  nothing is neither a case nor a material nor a way to ask.
* `ServerKeepsContract`: every step of the server in `Workbench` is one that `JobContract` allows
  (`ServerContract`, whose `Restart` is `ServerRestarts`), so the two models, written from the two sides of
  the same routes, do not contradict each other. It is the narrower of the two: it has no direct route, and
  results come with the end of the job. The theorems about the client are about that server, not about every
  one that keeps the contract.

  An inquiry may be shown twice only if the list arrives while a question is live: a list that
  arrives after the answer replaces the history, and shows each inquiry once, but may lack the one just answered.

`MaterialLifecycleProofs`, for any requests, versions, counts of chunks and restarts:

* `TypeCorrect`, `DoneIsServed` (`DoneHasChunks`), `ClaimIsExclusive` (`OneRun`), `ServedOfOneRun`
  (`ServedIsOneRun`), `RemovedForGood` (`StaysRemoved`): everything but `ProcessingEnds`. What a run has
  written stays until the material is removed (`RunLeaves`); who is in a claim is alone, and the
  status says so (`ClaimFits`, until `doubled`); what the claimant has written so far is its own
  (`RunFits`, until `doubled` or `older`). The chunks are not whole only where a reindex has begun to write back
  since the last run. `NoFileAssumption`: no file is not a file.

`ReportGateProofs`, for any requests, findings and contradictions:

* `TypeCorrect`, `ReviewedBeforeApproval` (`ApprovedWasReviewed`), `GateStands` (`GateHolds`),
  `MismatchesExplained` (`MismatchExplained`), and `SerialReview` (`RefinesReview`) for requests one after the other
  (`OneAtATime`) in which renderer and files work and only audit appends fail, the settings of `report_serial`.
  The invariant follows each request with the copy it will write back: `ReviewFits` (a copy
  that may become approved was reviewed, though `report.json` may have changed since), `GateFits` (what the
  gate has found so far against what has stood since it began), `MatchFits` (at each place of a draft,
  which of the three files already agree, unless a draft ran beside another
  request or one failed before its record: `Unfinished`). `FailureKeepsInv` says once that whatever ends a request early keeps all of this. `NoneAssumption`: no report is not a report.

`RegistriesProofs`, for any requests, users, names, skills and `MaxFails`:

* `TypeCorrect` (`TypeInv`), `LockoutStands` (`LockoutHolds`), `DisabledStayOut` (`DisabledIsOut`),
  `AcknowledgedStays` (`AcknowledgedIsThere`): everything `registries` checks, without its constraint to
  one registry. A read-modify-write over a file that is emptied before it is filled
  is safe only as long as nobody else is in it. So each part has the form "unless the
  registry was raced": the one writer finds the file `Torn` and holds a copy that says all
  that was acknowledged before (`UsersFits`, `SkillFits`); a prompt that is replaced is among the
  versions before it goes (`PromptFits`); a case belongs to the one creation that has its id
  (`CaseFits`). `SeedFits` says that the first start writes `users.json` before anybody can have
  changed it; `LateFits` that a login whose account was barred when it began reads it disabled;
  `LockFits` that the count in a lock is that of the words judged, and that a lone attempt
  holds it. `WroteFits` and the lemma `LaterSupersedes` give the order of the writers. `FilesAssumption` and `RegistriesAssumption`:
  a missing or empty file is not one with contents. `Names` is any sequence of ids: a creation
  waits when all are taken, so its length bounds the cases, while the code counts on.

Each `IInv` was checked by TLC on the instance of the component's run before it was proved.

Every safety invariant and action property of a passing run is thus the statement of a theorem. Only
model-checked are the four liveness properties (fairness and ENABLED are out of the prover's reach),
hence also the liveness of what the refinements promise, and what a definition computes by recursion over data.
No module with a theorem reaches a RECURSIVE operator.

## 6. What is left out

* Torn files of a report: `report.json`, the spec and the text are written in place, and a crash inside a write
  is modelled as one before or after it (listed as a hazard). Crashes and failures between the writes are modelled.
* In MaterialLifecycle: a torn raw file or frame; the text file of documents. Failures to remove or to read a file,
  which leave files nobody refers to or end the request.
* Documents (parsed within the request), key frames, several materials, the text of
  chunks, contexts and summaries; `loadCaseVectors` only as far as it decides whether
  vectors are used.
* The contents of batches: grounding, clustering, merging, judging. The registry lives
  in memory, so a crash only empties it. Workers are assumed to reject with a truthy
  error, as all of them do.
* Disk errors in the middle of the two writes of a detection.
* In TaskRun: the counts of the overview, and runs of other templates, which
  `createRun` refuses.
* Clearance and owner checks of the routes, which only refuse; wording, layout, formats.
* In AgentRun: progress events, which nothing awaits (`agent.ts:132`) and which may reach the
  trace in any order; the texts of messages and their compaction; middleware but for
  its exceptions; several sessions at once. In ToolCall: one path, one skill; what tools answer.
* In Inquiry: rewriting, ranking and fusion (any ranking is allowed); what claims say.
* In Registries: listing, reading and the model slots; the version files beyond their bodies.
* In Workbench: rendering, the graph, the forms of report and findings, uploads of several
  files at once, and what other tabs or browsers do beyond starting jobs.
* The components marked not modelled in section 1: the element graph and merging are pure
  functions over data whose content decides everything; pipelines and parsers are foreign
  processes; the command line prints.

## 7. Plan

In the order of importance.

1. An abstract specification of the journal (what a reader of a session is entitled to)
   and AgentRun's refinement of it.
2. Torn files in ReportGate; the fusion of rankings as a pure algorithm.
