------------------------- MODULE MaterialLifecycle --------------------------
(***************************************************************************)
(* One audio, image or video material, from its upload to its removal:     *)
(* MaterialService of src/packages/server/src/materials/material-service.ts*)
(* over the manifest of CaseService (cases/case-service.ts).               *)
(*                                                                         *)
(* Every change of the manifest is a read-modify-write in the case's queue *)
(* and a single step here; between two of them, and between the writes of  *)
(* the files under processed/ and index/, other requests run.  A file is   *)
(* the request whose output it holds.  The manifest's claim of a material  *)
(* ("processing") is the only lock on its files.                           *)
(*                                                                         *)
(* A run puts its files in place with a rename.  A reindex writes the      *)
(* chunks back into the file that is there: it is empty when the write     *)
(* begins, and whole when it has ended; a rename or a removal meanwhile    *)
(* takes the file away from the write, which then changes nothing more.    *)
(***************************************************************************)
EXTENDS Naturals, FiniteSets

CONSTANTS
  Requests,             \* the HTTP requests of a behaviour
  Op,                   \* what each may ask for
  NoFile,               \* the file does not exist
  Counts,               \* the numbers of chunks a pipeline may produce
  ProcessAtIngest,      \* the upload is processed at once (audio, image)
  ContextualRetrieval,  \* reindex writes the chunks back with their context
  AuditMayFail,         \* an audit append may fail
  DiskMayFail,          \* an update of the manifest, or a write back, may fail
  MaxCrashes            \* bound on the restarts of a behaviour

Ops == {"ingest", "process", "remove", "reindex"}

ASSUME OpAssumption ==
  /\ Op \in [Requests -> SUBSET Ops]
  /\ \A r \in Requests : "ingest" \in Op[r] => Op[r] = {"ingest"}
ASSUME CountAssumption == Counts \subseteq Nat \ {0}
ASSUME SwitchAssumption ==
  /\ ProcessAtIngest \in BOOLEAN
  /\ ContextualRetrieval \in BOOLEAN
  /\ AuditMayFail \in BOOLEAN
  /\ DiskMayFail \in BOOLEAN
ASSUME CrashAssumption == MaxCrashes \in Nat

VARIABLES
  status,    \* the status in the manifest; "absent" before, "removed" after
  version,   \* chunk_version
  raw,       \* the uploaded file is there
  media,     \* processed/<id>.media.json, with the frames beside it
  chunks,    \* processed/<id>.chunks.jsonl: what it holds when it is whole
  writing,   \* the reindexes that write into that file at present
  garbled,   \* such a write was cut short, or met another one of other chunks
  vectors,   \* index/<id>.vec
  pc,        \* where each request is
  held,      \* what a request holds: a version, or the content of a file
  crashes    \* restarts so far (bounded by MaxCrashes)

manifest == <<status, version>>
chunkFile == <<chunks, writing, garbled>>
files == <<raw, media, chunkFile, vectors>>

(* History, which no code reads. *)
VARIABLES
  doubled,   \* a request gave back a claim that another one held
  abandoned, \* a request left its claim behind
  older,     \* a reindex used chunks that were not the latest, or not all
  unembedded,\* the run of the chunks failed to embed them
  rewritten  \* a reindex has begun to write the last run's chunks back

history == <<doubled, abandoned, older, unembedded, rewritten>>
vars == <<manifest, files, pc, held, crashes, history>>

Content == [run : Requests, version : Nat, count : Nat]
Vector == [run : Requests, count : Nat]

ASSUME NoFileAssumption == NoFile \notin Content

Statuses == {"absent", "pending", "processing", "done", "failed", "removed"}
Exists == status \notin {"absent", "removed"}

(* The places of process() at which it holds the claim. *)
RunPlaces == {"start audit", "pipeline", "media", "chunks", "index", "done"}
FailPlaces == {"fail", "fail audit"}
IngestPlaces == {"attach", "ingest audit", "degrade"}
RemovePlaces == {"detach", "rm", "remove audit"}
ReindexPlaces ==
  {"read chunks", "rebuild", "write back", "writing", "note", "reindex audit"}
Places ==
  {"idle", "begin", "claim", "done audit", "ended"} \cup RunPlaces \cup FailPlaces
    \cup IngestPlaces \cup RemovePlaces \cup ReindexPlaces

(* A request has ended when it resolved or rejected, or was lost in a      *)
(* crash: what it answered matters to nothing here.                        *)
Active(r) == pc[r] \notin {"idle", "ended"}

(* The places at which a request still needs what it holds.                *)
HoldPlaces == {"claim", "rebuild", "write back"} \cup RunPlaces

Goto(r, place) ==
  /\ pc' = [pc EXCEPT ![r] = place]
  /\ held' = [held EXCEPT ![r] = IF place \in HoldPlaces THEN @ ELSE NoFile]

Take(r, value, place) ==
  /\ pc' = [pc EXCEPT ![r] = place]
  /\ held' = [held EXCEPT ![r] = value]

(* A step that only moves a request on, whatever it did outside. *)
Move(r, from, to) ==
  /\ pc[r] = from
  /\ Goto(r, to)
  /\ UNCHANGED <<manifest, files, crashes>>

(* An update of the manifest that sets the status. *)
SetStatus(r, from, to, new) ==
  /\ pc[r] = from
  /\ status' = new
  /\ Goto(r, to)
  /\ UNCHANGED <<version, files, crashes>>

Claimed(r) == pc[r] \in RunPlaces

(* A request that no longer holds the claim sets the status.               *)
GivesBack ==
  /\ doubled' = (doubled \/ \E q \in Requests : Claimed(q))
  /\ UNCHANGED <<abandoned, older, unembedded, rewritten>>

(* The chunks file holds all that was written into it. *)
Whole == writing = {} /\ ~garbled

Uploads(r) == Op[r] = {"ingest"}

(* Where a request that cannot finish its processing goes: processMedia-   *)
(* AtIngest catches everything but the 409.                                *)
AfterFailure(r) == IF Uploads(r) THEN "degrade" ELSE "ended"

-----------------------------------------------------------------------------
Init ==
  /\ status = "absent"
  /\ version = 0
  /\ raw = FALSE
  /\ media = NoFile
  /\ chunks = NoFile
  /\ writing = {}
  /\ garbled = FALSE
  /\ vectors = NoFile
  /\ pc = [r \in Requests |-> "idle"]
  /\ held = [r \in Requests |-> NoFile]
  /\ crashes = 0
  /\ doubled = FALSE
  /\ abandoned = FALSE
  /\ older = FALSE
  /\ unembedded = FALSE
  /\ rewritten = FALSE

-----------------------------------------------------------------------------
(* ingestOne / ingestStream for a media file, up to its processing.        *)

WriteRaw(r) ==
  /\ Uploads(r) /\ pc[r] = "idle"
  /\ status = "absent" /\ ~raw
  /\ raw' = TRUE
  /\ Goto(r, "attach")
  /\ UNCHANGED <<manifest, media, chunkFile, vectors, crashes, history>>

Attach(r) ==
  /\ SetStatus(r, "attach", "ingest audit", "pending")
  /\ UNCHANGED history

IngestAudited(r) ==
  /\ Move(r, "ingest audit", IF ProcessAtIngest THEN "begin" ELSE "ended")
  /\ UNCHANGED history

IngestAuditFails(r) ==
  /\ AuditMayFail
  /\ Move(r, "ingest audit", "ended")
  /\ UNCHANGED history

-----------------------------------------------------------------------------
(* process() *)

Calls(r) == ("process" \in Op[r] /\ pc[r] = "idle") \/ pc[r] = "begin"

(* cases.get: the manifest, with its chunk_version, is read ...            *)
ReadManifest(r) ==
  /\ Calls(r)
  /\ Exists
  /\ Take(r, version, "claim")
  /\ UNCHANGED <<manifest, files, crashes, history>>

NotFound(r) ==
  /\ Calls(r)
  /\ ~Exists
  /\ Goto(r, AfterFailure(r))
  /\ UNCHANGED <<manifest, files, crashes, history>>

(* A plausible bug, used by a mutant: the claim does not look. *)
MayClaimAlways == Exists

(* The update that claims the material finds it unclaimed. *)
MayClaim == Exists /\ status # "processing"

(* ... and the material is claimed in a later update of the manifest.      *)
Claim(r) ==
  /\ MayClaim
  /\ SetStatus(r, "claim", "start audit", "processing")
  /\ UNCHANGED history

(* 409: someone else is processing it.  An upload passes the 409 on. *)
ClaimRefused(r) ==
  /\ Exists /\ ~MayClaim
  /\ Move(r, "claim", "ended")
  /\ UNCHANGED history

ClaimOfRemoved(r) ==
  /\ ~Exists
  /\ Move(r, "claim", AfterFailure(r))
  /\ UNCHANGED history

StartAudited(r) == Move(r, "start audit", "pipeline") /\ UNCHANGED history

(* The append is outside the try: nothing gives the claim back. *)
StartAuditFails(r) ==
  /\ AuditMayFail
  /\ Move(r, "start audit", AfterFailure(r))
  /\ abandoned' = (abandoned \/ ~Uploads(r))
  /\ UNCHANGED <<doubled, older, unembedded, rewritten>>

(* The pipeline has produced chunks of the version after the one read. *)
PipelineDone(r) ==
  /\ pc[r] = "pipeline"
  /\ raw
  /\ \E n \in Counts :
       Take(r, [run |-> r, version |-> held[r] + 1, count |-> n], "media")
  /\ UNCHANGED <<manifest, files, crashes, history>>

(* No raw file, no authorization, no output, or a write that fails (the    *)
(* frames of a video are written just before the index), the one that is   *)
(* to say done among them.                                                 *)
RunFails(r) ==
  /\ \E place \in {"pipeline", "media", "chunks", "index", "done"} : Move(r, place, "fail")
  /\ UNCHANGED history

VectorsOf(content) == [run |-> content.run, count |-> content.count]

WriteMedia(r) ==
  /\ pc[r] = "media"
  /\ media' = held[r]
  /\ Goto(r, "chunks")
  /\ UNCHANGED <<manifest, raw, chunkFile, vectors, crashes, history>>

(* A plausible bug, used by a mutant: no rename, as in writeDocChunks. *)
WriteChunksInPlace(r) ==
  /\ pc[r] = "chunks"
  /\ chunks' = held[r]
  /\ rewritten' = FALSE
  /\ Goto(r, "index")
  /\ UNCHANGED <<manifest, raw, media, writing, garbled, vectors, crashes,
                 doubled, abandoned, older, unembedded>>

WriteChunks(r) ==
  /\ pc[r] = "chunks"
  /\ chunks' = held[r]
  /\ writing' = {}
  /\ garbled' = FALSE
  /\ rewritten' = FALSE
  /\ Goto(r, "index")
  /\ UNCHANGED <<manifest, raw, media, vectors, crashes,
                 doubled, abandoned, older, unembedded>>

(* writeIndex: an embedding that fails leaves the old vectors in place. *)
WriteIndex(r) ==
  /\ pc[r] = "index"
  /\ \/ vectors' = VectorsOf(held[r]) /\ unembedded' = FALSE
     \/ UNCHANGED vectors /\ unembedded' = TRUE
  /\ Goto(r, "done")
  /\ UNCHANGED <<manifest, raw, media, chunkFile, crashes,
                 doubled, abandoned, older, rewritten>>

(* Plausible bugs, used by mutants: the version is left as it was; the     *)
(* material is put back when it is gone.                                   *)
DoneKeepsVersion(r) ==
  Exists /\ SetStatus(r, "done", "done audit", "done") /\ UNCHANGED history

DoneAnyway(r) ==
  /\ pc[r] = "done"
  /\ status' = "done"
  /\ version' = held[r].version
  /\ Goto(r, "done audit")
  /\ UNCHANGED <<files, crashes, history>>

Done(r) ==
  /\ pc[r] = "done"
  /\ Exists
  /\ status' = "done"
  /\ version' = held[r].version
  /\ Goto(r, "done audit")
  /\ UNCHANGED <<files, crashes, history>>

(* The material was removed meanwhile: the update throws into the catch. *)
DoneOfRemoved(r) == ~Exists /\ Move(r, "done", "fail") /\ UNCHANGED history

DoneAudited(r) == Move(r, "done audit", "ended") /\ UNCHANGED history

(* The append is inside the try: a finished run becomes a failed one. *)
DoneAuditFails(r) ==
  /\ AuditMayFail
  /\ Move(r, "done audit", "fail")
  /\ UNCHANGED history

(* failProcess *)
Fail(r) == Exists /\ SetStatus(r, "fail", "fail audit", "failed") /\ GivesBack

FailOfRemoved(r) ==
  /\ ~Exists
  /\ Move(r, "fail", AfterFailure(r))
  /\ UNCHANGED history

(* The status could not be set, and nobody else holds the claim. *)
LeavesClaim ==
  /\ abandoned' = (abandoned \/ (status = "processing" /\ \A q \in Requests : ~Claimed(q)))
  /\ UNCHANGED <<doubled, older, unembedded, rewritten>>

(* The update of failProcess throws; an upload goes on to be downgraded.   *)
FailFails(r) ==
  /\ DiskMayFail
  /\ Move(r, "fail", AfterFailure(r))
  /\ IF Uploads(r) THEN UNCHANGED history ELSE LeavesClaim

(* An upload whose processing failed goes on, whether it was audited or not. *)
FailAudited(r) ==
  /\ Move(r, "fail audit", IF Uploads(r) THEN "degrade" ELSE "ended")
  /\ UNCHANGED history

-----------------------------------------------------------------------------
(* The end of an upload whose processing failed: pending, whatever the     *)
(* status is by now.                                                       *)

Degrade(r) ==
  /\ Exists
  /\ SetStatus(r, "degrade", "ended", "pending")
  /\ GivesBack

DegradeOfRemoved(r) == ~Exists /\ Move(r, "degrade", "ended") /\ UNCHANGED history

DegradeFails(r) ==
  /\ DiskMayFail
  /\ Move(r, "degrade", "ended")
  /\ LeavesClaim

-----------------------------------------------------------------------------
(* remove *)

FindForRemoval(r) ==
  /\ "remove" \in Op[r]
  /\ Move(r, "idle", IF Exists THEN "detach" ELSE "ended")
  /\ UNCHANGED history

Detach(r) == Exists /\ SetStatus(r, "detach", "rm", "removed") /\ UNCHANGED history

DetachOfRemoved(r) == ~Exists /\ Move(r, "detach", "ended") /\ UNCHANGED history

RemoveFiles(r) ==
  /\ pc[r] = "rm"
  /\ raw' = FALSE
  /\ media' = NoFile
  /\ chunks' = NoFile
  /\ writing' = {}
  /\ garbled' = FALSE
  /\ vectors' = NoFile
  /\ Goto(r, "remove audit")
  /\ UNCHANGED <<manifest, crashes, history>>

-----------------------------------------------------------------------------
(* reindex *)

FindForReindex(r) ==
  /\ "reindex" \in Op[r]
  /\ Move(r, "idle", IF status = "done" THEN "read chunks" ELSE "ended")
  /\ UNCHANGED history

(* No chunks: there is no file, or it is empty, or its last line is half   *)
(* written and JSON.parse throws.                                          *)
NoChunks(r) ==
  /\ chunks = NoFile \/ ~Whole
  /\ Move(r, "read chunks", "ended")
  /\ UNCHANGED history

(* A file that is not whole may give its first lines only. *)
ReadChunks(r) ==
  /\ pc[r] = "read chunks"
  /\ chunks # NoFile
  /\ \/ Take(r, chunks, "rebuild")
     \/ /\ ~Whole
        /\ \E n \in 1 .. (chunks.count - 1) : Take(r, [chunks EXCEPT !.count = n], "rebuild")
  /\ UNCHANGED <<manifest, files, crashes, history>>

Rebuild(r) ==
  /\ pc[r] = "rebuild"
  /\ vectors' = VectorsOf(held[r])
  /\ unembedded' = FALSE
  /\ older' = (older \/ chunks # held[r])
  /\ Goto(r, IF ContextualRetrieval THEN "write back" ELSE "note")
  /\ UNCHANGED <<manifest, raw, media, chunkFile, crashes, doubled, abandoned, rewritten>>

RebuildFails(r) == Move(r, "rebuild", "note") /\ UNCHANGED history

(* writeFile empties the file, or creates it, and begins to write.         *)
BeginWriteBack(r) ==
  /\ pc[r] = "write back"
  /\ chunks' = held[r]
  /\ writing' = writing \cup {r}
  /\ garbled' = (writing # {} /\ (garbled \/ chunks # held[r]))
  /\ older' = (older \/ chunks # held[r])
  /\ rewritten' = TRUE
  /\ pc' = [pc EXCEPT ![r] = "writing"]
  /\ held' = [held EXCEPT ![r] = NoFile]
  /\ UNCHANGED <<manifest, raw, media, vectors, crashes, doubled, abandoned, unembedded>>

WriteBack(r) ==
  /\ pc[r] = "writing"
  /\ writing' = writing \ {r}
  /\ Goto(r, "note")
  /\ UNCHANGED <<manifest, raw, media, chunks, garbled, vectors, crashes, history>>

(* The write fails, wherever it is. *)
WriteBackFails(r) ==
  /\ DiskMayFail
  /\ pc[r] \in {"write back", "writing"}
  /\ writing' = writing \ {r}
  /\ garbled' = (garbled \/ r \in writing)
  /\ Goto(r, "ended")
  /\ UNCHANGED <<manifest, raw, media, chunks, vectors, crashes, history>>

WriteNote(r) ==
  /\ Move(r, "note", IF Exists THEN "reindex audit" ELSE "ended")
  /\ UNCHANGED history

-----------------------------------------------------------------------------
(* The audit append that ends a request, whether it succeeds or not.       *)
LastAudit(r) ==
  /\ \E place \in {"remove audit", "reindex audit"} : Move(r, place, "ended")
  /\ UNCHANGED history

(* An update of the manifest fails that has not changed it yet: the claim  *)
(* is not taken, the material is not attached, detached or noted.          *)
UpdateFails(r) ==
  /\ DiskMayFail
  /\ \/ \E place \in {"attach", "detach", "note"} : Move(r, place, "ended")
     \/ Move(r, "claim", AfterFailure(r))
  /\ UNCHANGED history

(* A write back that the end of the process interrupts may be complete. *)
CutWrites ==
  /\ writing' = {}
  /\ garbled' \in IF writing = {} THEN {garbled} ELSE {garbled, TRUE}
  /\ UNCHANGED <<raw, media, chunks, vectors>>

(* A plausible bug, used by a mutant: nothing is swept. *)
RestartUnswept ==
  /\ crashes < MaxCrashes
  /\ crashes' = crashes + 1
  /\ pc' = [r \in Requests |-> IF Active(r) THEN "ended" ELSE pc[r]]
  /\ held' = [r \in Requests |-> NoFile]
  /\ abandoned' = FALSE
  /\ CutWrites
  /\ UNCHANGED <<manifest, doubled, older, unembedded, rewritten>>

(* The server dies and starts again: sweepInterrupted runs before it       *)
(* serves requests.                                                        *)
Restart ==
  /\ crashes < MaxCrashes
  /\ crashes' = crashes + 1
  /\ pc' = [r \in Requests |-> IF Active(r) THEN "ended" ELSE pc[r]]
  /\ held' = [r \in Requests |-> NoFile]
  /\ status' = IF status = "processing" THEN "failed" ELSE status
  /\ abandoned' = FALSE
  /\ CutWrites
  /\ UNCHANGED <<version, doubled, older, unembedded, rewritten>>

-----------------------------------------------------------------------------
IngestStep(r) ==
  \/ WriteRaw(r) \/ Attach(r) \/ IngestAudited(r) \/ IngestAuditFails(r)
  \/ Degrade(r) \/ DegradeOfRemoved(r) \/ DegradeFails(r)

ProcessStep(r) ==
  \/ ReadManifest(r) \/ NotFound(r)
  \/ Claim(r) \/ ClaimRefused(r) \/ ClaimOfRemoved(r)
  \/ StartAudited(r) \/ StartAuditFails(r)
  \/ PipelineDone(r) \/ RunFails(r)
  \/ WriteMedia(r) \/ WriteChunks(r) \/ WriteIndex(r)
  \/ Done(r) \/ DoneOfRemoved(r) \/ DoneAudited(r) \/ DoneAuditFails(r)
  \/ Fail(r) \/ FailOfRemoved(r) \/ FailFails(r) \/ FailAudited(r)

RemoveStep(r) == FindForRemoval(r) \/ Detach(r) \/ DetachOfRemoved(r) \/ RemoveFiles(r)

ReindexStep(r) ==
  \/ FindForReindex(r) \/ NoChunks(r) \/ ReadChunks(r)
  \/ Rebuild(r) \/ RebuildFails(r)
  \/ BeginWriteBack(r) \/ WriteBack(r) \/ WriteBackFails(r) \/ WriteNote(r)

Step(r) ==
  \/ IngestStep(r) \/ ProcessStep(r) \/ RemoveStep(r) \/ ReindexStep(r)
  \/ LastAudit(r) \/ UpdateFails(r)

Next == (\E r \in Requests : Step(r)) \/ Restart

(* The event loop runs every continuation that is ready; nothing makes a   *)
(* client send a request.                                                  *)
Fairness == \A r \in Requests : WF_vars(Active(r) /\ Step(r))

Spec == Init /\ [][Next]_vars
FairSpec == Spec /\ Fairness

-----------------------------------------------------------------------------
(* The correctness properties. *)

(* Every variable has its type, and a request keeps what its place needs:  *)
(* a version once it has read the manifest, the chunks it is reindexing.   *)
TypeOK ==
  /\ status \in Statuses
  /\ version \in Nat
  /\ raw \in BOOLEAN
  /\ media \in Content \cup {NoFile}
  /\ chunks \in Content \cup {NoFile}
  /\ writing \subseteq {r \in Requests : pc[r] = "writing"}
  /\ garbled \in BOOLEAN
  /\ vectors \in Vector \cup {NoFile}
  /\ pc \in [Requests -> Places]
  /\ \A r \in Requests :
       /\ pc[r] \in {"claim", "start audit", "pipeline"} => held[r] \in Nat
       /\ pc[r] \in {"media", "chunks", "index", "done", "rebuild", "write back"}
            => held[r] \in Content
  /\ crashes \in 0 .. MaxCrashes
  /\ doubled \in BOOLEAN
  /\ abandoned \in BOOLEAN
  /\ older \in BOOLEAN
  /\ unembedded \in BOOLEAN
  /\ rewritten \in BOOLEAN

(* The commit order of process() and of remove(): whatever interleaves,    *)
(* fails or crashes, a material the manifest calls done has its            *)
(* intermediate result and all its chunks on disk, so that nobody reads    *)
(* "done but no chunk".  The one exception is a reindex that writes the    *)
(* chunks back, which it does in place: while it writes, and when the      *)
(* write is cut short, the file holds a part of them, until another write  *)
(* back or the next run; but the chunks of a run are never touched by the  *)
(* write back of chunks from before it that is under way.                  *)
DoneHasChunks ==
  status = "done" =>
    /\ media # NoFile
    /\ chunks # NoFile
    /\ Whole \/ rewritten

(* The claim is exclusive: two requests never write the files of one       *)
(* material at once, and the one that does still holds the claim, unless   *)
(* an upload's downgrade, or a run that failed in its last audit append,   *)
(* gave back a claim that was no longer its own.                           *)
OneRun ==
  ~doubled =>
    /\ Cardinality({r \in Requests : Claimed(r)}) <= 1
    /\ \A r \in Requests : Claimed(r) => status \in {"processing", "removed"}

(* What is served is of one piece: the chunks, the intermediate result and *)
(* the vectors of a done material come from the same run, of the version   *)
(* the manifest shows, unless claims overlapped, a reindex worked on old   *)
(* chunks or on a part of them, the chunks are not whole (see above), or   *)
(* they could not be embedded: then the vectors of the run before are      *)
(* used, if it had as many chunks (the comment of loadCaseVectors takes    *)
(* their number to tell).                                                  *)
VectorsUsed == vectors # NoFile /\ chunks # NoFile /\ vectors.count = chunks.count

ServedIsOneRun ==
  status = "done" /\ ~doubled /\ ~older /\ Whole =>
    /\ chunks = media
    /\ chunks.version = version
    /\ VectorsUsed /\ ~unembedded => vectors.run = chunks.run

(* A removed material stays removed: no run, upload or reindex that was    *)
(* under way when it was removed brings it back into the manifest.         *)
StaysRemoved == [][status = "removed" => status' = "removed"]_vars

(* Processing comes to an end, in the run or by the sweep at the next      *)
(* start, unless the claim was left behind: by the audit of its start,     *)
(* which failed outside the try, or by a run or an upload that failed and  *)
(* whose update of the status, failed or pending, failed as well.          *)
ProcessingEnds == status = "processing" ~> status # "processing" \/ abandoned

=============================================================================
