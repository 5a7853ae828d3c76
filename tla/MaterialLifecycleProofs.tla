----------------------- MODULE MaterialLifecycleProofs ----------------------
(***************************************************************************)
(* Theorems about the life of one media material, for any requests, counts *)
(* of chunks and crashes.                                                  *)
(***************************************************************************)
EXTENDS MaterialLifecycle, FiniteSetTheorems, TLAPS

(* What TypeOK says of the places and of what the requests hold.           *)
NatPlaces == {"claim", "start audit", "pipeline"}
ContentPlaces == {"media", "chunks", "index", "done", "rebuild", "write back"}

HeldFits ==
  /\ pc \in [Requests -> Places]
  /\ held = [r \in Requests |-> held[r]]
  /\ \A r \in Requests :
       /\ pc[r] \in NatPlaces => held[r] \in Nat
       /\ pc[r] \in ContentPlaces => held[r] \in Content

DataFits ==
  /\ status \in Statuses
  /\ version \in Nat
  /\ raw \in BOOLEAN
  /\ media \in Content \cup {NoFile}
  /\ chunks \in Content \cup {NoFile}
  /\ garbled \in BOOLEAN
  /\ vectors \in Vector \cup {NoFile}
  /\ crashes \in 0 .. MaxCrashes
  /\ doubled \in BOOLEAN
  /\ abandoned \in BOOLEAN
  /\ older \in BOOLEAN
  /\ unembedded \in BOOLEAN
  /\ rewritten \in BOOLEAN

(* Only a reindex that is writing the chunks back writes into the file, and *)
(* only such a reindex leaves it with less than all its chunks.             *)
FileFits ==
  /\ writing \subseteq {r \in Requests : pc[r] = "writing"}
  /\ Whole \/ rewritten

(* There is one upload, which attaches the material before anything else   *)
(* happens to it, and the files are removed behind the manifest.           *)
UploadFits ==
  /\ \A r \in Requests : pc[r] = "attach" => status = "absent" /\ raw
  /\ \A r, q \in Requests : pc[r] = "attach" /\ pc[q] = "attach" => r = q
  /\ \A r \in Requests : pc[r] = "rm" => status = "removed"

(* What a run has written is there until the material is removed.          *)
RunLeaves ==
  status # "removed" =>
    \A r \in Requests :
      /\ pc[r] \in {"chunks", "index", "done"} => media # NoFile
      /\ pc[r] \in {"index", "done"} => chunks # NoFile

(* The claim, as long as no request gave back that of another.             *)
ClaimFits ==
  ~doubled =>
    /\ \A r, q \in Requests : Claimed(r) /\ Claimed(q) => r = q
    /\ \A r \in Requests : Claimed(r) => status \in {"processing", "removed"}

(* What the run that holds the claim has written is its own, and what a    *)
(* done material shows is of one run, unless a reindex worked on old       *)
(* chunks.                                                                 *)
OfRun(content) ==
  /\ chunks = content
  /\ media = content
  /\ unembedded \/ vectors = VectorsOf(content)

RunFits ==
  ~doubled /\ ~older /\ status # "removed" =>
    /\ \A r \in Requests :
         /\ pc[r] \in {"chunks", "index"} => media = held[r]
         /\ pc[r] = "index" => chunks = held[r]
         /\ pc[r] = "done" => OfRun(held[r])
    /\ status = "done" => OfRun(chunks) /\ chunks.version = version

IInv ==
  /\ DataFits
  /\ HeldFits
  /\ FileFits
  /\ UploadFits
  /\ DoneHasChunks
  /\ RunLeaves
  /\ ClaimFits
  /\ RunFits


-----------------------------------------------------------------------------
(* How a request moves.                                                    *)

Fits(place, value) ==
  /\ place \in NatPlaces => value \in Nat
  /\ place \in ContentPlaces => value \in Content

LEMMA TypeSplits == TypeOK <=> DataFits /\ pc \in [Requests -> Places]
                      /\ writing \subseteq {r \in Requests : pc[r] = "writing"}
                      /\ \A r \in Requests : Fits(pc[r], held[r])
  BY DEF TypeOK, DataFits, Fits, NatPlaces, ContentPlaces

(* A request that goes on keeps what it holds, or drops it. *)
LEMMA GotoTakes ==
  ASSUME HeldFits, NEW r \in Requests, NEW place, Goto(r, place)
  PROVE  Take(r, IF place \in HoldPlaces THEN held[r] ELSE NoFile, place)
  BY DEF Goto, Take, HeldFits

LEMMA TakeMoves ==
  ASSUME HeldFits, NEW r \in Requests, NEW place \in Places, NEW value,
         Take(r, value, place)
  PROVE  /\ pc' \in [Requests -> Places]
         /\ \A q \in Requests : pc'[q] = IF q = r THEN place ELSE pc[q]
         /\ \A q \in Requests : held'[q] = IF q = r THEN value ELSE held[q]
         /\ Fits(place, value) => HeldFits'
<1>1. /\ pc' \in [Requests -> Places]
      /\ \A q \in Requests : pc'[q] = IF q = r THEN place ELSE pc[q]
  BY DEF Take, HeldFits
<1>2. /\ held' = [q \in Requests |-> held'[q]]
      /\ \A q \in Requests : held'[q] = IF q = r THEN value ELSE held[q]
  BY DEF Take, HeldFits
<1>3. ASSUME Fits(place, value) PROVE HeldFits'
  <2>1. \A q \in Requests : Fits(pc'[q], held'[q])
    BY <1>1, <1>2, <1>3 DEF HeldFits, Fits
  <2> QED BY <1>1, <1>2, <2>1 DEF HeldFits, Fits
<1> QED BY <1>1, <1>2, <1>3

LEMMA GotoMoves ==
  ASSUME HeldFits, NEW r \in Requests, NEW place \in Places, Goto(r, place)
  PROVE  /\ pc' \in [Requests -> Places]
         /\ \A q \in Requests : pc'[q] = IF q = r THEN place ELSE pc[q]
         /\ \A q \in Requests : q # r => held'[q] = held[q]
         /\ place \in HoldPlaces => held'[r] = held[r]
         /\ Fits(place, held[r]) => HeldFits'
<1> DEFINE value == IF place \in HoldPlaces THEN held[r] ELSE NoFile
<1>1. Take(r, value, place)
  BY GotoTakes
<1>2. Fits(place, held[r]) => Fits(place, value)
  BY DEF Fits, HoldPlaces, RunPlaces, NatPlaces, ContentPlaces
<1> HIDE DEF value
<1>3. /\ pc' \in [Requests -> Places]
      /\ \A q \in Requests : pc'[q] = IF q = r THEN place ELSE pc[q]
      /\ \A q \in Requests : held'[q] = IF q = r THEN value ELSE held[q]
      /\ Fits(place, value) => HeldFits'
  BY <1>1, TakeMoves
<1> QED BY <1>2, <1>3 DEF value

-----------------------------------------------------------------------------
(* Steps that change neither the manifest nor the files.                   *)

Still ==
  /\ UNCHANGED <<status, version, raw, media, chunks, writing, garbled, vectors, crashes>>
  /\ UNCHANGED <<doubled, older, unembedded, rewritten>>
  /\ abandoned' \in BOOLEAN

(* Who writes the chunks back goes on doing so. *)
LEMMA WritersStay ==
  ASSUME FileFits, NEW r \in Requests, NEW to, pc[r] # "writing",
         writing' \subseteq writing,
         \A q \in Requests : pc'[q] = IF q = r THEN to ELSE pc[q]
  PROVE  writing' \subseteq {q \in Requests : pc'[q] = "writing"}
  BY DEF FileFits

(* The places one may come to by such a step, from a given one.            *)
ComesTo(from, to) ==
  /\ to \in Places \ {"attach", "rm", "chunks", "index", "done"}
  /\ to \in RunPlaces => from \in RunPlaces
  /\ from # "writing"

LEMMA StillKeepsInv ==
  ASSUME IInv, NEW r \in Requests, NEW to, NEW value, Still,
         ComesTo(pc[r], to), Take(r, value, to), Fits(to, value)
  PROVE  IInv'
<1>1. /\ HeldFits'
      /\ \A q \in Requests : pc'[q] = IF q = r THEN to ELSE pc[q]
      /\ \A q \in Requests : q # r => held'[q] = held[q]
  BY TakeMoves DEF IInv, ComesTo
<1>2. DataFits' /\ DoneHasChunks'
  BY DEF IInv, DataFits, DoneHasChunks, Whole, Still
<1>9. FileFits'
  BY <1>1, WritersStay DEF IInv, FileFits, Whole, Still, ComesTo
<1>3. \A q \in Requests :
        pc'[q] \in {"attach", "rm", "chunks", "index", "done"}
          => q # r /\ pc'[q] = pc[q] /\ held'[q] = held[q]
  BY <1>1 DEF ComesTo
<1>4. \A q \in Requests : Claimed(q)' => Claimed(q)
  BY <1>1 DEF Claimed, ComesTo
<1>5. UploadFits'
  BY <1>3 DEF IInv, UploadFits, Still
<1>6. RunLeaves'
  BY <1>3 DEF IInv, RunLeaves, Still
<1>7. ClaimFits'
  BY <1>4 DEF IInv, ClaimFits, Still
<1>8. RunFits'
  BY <1>3 DEF IInv, RunFits, OfRun, VectorsOf, Still
<1> QED BY <1>1, <1>2, <1>5, <1>6, <1>7, <1>8, <1>9 DEF IInv

(* The quiet actions, all of them moves but three. *)
Quiet(r) ==
  \/ IngestAudited(r) \/ IngestAuditFails(r) \/ DegradeOfRemoved(r) \/ DegradeFails(r)
  \/ ReadManifest(r) \/ NotFound(r) \/ ClaimRefused(r) \/ ClaimOfRemoved(r)
  \/ StartAudited(r) \/ StartAuditFails(r) \/ PipelineDone(r) \/ RunFails(r)
  \/ DoneOfRemoved(r) \/ DoneAudited(r) \/ DoneAuditFails(r)
  \/ FailOfRemoved(r) \/ FailFails(r) \/ FailAudited(r)
  \/ FindForRemoval(r) \/ DetachOfRemoved(r)
  \/ FindForReindex(r) \/ NoChunks(r) \/ ReadChunks(r) \/ RebuildFails(r) \/ WriteNote(r)
  \/ LastAudit(r) \/ UpdateFails(r)

Resting == {"begin", "ended", "degrade", "fail", "detach",
            "read chunks", "note", "reindex audit"}

LEMMA RestingKeepsInv ==
  ASSUME IInv, NEW r \in Requests, NEW to \in Resting, Still, Goto(r, to),
         pc[r] # "writing"
  PROVE  IInv'
<1>1. Take(r, IF to \in HoldPlaces THEN held[r] ELSE NoFile, to)
  BY GotoTakes DEF IInv
<1>2. Fits(to, IF to \in HoldPlaces THEN held[r] ELSE NoFile) /\ ComesTo(pc[r], to)
  BY DEF Fits, Resting, NatPlaces, ContentPlaces, ComesTo, Places, RunPlaces,
         FailPlaces, IngestPlaces, RemovePlaces, ReindexPlaces
<1> QED BY <1>1, <1>2, StillKeepsInv

LEMMA QuietIsStill ==
  ASSUME IInv, NEW r \in Requests, Quiet(r)
  PROVE  Still
<1>1. abandoned \in BOOLEAN
  BY DEF IInv, DataFits
<1>2. /\ UNCHANGED <<status, version, raw, media, chunks, writing, garbled>>
      /\ UNCHANGED <<vectors, crashes, doubled, older, unembedded, rewritten>>
  BY Zenon
  DEF Quiet, IngestAudited, IngestAuditFails, DegradeOfRemoved, DegradeFails, ReadManifest,
     NotFound, ClaimRefused, ClaimOfRemoved, StartAudited, StartAuditFails,
     PipelineDone, RunFails, DoneOfRemoved, DoneAudited, DoneAuditFails,
     FailOfRemoved, FailFails, FailAudited, FindForRemoval, DetachOfRemoved,
     FindForReindex, NoChunks, ReadChunks, RebuildFails, WriteNote, LastAudit,
     UpdateFails, Calls, LeavesClaim, Move,
     manifest, files, chunkFile, history
<1>3. abandoned' \in BOOLEAN
  BY <1>1, Zenon
  DEF Quiet, IngestAudited, IngestAuditFails, DegradeOfRemoved, DegradeFails, ReadManifest,
     NotFound, ClaimRefused, ClaimOfRemoved, StartAudited, StartAuditFails,
     PipelineDone, RunFails, DoneOfRemoved, DoneAudited, DoneAuditFails,
     FailOfRemoved, FailFails, FailAudited, FindForRemoval, DetachOfRemoved,
     FindForReindex, NoChunks, ReadChunks, RebuildFails, WriteNote, LastAudit,
     UpdateFails, LeavesClaim, history
<1> QED BY <1>2, <1>3 DEF Still

LEMMA QuietElsewhere ==
  ASSUME NEW r \in Requests, Quiet(r)
  PROVE  pc[r] # "writing"
  BY DEF Quiet, IngestAudited, IngestAuditFails, DegradeOfRemoved, DegradeFails, ReadManifest,
     NotFound, ClaimRefused, ClaimOfRemoved, StartAudited, StartAuditFails,
     PipelineDone, RunFails, DoneOfRemoved, DoneAudited, DoneAuditFails,
     FailOfRemoved, FailFails, FailAudited, FindForRemoval, DetachOfRemoved,
     FindForReindex, NoChunks, ReadChunks, RebuildFails, WriteNote, LastAudit,
     UpdateFails, Calls, Move

LEMMA QuietKeepsInv ==
  ASSUME IInv, NEW r \in Requests, Quiet(r)
  PROVE  IInv'
<1>1. Still
  BY QuietIsStill
<1>2. AfterFailure(r) \in Resting
  BY DEF AfterFailure, Resting
<1>3. HeldFits /\ DataFits /\ pc[r] # "writing"
  BY QuietElsewhere DEF IInv
<1>4. CASE ReadManifest(r)
  <2>1. Take(r, version, "claim")
    BY <1>4 DEF ReadManifest
  <2>2. Fits("claim", version) /\ ComesTo(pc[r], "claim")
    BY <1>3 DEF DataFits, Fits, ComesTo, NatPlaces, ContentPlaces, Places, RunPlaces
  <2> QED BY <1>1, <2>1, <2>2, StillKeepsInv
<1>5. CASE StartAudited(r)
  <2>1. pc[r] = "start audit" /\ Goto(r, "pipeline")
    BY <1>5 DEF StartAudited, Move
  <2>2. Take(r, held[r], "pipeline")
    BY <1>3, <2>1, GotoTakes DEF HoldPlaces, RunPlaces
  <2>3. Fits("pipeline", held[r]) /\ ComesTo(pc[r], "pipeline")
    BY <1>3, <2>1
    DEF HeldFits, Fits, ComesTo, NatPlaces, ContentPlaces, Places, RunPlaces
  <2> QED BY <1>1, <2>2, <2>3, StillKeepsInv
<1>6. CASE PipelineDone(r)
  <2>1. PICK n \in Counts :
          Take(r, [run |-> r, version |-> held[r] + 1, count |-> n], "media")
    BY <1>6 DEF PipelineDone
  <2>2. pc[r] = "pipeline" /\ held[r] \in Nat
    BY <1>3, <1>6 DEF PipelineDone, HeldFits, NatPlaces
  <2>3. held[r] + 1 \in Nat /\ n \in Nat
    BY <2>2, CountAssumption
  <2>4. [run |-> r, version |-> held[r] + 1, count |-> n] \in Content
    BY <2>3 DEF Content
  <2>5. Fits("media", [run |-> r, version |-> held[r] + 1, count |-> n])
        /\ ComesTo(pc[r], "media")
    BY <2>2, <2>4 DEF Fits, ComesTo, NatPlaces, ContentPlaces, Places, RunPlaces
  <2> QED BY <1>1, <2>1, <2>5, StillKeepsInv
<1>7. CASE ReadChunks(r)
  <2>1. PICK value \in Content : Take(r, value, "rebuild")
    <3>1. chunks \in Content
      BY <1>3, <1>7 DEF ReadChunks, DataFits
    <3>2. \A n \in 1 .. (chunks.count - 1) : [chunks EXCEPT !.count = n] \in Content
      BY <3>1 DEF Content
    <3> QED BY <1>7, <3>1, <3>2 DEF ReadChunks
  <2>2. Fits("rebuild", value) /\ ComesTo(pc[r], "rebuild")
    BY <1>3 DEF Fits, ComesTo, NatPlaces, ContentPlaces, Places, ReindexPlaces, RunPlaces
  <2> QED BY <1>1, <2>1, <2>2, StillKeepsInv
<1>8. CASE \/ IngestAudited(r) \/ IngestAuditFails(r) \/ DegradeOfRemoved(r)
           \/ DegradeFails(r) \/ NotFound(r) \/ ClaimRefused(r)
           \/ ClaimOfRemoved(r) \/ StartAuditFails(r) \/ RunFails(r)
           \/ DoneOfRemoved(r) \/ DoneAudited(r) \/ DoneAuditFails(r)
           \/ FailOfRemoved(r) \/ FailFails(r) \/ FailAudited(r)
           \/ FindForRemoval(r) \/ DetachOfRemoved(r) \/ FindForReindex(r)
           \/ NoChunks(r) \/ RebuildFails(r) \/ WriteNote(r) \/ LastAudit(r)
           \/ UpdateFails(r)
  <2>1. \E to \in Resting : Goto(r, to)
    BY <1>2, <1>8
    DEF IngestAudited, IngestAuditFails, DegradeOfRemoved, DegradeFails,
        NotFound, ClaimRefused, ClaimOfRemoved, StartAuditFails, RunFails,
        DoneOfRemoved, DoneAudited, DoneAuditFails, FailOfRemoved, FailFails,
        FailAudited, FindForRemoval, DetachOfRemoved, FindForReindex, NoChunks,
        RebuildFails, WriteNote, LastAudit, UpdateFails, Move, Resting
  <2> QED BY <1>1, <1>3, <2>1, RestingKeepsInv
<1> QED BY <1>4, <1>5, <1>6, <1>7, <1>8 DEF Quiet

-----------------------------------------------------------------------------
(* The steps of the upload and of the removal.                             *)

LEMMA WriteRawKeepsInv ==
  ASSUME IInv, NEW r \in Requests, WriteRaw(r)
  PROVE  IInv'
<1>1. /\ HeldFits'
      /\ \A q \in Requests : pc'[q] = IF q = r THEN "attach" ELSE pc[q]
      /\ \A q \in Requests : q # r => held'[q] = held[q]
  BY GotoMoves DEF IInv, WriteRaw, Fits, NatPlaces, ContentPlaces, Places, IngestPlaces
<1>2. /\ status = "absent" /\ ~raw /\ raw'
      /\ UNCHANGED <<status, version, media, chunks, writing, garbled, vectors, crashes>>
      /\ UNCHANGED <<doubled, abandoned, older, unembedded, rewritten>>
  BY DEF WriteRaw, manifest, chunkFile, history
<1>10. FileFits'
  BY <1>1, <1>2, WritersStay DEF IInv, FileFits, Whole, WriteRaw
<1>3. DataFits'
  BY <1>2 DEF IInv, DataFits, WriteRaw
<1>4. \A q \in Requests : pc[q] \notin {"attach", "rm"}
  BY <1>2 DEF IInv, UploadFits
<1>5. UploadFits'
  BY <1>1, <1>2, <1>4 DEF UploadFits
<1>6. \A q \in Requests : Claimed(q)' => Claimed(q)
  BY <1>1 DEF Claimed, RunPlaces
<1>7. DoneHasChunks' /\ RunLeaves'
  BY <1>1, <1>2 DEF IInv, DoneHasChunks, Whole, RunLeaves
<1>8. ClaimFits'
  BY <1>2, <1>6 DEF IInv, ClaimFits
<1>9. RunFits'
  BY <1>1, <1>2 DEF IInv, RunFits, OfRun, VectorsOf
<1> QED BY <1>1, <1>3, <1>5, <1>7, <1>8, <1>9, <1>10 DEF IInv

(* An update of the manifest that only sets the status, and leaves the     *)
(* claims of the others alone or says that it has not.                     *)
LEMMA StatusKeepsInv ==
  ASSUME IInv, NEW r \in Requests, NEW from, NEW to, NEW new,
         SetStatus(r, from, to, new), from # "writing",
         UNCHANGED <<abandoned, older, unembedded, rewritten>>,
         doubled' \in BOOLEAN, ~doubled' => ~doubled,
         status # "removed",
         to \in Places \ {"attach", "chunks", "index", "done", "pipeline"},
         to \notin NatPlaces \cup ContentPlaces \/ Fits(to, held[r]),
         to = "rm" => new = "removed",
         new \in {"pending", "processing", "failed", "removed"},
         \A q \in Requests : q # r => pc[q] # "attach",
         ClaimFits'
  PROVE  IInv'
<1>1. /\ HeldFits'
      /\ \A q \in Requests : pc'[q] = IF q = r THEN to ELSE pc[q]
      /\ \A q \in Requests : q # r => held'[q] = held[q]
  BY GotoMoves DEF IInv, SetStatus, Fits
<1>2. /\ status' = new
      /\ UNCHANGED <<version, raw, media, chunks, writing, garbled, vectors, crashes>>
  BY DEF SetStatus, files, chunkFile
<1>8. FileFits'
  BY <1>1, <1>2, WritersStay DEF IInv, FileFits, Whole, SetStatus
<1>3. DataFits'
  BY <1>2 DEF IInv, DataFits, Statuses
<1>4. \A q \in Requests : pc[q] # "rm"
  BY DEF IInv, UploadFits
<1>5. UploadFits'
  BY <1>1, <1>2, <1>4 DEF UploadFits
<1>6. DoneHasChunks' /\ RunLeaves'
  BY <1>1, <1>2 DEF IInv, DoneHasChunks, Whole, RunLeaves
<1>7. RunFits'
  BY <1>1, <1>2 DEF IInv, RunFits, OfRun, VectorsOf
<1> QED BY <1>1, <1>3, <1>5, <1>6, <1>7, <1>8 DEF IInv

LEMMA SetStatusMoves ==
  ASSUME IInv, NEW r \in Requests, NEW from, NEW to \in Places, NEW new,
         SetStatus(r, from, to, new)
  PROVE  /\ pc[r] = from
         /\ status' = new
         /\ \A q \in Requests : pc'[q] = IF q = r THEN to ELSE pc[q]
  BY GotoMoves DEF IInv, SetStatus

LEMMA AttachKeepsInv ==
  ASSUME IInv, NEW r \in Requests, Attach(r)
  PROVE  IInv'
<1>1. /\ SetStatus(r, "attach", "ingest audit", "pending")
      /\ UNCHANGED <<doubled, abandoned, older, unembedded, rewritten>>
  BY DEF Attach, history
<1>2. /\ pc[r] = "attach"
      /\ \A q \in Requests : pc'[q] = IF q = r THEN "ingest audit" ELSE pc[q]
  BY <1>1, SetStatusMoves DEF Places, IngestPlaces
<1>3. status = "absent" /\ \A q \in Requests : q # r => pc[q] # "attach"
  BY <1>2 DEF IInv, UploadFits
<1>4. ClaimFits'
  <2>1. ~doubled => \A q \in Requests : ~Claimed(q)
    BY <1>3 DEF IInv, ClaimFits
  <2>2. \A q \in Requests : Claimed(q)' => Claimed(q)
    BY <1>2 DEF Claimed, RunPlaces
  <2> QED BY <1>1, <2>1, <2>2 DEF ClaimFits
<1>5. "ingest audit" \notin NatPlaces \cup ContentPlaces /\ "ingest audit" \in Places
  BY DEF NatPlaces, ContentPlaces, Places, IngestPlaces
<1>6. doubled \in BOOLEAN
  BY DEF IInv, DataFits
<1> QED BY <1>1, <1>3, <1>4, <1>5, <1>6, StatusKeepsInv

LEMMA ClaimKeepsInv ==
  ASSUME IInv, NEW r \in Requests, Claim(r)
  PROVE  IInv'
<1>1. /\ SetStatus(r, "claim", "start audit", "processing")
      /\ UNCHANGED <<doubled, abandoned, older, unembedded, rewritten>>
  BY DEF Claim, history
<1>2. /\ pc[r] = "claim"
      /\ status' = "processing"
      /\ \A q \in Requests : pc'[q] = IF q = r THEN "start audit" ELSE pc[q]
  BY <1>1, SetStatusMoves DEF Places, RunPlaces
<1>3. status \notin {"absent", "removed", "processing"}
  BY DEF Claim, MayClaim, Exists
<1>4. \A q \in Requests : pc[q] # "attach"
  BY <1>3 DEF IInv, UploadFits
<1>5. ClaimFits'
  <2>1. ~doubled => \A q \in Requests : ~Claimed(q)
    BY <1>3 DEF IInv, ClaimFits
  <2>2. \A q \in Requests : Claimed(q)' => Claimed(q) \/ q = r
    BY <1>2 DEF Claimed
  <2> QED BY <1>1, <1>2, <2>1, <2>2 DEF ClaimFits
<1>6. Fits("start audit", held[r]) /\ "start audit" \in Places
  BY <1>2 DEF Fits, IInv, HeldFits, NatPlaces, ContentPlaces, Places, RunPlaces
<1>7. doubled \in BOOLEAN
  BY DEF IInv, DataFits
<1> QED BY <1>1, <1>3, <1>4, <1>5, <1>6, <1>7, StatusKeepsInv

LEMMA DetachKeepsInv ==
  ASSUME IInv, NEW r \in Requests, Detach(r)
  PROVE  IInv'
<1>1. /\ SetStatus(r, "detach", "rm", "removed")
      /\ UNCHANGED <<doubled, abandoned, older, unembedded, rewritten>>
  BY DEF Detach, history
<1>2. /\ status' = "removed"
      /\ \A q \in Requests : pc'[q] = IF q = r THEN "rm" ELSE pc[q]
  BY <1>1, SetStatusMoves DEF Places, RemovePlaces
<1>3. status \notin {"absent", "removed"}
  BY DEF Detach, Exists
<1>4. \A q \in Requests : pc[q] # "attach"
  BY <1>3 DEF IInv, UploadFits
<1>5. ClaimFits'
  <2>1. \A q \in Requests : Claimed(q)' => Claimed(q)
    BY <1>2 DEF Claimed, RunPlaces
  <2> QED BY <1>1, <1>2, <2>1 DEF IInv, ClaimFits
<1>6. "rm" \notin NatPlaces \cup ContentPlaces /\ "rm" \in Places
  BY DEF NatPlaces, ContentPlaces, Places, RemovePlaces
<1>7. doubled \in BOOLEAN
  BY DEF IInv, DataFits
<1> QED BY <1>1, <1>3, <1>4, <1>5, <1>6, <1>7, StatusKeepsInv

(* A request without the claim that gives one back says so. *)
LEMMA GivingBackKeepsInv ==
  ASSUME IInv, NEW r \in Requests, NEW from \in {"fail", "degrade"},
         NEW to \in {"fail audit", "ended"}, NEW new \in {"failed", "pending"},
         Exists, SetStatus(r, from, to, new), GivesBack
  PROVE  IInv'
<1>1. /\ doubled' = (doubled \/ \E q \in Requests : Claimed(q))
      /\ UNCHANGED <<abandoned, older, unembedded, rewritten>>
  BY DEF GivesBack
<1>2. to \notin NatPlaces \cup ContentPlaces /\ to \in Places
  BY DEF NatPlaces, ContentPlaces, Places, FailPlaces
<1>3. \A q \in Requests : pc'[q] = IF q = r THEN to ELSE pc[q]
  BY <1>2, SetStatusMoves
<1>4. status \notin {"absent", "removed"}
  BY DEF Exists
<1>5. \A q \in Requests : pc[q] # "attach"
  BY <1>4 DEF IInv, UploadFits
<1>6. ClaimFits'
  <2>1. \A q \in Requests : Claimed(q)' => Claimed(q)
    BY <1>3 DEF Claimed, RunPlaces
  <2> QED BY <1>1, <2>1 DEF ClaimFits
<1>7. doubled' \in BOOLEAN
  BY <1>1, Zenon DEF IInv, DataFits
<1>8. ~doubled' => ~doubled
  BY <1>1
<1> QED BY <1>1, <1>2, <1>4, <1>5, <1>6, <1>7, <1>8, StatusKeepsInv

LEMMA RemoveFilesKeepsInv ==
  ASSUME IInv, NEW r \in Requests, RemoveFiles(r)
  PROVE  IInv'
<1>1. /\ HeldFits'
      /\ \A q \in Requests : pc'[q] = IF q = r THEN "remove audit" ELSE pc[q]
  BY GotoMoves
  DEF IInv, RemoveFiles, Fits, NatPlaces, ContentPlaces, Places, RemovePlaces
<1>2. /\ status = "removed" /\ status' = "removed"
      /\ UNCHANGED <<version, crashes, doubled, abandoned, older, unembedded, rewritten>>
  BY DEF IInv, UploadFits, RemoveFiles, manifest, history
<1>8. FileFits'
  BY DEF FileFits, Whole, RemoveFiles
<1>3. DataFits'
  BY <1>2 DEF IInv, DataFits, RemoveFiles
<1>4. UploadFits'
  BY <1>1, <1>2 DEF IInv, UploadFits
<1>5. \A q \in Requests : Claimed(q)' => Claimed(q)
  BY <1>1 DEF Claimed, RunPlaces
<1>6. ClaimFits'
  BY <1>2, <1>5 DEF IInv, ClaimFits
<1>7. DoneHasChunks' /\ RunLeaves' /\ RunFits'
  BY <1>2 DEF DoneHasChunks, RunLeaves, RunFits
<1> QED BY <1>1, <1>3, <1>4, <1>6, <1>7, <1>8 DEF IInv

-----------------------------------------------------------------------------
(* The steps of the run that holds the claim.                              *)

(* With one claim, nobody else is at a place of the run. *)
LEMMA OthersOutside ==
  ASSUME IInv, NEW r \in Requests, Claimed(r), ~doubled
  PROVE  \A q \in Requests : q # r => pc[q] \notin RunPlaces
  BY DEF IInv, ClaimFits, Claimed

LEMMA WriteMediaKeepsInv ==
  ASSUME IInv, NEW r \in Requests, WriteMedia(r)
  PROVE  IInv'
<1>1. pc[r] = "media" /\ held[r] \in Content /\ held[r] # NoFile
  BY NoFileAssumption DEF IInv, HeldFits, WriteMedia, ContentPlaces
<1>2. /\ HeldFits'
      /\ \A q \in Requests : pc'[q] = IF q = r THEN "chunks" ELSE pc[q]
      /\ \A q \in Requests : held'[q] = held[q]
  <2>1. Fits("chunks", held[r]) /\ "chunks" \in Places \cap HoldPlaces
    BY <1>1 DEF Fits, NatPlaces, ContentPlaces, Places, HoldPlaces, RunPlaces
  <2> QED BY <2>1, GotoMoves DEF IInv, WriteMedia
<1>3. /\ media' = held[r]
      /\ UNCHANGED <<status, version, raw, chunks, writing, garbled, vectors, crashes>>
      /\ UNCHANGED <<doubled, abandoned, older, unembedded, rewritten>>
  BY DEF WriteMedia, manifest, chunkFile, history
<1>9. FileFits'
  BY <1>1, <1>2, <1>3, WritersStay DEF IInv, FileFits, Whole
<1>4. DataFits' /\ DoneHasChunks' /\ RunLeaves'
  BY <1>1, <1>2, <1>3 DEF IInv, DataFits, DoneHasChunks, Whole, RunLeaves
<1>5. UploadFits'
  BY <1>2, <1>3 DEF IInv, UploadFits
<1>6. \A q \in Requests : Claimed(q)' => Claimed(q)
  BY <1>1, <1>2 DEF Claimed, RunPlaces
<1>7. ClaimFits'
  BY <1>3, <1>6 DEF IInv, ClaimFits
<1>8. RunFits'
  <2> SUFFICES ASSUME ~doubled, status # "removed"
               PROVE  RunFits'
    BY <1>3 DEF RunFits
  <2>1. Claimed(r)
    BY <1>1 DEF Claimed, RunPlaces
  <2>2. \A q \in Requests : pc'[q] \in {"chunks", "index", "done"} => q = r
    BY <1>2, <2>1, OthersOutside DEF RunPlaces
  <2>3. status # "done"
    BY <2>1 DEF IInv, ClaimFits
  <2> QED BY <1>2, <1>3, <2>2, <2>3 DEF RunFits
<1> QED BY <1>2, <1>4, <1>5, <1>7, <1>8, <1>9 DEF IInv

LEMMA WriteChunksKeepsInv ==
  ASSUME IInv, NEW r \in Requests, WriteChunks(r)
  PROVE  IInv'
<1>1. pc[r] = "chunks" /\ held[r] \in Content /\ held[r] # NoFile
  BY NoFileAssumption DEF IInv, HeldFits, WriteChunks, ContentPlaces
<1>2. /\ HeldFits'
      /\ \A q \in Requests : pc'[q] = IF q = r THEN "index" ELSE pc[q]
      /\ \A q \in Requests : held'[q] = held[q]
  <2>1. Fits("index", held[r]) /\ "index" \in Places \cap HoldPlaces
    BY <1>1 DEF Fits, NatPlaces, ContentPlaces, Places, HoldPlaces, RunPlaces
  <2> QED BY <2>1, GotoMoves DEF IInv, WriteChunks
<1>3. /\ chunks' = held[r] /\ writing' = {} /\ garbled' = FALSE /\ rewritten' = FALSE
      /\ UNCHANGED <<status, version, raw, media, vectors, crashes>>
      /\ UNCHANGED <<doubled, abandoned, older, unembedded>>
  BY DEF WriteChunks, manifest
<1>10. FileFits'
  BY <1>3 DEF FileFits, Whole
<1>4. DataFits' /\ DoneHasChunks'
  BY <1>1, <1>3 DEF IInv, DataFits, DoneHasChunks, Whole
<1>5. RunLeaves'
  BY <1>1, <1>2, <1>3 DEF IInv, RunLeaves
<1>6. UploadFits'
  BY <1>2, <1>3 DEF IInv, UploadFits
<1>7. \A q \in Requests : Claimed(q)' => Claimed(q)
  BY <1>1, <1>2 DEF Claimed, RunPlaces
<1>8. ClaimFits'
  BY <1>3, <1>7 DEF IInv, ClaimFits
<1>9. RunFits'
  <2> SUFFICES ASSUME ~doubled, ~older, status # "removed"
               PROVE  RunFits'
    BY <1>3 DEF RunFits
  <2>1. Claimed(r)
    BY <1>1 DEF Claimed, RunPlaces
  <2>2. \A q \in Requests : pc'[q] \in {"chunks", "index", "done"} => q = r
    BY <1>2, <2>1, OthersOutside DEF RunPlaces
  <2>3. status # "done"
    BY <2>1 DEF IInv, ClaimFits
  <2>4. media = held[r]
    BY <1>1 DEF IInv, RunFits
  <2> QED BY <1>2, <1>3, <2>2, <2>3, <2>4 DEF RunFits
<1> QED BY <1>2, <1>4, <1>5, <1>6, <1>8, <1>9, <1>10 DEF IInv

LEMMA WriteIndexKeepsInv ==
  ASSUME IInv, NEW r \in Requests, WriteIndex(r)
  PROVE  IInv'
<1>1. pc[r] = "index" /\ held[r] \in Content
  BY DEF IInv, HeldFits, WriteIndex, ContentPlaces
<1>2. /\ HeldFits'
      /\ \A q \in Requests : pc'[q] = IF q = r THEN "done" ELSE pc[q]
      /\ \A q \in Requests : held'[q] = held[q]
  <2>1. Fits("done", held[r]) /\ "done" \in Places \cap HoldPlaces
    BY <1>1 DEF Fits, NatPlaces, ContentPlaces, Places, HoldPlaces, RunPlaces
  <2> QED BY <2>1, GotoMoves DEF IInv, WriteIndex
<1>3. /\ UNCHANGED <<status, version, raw, media, chunks, writing, garbled, crashes>>
      /\ UNCHANGED <<doubled, abandoned, older, rewritten>>
      /\ \/ vectors' = VectorsOf(held[r]) /\ unembedded' = FALSE
         \/ vectors' = vectors /\ unembedded' = TRUE
  BY DEF WriteIndex, manifest, chunkFile
<1>11. FileFits'
  BY <1>1, <1>2, <1>3, WritersStay DEF IInv, FileFits, Whole
<1>4. VectorsOf(held[r]) \in Vector
  BY <1>1 DEF VectorsOf, Content, Vector
<1>5. DataFits'
  BY <1>3, <1>4 DEF IInv, DataFits
<1>6. DoneHasChunks' /\ RunLeaves'
  BY <1>1, <1>2, <1>3 DEF IInv, DoneHasChunks, Whole, FileFits, RunLeaves
<1>7. UploadFits'
  BY <1>2, <1>3 DEF IInv, UploadFits
<1>8. \A q \in Requests : Claimed(q)' => Claimed(q)
  BY <1>1, <1>2 DEF Claimed, RunPlaces
<1>9. ClaimFits'
  BY <1>3, <1>8 DEF IInv, ClaimFits
<1>10. RunFits'
  <2> SUFFICES ASSUME ~doubled, ~older, status # "removed"
               PROVE  RunFits'
    BY <1>3 DEF RunFits
  <2>1. Claimed(r)
    BY <1>1 DEF Claimed, RunPlaces
  <2>2. \A q \in Requests : pc'[q] \in {"chunks", "index", "done"} => q = r
    BY <1>2, <2>1, OthersOutside DEF RunPlaces
  <2>3. status # "done"
    BY <2>1 DEF IInv, ClaimFits
  <2>4. media = held[r] /\ chunks = held[r]
    BY <1>1 DEF IInv, RunFits
  <2>5. chunks' = held'[r] /\ media' = held'[r]
        /\ (unembedded' \/ vectors' = VectorsOf(held'[r]))
    BY <1>2, <1>3, <2>4
  <2>6. OfRun(held[r])'
    BY <2>5 DEF OfRun, VectorsOf
  <2> QED BY <1>2, <1>3, <2>2, <2>3, <2>6 DEF RunFits
<1> QED BY <1>2, <1>5, <1>6, <1>7, <1>9, <1>10, <1>11 DEF IInv

LEMMA DoneKeepsInv ==
  ASSUME IInv, NEW r \in Requests, Done(r)
  PROVE  IInv'
<1>1. pc[r] = "done" /\ held[r] \in Content /\ status \notin {"absent", "removed"}
  BY DEF IInv, HeldFits, Done, ContentPlaces, Exists
<1>2. /\ HeldFits'
      /\ \A q \in Requests : pc'[q] = IF q = r THEN "done audit" ELSE pc[q]
      /\ \A q \in Requests : q # r => held'[q] = held[q]
  <2>1. Fits("done audit", held[r]) /\ "done audit" \in Places
    BY DEF Fits, NatPlaces, ContentPlaces, Places
  <2> QED BY <2>1, GotoMoves DEF IInv, Done
<1>3. /\ status' = "done" /\ version' = held[r].version
      /\ UNCHANGED <<raw, media, chunks, writing, garbled, vectors, crashes>>
      /\ UNCHANGED <<doubled, abandoned, older, unembedded, rewritten>>
  BY DEF Done, files, chunkFile, history
<1>10. FileFits'
  BY <1>1, <1>2, <1>3, WritersStay DEF IInv, FileFits, Whole
<1>4. held[r].version \in Nat
  BY <1>1 DEF Content
<1>5. DataFits'
  BY <1>3, <1>4 DEF IInv, DataFits, Statuses
<1>6. DoneHasChunks' /\ RunLeaves'
  BY <1>1, <1>2, <1>3 DEF IInv, DoneHasChunks, Whole, FileFits, RunLeaves
<1>7. UploadFits'
  BY <1>1, <1>2, <1>3 DEF IInv, UploadFits
<1>8. ClaimFits'
  <2> SUFFICES ASSUME ~doubled PROVE ClaimFits'
    BY <1>3 DEF ClaimFits
  <2>1. Claimed(r)
    BY <1>1 DEF Claimed, RunPlaces
  <2>2. \A q \in Requests : ~Claimed(q)'
    BY <1>2, <2>1, OthersOutside DEF Claimed, RunPlaces
  <2> QED BY <2>2 DEF ClaimFits
<1>9. RunFits'
  <2> SUFFICES ASSUME ~doubled, ~older PROVE RunFits'
    BY <1>3 DEF RunFits
  <2>1. Claimed(r)
    BY <1>1 DEF Claimed, RunPlaces
  <2>2. \A q \in Requests : pc'[q] \notin {"chunks", "index", "done"}
    BY <1>2, <2>1, OthersOutside DEF RunPlaces
  <2>3. OfRun(held[r])
    BY <1>1 DEF IInv, RunFits
  <2>4. OfRun(chunks)' /\ chunks'.version = version'
    BY <1>3, <2>3 DEF OfRun, VectorsOf
  <2> QED BY <2>2, <2>4 DEF RunFits
<1> QED BY <1>2, <1>5, <1>6, <1>7, <1>8, <1>9, <1>10 DEF IInv

-----------------------------------------------------------------------------
(* The steps of a reindex that write.                                      *)

LEMMA RebuildKeepsInv ==
  ASSUME IInv, NEW r \in Requests, Rebuild(r)
  PROVE  IInv'
<1> DEFINE to == IF ContextualRetrieval THEN "write back" ELSE "note"
<1>1. pc[r] = "rebuild" /\ held[r] \in Content
  BY DEF IInv, HeldFits, Rebuild, ContentPlaces
<1>2. to \in {"write back", "note"}
  OBVIOUS
<1>3. Goto(r, to)
  BY DEF Rebuild
<1> HIDE DEF to
<1>4. /\ HeldFits'
      /\ \A q \in Requests : pc'[q] = IF q = r THEN to ELSE pc[q]
      /\ \A q \in Requests : q # r => held'[q] = held[q]
  <2>1. Fits(to, held[r]) /\ to \in Places
    BY <1>1, <1>2 DEF Fits, NatPlaces, ContentPlaces, Places, ReindexPlaces
  <2> QED BY <1>3, <2>1, GotoMoves DEF IInv
<1>5. /\ vectors' = VectorsOf(held[r]) /\ unembedded' = FALSE
      /\ older' = (older \/ chunks # held[r])
      /\ UNCHANGED <<status, version, raw, media, chunks, writing, garbled, crashes>>
      /\ UNCHANGED <<doubled, abandoned, rewritten>>
  BY DEF Rebuild, manifest, chunkFile
<1>14. FileFits'
  BY <1>1, <1>4, <1>5, WritersStay DEF IInv, FileFits, Whole
<1>6. VectorsOf(held[r]) \in Vector
  BY <1>1 DEF VectorsOf, Content, Vector
<1>7. older' \in BOOLEAN
  BY <1>5, Zenon DEF IInv, DataFits
<1>8. DataFits'
  BY <1>5, <1>6, <1>7 DEF IInv, DataFits
<1>9. DoneHasChunks' /\ RunLeaves'
  BY <1>2, <1>4, <1>5 DEF IInv, DoneHasChunks, Whole, RunLeaves
<1>10. UploadFits'
  BY <1>2, <1>4, <1>5 DEF IInv, UploadFits
<1>11. \A q \in Requests : Claimed(q)' => Claimed(q)
  BY <1>2, <1>4 DEF Claimed, RunPlaces
<1>12. ClaimFits'
  BY <1>5, <1>11 DEF IInv, ClaimFits
<1>13. RunFits'
  <2> SUFFICES ASSUME ~doubled, ~older', status # "removed"
               PROVE  RunFits'
    BY <1>5 DEF RunFits
  <2>1. ~older /\ vectors' = VectorsOf(chunks)
    BY <1>5
  <2>2. \A q \in Requests :
          pc'[q] \in {"chunks", "index", "done"}
            => pc'[q] = pc[q] /\ held'[q] = held[q]
    BY <1>2, <1>4
  <2> QED BY <1>5, <2>1, <2>2 DEF IInv, RunFits, OfRun, VectorsOf
<1> QED BY <1>4, <1>8, <1>9, <1>10, <1>12, <1>13, <1>14 DEF IInv

LEMMA BeginWriteBackKeepsInv ==
  ASSUME IInv, NEW r \in Requests, BeginWriteBack(r)
  PROVE  IInv'
<1>1. pc[r] = "write back" /\ held[r] \in Content /\ held[r] # NoFile
  BY NoFileAssumption DEF IInv, HeldFits, BeginWriteBack, ContentPlaces
<1>2. /\ HeldFits'
      /\ \A q \in Requests : pc'[q] = IF q = r THEN "writing" ELSE pc[q]
      /\ \A q \in Requests : q # r => held'[q] = held[q]
  <2>1. Take(r, NoFile, "writing")
    BY DEF BeginWriteBack, Take
  <2>2. Fits("writing", NoFile) /\ "writing" \in Places
    BY DEF Fits, NatPlaces, ContentPlaces, Places, ReindexPlaces
  <2> QED BY <2>1, <2>2, TakeMoves DEF IInv
<1>3. /\ chunks' = held[r] /\ writing' = writing \cup {r} /\ rewritten' = TRUE
      /\ older' = (older \/ chunks # held[r])
      /\ UNCHANGED <<status, version, raw, media, vectors, crashes>>
      /\ UNCHANGED <<doubled, abandoned, unembedded>>
  BY DEF BeginWriteBack, manifest
<1>4. older' \in BOOLEAN /\ garbled' \in BOOLEAN
  <2>1. older' \in BOOLEAN
    BY <1>3, Zenon DEF IInv, DataFits
  <2>2. garbled' = (writing # {} /\ (garbled \/ chunks # held[r]))
    BY DEF BeginWriteBack
  <2>3. garbled' \in BOOLEAN
    BY <2>2, Zenon DEF IInv, DataFits
  <2> QED BY <2>1, <2>3
<1>5. DataFits' /\ DoneHasChunks'
  BY <1>1, <1>3, <1>4 DEF IInv, DataFits, DoneHasChunks
<1>11. FileFits'
  BY <1>2, <1>3 DEF IInv, FileFits
<1>6. RunLeaves'
  BY <1>1, <1>2, <1>3 DEF IInv, RunLeaves
<1>7. UploadFits'
  BY <1>2, <1>3 DEF IInv, UploadFits
<1>8. \A q \in Requests : Claimed(q)' => Claimed(q)
  BY <1>2 DEF Claimed, RunPlaces
<1>9. ClaimFits'
  BY <1>3, <1>8 DEF IInv, ClaimFits
<1>10. RunFits'
  <2> SUFFICES ASSUME ~doubled, ~older', status # "removed"
               PROVE  RunFits'
    BY <1>3 DEF RunFits
  <2>1. ~older /\ chunks' = chunks
    BY <1>3
  <2>2. \A q \in Requests :
          pc'[q] \in {"chunks", "index", "done"}
            => pc'[q] = pc[q] /\ held'[q] = held[q]
    BY <1>2
  <2> QED BY <1>3, <2>1, <2>2 DEF IInv, RunFits, OfRun, VectorsOf
<1> QED BY <1>2, <1>5, <1>6, <1>7, <1>9, <1>10, <1>11 DEF IInv

(* The write ends, or fails: the file stays where it is. *)
LEMMA EndOfWriteKeepsInv ==
  ASSUME IInv, NEW r \in Requests, WriteBack(r) \/ WriteBackFails(r)
  PROVE  IInv'
<1>1. PICK to \in {"note", "ended"} : Goto(r, to)
  BY DEF WriteBack, WriteBackFails
<1>2. /\ HeldFits'
      /\ \A q \in Requests : pc'[q] = IF q = r THEN to ELSE pc[q]
      /\ \A q \in Requests : q # r => held'[q] = held[q]
  <2>1. Fits(to, held[r]) /\ to \in Places
    BY DEF Fits, NatPlaces, ContentPlaces, Places, ReindexPlaces
  <2> QED BY <1>1, <2>1, GotoMoves DEF IInv
<1>3. /\ writing' = writing \ {r}
      /\ garbled' = garbled \/ garbled' = (garbled \/ r \in writing)
      /\ UNCHANGED <<status, version, raw, media, chunks, vectors, crashes>>
      /\ UNCHANGED <<doubled, abandoned, older, unembedded, rewritten>>
  BY DEF WriteBack, WriteBackFails, manifest, history
<1>4. garbled' \in BOOLEAN /\ (Whole => garbled' = garbled)
  <2>1. garbled' \in BOOLEAN
    BY <1>3, Zenon DEF IInv, DataFits
  <2>2. Whole => garbled' = garbled
    BY <1>3 DEF Whole, IInv, DataFits
  <2> QED BY <2>1, <2>2
<1>5. Whole => Whole'
  BY <1>3, <1>4 DEF Whole
<1>6. DataFits' /\ DoneHasChunks'
  BY <1>3, <1>4, <1>5 DEF IInv, DataFits, DoneHasChunks
<1>7. FileFits'
  BY <1>2, <1>3, <1>5 DEF IInv, FileFits
<1>8. RunLeaves' /\ UploadFits'
  BY <1>2, <1>3 DEF IInv, RunLeaves, UploadFits
<1>9. \A q \in Requests : Claimed(q)' => Claimed(q)
  BY <1>2 DEF Claimed, RunPlaces
<1>10. ClaimFits'
  BY <1>3, <1>9 DEF IInv, ClaimFits
<1>11. RunFits'
  <2>1. \A q \in Requests :
          pc'[q] \in {"chunks", "index", "done"}
            => pc'[q] = pc[q] /\ held'[q] = held[q]
    BY <1>2
  <2> QED BY <1>3, <2>1 DEF IInv, RunFits, OfRun, VectorsOf
<1> QED BY <1>2, <1>6, <1>7, <1>8, <1>10, <1>11 DEF IInv

-----------------------------------------------------------------------------
LEMMA RestartKeepsInv ==
  ASSUME IInv, Restart
  PROVE  IInv'
<1>1. \A q \in Requests : pc'[q] = IF Active(q) THEN "ended" ELSE pc[q]
  BY DEF Restart
<1>2. \A q \in Requests : pc'[q] \in {"idle", "ended"}
  BY <1>1 DEF Active
<1>3. HeldFits'
  <2>1. pc' \in [Requests -> Places]
    <3>1. pc' = [q \in Requests |-> pc'[q]]
      BY DEF Restart
    <3> QED BY <1>2, <3>1 DEF Places
  <2>2. held' = [q \in Requests |-> held'[q]]
    BY DEF Restart
  <2> QED BY <1>2, <2>1, <2>2 DEF HeldFits, NatPlaces, ContentPlaces
<1>4. /\ status' = IF status = "processing" THEN "failed" ELSE status
      /\ crashes' = crashes + 1 /\ crashes < MaxCrashes /\ abandoned' = FALSE
      /\ UNCHANGED <<version, raw, media, chunks, vectors, doubled, older, unembedded, rewritten>>
      /\ writing' = {} /\ garbled' \in IF writing = {} THEN {garbled} ELSE {garbled, TRUE}
  BY DEF Restart, CutWrites
<1>11. garbled' \in BOOLEAN /\ (Whole => Whole')
  BY <1>4 DEF IInv, DataFits, Whole
<1>12. FileFits'
  BY <1>4, <1>11 DEF IInv, FileFits
<1>5. crashes \in 0 .. MaxCrashes
  BY DEF IInv, DataFits
<1>6. crashes' \in 0 .. MaxCrashes
  BY <1>4, <1>5, CrashAssumption
<1>7. DataFits'
  BY <1>4, <1>6, <1>11 DEF IInv, DataFits, Statuses
<1>8. DoneHasChunks'
  BY <1>4, <1>11 DEF IInv, DoneHasChunks
<1>9. UploadFits' /\ RunLeaves' /\ ClaimFits'
  BY <1>2 DEF UploadFits, RunLeaves, ClaimFits, Claimed, RunPlaces
<1>10. RunFits'
  BY <1>2, <1>4 DEF IInv, RunFits, OfRun, VectorsOf
<1> QED BY <1>3, <1>7, <1>8, <1>9, <1>10, <1>12 DEF IInv

-----------------------------------------------------------------------------
LEMMA InitInv == Init => IInv
<1> SUFFICES ASSUME Init PROVE IInv
  OBVIOUS
<1>1. DataFits
  <2>1. 0 \in 0 .. MaxCrashes /\ 0 \in Nat
    BY CrashAssumption
  <2> QED BY <2>1, Zenon DEF Init, DataFits, Statuses
<1>2. HeldFits
  BY DEF Init, HeldFits, Places, NatPlaces, ContentPlaces
<1>3. \A q \in Requests : pc[q] = "idle"
  BY DEF Init
<1>4. status = "absent" /\ writing = {} /\ ~garbled
  BY DEF Init
<1> QED
  BY <1>1, <1>2, <1>3, <1>4
  DEF IInv, FileFits, Whole, UploadFits, DoneHasChunks, RunLeaves, ClaimFits,
      Claimed, RunPlaces, RunFits

(* Every action of a request is a quiet one or one of those above. *)
LEMMA StepIsOne ==
  ASSUME NEW r \in Requests, Step(r)
  PROVE  \/ Quiet(r)
         \/ WriteRaw(r) \/ Attach(r) \/ Claim(r) \/ Detach(r) \/ RemoveFiles(r)
         \/ Fail(r) \/ Degrade(r)
         \/ WriteMedia(r) \/ WriteChunks(r) \/ WriteIndex(r) \/ Done(r)
         \/ Rebuild(r) \/ BeginWriteBack(r) \/ WriteBack(r) \/ WriteBackFails(r)
  BY Zenon DEF Step, IngestStep, ProcessStep, RemoveStep, ReindexStep, Quiet

LEMMA StepKeepsInv == IInv /\ [Next]_vars => IInv'
<1> SUFFICES ASSUME IInv, [Next]_vars PROVE IInv'
  OBVIOUS
<1>1. ASSUME NEW r \in Requests, Step(r) PROVE IInv'
  <2>1. CASE Fail(r)
    BY <2>1, GivingBackKeepsInv DEF Fail
  <2>2. CASE Degrade(r)
    BY <2>2, GivingBackKeepsInv DEF Degrade
  <2> QED
    BY <1>1, <2>1, <2>2, StepIsOne, QuietKeepsInv, WriteRawKeepsInv,
       AttachKeepsInv, ClaimKeepsInv, DetachKeepsInv, RemoveFilesKeepsInv,
       WriteMediaKeepsInv, WriteChunksKeepsInv, WriteIndexKeepsInv,
       DoneKeepsInv, RebuildKeepsInv, BeginWriteBackKeepsInv, EndOfWriteKeepsInv
<1>2. CASE UNCHANGED vars
  BY <1>2
  DEF IInv, DataFits, HeldFits, FileFits, Whole, UploadFits, DoneHasChunks,
      RunLeaves, ClaimFits, Claimed, RunFits, OfRun, VectorsOf, vars, manifest,
      files, chunkFile, history
<1> QED BY <1>1, <1>2, RestartKeepsInv DEF Next

LEMMA InvHolds == Spec => []IInv
  BY InitInv, StepKeepsInv, PTL DEF Spec

-----------------------------------------------------------------------------
(* Every variable has its type, and a request keeps what its place needs.  *)
THEOREM TypeCorrect == Spec => []TypeOK
<1>1. IInv => TypeOK
  BY TypeSplits DEF IInv, HeldFits, FileFits, Fits
<1> QED BY <1>1, InvHolds, PTL

(* The commit order of process() and remove(): what the manifest calls     *)
(* done has its intermediate result and all its chunks on disk, whatever   *)
(* interleaves or fails and wherever the server dies; only where a reindex *)
(* has begun to write the chunks of the last run back may some be missing. *)
THEOREM DoneIsServed == Spec => []DoneHasChunks
<1>1. IInv => DoneHasChunks
  BY DEF IInv
<1> QED BY <1>1, InvHolds, PTL

(* The claim of the manifest is exclusive: one run at most writes the      *)
(* files, and it still holds the claim, until a request gives back a claim *)
(* that is another's.                                                      *)
THEOREM ClaimIsExclusive == Spec => []OneRun
<1>1. ASSUME IInv, ~doubled
      PROVE  Cardinality({r \in Requests : Claimed(r)}) <= 1
  <2> DEFINE C == {r \in Requests : Claimed(r)}
  <2>1. CASE C = {}
    BY <2>1, FS_EmptySet
  <2>2. CASE C # {}
    <3>1. PICK r \in C : TRUE
      BY <2>2
    <3>2. C = {r}
      BY <1>1, <3>1 DEF IInv, ClaimFits
    <3> HIDE DEF C
    <3>3. Cardinality(C) = 1
      BY <3>2, FS_Singleton
    <3> QED BY <3>3 DEF C
  <2> QED BY <2>1, <2>2
<1>2. IInv => OneRun
  BY <1>1 DEF IInv, ClaimFits, OneRun
<1> QED BY <1>2, InvHolds, PTL

(* What is served of a done material is of one run, of the version the     *)
(* manifest shows, as long as no claim was given back by another and no    *)
(* reindex worked on old chunks.                                           *)
THEOREM ServedOfOneRun == Spec => []ServedIsOneRun
<1>1. ASSUME IInv, status = "done", ~doubled, ~older
      PROVE  /\ chunks = media
             /\ chunks.version = version
             /\ ~unembedded => vectors.run = chunks.run
  <2>1. OfRun(chunks) /\ chunks.version = version
    BY <1>1 DEF IInv, RunFits
  <2>2. ~unembedded => vectors = VectorsOf(chunks)
    BY <2>1 DEF OfRun
  <2>3. VectorsOf(chunks).run = chunks.run
    BY DEF VectorsOf
  <2> QED BY <2>1, <2>2, <2>3 DEF OfRun
<1>2. IInv => ServedIsOneRun
  BY <1>1 DEF ServedIsOneRun
<1> QED BY <1>2, InvHolds, PTL

(* A removed material stays removed, whatever was under way.               *)
THEOREM RemovedForGood == Spec => StaysRemoved
<1> DEFINE Stays == status = "removed" => status' = "removed"
<1>1. ASSUME IInv, [Next]_vars, status = "removed" PROVE status' = "removed"
  <2>1. ASSUME NEW r \in Requests, Step(r) PROVE status' = "removed"
    <3>1. ~Attach(r)
      BY <1>1 DEF IInv, UploadFits, Attach, SetStatus
    <3>2. ~Exists
      BY <1>1 DEF Exists
    <3>3. CASE Quiet(r)
      BY <1>1, <3>3, QuietIsStill DEF Still
    <3>4. CASE \/ WriteRaw(r) \/ RemoveFiles(r) \/ WriteMedia(r) \/ WriteChunks(r)
               \/ WriteIndex(r) \/ Rebuild(r) \/ BeginWriteBack(r) \/ WriteBack(r)
               \/ WriteBackFails(r)
      BY <1>1, <3>4
      DEF WriteRaw, RemoveFiles, WriteMedia, WriteChunks, WriteIndex, Rebuild,
          BeginWriteBack, WriteBack, WriteBackFails, manifest
    <3> QED
      BY <2>1, <3>1, <3>2, <3>3, <3>4, StepIsOne
      DEF Claim, MayClaim, Detach, Fail, Degrade, Done
  <2>2. CASE Restart
    BY <1>1, <2>2 DEF Restart
  <2>3. CASE UNCHANGED vars
    BY <1>1, <2>3 DEF vars, manifest
  <2> QED BY <1>1, <2>1, <2>2, <2>3 DEF Next
<1>2. IInv /\ [Next]_vars => [Stays]_vars
  BY <1>1
<1> QED BY <1>2, InvHolds, PTL DEF Spec, StaysRemoved

=============================================================================
