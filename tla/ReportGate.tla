----------------------------- MODULE ReportGate -----------------------------
(***************************************************************************)
(* The report of one case and its export gate: ReportService of            *)
(* src/packages/server/src/report/report-service.ts, with the state its    *)
(* gate reads: the findings (finding/), the contradictions and their       *)
(* acknowledgements (analysis/contradiction-service.ts) and the chunks the *)
(* findings cite (materials/).                                             *)
(*                                                                         *)
(* Nothing locks a report.  Each HTTP request runs one method of the       *)
(* service, and every await of it is a step here: it may read report.json, *)
(* work on that copy and write it back after another request has changed   *)
(* the file.                                                               *)
(*                                                                         *)
(* The text of a report is its spec: the request that drafted it, the      *)
(* findings its sections name, and whether all its prose is the wording    *)
(* of those findings.  bulletin.md is the spec it was rendered from.       *)
(***************************************************************************)
EXTENDS FiniteSets

CONSTANTS
  Requests,        \* the HTTP requests of a behaviour
  Op,              \* what each request asks for
  Findings,        \* the finding ids a section may name
  Contradictions,  \* the ids detections may give to high-severity findings
  NoReport,        \* the file report.json does not exist
  NoSpec,          \* the file (spec or markdown) does not exist
  Faults,          \* what may fail: subset of FaultKinds
  OneAtATime       \* a request starts only when no other is running

Ops == {"draft", "submit", "approve", "export"}

(* render_report.py fails or times out; a file cannot be read or written;  *)
(* an append to the audit log throws.                                      *)
FaultKinds == {"render", "files", "audit"}

ASSUME OpAssumption == Op \in [Requests -> Ops]
ASSUME SwitchAssumption == Faults \subseteq FaultKinds /\ OneAtATime \in BOOLEAN

VARIABLES
  record,    \* report/report.json
  specFile,  \* report/bulletin.spec.json
  markdown,  \* report/bulletin.md
  finding,   \* findings.json: the review status of each finding
  cited,     \* the findings whose citation is in the chunks of a done material
  listed,    \* contradictions.result.json: the contradictions it lists
  closed,    \* contradiction-acks.json: those resolved or dismissed
  pc,        \* where each request is
  held,      \* the record a request works on, in memory
  buffer,    \* what a request has read and not yet used
  refused    \* an export has met a reason to refuse

files == <<record, specFile, markdown>>
evidence == <<finding, cited, listed, closed>>
memory == <<held, buffer, refused>>

(* History, which no code reads. *)
VARIABLES
  reviewed,   \* the specs an approver has read in review
  drafted,    \* the spec of the last draft whose record was written
  found,      \* the contradictions of the last detection that succeeded
  seen,       \* every contradiction id given so far
  standing,   \* per export, the reasons to refuse present all along
  overlapped  \* a draft has run at the same time as another request

history == <<reviewed, drafted, found, seen, standing, overlapped>>
vars == <<files, evidence, pc, memory, history>>

Specs == [by : Requests, uses : SUBSET Findings, grounded : BOOLEAN]
Statuses == {"draft", "in_review", "approved", "exported"}
Records == [status : Statuses, spec : Specs, rendered : BOOLEAN]
ASSUME NoneAssumption ==
  /\ NoReport \notin Records \cup [status : Statuses, spec : Specs]
  /\ NoSpec \notin Specs

FindingStatuses == {"absent", "draft", "approved", "rejected"}

Ended == {"done", "refused", "failed", "delivered"}
DraftPlaces == {"spec", "render", "markdown", "record"}
GatePlaces == {"findings", "chunks", "contradictions", "acks", "content", "save", "log"}
Places == {"idle", "write"} \cup DraftPlaces \cup GatePlaces \cup Ended

Active(r) == pc[r] \notin {"idle"} \cup Ended
Goto(r, place) == pc' = [pc EXCEPT ![r] = place]
Hold(r, rec) == held' = [held EXCEPT ![r] = rec]
Buffer(r, value) == buffer' = [buffer EXCEPT ![r] = value]

Starts(r, op) ==
  /\ Op[r] = op
  /\ pc[r] = "idle"
  /\ OneAtATime => \A q \in Requests : ~Active(q)

-----------------------------------------------------------------------------
Init ==
  /\ record = NoReport
  /\ specFile = NoSpec
  /\ markdown = NoSpec
  /\ finding = [f \in Findings |-> "absent"]
  /\ cited = Findings
  /\ listed = {}
  /\ closed = {}
  /\ pc = [r \in Requests |-> "idle"]
  /\ held = [r \in Requests |-> NoReport]
  /\ buffer = [r \in Requests |-> NoSpec]
  /\ refused = [r \in Requests |-> FALSE]
  /\ reviewed = {}
  /\ drafted = NoSpec
  /\ found = {}
  /\ seen = {}
  /\ standing = [r \in Requests |-> {}]
  /\ overlapped = FALSE

-----------------------------------------------------------------------------
(* History: what the properties remember of a behaviour. *)

Approved == {f \in Findings : finding[f] = "approved"}

(* The reasons there are, at this moment, to refuse an export. *)
Reasons ==
  ({"finding"} \X (Findings \ Approved)) \cup
  ({"citation"} \X (Findings \ cited)) \cup
  ({"listed"} \X (listed \ closed)) \cup
  ({"found"} \X (found \ closed))

(* A draft writes its record. *)
RecordWritten == \E r \in Requests : pc[r] = "record" /\ pc'[r] # "record" /\ record' = held[r]

Remember ==
  /\ reviewed' =
       IF /\ \E r \in Requests : Op[r] = "approve" /\ pc[r] = "idle" /\ pc'[r] = "write"
          /\ record.status = "in_review"
       THEN reviewed \cup {record.spec}
       ELSE reviewed
  /\ drafted' = IF RecordWritten THEN record'.spec ELSE drafted
  /\ standing' =
       [r \in Requests |->
          IF pc'[r] \notin GatePlaces \cup {"delivered"} THEN {}
          ELSE IF pc[r] = "idle" THEN Reasons
          ELSE IF pc[r] = "delivered" THEN standing[r]
          ELSE standing[r] \cap Reasons']
  /\ overlapped' =
       (overlapped \/ \E q, r \in Requests :
                        q # r /\ Active(q)' /\ Active(r)' /\ Op[q] = "draft")

(* A step of a request leaves the evidence alone, and the reverse. *)
RequestStep == UNCHANGED <<evidence, found, seen>> /\ Remember
EvidenceStep == UNCHANGED <<files, pc, memory>> /\ Remember

-----------------------------------------------------------------------------
(* How a request ends that has written its record: the audit append is all *)
(* that is left, and if it throws the caller is told that it failed.       *)
Answered(r) ==
  \/ Goto(r, "done")
  \/ "audit" \in Faults /\ Goto(r, "failed")

(* draft *)

(* buildSpec has read the findings.  The sections are chosen by finding id, *)
(* worded as the findings are, or they are the caller's own.               *)
DraftBegins(r) ==
  /\ Starts(r, "draft")
  /\ \E uses \in SUBSET Findings, grounded \in BOOLEAN :
       Hold(r, [status |-> "draft",
                spec |-> [by |-> r, uses |-> uses, grounded |-> grounded],
                rendered |-> FALSE])
  /\ Goto(r, "spec")
  /\ UNCHANGED <<files, buffer, refused>>
  /\ RequestStep

(* selectApprovedFindings throws: an id that is not approved was chosen.   *)
DraftRefused(r) ==
  /\ Starts(r, "draft")
  /\ Approved # Findings
  /\ Goto(r, "refused")
  /\ UNCHANGED <<files, memory>>
  /\ RequestStep

WriteSpec(r) ==
  /\ pc[r] = "spec"
  /\ specFile' = held[r].spec
  /\ Goto(r, "render")
  /\ UNCHANGED <<record, markdown, memory>>
  /\ RequestStep

(* render_report.py reads the spec file, which another draft may have      *)
(* written since ...                                                       *)
RenderReads(r) ==
  /\ pc[r] = "render"
  /\ Buffer(r, specFile)
  /\ Goto(r, "markdown")
  /\ UNCHANGED <<files, held, refused>>
  /\ RequestStep

(* ... and writes what it read. *)
RenderWrites(r) ==
  /\ pc[r] = "markdown"
  /\ markdown' = buffer[r]
  /\ Hold(r, [held[r] EXCEPT !.rendered = TRUE])
  /\ Buffer(r, NoSpec)
  /\ Goto(r, "record")
  /\ UNCHANGED <<record, specFile, refused>>
  /\ RequestStep

(* A plausible bug, used by a mutant: the failure goes unnoticed. *)
RenderFailsUnnoticed(r) ==
  /\ pc[r] = "markdown"
  /\ "render" \in Faults
  /\ Hold(r, [held[r] EXCEPT !.rendered = TRUE])
  /\ Buffer(r, NoSpec)
  /\ Goto(r, "record")
  /\ UNCHANGED <<files, refused>>
  /\ RequestStep

(* The script fails, or runs out of its 20 seconds before or after it has  *)
(* written: the draft goes on.                                             *)
RenderFails(r) ==
  /\ pc[r] = "markdown"
  /\ "render" \in Faults
  /\ markdown' \in {markdown, buffer[r]}
  /\ Buffer(r, NoSpec)
  /\ Goto(r, "record")
  /\ UNCHANGED <<record, specFile, held, refused>>
  /\ RequestStep

(* A plausible bug, used by a mutant: an edit keeps the status. *)
DraftEndsKeepingStatus(r) ==
  /\ pc[r] = "record"
  /\ record' = [held[r] EXCEPT !.status = IF record = NoReport THEN @ ELSE record.status]
  /\ Hold(r, NoReport)
  /\ Answered(r)
  /\ UNCHANGED <<specFile, markdown, buffer, refused>>
  /\ RequestStep

DraftEnds(r) ==
  /\ pc[r] = "record"
  /\ record' = held[r]
  /\ Hold(r, NoReport)
  /\ Answered(r)
  /\ UNCHANGED <<specFile, markdown, buffer, refused>>
  /\ RequestStep

-----------------------------------------------------------------------------
(* submit and approve: read the record, test its status, write it back.    *)

RequiredStatus(op) == IF op = "submit" THEN "draft" ELSE "in_review"
StatusAfter(op) == IF op = "submit" THEN "in_review" ELSE "approved"

(* A plausible bug, used by a mutant: the status is not tested. *)
MayMoveAny(r, op) == record # NoReport

(* require() found a report, and its status is the one the move needs.     *)
MayMove(r, op) == record # NoReport /\ record.status = RequiredStatus(op)

ReadForMove(r) ==
  \E op \in {"submit", "approve"} :
    /\ Starts(r, op)
    /\ MayMove(r, op)
    /\ Hold(r, record)
    /\ Goto(r, "write")
    /\ UNCHANGED <<files, buffer, refused>>
    /\ RequestStep

MoveRefused(r) ==
  \E op \in {"submit", "approve"} :
    /\ Starts(r, op)
    /\ ~MayMove(r, op)
    /\ Goto(r, "refused")
    /\ UNCHANGED <<files, memory>>
    /\ RequestStep

(* The copy read above is written, whatever the file holds by now.         *)
WriteMove(r) ==
  /\ pc[r] = "write"
  /\ record' = [held[r] EXCEPT !.status = StatusAfter(Op[r])]
  /\ Hold(r, NoReport)
  /\ Answered(r)
  /\ UNCHANGED <<specFile, markdown, buffer, refused>>
  /\ RequestStep

-----------------------------------------------------------------------------
(* export: read the record, evaluate the gate in four reads, read the      *)
(* markdown, write the record back.                                        *)

IsReviewed(rec) == rec # NoReport /\ rec.status \in {"approved", "exported"}

ExportBegins(r) ==
  /\ Starts(r, "export")
  /\ IsReviewed(record)
  /\ Hold(r, record)
  /\ Goto(r, "findings")
  /\ UNCHANGED <<files, buffer, refused>>
  /\ RequestStep

ExportRefused(r) ==
  /\ Starts(r, "export")
  /\ ~IsReviewed(record)
  /\ Goto(r, "refused")
  /\ UNCHANGED <<files, memory>>
  /\ RequestStep

Refuse(r, reason) == refused' = [refused EXCEPT ![r] = @ \/ reason]

(* A plausible bug, used by a mutant: only a rejected finding blocks. *)
FindingsBlockRejected(spec) ==
  ~spec.grounded \/ \E f \in spec.uses : finding[f] \in {"absent", "rejected"}

(* A section names a finding that is missing, rejected or not approved, or *)
(* holds prose that no finding it names supports.                          *)
FindingsBlock(spec) == ~spec.grounded \/ ~(spec.uses \subseteq Approved)

GateReadsFindings(r) ==
  /\ pc[r] = "findings"
  /\ Refuse(r, FindingsBlock(held[r].spec))
  /\ Goto(r, "chunks")
  /\ UNCHANGED <<files, held, buffer>>
  /\ RequestStep

(* validateCitation against the chunks of the done materials. *)
GateReadsChunks(r) ==
  /\ pc[r] = "chunks"
  /\ Refuse(r, ~(held[r].spec.uses \subseteq cited))
  /\ Goto(r, "contradictions")
  /\ UNCHANGED <<files, held, buffer>>
  /\ RequestStep

GateReadsContradictions(r) ==
  /\ pc[r] = "contradictions"
  /\ Buffer(r, listed)
  /\ Goto(r, "acks")
  /\ UNCHANGED <<files, held, refused>>
  /\ RequestStep

(* A contradiction without an acknowledgement is open. *)
GateReadsAcks(r) ==
  /\ pc[r] = "acks"
  /\ Buffer(r, NoSpec)
  /\ IF refused[r] \/ ~(buffer[r] \subseteq closed)
     THEN Goto(r, "refused") /\ Hold(r, NoReport) /\ refused' = [refused EXCEPT ![r] = FALSE]
     ELSE Goto(r, "content") /\ UNCHANGED <<held, refused>>
  /\ UNCHANGED files
  /\ RequestStep

(* A plausible bug, used by a mutant: a missing file is no error. *)
ReadContentOrNothing(r) ==
  /\ pc[r] = "content"
  /\ Buffer(r, markdown)
  /\ Goto(r, "save")
  /\ UNCHANGED <<files, held, refused>>
  /\ RequestStep

ReadContent(r) ==
  /\ pc[r] = "content"
  /\ markdown # NoSpec
  /\ Buffer(r, markdown)
  /\ Goto(r, "save")
  /\ UNCHANGED <<files, held, refused>>
  /\ RequestStep

(* bulletin.md was never rendered: readFile throws. *)
NoContent(r) ==
  /\ pc[r] = "content"
  /\ markdown = NoSpec
  /\ Hold(r, NoReport)
  /\ Goto(r, "failed")
  /\ UNCHANGED <<files, buffer, refused>>
  /\ RequestStep

(* The record is written unless it was exported before.                    *)
SaveExport(r) ==
  /\ pc[r] = "save"
  /\ record' = IF held[r].status = "approved"
               THEN [held[r] EXCEPT !.status = "exported"]
               ELSE record
  /\ Goto(r, "log")
  /\ UNCHANGED <<specFile, markdown, memory>>
  /\ RequestStep

(* The export is in the audit log, and the caller gets the content.        *)
Deliver(r) ==
  /\ pc[r] = "log"
  /\ Goto(r, "delivered")
  /\ UNCHANGED <<files, memory>>
  /\ RequestStep

-----------------------------------------------------------------------------
(* Failures: the method throws, and what it has written so far stays.      *)

Abandon(r) ==
  /\ Goto(r, "failed")
  /\ Hold(r, NoReport)
  /\ Buffer(r, NoSpec)
  /\ refused' = [refused EXCEPT ![r] = FALSE]
  /\ UNCHANGED files
  /\ RequestStep

(* export() appends to the audit log before it reads the text, and again   *)
(* when the record is written: what was marked as exported stays so.       *)
ExportAuditFails(r) ==
  /\ "audit" \in Faults
  /\ pc[r] \in {"content", "log"}
  /\ Abandon(r)

(* A read or a write of a file throws, or the process dies here: a crash   *)
(* is this step of every request under way.                                *)
FileFails(r) ==
  /\ "files" \in Faults
  /\ Active(r)
  /\ Abandon(r)

-----------------------------------------------------------------------------
(* The state the gate reads, changed by other services at any time.        *)

CreateFinding(f) ==
  /\ finding[f] = "absent"
  /\ f \in cited
  /\ finding' = [finding EXCEPT ![f] = "draft"]
  /\ UNCHANGED <<cited, listed, closed, found, seen>>
  /\ EvidenceStep

ReviewFinding(f) ==
  /\ finding[f] # "absent"
  /\ \E verdict \in {"approved", "rejected"} : finding' = [finding EXCEPT ![f] = verdict]
  /\ UNCHANGED <<cited, listed, closed, found, seen>>
  /\ EvidenceStep

(* The material f cites is removed or processed again, or is done again    *)
(* with the same text.                                                     *)
ChunksChange(f) ==
  /\ cited' = IF f \in cited THEN cited \ {f} ELSE cited \cup {f}
  /\ UNCHANGED <<finding, listed, closed, found, seen>>
  /\ EvidenceStep

(* detect() succeeds: every contradiction gets a new random id. *)
DetectionSucceeds ==
  /\ \E new \in SUBSET (Contradictions \ seen) :
       /\ listed' = new
       /\ found' = new
       /\ seen' = seen \cup new
  /\ UNCHANGED <<finding, cited, closed>>
  /\ EvidenceStep

(* detect() fails: the failed result it persists lists nothing. *)
DetectionFails ==
  /\ listed' = {}
  /\ UNCHANGED <<finding, cited, closed, found, seen>>
  /\ EvidenceStep

Acknowledge(c) ==
  /\ c \in listed
  /\ closed' \in {closed \cup {c}, closed \ {c}}
  /\ UNCHANGED <<finding, cited, listed, found, seen>>
  /\ EvidenceStep

-----------------------------------------------------------------------------
DraftStep(r) ==
  \/ DraftBegins(r) \/ DraftRefused(r) \/ WriteSpec(r)
  \/ RenderReads(r) \/ RenderWrites(r) \/ RenderFails(r) \/ DraftEnds(r)

MoveStep(r) == ReadForMove(r) \/ MoveRefused(r) \/ WriteMove(r)

ExportStep(r) ==
  \/ ExportBegins(r) \/ ExportRefused(r)
  \/ GateReadsFindings(r) \/ GateReadsChunks(r)
  \/ GateReadsContradictions(r) \/ GateReadsAcks(r)
  \/ ReadContent(r) \/ NoContent(r) \/ SaveExport(r) \/ Deliver(r) \/ ExportAuditFails(r)

Next ==
  \/ \E r \in Requests : DraftStep(r) \/ MoveStep(r) \/ ExportStep(r) \/ FileFails(r)
  \/ \E f \in Findings : CreateFinding(f) \/ ReviewFinding(f) \/ ChunksChange(f)
  \/ DetectionSucceeds \/ DetectionFails
  \/ \E c \in Contradictions : Acknowledge(c)

Spec == Init /\ [][Next]_vars

-----------------------------------------------------------------------------
(* The correctness properties. *)

(* Every variable has its type; a request that works on a record holds     *)
(* one, and the gate holds a report that was reviewed when it was read.    *)
TypeOK ==
  /\ record \in Records \cup {NoReport}
  /\ specFile \in Specs \cup {NoSpec}
  /\ markdown \in Specs \cup {NoSpec}
  /\ finding \in [Findings -> FindingStatuses]
  /\ cited \subseteq Findings
  /\ listed \subseteq Contradictions
  /\ closed \subseteq Contradictions
  /\ pc \in [Requests -> Places]
  /\ refused \in [Requests -> BOOLEAN]
  /\ \A r \in Requests :
       /\ held[r] \in Records \cup {NoReport}
       /\ pc[r] \in {"write", "delivered"} \cup DraftPlaces \cup GatePlaces
            => held[r] # NoReport
       /\ pc[r] \in GatePlaces => IsReviewed(held[r])
       /\ pc[r] \in {"markdown", "save", "log", "delivered"} => buffer[r] \in Specs
       /\ pc[r] = "acks" => buffer[r] \subseteq Contradictions

(* However requests interleave, a report marked approved or exported, and  *)
(* the report of every export that went through, is one an approver read   *)
(* while it was in review: no stale copy written back skips the review.    *)
ApprovedWasReviewed ==
  /\ IsReviewed(record) => record.spec \in reviewed
  /\ \A r \in Requests : pc[r] = "delivered" => held[r].spec \in reviewed

(* The gate reads its evidence at four moments, and the evidence may       *)
(* change between them; but what stood against the report from the first   *)
(* read to the last is seen: no export goes through with an unsupported    *)
(* sentence, a finding that was never approved meanwhile, a citation that  *)
(* was stale all along or a listed contradiction nobody closed.            *)
GateHolds ==
  \A r \in Requests :
    pc[r] = "delivered" =>
      /\ held[r].spec.grounded
      /\ \A f \in held[r].spec.uses :
           <<"finding", f>> \notin standing[r] /\ <<"citation", f>> \notin standing[r]
      /\ \A c \in Contradictions : <<"listed", c>> \notin standing[r]

(* The text an export returns is the report that was reviewed, unless that *)
(* report was never rendered, or a draft ran beside another request, or it *)
(* is the text of a draft that failed, or died with the process, before it *)
(* wrote its record: those are the only three ways the text and the record *)
(* part.  And only beside another request can a draft be lost, so that the *)
(* comment in draft() (any edit returns the report to draft) does not      *)
(* hold.                                                                   *)
MismatchExplained ==
  /\ \A r \in Requests :
       pc[r] = "delivered" /\ buffer[r] # held[r].spec
         => ~held[r].rendered \/ overlapped \/ pc[buffer[r].by] = "failed"
  /\ record # NoReport /\ record.spec # drafted => overlapped

(* No report is exported while a high-severity contradiction the last      *)
(* successful detection found has been open all along.                     *)
NoOpenContradictionExported ==
  \A r \in Requests :
    pc[r] = "delivered" => \A c \in Contradictions : <<"found", c>> \notin standing[r]

(* Request by request, with a renderer that works, the service implements  *)
(* the review state machine, and what it hands out is what was approved.   *)
Review == INSTANCE ReportReview WITH
            report <- IF record = NoReport
                      THEN NoReport
                      ELSE [status |-> record.status, spec |-> record.spec],
            delivered <- {buffer[r] : r \in {q \in Requests : pc[q] = "delivered"}}

RefinesReview == Review!Spec

=============================================================================
