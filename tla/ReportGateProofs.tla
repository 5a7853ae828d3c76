-------------------------- MODULE ReportGateProofs --------------------------
(***************************************************************************)
(* Theorems about the report of a case and its export gate, for any        *)
(* requests, findings and contradictions.                                  *)
(***************************************************************************)
EXTENDS ReportGate, TLAPS

RecordFits ==
  /\ record \in Records \cup {NoReport}
  /\ specFile \in Specs \cup {NoSpec}
  /\ markdown \in Specs \cup {NoSpec}
  /\ drafted \in Specs \cup {NoSpec}

EvidenceFits ==
  /\ finding \in [Findings -> FindingStatuses]
  /\ cited \subseteq Findings
  /\ listed \subseteq Contradictions
  /\ closed \subseteq Contradictions

MemoryFits ==
  /\ pc \in [Requests -> Places]
  /\ refused \in [Requests -> BOOLEAN]
  /\ held = [r \in Requests |-> held[r]]
  /\ buffer = [r \in Requests |-> buffer[r]]

(* What a request for op holds, and has read, at each place.               *)
PlaceFits(op, place, rec, buf) ==
  /\ place \in DraftPlaces => op = "draft" /\ rec.status = "draft"
  /\ place = "write" =>
       op \in {"submit", "approve"} /\ rec.status = RequiredStatus(op)
  /\ place \in GatePlaces \cup {"delivered"} => op = "export"
  /\ place \in GatePlaces => rec.status \in {"approved", "exported"}
  /\ rec \in Records \cup {NoReport}
  /\ place \in {"write", "delivered"} \cup DraftPlaces \cup GatePlaces => rec \in Records
  /\ place \in {"spec", "render", "markdown"} => ~rec.rendered
  /\ place \in {"markdown", "save", "log", "delivered"} => buf \in Specs
  /\ place = "acks" => buf \subseteq Contradictions

PlacesFit ==
  /\ \A r \in Requests : PlaceFits(Op[r], pc[r], held[r], buffer[r])
  /\ \A r \in Requests : pc[r] \in DraftPlaces => held[r].spec.by = r
  /\ \A r \in Requests : pc[r] = "render" => specFile \in Specs

TypeInv == RecordFits /\ EvidenceFits /\ MemoryFits /\ PlacesFit

(* What may become an approved or exported report has been reviewed. *)
ReviewFits ==
  /\ IsReviewed(record) => record.spec \in reviewed
  /\ \A r \in Requests :
       \/ pc[r] = "write" /\ Op[r] = "approve"
       \/ pc[r] \in GatePlaces \cup {"delivered"}
       => held[r].spec \in reviewed

(* A text whose draft is under way, or has failed. *)
Unfinished(text) == text \in Specs /\ pc[text.by] \in DraftPlaces \cup {"failed"}

(* The report is the last draft, and a text that was rendered is the one   *)
(* in bulletin.md or that of a draft which has not written its record, as  *)
(* long as no draft ran beside another request.                            *)
Matches(rec) ==
  /\ rec.spec = drafted
  /\ rec.rendered => markdown = rec.spec \/ Unfinished(markdown)

Drafting == \E r \in Requests : Op[r] = "draft" /\ Active(r)

(* What a request works on at each place, when no draft runs beside it.    *)
WorkFits(place, rec, buf) ==
  /\ place = "render" => specFile = rec.spec
  /\ place = "markdown" => buf = rec.spec
  /\ place = "record" /\ rec.rendered => markdown = rec.spec
  /\ place \in {"write"} \cup GatePlaces => Matches(rec)
  /\ place \in {"save", "log"} /\ rec.rendered => buf = rec.spec \/ pc[buf.by] = "failed"

MatchFits ==
  /\ \A r \in Requests :
       pc[r] = "delivered" /\ buffer[r] # held[r].spec
         => ~held[r].rendered \/ overlapped \/ pc[buffer[r].by] = "failed"
  /\ ~overlapped =>
       /\ \A q, r \in Requests : q # r /\ Active(q) /\ Active(r) => Op[q] # "draft"
       /\ record # NoReport => Matches(record)
       /\ \A r \in Requests : WorkFits(pc[r], held[r], buffer[r])

(* What the gate has found so far against the reasons that have stood      *)
(* since the request began.                                                *)
GateFinds(place, rec, buf, bad, stands) ==
  /\ place \in {"chunks", "contradictions", "acks", "content", "save", "log", "delivered"}
     /\ ~bad =>
       /\ rec.spec.grounded
       /\ \A f \in rec.spec.uses : <<"finding", f>> \notin stands
  /\ place \in {"contradictions", "acks", "content", "save", "log", "delivered"} /\ ~bad =>
       \A f \in rec.spec.uses : <<"citation", f>> \notin stands
  /\ place = "acks" =>
       \A c \in Contradictions : <<"listed", c>> \in stands => c \in buf
  /\ place \in {"content", "save", "log", "delivered"} =>
       ~bad /\ \A c \in Contradictions : <<"listed", c>> \notin stands

GateFits ==
  /\ standing = [r \in Requests |-> standing[r]]
  /\ \A r \in Requests :
       /\ pc[r] \in GatePlaces => standing[r] \subseteq Reasons
       /\ GateFinds(pc[r], held[r], buffer[r], refused[r], standing[r])

IInv ==
  /\ TypeInv
  /\ ReviewFits
  /\ MatchFits
  /\ GateFits

-----------------------------------------------------------------------------
(* What a step of a request does to the requests.                          *)

Does(r, to, rec, buf, bad) ==
  /\ pc' = [pc EXCEPT ![r] = to]
  /\ held' = [held EXCEPT ![r] = rec]
  /\ buffer' = [buffer EXCEPT ![r] = buf]
  /\ refused' = [refused EXCEPT ![r] = bad]

Did(r, to, rec, buf, bad) ==
  \A q \in Requests :
    /\ pc'[q] = IF q = r THEN to ELSE pc[q]
    /\ held'[q] = IF q = r THEN rec ELSE held[q]
    /\ buffer'[q] = IF q = r THEN buf ELSE buffer[q]
    /\ refused'[q] = IF q = r THEN bad ELSE refused[q]

LEMMA DoesDid ==
  ASSUME MemoryFits, NEW r \in Requests, NEW to \in Places, NEW rec, NEW buf,
         NEW bad \in BOOLEAN, Does(r, to, rec, buf, bad)
  PROVE  MemoryFits' /\ Did(r, to, rec, buf, bad)
<1>1. pc' \in [Requests -> Places] /\ refused' \in [Requests -> BOOLEAN]
  BY DEF MemoryFits, Does
<1>2. held' = [q \in Requests |-> held'[q]] /\ buffer' = [q \in Requests |-> buffer'[q]]
  BY DEF MemoryFits, Does
<1>3. \A q \in Requests : pc'[q] = IF q = r THEN to ELSE pc[q]
  BY DEF MemoryFits, Does
<1>4. \A q \in Requests : held'[q] = IF q = r THEN rec ELSE held[q]
  BY DEF MemoryFits, Does
<1>5. \A q \in Requests : buffer'[q] = IF q = r THEN buf ELSE buffer[q]
  BY DEF MemoryFits, Does
<1>6. \A q \in Requests : refused'[q] = IF q = r THEN bad ELSE refused[q]
  BY Zenon DEF MemoryFits, Does
<1> QED BY <1>1, <1>2, <1>3, <1>4, <1>5, <1>6 DEF MemoryFits, Did

(* What the history remembers of such a step. *)
LEMMA Remembers ==
  ASSUME Remember, NEW r \in Requests, NEW to, NEW rec, NEW buf, NEW bad,
         Did(r, to, rec, buf, bad)
  PROVE  /\ reviewed \subseteq reviewed'
         /\ Op[r] = "approve" /\ pc[r] = "idle" /\ to = "write"
              /\ record.status = "in_review" => record.spec \in reviewed'
         /\ drafted' = IF pc[r] = "record" /\ to # "record" /\ record' = held[r]
                        THEN record'.spec ELSE drafted
         /\ ~overlapped' => ~overlapped
         /\ ~overlapped' =>
              \A p, q \in Requests : p # q /\ Active(p)' /\ Active(q)' => Op[p] # "draft"
<1>1. \A q \in Requests : pc[q] # pc'[q] => q = r /\ pc'[q] = to
  BY DEF Did
<1>2. pc'[r] = to
  BY DEF Did
<1>3. /\ reviewed \subseteq reviewed'
      /\ Op[r] = "approve" /\ pc[r] = "idle" /\ to = "write"
           /\ record.status = "in_review" => record.spec \in reviewed'
  BY <1>2 DEF Remember
<1>4. RecordWritten <=> pc[r] = "record" /\ to # "record" /\ record' = held[r]
  BY <1>1, <1>2 DEF RecordWritten
<1>5. drafted' = IF pc[r] = "record" /\ to # "record" /\ record' = held[r]
                 THEN record'.spec ELSE drafted
  BY <1>4 DEF Remember
<1>6. /\ ~overlapped' => ~overlapped
      /\ ~overlapped' =>
           \A p, q \in Requests : p # q /\ Active(p)' /\ Active(q)' => Op[p] # "draft"
  BY Zenon DEF Remember
<1> QED BY <1>3, <1>5, <1>6

(* A step that leaves the types of the files right. *)
LEMMA DidKeepsTypes ==
  ASSUME TypeInv, NEW r \in Requests, NEW to \in Places, NEW rec, NEW buf,
         NEW bad \in BOOLEAN, Does(r, to, rec, buf, bad), RequestStep,
         PlaceFits(Op[r], to, rec, buf),
         to \in DraftPlaces => rec.spec.by = r,
         record' \in Records \cup {NoReport},
         specFile' \in Specs \cup {NoSpec},
         specFile \in Specs => specFile' \in Specs,
         to = "render" => specFile' \in Specs,
         markdown' \in Specs \cup {NoSpec}
  PROVE  TypeInv' /\ Did(r, to, rec, buf, bad)
<1>1. MemoryFits' /\ Did(r, to, rec, buf, bad)
  BY DoesDid DEF TypeInv
<1>2. drafted' = drafted \/ (drafted' = held[r].spec /\ pc[r] = "record")
  BY <1>1, Remembers DEF RequestStep
<1>3. pc[r] = "record" => held[r].spec \in Specs
  BY DEF TypeInv, PlacesFit, PlaceFits, DraftPlaces, Records
<1>4. RecordFits'
  BY <1>2, <1>3 DEF TypeInv, RecordFits
<1>5. EvidenceFits'
  BY DEF TypeInv, EvidenceFits, RequestStep, evidence
<1>6. ASSUME NEW q \in Requests
      PROVE  PlaceFits(Op[q], pc'[q], held'[q], buffer'[q])
  <2>1. CASE q = r
    BY <1>1, <2>1 DEF Did
  <2>2. CASE q # r
    <3>1. pc'[q] = pc[q] /\ held'[q] = held[q] /\ buffer'[q] = buffer[q]
      BY <1>1, <2>2 DEF Did
    <3> QED BY <3>1 DEF TypeInv, PlacesFit
  <2> QED BY <2>1, <2>2
<1>7. \A q \in Requests : pc'[q] = "render" => specFile' \in Specs
  BY <1>1 DEF TypeInv, PlacesFit, Did
<1>8. \A q \in Requests : pc'[q] \in DraftPlaces => held'[q].spec.by = q
  BY <1>1 DEF TypeInv, PlacesFit, Did
<1> QED BY <1>1, <1>4, <1>5, <1>6, <1>7, <1>8 DEF TypeInv, PlacesFit, PlaceFits

-----------------------------------------------------------------------------
(* What each action does, and that the types stay right.                   *)

(* A request that keeps what it holds. *)
LEMMA Keeps ==
  ASSUME MemoryFits, NEW r \in Requests
  PROVE  /\ held = [held EXCEPT ![r] = held[r]]
         /\ buffer = [buffer EXCEPT ![r] = buffer[r]]
         /\ refused = [refused EXCEPT ![r] = refused[r]]
         /\ refused[r] \in BOOLEAN
<1>1. held = [held EXCEPT ![r] = held[r]] /\ buffer = [buffer EXCEPT ![r] = buffer[r]]
  BY DEF MemoryFits
<1>2. refused = [refused EXCEPT ![r] = refused[r]] /\ refused[r] \in BOOLEAN
  BY Zenon DEF MemoryFits
<1> QED BY <1>1, <1>2

(* What the request holds at its place. *)
LEMMA HoldsAtPlace ==
  ASSUME TypeInv, NEW r \in Requests
  PROVE  /\ PlaceFits(Op[r], pc[r], held[r], buffer[r])
         /\ pc[r] \in DraftPlaces => held[r].spec.by = r
  BY DEF TypeInv, PlacesFit

LEMMA RecordParts ==
  ASSUME NEW rec \in Records
  PROVE  /\ rec.status \in Statuses
         /\ rec.spec \in Specs
         /\ rec.rendered \in BOOLEAN
         /\ \A st \in Statuses : LET new == [rec EXCEPT !.status = st] IN
              /\ new \in Records /\ new.status = st /\ new.spec = rec.spec
              /\ new.rendered = rec.rendered
         /\ LET new == [rec EXCEPT !.rendered = TRUE] IN
              /\ new \in Records /\ new.rendered /\ new.spec = rec.spec
              /\ new.status = rec.status
  BY DEF Records

LEMMA DraftBeginsDoes ==
  ASSUME TypeInv, NEW r \in Requests, DraftBegins(r)
  PROVE  /\ TypeInv'
         /\ UNCHANGED files
         /\ pc[r] = "idle" /\ Op[r] = "draft"
         /\ \E rec \in Records :
              Did(r, "spec", rec, buffer[r], refused[r]) /\ ~rec.rendered
<1>1. PICK uses \in SUBSET Findings, grounded \in BOOLEAN :
        Hold(r, [status |-> "draft",
                 spec |-> [by |-> r, uses |-> uses, grounded |-> grounded],
                 rendered |-> FALSE])
  BY DEF DraftBegins
<1> DEFINE sp == [by |-> r, uses |-> uses, grounded |-> grounded]
           rec == [status |-> "draft", spec |-> sp, rendered |-> FALSE]
<1>2. sp \in Specs
  BY DEF Specs
<1>3. rec \in Records /\ rec.status = "draft" /\ ~rec.rendered /\ rec.spec.by = r
  BY <1>2 DEF Records, Statuses
<1>4. Hold(r, rec)
  BY <1>1
<1> HIDE DEF sp, rec
<1>5. Does(r, "spec", rec, buffer[r], refused[r]) /\ refused[r] \in BOOLEAN
  BY <1>4, Keeps DEF TypeInv, DraftBegins, Does, Hold, Goto
<1>6. pc[r] = "idle" /\ Op[r] = "draft"
  BY DEF DraftBegins, Starts
<1>7. PlaceFits(Op[r], "spec", rec, buffer[r]) /\ "spec" \in Places
  BY <1>3, <1>6 DEF PlaceFits, DraftPlaces, GatePlaces, Places
<1>8. UNCHANGED files /\ RequestStep
  BY DEF DraftBegins
<1>9. TypeInv' /\ Did(r, "spec", rec, buffer[r], refused[r])
  BY <1>3, <1>5, <1>6, <1>7, <1>8, DidKeepsTypes DEF files, TypeInv, RecordFits
<1> QED BY <1>3, <1>6, <1>8, <1>9

(* A request that is refused, or a gate read that only takes a step. *)
Leaves(r) ==
  \/ DraftRefused(r) \/ MoveRefused(r) \/ ExportRefused(r)

LEMMA LeavesDoes ==
  ASSUME TypeInv, NEW r \in Requests, Leaves(r)
  PROVE  /\ TypeInv'
         /\ UNCHANGED files
         /\ pc[r] = "idle"
         /\ Did(r, "refused", held[r], buffer[r], refused[r])
<1>1. pc[r] = "idle" /\ Goto(r, "refused") /\ UNCHANGED <<files, memory>> /\ RequestStep
  BY DEF Leaves, DraftRefused, MoveRefused, ExportRefused, Starts
<1>2. Does(r, "refused", held[r], buffer[r], refused[r]) /\ refused[r] \in BOOLEAN
  BY <1>1, Keeps DEF TypeInv, Does, Goto, memory
<1>3. PlaceFits(Op[r], "refused", held[r], buffer[r]) /\ "refused" \in Places
  BY HoldsAtPlace DEF PlaceFits, DraftPlaces, GatePlaces, Places, Ended
<1>4. TypeInv' /\ Did(r, "refused", held[r], buffer[r], refused[r])
  BY <1>1, <1>2, <1>3, DidKeepsTypes DEF files, TypeInv, RecordFits, DraftPlaces
<1> QED BY <1>1, <1>4

LEMMA WriteSpecDoes ==
  ASSUME TypeInv, NEW r \in Requests, WriteSpec(r)
  PROVE  /\ TypeInv'
         /\ specFile' = held[r].spec /\ UNCHANGED <<record, markdown>>
         /\ pc[r] = "spec"
         /\ Did(r, "render", held[r], buffer[r], refused[r])
<1>1. pc[r] = "spec" /\ Goto(r, "render") /\ specFile' = held[r].spec
      /\ UNCHANGED <<record, markdown, memory>> /\ RequestStep
  BY DEF WriteSpec
<1>2. Does(r, "render", held[r], buffer[r], refused[r]) /\ refused[r] \in BOOLEAN
  BY <1>1, Keeps DEF TypeInv, Does, Goto, memory
<1>3. PlaceFits(Op[r], "render", held[r], buffer[r]) /\ "render" \in Places
  BY <1>1, HoldsAtPlace DEF PlaceFits, DraftPlaces, GatePlaces, Places
<1>4. specFile' \in Specs
  BY <1>1, <1>3, RecordParts DEF PlaceFits, DraftPlaces
<1>5. held[r].spec.by = r
  BY <1>1, HoldsAtPlace DEF DraftPlaces
<1>6. TypeInv' /\ Did(r, "render", held[r], buffer[r], refused[r])
  BY <1>1, <1>2, <1>3, <1>4, <1>5, DidKeepsTypes DEF TypeInv, RecordFits
<1> QED BY <1>1, <1>6

LEMMA RenderReadsDoes ==
  ASSUME TypeInv, NEW r \in Requests, RenderReads(r)
  PROVE  /\ TypeInv'
         /\ UNCHANGED files
         /\ pc[r] = "render"
         /\ Did(r, "markdown", held[r], specFile, refused[r])
<1>1. pc[r] = "render" /\ Goto(r, "markdown") /\ Buffer(r, specFile)
      /\ UNCHANGED <<files, held, refused>> /\ RequestStep
  BY DEF RenderReads
<1>2. Does(r, "markdown", held[r], specFile, refused[r]) /\ refused[r] \in BOOLEAN
  BY <1>1, Keeps DEF TypeInv, Does, Goto, Buffer
<1>3. specFile \in Specs
  BY <1>1 DEF TypeInv, PlacesFit
<1>4. PlaceFits(Op[r], "markdown", held[r], specFile) /\ "markdown" \in Places
  BY <1>1, <1>3, HoldsAtPlace DEF PlaceFits, DraftPlaces, GatePlaces, Places
<1>5. held[r].spec.by = r
  BY <1>1, HoldsAtPlace DEF DraftPlaces
<1>6. TypeInv' /\ Did(r, "markdown", held[r], specFile, refused[r])
  BY <1>1, <1>2, <1>4, <1>5, DidKeepsTypes DEF files, TypeInv, RecordFits
<1> QED BY <1>1, <1>6

LEMMA RenderWritesDoes ==
  ASSUME TypeInv, NEW r \in Requests, RenderWrites(r)
  PROVE  /\ TypeInv'
         /\ markdown' = buffer[r] /\ UNCHANGED <<record, specFile>>
         /\ pc[r] = "markdown" /\ held[r] \in Records /\ buffer[r] \in Specs
         /\ Did(r, "record", [held[r] EXCEPT !.rendered = TRUE], NoSpec, refused[r])
<1> DEFINE rec == [held[r] EXCEPT !.rendered = TRUE]
<1>1. pc[r] = "markdown" /\ Goto(r, "record") /\ Hold(r, rec) /\ Buffer(r, NoSpec)
      /\ markdown' = buffer[r] /\ UNCHANGED <<record, specFile, refused>> /\ RequestStep
  BY DEF RenderWrites
<1>2. Does(r, "record", rec, NoSpec, refused[r]) /\ refused[r] \in BOOLEAN
  BY <1>1, Keeps DEF TypeInv, Does, Goto, Buffer, Hold
<1>3. PlaceFits(Op[r], "markdown", held[r], buffer[r])
  BY <1>1, HoldsAtPlace
<1>4. held[r] \in Records /\ buffer[r] \in Specs /\ held[r].status = "draft" /\ Op[r] = "draft"
  BY <1>3 DEF PlaceFits, DraftPlaces
<1>5. rec \in Records /\ rec.status = "draft" /\ rec.spec.by = r
  <2>1. held[r].spec.by = r
    BY <1>1, HoldsAtPlace DEF DraftPlaces
  <2> QED BY <1>4, <2>1, RecordParts
<1> HIDE DEF rec
<1>6. PlaceFits(Op[r], "record", rec, NoSpec) /\ "record" \in Places
  BY <1>4, <1>5 DEF PlaceFits, DraftPlaces, GatePlaces, Places
<1>7. TypeInv' /\ Did(r, "record", rec, NoSpec, refused[r])
  BY <1>1, <1>2, <1>4, <1>5, <1>6, DidKeepsTypes DEF TypeInv, RecordFits
<1> QED BY <1>1, <1>4, <1>7 DEF rec

LEMMA RenderFailsDoes ==
  ASSUME TypeInv, NEW r \in Requests, RenderFails(r)
  PROVE  /\ TypeInv'
         /\ UNCHANGED <<record, specFile>> /\ markdown' \in {markdown, buffer[r]}
         /\ "render" \in Faults
         /\ pc[r] = "markdown" /\ ~held[r].rendered /\ buffer[r] \in Specs
         /\ Did(r, "record", held[r], NoSpec, refused[r])
<1>1. pc[r] = "markdown" /\ Goto(r, "record") /\ Buffer(r, NoSpec) /\ "render" \in Faults
      /\ markdown' \in {markdown, buffer[r]}
      /\ UNCHANGED <<record, specFile, held, refused>> /\ RequestStep
  BY DEF RenderFails
<1>2. Does(r, "record", held[r], NoSpec, refused[r]) /\ refused[r] \in BOOLEAN
  BY <1>1, Keeps DEF TypeInv, Does, Goto, Buffer
<1>3. PlaceFits(Op[r], "markdown", held[r], buffer[r])
  BY <1>1, HoldsAtPlace
<1>4. buffer[r] \in Specs /\ ~held[r].rendered
  BY <1>3 DEF PlaceFits
<1>5. PlaceFits(Op[r], "record", held[r], NoSpec) /\ "record" \in Places
  BY <1>3 DEF PlaceFits, DraftPlaces, GatePlaces, Places
<1>6. held[r].spec.by = r
  BY <1>1, HoldsAtPlace DEF DraftPlaces
<1>7. TypeInv' /\ Did(r, "record", held[r], NoSpec, refused[r])
  BY <1>1, <1>2, <1>4, <1>5, <1>6, DidKeepsTypes DEF TypeInv, RecordFits
<1> QED BY <1>1, <1>4, <1>7

LEMMA DraftEndsDoes ==
  ASSUME TypeInv, NEW r \in Requests, DraftEnds(r)
  PROVE  /\ TypeInv'
         /\ record' = held[r] /\ UNCHANGED <<specFile, markdown>>
         /\ pc[r] = "record" /\ Op[r] = "draft"
         /\ held[r] \in Records /\ held[r].status = "draft"
         /\ \E to \in {"done", "failed"} : Did(r, to, NoReport, buffer[r], refused[r])
<1>1. pc[r] = "record" /\ Answered(r) /\ Hold(r, NoReport) /\ record' = held[r]
      /\ UNCHANGED <<specFile, markdown, buffer, refused>> /\ RequestStep
  BY DEF DraftEnds
<1>0. PICK to \in {"done", "failed"} : Goto(r, to)
  BY <1>1 DEF Answered
<1>2. Does(r, to, NoReport, buffer[r], refused[r]) /\ refused[r] \in BOOLEAN
  BY <1>0, <1>1, Keeps DEF TypeInv, Does, Goto, Hold
<1>3. PlaceFits(Op[r], "record", held[r], buffer[r])
  BY <1>1, HoldsAtPlace
<1>4. held[r] \in Records /\ held[r].status = "draft" /\ Op[r] = "draft"
  BY <1>3 DEF PlaceFits, DraftPlaces
<1>5. PlaceFits(Op[r], to, NoReport, buffer[r]) /\ to \in Places \ DraftPlaces
  BY DEF PlaceFits, DraftPlaces, GatePlaces, Places, Ended
<1>6. TypeInv' /\ Did(r, to, NoReport, buffer[r], refused[r])
  BY <1>1, <1>2, <1>4, <1>5, DidKeepsTypes DEF TypeInv, RecordFits, DraftPlaces
<1> QED BY <1>1, <1>4, <1>6

LEMMA ReadForMoveDoes ==
  ASSUME TypeInv, NEW r \in Requests, ReadForMove(r)
  PROVE  /\ TypeInv'
         /\ UNCHANGED files
         /\ pc[r] = "idle" /\ Op[r] \in {"submit", "approve"}
         /\ record \in Records /\ record.status = RequiredStatus(Op[r])
         /\ Did(r, "write", record, buffer[r], refused[r])
<1>1. /\ pc[r] = "idle" /\ Op[r] \in {"submit", "approve"} /\ MayMove(r, Op[r])
      /\ Hold(r, record) /\ Goto(r, "write")
      /\ UNCHANGED <<files, buffer, refused>> /\ RequestStep
  BY DEF ReadForMove, Starts
<1>2. record \in Records /\ record.status = RequiredStatus(Op[r])
  BY <1>1 DEF MayMove, TypeInv, RecordFits
<1>3. Does(r, "write", record, buffer[r], refused[r]) /\ refused[r] \in BOOLEAN
  BY <1>1, Keeps DEF TypeInv, Does, Goto, Hold
<1>4. PlaceFits(Op[r], "write", record, buffer[r]) /\ "write" \in Places
  BY <1>1, <1>2 DEF PlaceFits, DraftPlaces, GatePlaces, Places
<1>5. TypeInv' /\ Did(r, "write", record, buffer[r], refused[r])
  BY <1>1, <1>3, <1>4, DidKeepsTypes DEF files, TypeInv, RecordFits, DraftPlaces
<1> QED BY <1>1, <1>2, <1>5

LEMMA WriteMoveDoes ==
  ASSUME TypeInv, NEW r \in Requests, WriteMove(r)
  PROVE  /\ TypeInv'
         /\ UNCHANGED <<specFile, markdown>>
         /\ pc[r] = "write" /\ Op[r] \in {"submit", "approve"}
         /\ held[r] \in Records /\ held[r].status = RequiredStatus(Op[r])
         /\ record' = [held[r] EXCEPT !.status = StatusAfter(Op[r])]
         /\ record' \in Records
         /\ record'.status = StatusAfter(Op[r])
         /\ record'.spec = held[r].spec /\ record'.rendered = held[r].rendered
         /\ \E to \in {"done", "failed"} : Did(r, to, NoReport, buffer[r], refused[r])
<1>1. pc[r] = "write" /\ Answered(r) /\ Hold(r, NoReport)
      /\ record' = [held[r] EXCEPT !.status = StatusAfter(Op[r])]
      /\ UNCHANGED <<specFile, markdown, buffer, refused>> /\ RequestStep
  BY DEF WriteMove
<1>2. PlaceFits(Op[r], "write", held[r], buffer[r])
  BY <1>1, HoldsAtPlace
<1>3. held[r] \in Records /\ held[r].status = RequiredStatus(Op[r])
      /\ Op[r] \in {"submit", "approve"}
  BY <1>2 DEF PlaceFits
<1>4. StatusAfter(Op[r]) \in Statuses
  BY DEF StatusAfter, Statuses
<1>5. /\ record' \in Records /\ record'.status = StatusAfter(Op[r])
      /\ record'.spec = held[r].spec /\ record'.rendered = held[r].rendered
  <2> DEFINE st == StatusAfter(Op[r])
  <2> HIDE DEF st
  <2>1. st \in Statuses /\ record' = [held[r] EXCEPT !.status = st]
    BY <1>1, <1>4 DEF st
  <2>2. /\ record' \in Records /\ record'.status = st
        /\ record'.spec = held[r].spec /\ record'.rendered = held[r].rendered
    BY <1>3, <2>1 DEF Records
  <2> QED BY <2>2 DEF st
<1>0. PICK to \in {"done", "failed"} : Goto(r, to)
  BY <1>1 DEF Answered
<1>6. Does(r, to, NoReport, buffer[r], refused[r]) /\ refused[r] \in BOOLEAN
  BY <1>0, <1>1, Keeps DEF TypeInv, Does, Goto, Hold
<1>7. PlaceFits(Op[r], to, NoReport, buffer[r]) /\ to \in Places \ DraftPlaces
  BY DEF PlaceFits, DraftPlaces, GatePlaces, Places, Ended
<1>8. TypeInv' /\ Did(r, to, NoReport, buffer[r], refused[r])
  BY <1>1, <1>5, <1>6, <1>7, DidKeepsTypes DEF TypeInv, RecordFits, DraftPlaces
<1> QED BY <1>1, <1>3, <1>5, <1>8

LEMMA ExportBeginsDoes ==
  ASSUME TypeInv, NEW r \in Requests, ExportBegins(r)
  PROVE  /\ TypeInv'
         /\ UNCHANGED files
         /\ pc[r] = "idle" /\ Op[r] = "export"
         /\ record \in Records /\ IsReviewed(record)
         /\ Did(r, "findings", record, buffer[r], refused[r])
<1>1. /\ pc[r] = "idle" /\ Op[r] = "export" /\ IsReviewed(record)
      /\ Hold(r, record) /\ Goto(r, "findings")
      /\ UNCHANGED <<files, buffer, refused>> /\ RequestStep
  BY DEF ExportBegins, Starts
<1>2. record \in Records /\ record.status \in {"approved", "exported"}
  BY <1>1 DEF IsReviewed, TypeInv, RecordFits
<1>3. Does(r, "findings", record, buffer[r], refused[r]) /\ refused[r] \in BOOLEAN
  BY <1>1, Keeps DEF TypeInv, Does, Goto, Hold
<1>4. PlaceFits(Op[r], "findings", record, buffer[r]) /\ "findings" \in Places
  BY <1>1, <1>2 DEF PlaceFits, DraftPlaces, GatePlaces, Places
<1>5. TypeInv' /\ Did(r, "findings", record, buffer[r], refused[r])
  BY <1>1, <1>3, <1>4, DidKeepsTypes DEF files, TypeInv, RecordFits, DraftPlaces
<1> QED BY <1>1, <1>2, <1>5

(* A read of the gate that keeps the record. *)
LEMMA GateGoesOn ==
  ASSUME TypeInv, NEW r \in Requests, pc[r] \in GatePlaces,
         NEW to \in GatePlaces \cup {"delivered"}, NEW buf, NEW bad \in BOOLEAN,
         Does(r, to, held[r], buf, bad), RequestStep,
         to \in {"save", "log", "delivered"} => buf \in Specs,
         to = "acks" => buf \subseteq Contradictions,
         UNCHANGED <<specFile, markdown>>, record' \in Records \cup {NoReport}
  PROVE  TypeInv' /\ Did(r, to, held[r], buf, bad)
<1>1. PlaceFits(Op[r], pc[r], held[r], buffer[r])
  BY HoldsAtPlace
<1>2. to \in Places \ DraftPlaces /\ to # "render"
  BY DEF Places, GatePlaces, Ended, DraftPlaces
<1>3. PlaceFits(Op[r], to, held[r], buf)
  BY <1>1 DEF PlaceFits, DraftPlaces, GatePlaces
<1> QED BY <1>2, <1>3, DidKeepsTypes DEF TypeInv, RecordFits

LEMMA GateReadsFindingsDoes ==
  ASSUME TypeInv, NEW r \in Requests, GateReadsFindings(r)
  PROVE  /\ TypeInv'
         /\ UNCHANGED files
         /\ pc[r] = "findings"
         /\ \E bad \in BOOLEAN :
              /\ bad <=> refused[r] \/ FindingsBlock(held[r].spec)
              /\ Did(r, "chunks", held[r], buffer[r], bad)
<1>1. pc[r] = "findings" /\ Goto(r, "chunks") /\ UNCHANGED <<files, held, buffer>> /\ RequestStep
  BY DEF GateReadsFindings
<1>2. PICK bad \in BOOLEAN :
        /\ bad <=> refused[r] \/ FindingsBlock(held[r].spec)
        /\ refused' = [refused EXCEPT ![r] = bad]
  <2> DEFINE it == refused[r] \/ FindingsBlock(held[r].spec)
  <2>1. it \in BOOLEAN
    BY Zenon
  <2>2. refused' = [refused EXCEPT ![r] = it]
    BY Zenon DEF GateReadsFindings, Refuse
  <2> QED BY <2>1, <2>2, Zenon
<1>3. Does(r, "chunks", held[r], buffer[r], bad)
  BY <1>1, <1>2, Keeps DEF TypeInv, Does, Goto
<1>4. TypeInv' /\ Did(r, "chunks", held[r], buffer[r], bad)
  BY <1>1, <1>3, GateGoesOn DEF GatePlaces, files, TypeInv, RecordFits
<1> QED BY <1>1, <1>2, <1>4

LEMMA GateReadsChunksDoes ==
  ASSUME TypeInv, NEW r \in Requests, GateReadsChunks(r)
  PROVE  /\ TypeInv'
         /\ UNCHANGED files
         /\ pc[r] = "chunks"
         /\ \E bad \in BOOLEAN :
              /\ bad <=> refused[r] \/ ~(held[r].spec.uses \subseteq cited)
              /\ Did(r, "contradictions", held[r], buffer[r], bad)
<1>1. pc[r] = "chunks" /\ Goto(r, "contradictions") /\ UNCHANGED <<files, held, buffer>> /\ RequestStep
  BY DEF GateReadsChunks
<1>2. PICK bad \in BOOLEAN :
        /\ bad <=> refused[r] \/ ~(held[r].spec.uses \subseteq cited)
        /\ refused' = [refused EXCEPT ![r] = bad]
  <2> DEFINE it == refused[r] \/ ~(held[r].spec.uses \subseteq cited)
  <2>1. it \in BOOLEAN
    BY Zenon
  <2>2. refused' = [refused EXCEPT ![r] = it]
    BY Zenon DEF GateReadsChunks, Refuse
  <2> QED BY <2>1, <2>2, Zenon
<1>3. Does(r, "contradictions", held[r], buffer[r], bad)
  BY <1>1, <1>2, Keeps DEF TypeInv, Does, Goto
<1>4. TypeInv' /\ Did(r, "contradictions", held[r], buffer[r], bad)
  BY <1>1, <1>3, GateGoesOn DEF GatePlaces, files, TypeInv, RecordFits
<1> QED BY <1>1, <1>2, <1>4

LEMMA GateReadsContradictionsDoes ==
  ASSUME TypeInv, NEW r \in Requests, GateReadsContradictions(r)
  PROVE  /\ TypeInv'
         /\ UNCHANGED files
         /\ pc[r] = "contradictions"
         /\ Did(r, "acks", held[r], listed, refused[r])
<1>1. pc[r] = "contradictions" /\ Goto(r, "acks") /\ Buffer(r, listed)
      /\ UNCHANGED <<files, held, refused>> /\ RequestStep
  BY DEF GateReadsContradictions
<1>2. Does(r, "acks", held[r], listed, refused[r]) /\ refused[r] \in BOOLEAN
  BY <1>1, Keeps DEF TypeInv, Does, Goto, Buffer
<1>3. listed \subseteq Contradictions
  BY DEF TypeInv, EvidenceFits
<1>4. TypeInv' /\ Did(r, "acks", held[r], listed, refused[r])
  BY <1>1, <1>2, <1>3, GateGoesOn DEF GatePlaces, files, TypeInv, RecordFits
<1> QED BY <1>1, <1>4

LEMMA GateReadsAcksDoes ==
  ASSUME TypeInv, NEW r \in Requests, GateReadsAcks(r)
  PROVE  /\ TypeInv'
         /\ UNCHANGED files
         /\ pc[r] = "acks"
         /\ \/ Did(r, "refused", NoReport, NoSpec, FALSE)
            \/ /\ ~refused[r] /\ buffer[r] \subseteq closed
               /\ Did(r, "content", held[r], NoSpec, refused[r])
<1>1. pc[r] = "acks" /\ Buffer(r, NoSpec) /\ UNCHANGED files /\ RequestStep
  BY DEF GateReadsAcks
<1>2. CASE refused[r] \/ ~(buffer[r] \subseteq closed)
  <2>1. Does(r, "refused", NoReport, NoSpec, FALSE)
    BY <1>1, <1>2, Zenon DEF GateReadsAcks, Does, Goto, Hold, Buffer
  <2>2. PlaceFits(Op[r], "refused", NoReport, NoSpec) /\ "refused" \in Places
    BY DEF PlaceFits, DraftPlaces, GatePlaces, Places, Ended
  <2>3. FALSE \in BOOLEAN
    OBVIOUS
  <2>4. TypeInv' /\ Did(r, "refused", NoReport, NoSpec, FALSE)
    BY <1>1, <2>1, <2>2, <2>3, DidKeepsTypes DEF files, TypeInv, RecordFits, DraftPlaces
  <2> QED BY <1>1, <2>4
<1>3. CASE ~refused[r] /\ buffer[r] \subseteq closed
  <2>1. Goto(r, "content") /\ UNCHANGED <<held, refused>>
    BY <1>3, Zenon DEF GateReadsAcks
  <2>2. Does(r, "content", held[r], NoSpec, refused[r]) /\ refused[r] \in BOOLEAN
    BY <1>1, <2>1, Keeps DEF TypeInv, Does, Goto, Buffer
  <2>3. TypeInv' /\ Did(r, "content", held[r], NoSpec, refused[r])
    BY <1>1, <2>2, GateGoesOn DEF GatePlaces, files, TypeInv, RecordFits
  <2> QED BY <1>1, <1>3, <2>3
<1> QED BY <1>2, <1>3

LEMMA ReadContentDoes ==
  ASSUME TypeInv, NEW r \in Requests, ReadContent(r)
  PROVE  /\ TypeInv'
         /\ UNCHANGED files
         /\ pc[r] = "content" /\ markdown \in Specs
         /\ Did(r, "save", held[r], markdown, refused[r])
<1>1. pc[r] = "content" /\ Goto(r, "save") /\ Buffer(r, markdown) /\ markdown # NoSpec
      /\ UNCHANGED <<files, held, refused>> /\ RequestStep
  BY DEF ReadContent
<1>2. Does(r, "save", held[r], markdown, refused[r]) /\ refused[r] \in BOOLEAN
  BY <1>1, Keeps DEF TypeInv, Does, Goto, Buffer
<1>3. markdown \in Specs
  BY <1>1 DEF TypeInv, RecordFits
<1>4. TypeInv' /\ Did(r, "save", held[r], markdown, refused[r])
  BY <1>1, <1>2, <1>3, GateGoesOn DEF GatePlaces, files, TypeInv, RecordFits
<1> QED BY <1>1, <1>3, <1>4

LEMMA NoContentDoes ==
  ASSUME TypeInv, NEW r \in Requests, NoContent(r)
  PROVE  /\ TypeInv'
         /\ UNCHANGED files
         /\ pc[r] = "content"
         /\ Did(r, "failed", NoReport, buffer[r], refused[r])
<1>1. pc[r] = "content" /\ Goto(r, "failed") /\ Hold(r, NoReport)
      /\ UNCHANGED <<files, buffer, refused>> /\ RequestStep
  BY DEF NoContent
<1>2. Does(r, "failed", NoReport, buffer[r], refused[r]) /\ refused[r] \in BOOLEAN
  BY <1>1, Keeps DEF TypeInv, Does, Goto, Hold
<1>3. PlaceFits(Op[r], "failed", NoReport, buffer[r]) /\ "failed" \in Places
  BY DEF PlaceFits, DraftPlaces, GatePlaces, Places, Ended
<1>4. TypeInv' /\ Did(r, "failed", NoReport, buffer[r], refused[r])
  BY <1>1, <1>2, <1>3, DidKeepsTypes DEF files, TypeInv, RecordFits, DraftPlaces
<1> QED BY <1>1, <1>4

(* A request that throws forgets what it held, and leaves the files.       *)
LEMMA AbandonDoes ==
  ASSUME TypeInv, NEW r \in Requests, Abandon(r)
  PROVE  /\ TypeInv'
         /\ UNCHANGED files /\ RequestStep
         /\ Did(r, "failed", NoReport, NoSpec, FALSE)
<1>1. UNCHANGED files /\ RequestStep
  BY DEF Abandon
<1>2. Does(r, "failed", NoReport, NoSpec, FALSE)
  BY Zenon DEF Abandon, Does, Goto, Hold, Buffer
<1>3. PlaceFits(Op[r], "failed", NoReport, NoSpec) /\ "failed" \in Places
  BY DEF PlaceFits, DraftPlaces, GatePlaces, Places, Ended
<1>4. FALSE \in BOOLEAN
  OBVIOUS
<1>5. TypeInv' /\ Did(r, "failed", NoReport, NoSpec, FALSE)
  BY <1>1, <1>2, <1>3, <1>4, DidKeepsTypes DEF files, TypeInv, RecordFits, DraftPlaces
<1> QED BY <1>1, <1>5

LEMMA SaveExportDoes ==
  ASSUME TypeInv, NEW r \in Requests, SaveExport(r)
  PROVE  /\ TypeInv'
         /\ UNCHANGED <<specFile, markdown>>
         /\ pc[r] = "save" /\ held[r] \in Records
         /\ held[r].status \in {"approved", "exported"} /\ buffer[r] \in Specs
         /\ \/ held[r].status # "approved" /\ record' = record
            \/ /\ held[r].status = "approved"
               /\ record' = [held[r] EXCEPT !.status = "exported"]
               /\ record' \in Records /\ record'.status = "exported"
               /\ record'.spec = held[r].spec /\ record'.rendered = held[r].rendered
         /\ Did(r, "log", held[r], buffer[r], refused[r])
<1>1. pc[r] = "save" /\ Goto(r, "log") /\ UNCHANGED <<specFile, markdown, memory>>
      /\ RequestStep
      /\ record' = IF held[r].status = "approved"
                   THEN [held[r] EXCEPT !.status = "exported"]
                   ELSE record
  BY DEF SaveExport
<1>2. PlaceFits(Op[r], "save", held[r], buffer[r])
  BY <1>1, HoldsAtPlace
<1>3. /\ held[r] \in Records /\ held[r].status \in {"approved", "exported"}
      /\ buffer[r] \in Specs
  BY <1>2 DEF PlaceFits, GatePlaces
<1>4. \/ held[r].status # "approved" /\ record' = record
      \/ /\ held[r].status = "approved"
         /\ record' = [held[r] EXCEPT !.status = "exported"]
         /\ record' \in Records /\ record'.status = "exported"
         /\ record'.spec = held[r].spec /\ record'.rendered = held[r].rendered
  BY <1>1, <1>3 DEF Records, Statuses
<1>5. Does(r, "log", held[r], buffer[r], refused[r]) /\ refused[r] \in BOOLEAN
  BY <1>1, Keeps DEF TypeInv, Does, Goto, memory
<1>6. TypeInv' /\ Did(r, "log", held[r], buffer[r], refused[r])
  BY <1>1, <1>3, <1>4, <1>5, GateGoesOn DEF GatePlaces, TypeInv, RecordFits
<1> QED BY <1>1, <1>3, <1>4, <1>6

LEMMA DeliverDoes ==
  ASSUME TypeInv, NEW r \in Requests, Deliver(r)
  PROVE  /\ TypeInv'
         /\ UNCHANGED files
         /\ pc[r] = "log" /\ held[r] \in Records /\ buffer[r] \in Specs
         /\ Did(r, "delivered", held[r], buffer[r], refused[r])
<1>1. pc[r] = "log" /\ Goto(r, "delivered") /\ UNCHANGED <<files, memory>> /\ RequestStep
  BY DEF Deliver
<1>2. PlaceFits(Op[r], "log", held[r], buffer[r])
  BY <1>1, HoldsAtPlace
<1>3. held[r] \in Records /\ buffer[r] \in Specs
  BY <1>2 DEF PlaceFits, GatePlaces
<1>4. Does(r, "delivered", held[r], buffer[r], refused[r]) /\ refused[r] \in BOOLEAN
  BY <1>1, Keeps DEF TypeInv, Does, Goto, memory
<1>5. TypeInv' /\ Did(r, "delivered", held[r], buffer[r], refused[r])
  BY <1>1, <1>3, <1>4, GateGoesOn DEF GatePlaces, files, TypeInv, RecordFits
<1> QED BY <1>1, <1>3, <1>5

-----------------------------------------------------------------------------
(* The review: what each action does to it.                                *)

Reviewing(op, place) ==
  (place = "write" /\ op = "approve") \/ place \in GatePlaces \cup {"delivered"}

LEMMA ReviewKeeps ==
  ASSUME ReviewFits, NEW r \in Requests, NEW to, NEW rec, NEW buf, NEW bad,
         Did(r, to, rec, buf, bad), RequestStep,
         Reviewing(Op[r], to) => rec.spec \in reviewed',
         IsReviewed(record') => record' = record \/ record'.spec \in reviewed'
  PROVE  ReviewFits'
<1>1. reviewed \subseteq reviewed'
  BY Remembers DEF RequestStep
<1>2. IsReviewed(record') => record'.spec \in reviewed'
  BY <1>1 DEF ReviewFits
<1>3. ASSUME NEW q \in Requests, Reviewing(Op[q], pc'[q])
      PROVE  held'[q].spec \in reviewed'
  <2>1. CASE q = r
    BY <1>3, <2>1 DEF Did
  <2>2. CASE q # r
    <3>1. pc'[q] = pc[q] /\ held'[q] = held[q]
      BY <2>2 DEF Did
    <3> QED BY <1>1, <1>3, <3>1 DEF ReviewFits, Reviewing
  <2> QED BY <2>1, <2>2
<1> QED BY <1>2, <1>3 DEF ReviewFits, Reviewing, IsReviewed

LEMMA HeldReviewed ==
  ASSUME ReviewFits, NEW r \in Requests, Remember, Reviewing(Op[r], pc[r])
  PROVE  held[r].spec \in reviewed'
  BY DEF ReviewFits, Reviewing, Remember

LEMMA DraftKeepsReview ==
  ASSUME IInv, NEW r \in Requests, DraftStep(r)
  PROVE  ReviewFits'
<1>1. RequestStep /\ TypeInv /\ ReviewFits
  BY DEF IInv, DraftStep, DraftBegins, DraftRefused, WriteSpec, RenderReads,
         RenderWrites, RenderFails, DraftEnds
<1>2. \A to \in DraftPlaces \cup (Ended \ {"delivered"}) : ~Reviewing(Op[r], to)
  BY DEF Reviewing, DraftPlaces, GatePlaces, Ended
<1>3. {"spec", "render", "markdown", "record"} = DraftPlaces
      /\ {"refused", "done", "failed"} \subseteq Ended \ {"delivered"}
  BY DEF DraftPlaces, Ended
<1>4. CASE DraftBegins(r)
  BY <1>1, <1>2, <1>3, <1>4, DraftBeginsDoes, ReviewKeeps DEF files
<1>5. CASE DraftRefused(r)
  BY <1>1, <1>2, <1>3, <1>5, LeavesDoes, ReviewKeeps DEF files, Leaves
<1>6. CASE WriteSpec(r)
  BY <1>1, <1>2, <1>3, <1>6, WriteSpecDoes, ReviewKeeps
<1>7. CASE RenderReads(r)
  BY <1>1, <1>2, <1>3, <1>7, RenderReadsDoes, ReviewKeeps DEF files
<1>8. CASE RenderWrites(r)
  BY <1>1, <1>2, <1>3, <1>8, RenderWritesDoes, ReviewKeeps
<1>9. CASE RenderFails(r)
  BY <1>1, <1>2, <1>3, <1>9, RenderFailsDoes, ReviewKeeps
<1>10. CASE DraftEnds(r)
  <2>1. ~IsReviewed(record')
    BY <1>1, <1>10, DraftEndsDoes DEF IsReviewed
  <2>2. PICK to \in {"done", "failed"} : Did(r, to, NoReport, buffer[r], refused[r])
    BY <1>1, <1>10, DraftEndsDoes
  <2> QED BY <1>1, <1>2, <1>3, <2>1, <2>2, ReviewKeeps
<1> QED BY <1>4, <1>5, <1>6, <1>7, <1>8, <1>9, <1>10 DEF DraftStep

LEMMA MoveKeepsReview ==
  ASSUME IInv, NEW r \in Requests, MoveStep(r)
  PROVE  ReviewFits'
<1>1. RequestStep /\ Remember /\ TypeInv /\ ReviewFits
  BY DEF IInv, MoveStep, ReadForMove, MoveRefused, WriteMove, RequestStep
<1>2. CASE ReadForMove(r)
  <2>1. /\ UNCHANGED files
        /\ pc[r] = "idle" /\ record.status = RequiredStatus(Op[r])
        /\ Did(r, "write", record, buffer[r], refused[r])
    BY <1>1, <1>2, ReadForMoveDoes
  <2>2. Op[r] = "approve" => record.spec \in reviewed'
    BY <1>1, <2>1, Remembers DEF RequiredStatus
  <2>3. Reviewing(Op[r], "write") => record.spec \in reviewed'
    BY <2>2 DEF Reviewing, GatePlaces
  <2> QED BY <1>1, <2>1, <2>3, ReviewKeeps DEF files
<1>3. CASE MoveRefused(r)
  <2>1. ~Reviewing(Op[r], "refused")
    BY DEF Reviewing, GatePlaces
  <2> QED BY <1>1, <1>3, <2>1, LeavesDoes, ReviewKeeps DEF files, Leaves
<1>4. CASE WriteMove(r)
  <2>1. /\ pc[r] = "write" /\ Op[r] \in {"submit", "approve"}
        /\ record'.status = StatusAfter(Op[r]) /\ record'.spec = held[r].spec
    BY <1>1, <1>4, WriteMoveDoes
  <2>0. PICK to \in {"done", "failed"} : Did(r, to, NoReport, buffer[r], refused[r])
    BY <1>1, <1>4, WriteMoveDoes
  <2>2. Op[r] = "approve" => held[r].spec \in reviewed'
    BY <1>1, <2>1, HeldReviewed DEF Reviewing
  <2>3. IsReviewed(record') => record'.spec \in reviewed'
    BY <2>1, <2>2 DEF IsReviewed, StatusAfter
  <2>4. ~Reviewing(Op[r], to)
    BY DEF Reviewing, GatePlaces
  <2> QED BY <1>1, <2>0, <2>1, <2>3, <2>4, ReviewKeeps
<1> QED BY <1>2, <1>3, <1>4 DEF MoveStep

LEMMA AbandonKeepsReview ==
  ASSUME TypeInv, ReviewFits, NEW r \in Requests, Abandon(r)
  PROVE  ReviewFits'
<1>1. UNCHANGED files /\ RequestStep /\ Did(r, "failed", NoReport, NoSpec, FALSE)
  BY AbandonDoes
<1>2. ~Reviewing(Op[r], "failed")
  BY DEF Reviewing, GatePlaces
<1> QED BY <1>1, <1>2, ReviewKeeps DEF files

LEMMA ExportKeepsReview ==
  ASSUME IInv, NEW r \in Requests, ExportStep(r)
  PROVE  ReviewFits'
<1>1. RequestStep /\ Remember /\ TypeInv /\ ReviewFits
  BY DEF IInv, ExportStep, ExportBegins, ExportRefused, GateReadsFindings,
         GateReadsChunks, GateReadsContradictions, GateReadsAcks, ReadContent,
         NoContent, SaveExport, Deliver, ExportAuditFails, Abandon, RequestStep
<1>2. pc[r] \in GatePlaces => held[r].spec \in reviewed'
  BY <1>1, HeldReviewed DEF Reviewing
<1>3. ~Reviewing(Op[r], "refused") /\ ~Reviewing(Op[r], "failed")
  BY DEF Reviewing, GatePlaces
<1>4. CASE ExportBegins(r)
  <2>1. UNCHANGED files /\ IsReviewed(record)
        /\ Did(r, "findings", record, buffer[r], refused[r])
    BY <1>1, <1>4, ExportBeginsDoes
  <2>2. record.spec \in reviewed'
    BY <1>1, <2>1 DEF ReviewFits, Remember
  <2> QED BY <1>1, <2>1, <2>2, ReviewKeeps DEF files
<1>5. CASE ExportRefused(r)
  BY <1>1, <1>3, <1>5, LeavesDoes, ReviewKeeps DEF files, Leaves
<1>6. CASE GateReadsFindings(r)
  BY <1>1, <1>2, <1>6, GateReadsFindingsDoes, ReviewKeeps DEF files, GatePlaces
<1>7. CASE GateReadsChunks(r)
  BY <1>1, <1>2, <1>7, GateReadsChunksDoes, ReviewKeeps DEF files, GatePlaces
<1>8. CASE GateReadsContradictions(r)
  BY <1>1, <1>2, <1>8, GateReadsContradictionsDoes, ReviewKeeps DEF files, GatePlaces
<1>9. CASE GateReadsAcks(r)
  BY <1>1, <1>2, <1>3, <1>9, GateReadsAcksDoes, ReviewKeeps DEF files, GatePlaces
<1>10. CASE ReadContent(r)
  BY <1>1, <1>2, <1>10, ReadContentDoes, ReviewKeeps DEF files, GatePlaces
<1>11. CASE NoContent(r)
  BY <1>1, <1>3, <1>11, NoContentDoes, ReviewKeeps DEF files
<1>12. CASE SaveExport(r)
  <2>1. /\ pc[r] = "save"
        /\ record' = record \/ record'.spec = held[r].spec
        /\ Did(r, "log", held[r], buffer[r], refused[r])
    BY <1>1, <1>12, SaveExportDoes
  <2>2. held[r].spec \in reviewed'
    BY <1>2, <2>1 DEF GatePlaces
  <2> QED BY <1>1, <2>1, <2>2, ReviewKeeps
<1>13. CASE Deliver(r)
  BY <1>1, <1>2, <1>13, DeliverDoes, ReviewKeeps DEF files, GatePlaces
<1>14. CASE ExportAuditFails(r)
  BY <1>1, <1>14, AbandonKeepsReview DEF ExportAuditFails
<1> QED BY <1>4, <1>5, <1>6, <1>7, <1>8, <1>9, <1>10, <1>11, <1>12, <1>13, <1>14
        DEF ExportStep

-----------------------------------------------------------------------------
(* The gate.                                                               *)

LEMMA ReasonsAre ==
  /\ \A f \in Findings : <<"finding", f>> \in Reasons => f \notin Approved
  /\ \A f \in Findings : <<"citation", f>> \in Reasons => f \notin cited
  /\ \A c : <<"listed", c>> \in Reasons => c \in listed /\ c \notin closed
  BY DEF Reasons

(* The reasons that have stood can only become fewer. *)
LEMMA FewerStand ==
  ASSUME NEW place, NEW rec, NEW buf, NEW bad, NEW stands, NEW fewer,
         GateFinds(place, rec, buf, bad, stands), fewer \subseteq stands
  PROVE  GateFinds(place, rec, buf, bad, fewer)
  BY DEF GateFinds

LEMMA StandingShrinks ==
  ASSUME Remember, GateFits, NEW q \in Requests, pc[q] # "idle"
  PROVE  /\ standing'[q] \subseteq standing[q] \/ pc'[q] \notin GatePlaces \cup {"delivered"}
         /\ pc[q] # "delivered" => standing'[q] \subseteq Reasons'
  BY DEF Remember, GatePlaces

LEMMA GateKeeps ==
  ASSUME GateFits, NEW r \in Requests, NEW to, NEW rec, NEW buf, NEW bad,
         Did(r, to, rec, buf, bad), RequestStep, pc[r] # "delivered",
         GateFinds(to, rec, buf, bad, standing'[r])
  PROVE  GateFits'
<1>1. Remember
  BY DEF RequestStep
<1>2. Reasons' = Reasons
  BY DEF RequestStep, evidence, Reasons, Approved
<1>3. standing' = [q \in Requests |-> standing'[q]]
  BY <1>1 DEF Remember
<1>4. ASSUME NEW q \in Requests, pc'[q] \in GatePlaces
      PROVE  standing'[q] \subseteq Reasons'
  <2>1. CASE pc[q] = "idle"
    BY <1>1, <1>2, <1>4, <2>1 DEF Remember
  <2>2. CASE pc[q] # "idle"
    <3>1. pc[q] # "delivered"
      BY <1>4 DEF Did, GatePlaces
    <3> QED BY <1>1, <2>2, <3>1, StandingShrinks
  <2> QED BY <2>1, <2>2
<1>5. ASSUME NEW q \in Requests
      PROVE  GateFinds(pc'[q], held'[q], buffer'[q], refused'[q], standing'[q])
  <2>1. CASE q = r
    BY <2>1 DEF Did
  <2>2. CASE q # r
    <3>1. pc'[q] = pc[q] /\ held'[q] = held[q] /\ buffer'[q] = buffer[q]
          /\ refused'[q] = refused[q]
      BY <2>2 DEF Did
    <3>2. CASE pc[q] \in GatePlaces \cup {"delivered"}
      <4>1. standing'[q] \subseteq standing[q]
        BY <1>1, <3>1, <3>2, StandingShrinks DEF GatePlaces
      <4>2. GateFinds(pc[q], held[q], buffer[q], refused[q], standing'[q])
        BY <4>1, FewerStand DEF GateFits
      <4> QED BY <3>1, <4>2
    <3>3. CASE pc[q] \notin GatePlaces \cup {"delivered"}
      BY <3>1, <3>3 DEF GateFinds, GatePlaces
    <3> QED BY <3>2, <3>3
  <2> QED BY <2>1, <2>2
<1> QED BY <1>3, <1>4, <1>5 DEF GateFits

(* At the places before the gate, and after it, there is nothing to find.  *)
LEMMA OutsideGate ==
  ASSUME NEW place, NEW rec, NEW buf, NEW bad, NEW stands,
         place \notin GatePlaces \ {"findings"}, place # "delivered"
  PROVE  GateFinds(place, rec, buf, bad, stands)
  BY DEF GateFinds, GatePlaces

LEMMA DraftKeepsGate ==
  ASSUME IInv, NEW r \in Requests, DraftStep(r)
  PROVE  GateFits'
<1>1. RequestStep /\ TypeInv /\ GateFits
  BY DEF IInv, DraftStep, DraftBegins, DraftRefused, WriteSpec, RenderReads,
         RenderWrites, RenderFails, DraftEnds
<1>2. \A to \in DraftPlaces \cup {"refused", "done", "failed"} :
        to \notin GatePlaces \ {"findings"} /\ to # "delivered"
  BY DEF DraftPlaces, GatePlaces
<1>3. \E to \in DraftPlaces \cup {"refused", "done", "failed"} : \E rec, buf, bad :
        Did(r, to, rec, buf, bad) /\ pc[r] # "delivered"
  <2>1. CASE DraftBegins(r)
    BY <1>1, <2>1, DraftBeginsDoes DEF DraftPlaces
  <2>2. CASE DraftRefused(r)
    BY <1>1, <2>2, LeavesDoes DEF Leaves
  <2>3. CASE WriteSpec(r)
    BY <1>1, <2>3, WriteSpecDoes DEF DraftPlaces
  <2>4. CASE RenderReads(r)
    BY <1>1, <2>4, RenderReadsDoes DEF DraftPlaces
  <2>5. CASE RenderWrites(r)
    BY <1>1, <2>5, RenderWritesDoes DEF DraftPlaces
  <2>6. CASE RenderFails(r)
    BY <1>1, <2>6, RenderFailsDoes DEF DraftPlaces
  <2>7. CASE DraftEnds(r)
    BY <1>1, <2>7, DraftEndsDoes
  <2> QED BY <2>1, <2>2, <2>3, <2>4, <2>5, <2>6, <2>7 DEF DraftStep
<1>4. PICK to, rec, buf, bad :
        /\ to \in DraftPlaces \cup {"refused", "done", "failed"}
        /\ Did(r, to, rec, buf, bad) /\ pc[r] # "delivered"
  BY <1>3
<1>5. GateFinds(to, rec, buf, bad, standing'[r])
  BY <1>2, <1>4, OutsideGate
<1> QED BY <1>1, <1>4, <1>5, GateKeeps

LEMMA MoveKeepsGate ==
  ASSUME IInv, NEW r \in Requests, MoveStep(r)
  PROVE  GateFits'
<1>1. RequestStep /\ TypeInv /\ GateFits
  BY DEF IInv, MoveStep, ReadForMove, MoveRefused, WriteMove
<1>2. \E to \in {"write", "refused", "done", "failed"} : \E rec, buf, bad :
        Did(r, to, rec, buf, bad) /\ pc[r] # "delivered"
  <2>1. CASE ReadForMove(r)
    BY <1>1, <2>1, ReadForMoveDoes
  <2>2. CASE MoveRefused(r)
    BY <1>1, <2>2, LeavesDoes DEF Leaves
  <2>3. CASE WriteMove(r)
    BY <1>1, <2>3, WriteMoveDoes
  <2> QED BY <2>1, <2>2, <2>3 DEF MoveStep
<1>3. PICK to, rec, buf, bad :
        /\ to \in {"write", "refused", "done", "failed"}
        /\ Did(r, to, rec, buf, bad) /\ pc[r] # "delivered"
  BY <1>2
<1>4. GateFinds(to, rec, buf, bad, standing'[r])
  BY <1>3, OutsideGate DEF GatePlaces
<1> QED BY <1>1, <1>3, <1>4, GateKeeps

(* What stands at a read of the gate stands at the moment of the read. *)
LEMMA StandsNow ==
  ASSUME GateFits, RequestStep, NEW r \in Requests, pc[r] \in GatePlaces,
         pc'[r] \in GatePlaces \cup {"delivered"}
  PROVE  /\ standing'[r] \subseteq Reasons
         /\ GateFinds(pc[r], held[r], buffer[r], refused[r], standing'[r])
<1>1. standing'[r] \subseteq standing[r]
  BY StandingShrinks DEF RequestStep, GatePlaces
<1> QED BY <1>1, FewerStand DEF GateFits

LEMMA AbandonKeepsGate ==
  ASSUME TypeInv, GateFits, NEW r \in Requests, Abandon(r), pc[r] # "delivered"
  PROVE  GateFits'
<1>1. RequestStep /\ Did(r, "failed", NoReport, NoSpec, FALSE)
  BY AbandonDoes
<1>2. GateFinds("failed", NoReport, NoSpec, FALSE, standing'[r])
  BY DEF GateFinds
<1> QED BY <1>1, <1>2, GateKeeps

LEMMA ExportKeepsGate ==
  ASSUME IInv, NEW r \in Requests, ExportStep(r)
  PROVE  GateFits'
<1>1. RequestStep /\ TypeInv /\ GateFits
  BY DEF IInv, ExportStep, ExportBegins, ExportRefused, GateReadsFindings,
         GateReadsChunks, GateReadsContradictions, GateReadsAcks, ReadContent,
         NoContent, SaveExport, Deliver, ExportAuditFails, Abandon
<1> DEFINE stands == standing'[r]
<1> HIDE DEF stands
<1>2. ASSUME pc[r] \in GatePlaces
      PROVE  /\ pc'[r] \in GatePlaces \cup {"delivered"} =>
                  /\ stands \subseteq Reasons
                  /\ GateFinds(pc[r], held[r], buffer[r], refused[r], stands)
             /\ held[r] \in Records /\ held[r].spec.uses \subseteq Findings
             /\ pc[r] # "delivered"
  <2>1. held[r] \in Records
    BY <1>1, <1>2, HoldsAtPlace DEF PlaceFits
  <2>2. held[r].spec.uses \subseteq Findings
    BY <2>1 DEF Records, Specs
  <2> QED BY <1>1, <1>2, <2>1, <2>2, StandsNow DEF stands, GatePlaces
<1>3. ASSUME NEW to, NEW rec, NEW buf, NEW bad, Did(r, to, rec, buf, bad),
             pc[r] # "delivered", GateFinds(to, rec, buf, bad, stands)
      PROVE  GateFits'
  BY <1>1, <1>3, GateKeeps DEF stands
<1>4. \A to, rec, buf, bad : Did(r, to, rec, buf, bad) => pc'[r] = to
  BY DEF Did
<1>5. CASE ExportBegins(r)
  BY <1>1, <1>3, <1>5, ExportBeginsDoes, OutsideGate DEF GatePlaces
<1>6. CASE ExportRefused(r)
  BY <1>1, <1>3, <1>6, LeavesDoes, OutsideGate DEF GatePlaces, Leaves
<1>7. CASE GateReadsFindings(r)
  <2>1. pc[r] = "findings"
    BY <1>1, <1>7, GateReadsFindingsDoes
  <2>2. PICK bad \in BOOLEAN :
          /\ bad <=> refused[r] \/ FindingsBlock(held[r].spec)
          /\ Did(r, "chunks", held[r], buffer[r], bad)
    BY <1>1, <1>7, GateReadsFindingsDoes
  <2>3. stands \subseteq Reasons /\ held[r].spec.uses \subseteq Findings
    BY <1>2, <1>4, <2>1, <2>2 DEF GatePlaces
  <2>4. ~bad => held[r].spec.grounded /\ held[r].spec.uses \subseteq Approved
    BY <2>2 DEF FindingsBlock
  <2>5. ~bad => \A f \in held[r].spec.uses : <<"finding", f>> \notin stands
    BY <2>3, <2>4, ReasonsAre
  <2>6. GateFinds("chunks", held[r], buffer[r], bad, stands)
    BY <2>4, <2>5 DEF GateFinds
  <2> QED BY <1>3, <2>1, <2>2, <2>6
<1>8. CASE GateReadsChunks(r)
  <2>1. pc[r] = "chunks"
    BY <1>1, <1>8, GateReadsChunksDoes
  <2>2. PICK bad \in BOOLEAN :
          /\ bad <=> refused[r] \/ ~(held[r].spec.uses \subseteq cited)
          /\ Did(r, "contradictions", held[r], buffer[r], bad)
    BY <1>1, <1>8, GateReadsChunksDoes
  <2>3. /\ stands \subseteq Reasons /\ held[r].spec.uses \subseteq Findings
        /\ GateFinds("chunks", held[r], buffer[r], refused[r], stands)
    BY <1>2, <1>4, <2>1, <2>2 DEF GatePlaces
  <2>4. ~bad => \A f \in held[r].spec.uses : <<"citation", f>> \notin stands
    BY <2>2, <2>3, ReasonsAre
  <2>5. GateFinds("contradictions", held[r], buffer[r], bad, stands)
    BY <2>2, <2>3, <2>4 DEF GateFinds
  <2> QED BY <1>3, <2>1, <2>2, <2>5
<1>9. CASE GateReadsContradictions(r)
  <2>1. pc[r] = "contradictions" /\ Did(r, "acks", held[r], listed, refused[r])
    BY <1>1, <1>9, GateReadsContradictionsDoes
  <2>2. /\ stands \subseteq Reasons
        /\ GateFinds("contradictions", held[r], buffer[r], refused[r], stands)
    BY <1>2, <1>4, <2>1 DEF GatePlaces
  <2>3. \A c \in Contradictions : <<"listed", c>> \in stands => c \in listed
    BY <2>2, ReasonsAre
  <2>4. GateFinds("acks", held[r], listed, refused[r], stands)
    BY <2>2, <2>3 DEF GateFinds
  <2> QED BY <1>3, <2>1, <2>4
<1>10. CASE GateReadsAcks(r)
  <2>1. pc[r] = "acks"
    BY <1>1, <1>10, GateReadsAcksDoes
  <2>2. CASE Did(r, "refused", NoReport, NoSpec, FALSE)
    <3>1. GateFinds("refused", NoReport, NoSpec, FALSE, stands)
      BY DEF GateFinds
    <3> QED BY <1>3, <2>1, <2>2, <3>1
  <2>3. CASE /\ ~refused[r] /\ buffer[r] \subseteq closed
             /\ Did(r, "content", held[r], NoSpec, refused[r])
    <3>1. /\ stands \subseteq Reasons
          /\ GateFinds("acks", held[r], buffer[r], refused[r], stands)
      BY <1>2, <1>4, <2>1, <2>3 DEF GatePlaces
    <3>2. \A c \in Contradictions : <<"listed", c>> \notin stands
      BY <2>3, <3>1, ReasonsAre DEF GateFinds
    <3>3. GateFinds("content", held[r], NoSpec, refused[r], stands)
      BY <2>3, <3>1, <3>2 DEF GateFinds
    <3> QED BY <1>3, <2>1, <2>3, <3>3
  <2> QED BY <1>1, <1>10, <2>2, <2>3, GateReadsAcksDoes
<1>11. CASE ReadContent(r)
  <2>1. pc[r] = "content" /\ Did(r, "save", held[r], markdown, refused[r])
    BY <1>1, <1>11, ReadContentDoes
  <2>2. GateFinds("content", held[r], buffer[r], refused[r], stands)
    BY <1>2, <1>4, <2>1 DEF GatePlaces
  <2>3. GateFinds("save", held[r], markdown, refused[r], stands)
    BY <2>2 DEF GateFinds
  <2> QED BY <1>3, <2>1, <2>3
<1>12. CASE NoContent(r)
  BY <1>1, <1>3, <1>12, NoContentDoes, OutsideGate DEF GatePlaces
<1>13. CASE SaveExport(r)
  <2>1. pc[r] = "save" /\ Did(r, "log", held[r], buffer[r], refused[r])
    BY <1>1, <1>13, SaveExportDoes
  <2>2. GateFinds("save", held[r], buffer[r], refused[r], stands)
    BY <1>2, <1>4, <2>1 DEF GatePlaces
  <2>3. GateFinds("log", held[r], buffer[r], refused[r], stands)
    BY <2>2 DEF GateFinds
  <2> QED BY <1>3, <2>1, <2>3
<1>14. CASE Deliver(r)
  <2>1. pc[r] = "log" /\ Did(r, "delivered", held[r], buffer[r], refused[r])
    BY <1>1, <1>14, DeliverDoes
  <2>2. GateFinds("log", held[r], buffer[r], refused[r], stands)
    BY <1>2, <1>4, <2>1 DEF GatePlaces
  <2>3. GateFinds("delivered", held[r], buffer[r], refused[r], stands)
    BY <2>2 DEF GateFinds
  <2> QED BY <1>3, <2>1, <2>3
<1>15. CASE ExportAuditFails(r)
  BY <1>1, <1>15, AbandonKeepsGate DEF ExportAuditFails
<1> QED
  BY <1>5, <1>6, <1>7, <1>8, <1>9, <1>10, <1>11, <1>12, <1>13, <1>14, <1>15
  DEF ExportStep

-----------------------------------------------------------------------------
(* The text and the record.                                                *)

(* A text stays unfinished until its draft writes its record, and what has *)
(* failed stays so.                                                        *)
LEMMA FailedStays ==
  ASSUME NEW r \in Requests, NEW to, NEW rec, NEW buf, NEW bad,
         Did(r, to, rec, buf, bad), pc[r] # "failed"
  PROVE  \A q \in Requests : pc[q] = "failed" => pc'[q] = "failed"
  BY DEF Did

LEMMA UnfinishedStays ==
  ASSUME NEW r \in Requests, NEW to, NEW rec, NEW buf, NEW bad,
         Did(r, to, rec, buf, bad), pc[r] # "failed",
         pc[r] \in DraftPlaces => to \in DraftPlaces \cup {"failed"},
         UNCHANGED markdown, Unfinished(markdown)
  PROVE  Unfinished(markdown)'
<1>1. markdown.by \in Requests
  BY DEF Unfinished, Specs
<1>2. pc'[markdown.by] \in DraftPlaces \cup {"failed"}
  BY <1>1 DEF Did, Unfinished
<1> QED BY <1>2 DEF Unfinished

LEMMA MatchKeeps ==
  ASSUME TypeInv, MatchFits, NEW r \in Requests, NEW to, NEW rec, NEW buf, NEW bad,
         Did(r, to, rec, buf, bad), RequestStep, pc[r] # "failed",
         \/ UNCHANGED <<specFile, markdown, drafted>> /\ pc[r] \notin DraftPlaces
         \/ Op[r] = "draft" /\ Active(r),
         ~overlapped' =>
            /\ record' # NoReport => Matches(record)'
            /\ to = "render" => specFile' = rec.spec
            /\ to = "markdown" => buf = rec.spec
            /\ to = "record" /\ rec.rendered => markdown' = rec.spec
            /\ to \in {"write"} \cup GatePlaces =>
                 /\ rec.spec = drafted'
                 /\ rec.rendered => markdown' = rec.spec \/ Unfinished(markdown)'
            /\ to \in {"save", "log"} /\ rec.rendered =>
                 buf = rec.spec \/ pc'[buf.by] = "failed"
            /\ to = "delivered" =>
                 buf = rec.spec \/ ~rec.rendered \/ pc'[buf.by] = "failed"
  PROVE  MatchFits'
<1>1. /\ ~overlapped' => ~overlapped
      /\ ~overlapped' =>
           \A p, q \in Requests : p # q /\ Active(p)' /\ Active(q)' => Op[p] # "draft"
  BY Remembers DEF RequestStep
<1>2. ASSUME NEW q \in Requests, pc[q] \in {"save", "log", "delivered"},
             pc[buffer[q].by] = "failed"
      PROVE  pc'[buffer[q].by] = "failed"
  <2>1. buffer[q].by \in Requests
    BY <1>2, HoldsAtPlace DEF PlaceFits, Specs
  <2> QED BY <1>2, <2>1, FailedStays
<1>3. ASSUME NEW q \in Requests, pc'[q] = "delivered", buffer'[q] # held'[q].spec
      PROVE  ~held'[q].rendered \/ overlapped' \/ pc'[buffer'[q].by] = "failed"
  <2>1. CASE q = r
    BY <1>3, <2>1 DEF Did
  <2>2. CASE q # r
    <3>1. pc'[q] = pc[q] /\ held'[q] = held[q] /\ buffer'[q] = buffer[q]
      BY <2>2 DEF Did
    <3> QED BY <1>1, <1>2, <1>3, <3>1 DEF MatchFits
  <2> QED BY <2>1, <2>2
<1>4. ASSUME ~overlapped', NEW q \in Requests
      PROVE  WorkFits(pc[q], held[q], buffer[q])'
  <2>1. CASE q = r
    <3>1. pc'[q] = to /\ held'[q] = rec /\ buffer'[q] = buf
      BY <2>1 DEF Did
    <3> QED BY <1>4, <3>1 DEF WorkFits, Matches
  <2>2. CASE q # r
    <3>1. pc'[q] = pc[q] /\ held'[q] = held[q] /\ buffer'[q] = buffer[q]
      BY <2>2 DEF Did
    <3>2. WorkFits(pc[q], held[q], buffer[q])
      BY <1>1, <1>4 DEF MatchFits
    <3>3. CASE UNCHANGED <<specFile, markdown, drafted>> /\ pc[r] \notin DraftPlaces
      <4>1. Unfinished(markdown) => Unfinished(markdown)'
        BY <3>3, UnfinishedStays
      <4>2. Matches(held[q]) => Matches(held[q])'
        BY <3>1, <3>3, <4>1 DEF Matches
      <4>3. pc[q] \in {"save", "log"} /\ pc[buffer[q].by] = "failed"
              => pc'[buffer[q].by] = "failed"
        BY <1>2
      <4> QED BY <3>1, <3>2, <3>3, <4>2, <4>3 DEF WorkFits
    <3>4. CASE Op[r] = "draft" /\ Active(r)
      <4>1. ~Active(q)
        BY <1>1, <1>4, <2>2, <3>4 DEF MatchFits
      <4> QED BY <3>1, <4>1 DEF WorkFits, Active, Ended, GatePlaces
    <3> QED BY <3>3, <3>4
  <2> QED BY <2>1, <2>2
<1> QED BY <1>1, <1>3, <1>4 DEF MatchFits

(* Most steps leave the record and the last draft alone, and the text, or  *)
(* they put the text of a draft under way in its place.                    *)
LEMMA SameMatch ==
  ASSUME MatchFits, NEW r \in Requests, NEW to, NEW rec, NEW buf, NEW bad,
         Did(r, to, rec, buf, bad), RequestStep, pc[r] # "failed",
         pc[r] \in DraftPlaces => to \in DraftPlaces \cup {"failed"},
         record' = record,
         ~overlapped' /\ record # NoReport => drafted' = drafted,
         ~overlapped' => UNCHANGED markdown \/ Unfinished(markdown)'
  PROVE  ~overlapped' => (record' # NoReport => Matches(record)')
<1> SUFFICES ASSUME ~overlapped', record # NoReport
             PROVE  Matches(record)'
  OBVIOUS
<1>1. ~overlapped
  BY Remembers DEF RequestStep
<1>2. Matches(record)
  BY <1>1 DEF MatchFits
<1>3. UNCHANGED markdown => (Unfinished(markdown) => Unfinished(markdown)')
  BY UnfinishedStays
<1> QED BY <1>2, <1>3 DEF Matches

(* A step of a request other than a draft shows that no draft runs.        *)
LEMMA NoDraftBeside ==
  ASSUME NEW r \in Requests, NEW to, NEW rec, NEW buf, NEW bad,
         Did(r, to, rec, buf, bad), RequestStep,
         Op[r] # "draft", to \notin {"idle"} \cup Ended, ~overlapped'
  PROVE  ~Drafting
<1>1. \A p, q \in Requests : p # q /\ Active(p)' /\ Active(q)' => Op[p] # "draft"
  BY Remembers DEF RequestStep
<1>2. Active(r)' /\ \A q \in Requests : q # r => (Active(q)' <=> Active(q))
  BY DEF Did, Active
<1> QED BY <1>1, <1>2 DEF Drafting

LEMMA DraftedStays ==
  ASSUME NEW r \in Requests, NEW to, NEW rec, NEW buf, NEW bad,
         Did(r, to, rec, buf, bad), RequestStep, pc[r] # "record"
  PROVE  drafted' = drafted
  BY Remembers DEF RequestStep

(* What a request works on, at its place, when no draft runs beside it. *)
LEMMA WorkAtPlace ==
  ASSUME MatchFits, NEW r \in Requests, NEW to, NEW rec, NEW buf, NEW bad,
         Did(r, to, rec, buf, bad), RequestStep, ~overlapped'
  PROVE  /\ WorkFits(pc[r], held[r], buffer[r])
         /\ record # NoReport => Matches(record)
<1>1. ~overlapped
  BY Remembers DEF RequestStep
<1> QED BY <1>1 DEF MatchFits

(* A request is a draft at the places of one.                              *)
LEMMA DraftsThere ==
  ASSUME TypeInv, NEW r \in Requests, pc[r] \in DraftPlaces
  PROVE  Op[r] = "draft" /\ Active(r) /\ pc[r] # "failed"
<1>1. Op[r] = "draft"
  BY HoldsAtPlace DEF PlaceFits
<1> QED BY <1>1 DEF Active, DraftPlaces, Ended

LEMMA DraftKeepsMatch ==
  ASSUME IInv, NEW r \in Requests, DraftStep(r)
  PROVE  MatchFits'
<1>1. RequestStep /\ TypeInv /\ MatchFits
  BY DEF IInv, DraftStep, DraftBegins, DraftRefused, WriteSpec, RenderReads,
         RenderWrites, RenderFails, DraftEnds
<1>2. /\ {"spec", "render", "markdown", "record"} = DraftPlaces
      /\ "idle" \notin DraftPlaces
  BY DEF DraftPlaces
<1>3. \A to, rec, buf, bad : Did(r, to, rec, buf, bad) => pc'[r] = to
  BY DEF Did
<1>4. CASE DraftBegins(r)
  <2>1. UNCHANGED files /\ pc[r] = "idle"
    BY <1>1, <1>4, DraftBeginsDoes
  <2>2. PICK rec \in Records : Did(r, "spec", rec, buffer[r], refused[r]) /\ ~rec.rendered
    BY <1>1, <1>4, DraftBeginsDoes
  <2>3. drafted' = drafted
    BY <1>1, <2>1, <2>2, DraftedStays
  <2>4. ~overlapped' => (record' # NoReport => Matches(record)')
    BY <1>1, <1>2, <2>1, <2>2, <2>3, SameMatch DEF files
  <2> QED BY <1>1, <1>2, <2>1, <2>2, <2>3, <2>4, MatchKeeps DEF files, GatePlaces
<1>5. CASE DraftRefused(r)
  <2>1. UNCHANGED files /\ pc[r] = "idle"
        /\ Did(r, "refused", held[r], buffer[r], refused[r])
    BY <1>1, <1>5, LeavesDoes DEF Leaves
  <2>2. drafted' = drafted
    BY <1>1, <2>1, DraftedStays
  <2>3. ~overlapped' => (record' # NoReport => Matches(record)')
    BY <1>1, <1>2, <2>1, <2>2, SameMatch DEF files
  <2> QED BY <1>1, <1>2, <2>1, <2>2, <2>3, MatchKeeps DEF files, GatePlaces
<1>6. CASE WriteSpec(r)
  <2>1. /\ specFile' = held[r].spec /\ UNCHANGED <<record, markdown>> /\ pc[r] = "spec"
        /\ Did(r, "render", held[r], buffer[r], refused[r])
    BY <1>1, <1>6, WriteSpecDoes
  <2>2. drafted' = drafted
    BY <1>1, <2>1, DraftedStays
  <2>3. Op[r] = "draft" /\ Active(r)
    BY <1>1, <1>2, <2>1, DraftsThere
  <2>4. ~overlapped' => (record' # NoReport => Matches(record)')
    BY <1>1, <1>2, <2>1, <2>2, SameMatch
  <2> QED BY <1>1, <2>1, <2>3, <2>4, MatchKeeps DEF GatePlaces
<1>7. CASE RenderReads(r)
  <2>1. /\ UNCHANGED files /\ pc[r] = "render"
        /\ Did(r, "markdown", held[r], specFile, refused[r])
    BY <1>1, <1>7, RenderReadsDoes
  <2>2. drafted' = drafted
    BY <1>1, <2>1, DraftedStays
  <2>3. Op[r] = "draft" /\ Active(r)
    BY <1>1, <1>2, <2>1, DraftsThere
  <2>4. ~overlapped' => (record' # NoReport => Matches(record)')
    BY <1>1, <1>2, <2>1, <2>2, SameMatch DEF files
  <2>5. ~overlapped' => specFile = held[r].spec
    BY <1>1, <2>1, WorkAtPlace DEF WorkFits
  <2> QED BY <1>1, <2>1, <2>3, <2>4, <2>5, MatchKeeps DEF GatePlaces
<1>8. ASSUME pc[r] = "markdown",
             NEW rec, NEW bad, Did(r, "record", rec, NoSpec, bad),
             rec.spec = held[r].spec, buffer[r] \in Specs,
             UNCHANGED <<record, specFile>>,
             \/ markdown' = buffer[r]
             \/ ~rec.rendered /\ markdown' = markdown
      PROVE  MatchFits'
  <2>1. drafted' = drafted
    BY <1>1, <1>8, DraftedStays
  <2>2. Op[r] = "draft" /\ Active(r)
    BY <1>1, <1>2, <1>8, DraftsThere
  <2>3. ~overlapped' => buffer[r] = held[r].spec
    BY <1>1, <1>8, WorkAtPlace DEF WorkFits
  <2>4. ~overlapped' => UNCHANGED markdown \/ Unfinished(markdown)'
    <3>1. held[r].spec.by = r
      BY <1>1, <1>2, <1>8, HoldsAtPlace
    <3>2. pc'[r] \in DraftPlaces
      BY <1>2, <1>3, <1>8
    <3> QED BY <1>8, <2>3, <3>1, <3>2 DEF Unfinished
  <2>5. ~overlapped' => (record' # NoReport => Matches(record)')
    BY <1>1, <1>2, <1>8, <2>1, <2>4, SameMatch
  <2> QED BY <1>1, <1>8, <2>2, <2>3, <2>5, MatchKeeps DEF GatePlaces
<1>9. CASE RenderWrites(r)
  <2>1. /\ markdown' = buffer[r] /\ UNCHANGED <<record, specFile>> /\ pc[r] = "markdown"
        /\ held[r] \in Records /\ buffer[r] \in Specs
        /\ Did(r, "record", [held[r] EXCEPT !.rendered = TRUE], NoSpec, refused[r])
    BY <1>1, <1>9, RenderWritesDoes
  <2>2. [held[r] EXCEPT !.rendered = TRUE].spec = held[r].spec
    BY <2>1, RecordParts
  <2> QED BY <1>8, <2>1, <2>2
<1>10. CASE RenderFails(r)
  BY <1>1, <1>8, <1>10, RenderFailsDoes
<1>11. CASE DraftEnds(r)
  <2>1. /\ record' = held[r] /\ UNCHANGED <<specFile, markdown>> /\ pc[r] = "record"
    BY <1>1, <1>11, DraftEndsDoes
  <2>2. PICK to \in {"done", "failed"} : Did(r, to, NoReport, buffer[r], refused[r])
    BY <1>1, <1>11, DraftEndsDoes
  <2>3. drafted' = record'.spec
    BY <1>1, <2>1, <2>2, Remembers DEF RequestStep
  <2>4. Op[r] = "draft" /\ Active(r)
    BY <1>1, <1>2, <2>1, DraftsThere
  <2>5. ~overlapped' => (held[r].rendered => markdown = held[r].spec)
    BY <1>1, <2>1, <2>2, WorkAtPlace DEF WorkFits
  <2>6. ~overlapped' => Matches(record)'
    BY <2>1, <2>3, <2>5 DEF Matches
  <2> QED BY <1>1, <2>1, <2>2, <2>4, <2>6, MatchKeeps DEF GatePlaces
<1> QED BY <1>4, <1>5, <1>6, <1>7, <1>9, <1>10, <1>11 DEF DraftStep

LEMMA MoveKeepsMatch ==
  ASSUME IInv, NEW r \in Requests, MoveStep(r)
  PROVE  MatchFits'
<1>1. RequestStep /\ TypeInv /\ MatchFits
  BY DEF IInv, MoveStep, ReadForMove, MoveRefused, WriteMove
<1>0. {"idle", "write"} \cap DraftPlaces = {}
  BY DEF DraftPlaces
<1>2. CASE ReadForMove(r)
  <2>1. /\ UNCHANGED files /\ pc[r] = "idle" /\ record \in Records
        /\ Did(r, "write", record, buffer[r], refused[r])
    BY <1>1, <1>2, ReadForMoveDoes
  <2>2. drafted' = drafted
    BY <1>1, <2>1, DraftedStays
  <2>3. ~overlapped' => (record' # NoReport => Matches(record)')
    BY <1>0, <1>1, <2>1, <2>2, SameMatch DEF files
  <2>4. ~overlapped' => Matches(record)'
    BY <2>1, <2>3, NoneAssumption DEF files
  <2> QED BY <1>0, <1>1, <2>1, <2>2, <2>3, <2>4, MatchKeeps DEF files, Matches, GatePlaces
<1>3. CASE MoveRefused(r)
  <2>1. UNCHANGED files /\ pc[r] = "idle"
        /\ Did(r, "refused", held[r], buffer[r], refused[r])
    BY <1>1, <1>3, LeavesDoes DEF Leaves
  <2>2. drafted' = drafted
    BY <1>1, <2>1, DraftedStays
  <2>3. ~overlapped' => (record' # NoReport => Matches(record)')
    BY <1>0, <1>1, <2>1, <2>2, SameMatch DEF files
  <2> QED BY <1>0, <1>1, <2>1, <2>2, <2>3, MatchKeeps DEF files, GatePlaces
<1>4. CASE WriteMove(r)
  <2>1. /\ UNCHANGED <<specFile, markdown>> /\ pc[r] = "write"
        /\ record'.spec = held[r].spec /\ record'.rendered = held[r].rendered
    BY <1>1, <1>4, WriteMoveDoes
  <2>0. PICK to \in {"done", "failed"} : Did(r, to, NoReport, buffer[r], refused[r])
    BY <1>1, <1>4, WriteMoveDoes
  <2>2. drafted' = drafted
    BY <1>1, <2>0, <2>1, DraftedStays
  <2>3. ~overlapped' => Matches(held[r])
    BY <1>1, <2>0, <2>1, WorkAtPlace DEF WorkFits
  <2>4. Unfinished(markdown) => Unfinished(markdown)'
    BY <1>0, <2>0, <2>1, UnfinishedStays
  <2>5. ~overlapped' => Matches(record)'
    BY <2>1, <2>2, <2>3, <2>4 DEF Matches
  <2> QED BY <1>0, <1>1, <2>0, <2>1, <2>2, <2>5, MatchKeeps DEF GatePlaces
<1> QED BY <1>2, <1>3, <1>4 DEF MoveStep

(* A step that goes on through the gate keeps the record it works on.      *)
LEMMA GateReadKeepsMatch ==
  ASSUME TypeInv, MatchFits, NEW r \in Requests, NEW to \in GatePlaces,
         NEW buf, NEW bad, pc[r] \in GatePlaces,
         Did(r, to, held[r], buf, bad), RequestStep, UNCHANGED files,
         ~overlapped' /\ to \in {"save", "log"} /\ held[r].rendered =>
           buf = held[r].spec \/ pc'[buf.by] = "failed"
  PROVE  MatchFits'
<1>1. pc[r] \notin DraftPlaces /\ pc[r] \notin {"record", "failed"}
  BY DEF GatePlaces, DraftPlaces
<1>2. drafted' = drafted
  BY <1>1, DraftedStays
<1>3. ~overlapped' => (record' # NoReport => Matches(record)')
  BY <1>1, <1>2, SameMatch DEF files
<1>4. Unfinished(markdown) => Unfinished(markdown)'
  BY <1>1, UnfinishedStays DEF files
<1>5. ~overlapped' => Matches(held[r])
  BY WorkAtPlace DEF WorkFits
<1>6. to \notin {"render", "markdown", "record", "delivered"}
  BY DEF GatePlaces
<1> QED BY <1>1, <1>2, <1>3, <1>4, <1>5, <1>6, MatchKeeps DEF files, Matches

(* An export that is turned away leaves everything as it was. *)
LEMMA TurnedAwayKeepsMatch ==
  ASSUME TypeInv, MatchFits, NEW r \in Requests, NEW to \in {"refused", "failed"}, NEW rec,
         NEW buf, NEW bad, pc[r] \notin DraftPlaces \cup {"failed"},
         Did(r, to, rec, buf, bad), RequestStep, UNCHANGED files
  PROVE  MatchFits'
<1>1. drafted' = drafted
  BY DraftedStays DEF DraftPlaces
<1>2. ~overlapped' => (record' # NoReport => Matches(record)')
  BY <1>1, SameMatch DEF files
<1> QED BY <1>1, <1>2, MatchKeeps DEF files, GatePlaces

(* A request that throws leaves the files; only a draft that was to write  *)
(* what the record holds anyway would have been told apart.                *)
LEMMA AbandonKeepsMatch ==
  ASSUME TypeInv, MatchFits, NEW r \in Requests, Active(r), Abandon(r)
  PROVE  MatchFits'
<1>1. UNCHANGED files /\ RequestStep /\ Did(r, "failed", NoReport, NoSpec, FALSE)
  BY AbandonDoes
<1>2. pc[r] # "failed"
  BY DEF Active, Ended
<1>3. CASE pc[r] \notin DraftPlaces
  BY <1>1, <1>2, <1>3, TurnedAwayKeepsMatch
<1>4. CASE pc[r] \in DraftPlaces
  <2>1. Op[r] = "draft"
    BY <1>4, DraftsThere
  <2>2. ~overlapped' /\ record # NoReport => drafted' = drafted
    <3> SUFFICES ASSUME ~overlapped', record # NoReport PROVE drafted' = drafted
      OBVIOUS
    <3>1. drafted' = drafted \/ drafted' = record.spec
      BY <1>1, Remembers DEF RequestStep, files
    <3>2. record.spec = drafted
      BY <1>1, WorkAtPlace DEF Matches
    <3> QED BY <3>1, <3>2
  <2>3. ~overlapped' => (record' # NoReport => Matches(record)')
    BY <1>1, <1>2, <2>2, SameMatch DEF files
  <2> QED BY <1>1, <1>2, <2>1, <2>3, MatchKeeps DEF files, GatePlaces
<1> QED BY <1>3, <1>4

LEMMA ExportKeepsMatch ==
  ASSUME IInv, NEW r \in Requests, ExportStep(r)
  PROVE  MatchFits'
<1>1. RequestStep /\ TypeInv /\ MatchFits
  BY DEF IInv, ExportStep, ExportBegins, ExportRefused, GateReadsFindings,
         GateReadsChunks, GateReadsContradictions, GateReadsAcks, ReadContent,
         NoContent, SaveExport, Deliver, ExportAuditFails, Abandon
<1>2. /\ pc[r] \in GatePlaces => Op[r] # "draft"
      /\ ({"idle"} \cup GatePlaces) \cap (DraftPlaces \cup {"failed"}) = {}
  <2>1. pc[r] \in GatePlaces => Op[r] # "draft"
    BY <1>1, HoldsAtPlace DEF PlaceFits
  <2> QED BY <2>1 DEF GatePlaces, DraftPlaces
<1>3. CASE ExportBegins(r)
  <2>1. /\ UNCHANGED files /\ pc[r] = "idle" /\ record \in Records
        /\ Did(r, "findings", record, buffer[r], refused[r])
    BY <1>1, <1>3, ExportBeginsDoes
  <2>2. drafted' = drafted
    BY <1>1, <2>1, DraftedStays
  <2>3. ~overlapped' => (record' # NoReport => Matches(record)')
    BY <1>1, <1>2, <2>1, <2>2, SameMatch DEF files
  <2>4. ~overlapped' => Matches(record)'
    BY <2>1, <2>3, NoneAssumption DEF files
  <2> QED BY <1>1, <1>2, <2>1, <2>2, <2>3, <2>4, MatchKeeps DEF files, Matches, GatePlaces
<1>4. CASE ExportRefused(r)
  BY <1>1, <1>2, <1>4, LeavesDoes, TurnedAwayKeepsMatch DEF Leaves
<1>5. CASE GateReadsFindings(r)
  BY <1>1, <1>5, GateReadsFindingsDoes, GateReadKeepsMatch DEF GatePlaces
<1>6. CASE GateReadsChunks(r)
  BY <1>1, <1>6, GateReadsChunksDoes, GateReadKeepsMatch DEF GatePlaces
<1>7. CASE GateReadsContradictions(r)
  BY <1>1, <1>7, GateReadsContradictionsDoes, GateReadKeepsMatch DEF GatePlaces
<1>8. CASE GateReadsAcks(r)
  <2>1. pc[r] = "acks" /\ UNCHANGED files
    BY <1>1, <1>8, GateReadsAcksDoes
  <2>2. CASE Did(r, "refused", NoReport, NoSpec, FALSE)
    BY <1>1, <1>2, <2>1, <2>2, TurnedAwayKeepsMatch DEF GatePlaces
  <2>3. CASE Did(r, "content", held[r], NoSpec, refused[r])
    BY <1>1, <2>1, <2>3, GateReadKeepsMatch DEF GatePlaces
  <2> QED BY <1>1, <1>8, <2>2, <2>3, GateReadsAcksDoes
<1>9. CASE ReadContent(r)
  <2>1. /\ UNCHANGED files /\ pc[r] = "content" /\ markdown \in Specs
        /\ Did(r, "save", held[r], markdown, refused[r])
    BY <1>1, <1>9, ReadContentDoes
  <2>2. pc[r] \in GatePlaces /\ "save" \in GatePlaces /\ Op[r] # "draft"
    BY <1>2, <2>1 DEF GatePlaces
  <2>3. ASSUME ~overlapped', held[r].rendered, markdown # held[r].spec
        PROVE  pc'[markdown.by] = "failed"
    <3>1. Unfinished(markdown)
      BY <1>1, <2>1, <2>2, <2>3, WorkAtPlace DEF WorkFits, Matches
    <3>2. ~Drafting
      BY <1>1, <2>1, <2>2, <2>3, NoDraftBeside DEF Ended
    <3>3. markdown.by \in Requests
      BY <2>1 DEF Specs
    <3>4. pc[markdown.by] = "failed"
      BY <1>1, <3>1, <3>2, <3>3, DraftsThere DEF Unfinished, Drafting
    <3> QED BY <1>2, <2>1, <2>2, <3>3, <3>4, FailedStays
  <2> QED BY <1>1, <2>1, <2>2, <2>3, GateReadKeepsMatch
<1>10. CASE NoContent(r)
  BY <1>1, <1>2, <1>10, NoContentDoes, TurnedAwayKeepsMatch DEF GatePlaces
<1>11. CASE SaveExport(r)
  <2>1. /\ UNCHANGED <<specFile, markdown>> /\ pc[r] = "save"
        /\ \/ record' = record
           \/ record'.spec = held[r].spec /\ record'.rendered = held[r].rendered
        /\ Did(r, "log", held[r], buffer[r], refused[r])
        /\ buffer[r] \in Specs
    BY <1>1, <1>11, SaveExportDoes
  <2>2. pc[r] \notin DraftPlaces \cup {"failed"}
    BY <1>2, <2>1 DEF GatePlaces
  <2>3. drafted' = drafted
    BY <1>1, <2>1, DraftedStays
  <2>4. ~overlapped' =>
          /\ Matches(held[r])
          /\ held[r].rendered => buffer[r] = held[r].spec \/ pc[buffer[r].by] = "failed"
    BY <1>1, <2>1, WorkAtPlace DEF WorkFits, GatePlaces
  <2>5. pc[buffer[r].by] = "failed" => pc'[buffer[r].by] = "failed"
    BY <2>1, <2>2, FailedStays DEF Specs
  <2>6. Unfinished(markdown) => Unfinished(markdown)'
    BY <2>1, <2>2, UnfinishedStays
  <2>7. ~overlapped' => (record' # NoReport => Matches(record)')
    <3>1. CASE record' = record
      BY <1>1, <2>1, <2>2, <2>3, <3>1, SameMatch
    <3>2. CASE record'.spec = held[r].spec /\ record'.rendered = held[r].rendered
      BY <2>1, <2>3, <2>4, <2>6, <3>2 DEF Matches
    <3> QED BY <2>1, <3>1, <3>2
  <2> QED BY <1>1, <2>1, <2>2, <2>3, <2>4, <2>5, <2>6, <2>7, MatchKeeps
          DEF GatePlaces, Matches
<1>12. CASE Deliver(r)
  <2>1. /\ UNCHANGED files /\ pc[r] = "log" /\ buffer[r] \in Specs
        /\ Did(r, "delivered", held[r], buffer[r], refused[r])
    BY <1>1, <1>12, DeliverDoes
  <2>2. pc[r] \notin DraftPlaces \cup {"failed"}
    BY <1>2, <2>1 DEF GatePlaces
  <2>3. drafted' = drafted
    BY <1>1, <2>1, DraftedStays
  <2>4. ~overlapped' /\ held[r].rendered =>
          buffer[r] = held[r].spec \/ pc[buffer[r].by] = "failed"
    BY <1>1, <2>1, WorkAtPlace DEF WorkFits
  <2>5. pc[buffer[r].by] = "failed" => pc'[buffer[r].by] = "failed"
    BY <2>1, <2>2, FailedStays DEF Specs
  <2>6. ~overlapped' => (record' # NoReport => Matches(record)')
    BY <1>1, <2>1, <2>2, <2>3, SameMatch DEF files
  <2> QED BY <1>1, <2>1, <2>2, <2>3, <2>4, <2>5, <2>6, MatchKeeps DEF files, GatePlaces
<1>13. CASE ExportAuditFails(r)
  BY <1>1, <1>13, AbandonKeepsMatch DEF ExportAuditFails, Active, Ended
<1> QED BY <1>3, <1>4, <1>5, <1>6, <1>7, <1>8, <1>9, <1>10, <1>11, <1>12, <1>13
        DEF ExportStep

-----------------------------------------------------------------------------
(* The evidence changes, and the step that changes nothing.                *)

LEMMA EvidenceKeepsInv ==
  ASSUME IInv, EvidenceStep, EvidenceFits'
  PROVE  IInv'
<1>1. /\ UNCHANGED <<record, specFile, markdown, pc, held, buffer, refused>>
      /\ Remember
  BY DEF EvidenceStep, files, memory
<1>2. reviewed \subseteq reviewed' /\ drafted' = drafted
  BY <1>1 DEF Remember, RecordWritten
<1>3. /\ ~overlapped' => ~overlapped
      /\ ~overlapped' =>
           \A p, q \in Requests : p # q /\ Active(p)' /\ Active(q)' => Op[p] # "draft"
  BY <1>1, Zenon DEF Remember
<1>4. TypeInv'
  BY <1>1, <1>2 DEF IInv, TypeInv, RecordFits, MemoryFits, PlacesFit, PlaceFits
<1>5. ReviewFits'
  BY <1>1, <1>2 DEF IInv, ReviewFits, IsReviewed
<1>6. MatchFits'
  BY <1>1, <1>2, <1>3 DEF IInv, MatchFits, WorkFits, Matches, Unfinished
<1>7. GateFits'
  <2>1. standing' = [q \in Requests |-> standing'[q]]
    BY <1>1 DEF Remember
  <2>2. ASSUME NEW q \in Requests
        PROVE  /\ pc[q] \in GatePlaces => standing'[q] \subseteq Reasons'
               /\ GateFinds(pc[q], held[q], buffer[q], refused[q], standing'[q])
    <3>1. CASE pc[q] \in GatePlaces \cup {"delivered"}
      <4>1. pc[q] # "idle" /\ (pc[q] \in GatePlaces => pc[q] # "delivered")
        BY <3>1 DEF GatePlaces
      <4>2. /\ standing'[q] \subseteq standing[q]
            /\ pc[q] \in GatePlaces => standing'[q] \subseteq Reasons'
        BY <1>1, <3>1, <4>1, StandingShrinks DEF IInv
      <4> QED BY <4>2, FewerStand DEF IInv, GateFits
    <3>2. CASE pc[q] \notin GatePlaces \cup {"delivered"}
      BY <3>2, OutsideGate
    <3> QED BY <3>1, <3>2
  <2> QED BY <1>1, <2>1, <2>2 DEF GateFits
<1> QED BY <1>4, <1>5, <1>6, <1>7 DEF IInv

LEMMA EvidenceKeepsTypes ==
  ASSUME IInv,
         \/ \E f \in Findings : CreateFinding(f) \/ ReviewFinding(f) \/ ChunksChange(f)
         \/ DetectionSucceeds \/ DetectionFails
         \/ \E c \in Contradictions : Acknowledge(c)
  PROVE  EvidenceFits' /\ EvidenceStep
<1>1. EvidenceFits
  BY DEF IInv, TypeInv
<1>2. CASE \E f \in Findings : CreateFinding(f) \/ ReviewFinding(f)
  BY <1>1, <1>2 DEF CreateFinding, ReviewFinding, EvidenceFits, FindingStatuses
<1>3. CASE \E f \in Findings : ChunksChange(f)
  BY <1>1, <1>3 DEF ChunksChange, EvidenceFits
<1>4. CASE DetectionSucceeds
  BY <1>1, <1>4 DEF DetectionSucceeds, EvidenceFits
<1>5. CASE DetectionFails
  BY <1>1, <1>5 DEF DetectionFails, EvidenceFits
<1>6. CASE \E c \in Contradictions : Acknowledge(c)
  BY <1>1, <1>6 DEF Acknowledge, EvidenceFits
<1> QED BY <1>2, <1>3, <1>4, <1>5, <1>6

-----------------------------------------------------------------------------
LEMMA InitInv == Init => IInv
<1> SUFFICES ASSUME Init PROVE IInv
  OBVIOUS
<1>1. \A r \in Requests : pc[r] = "idle" /\ held[r] = NoReport
  BY DEF Init
<1>2. RecordFits /\ EvidenceFits
  BY DEF Init, RecordFits, EvidenceFits, FindingStatuses
<1>3. MemoryFits
  <2>1. pc \in [Requests -> Places]
    BY DEF Init, Places
  <2>2. refused \in [Requests -> BOOLEAN]
    BY Zenon DEF Init
  <2> QED BY <2>1, <2>2 DEF Init, MemoryFits
<1>4. PlacesFit
  BY <1>1 DEF PlacesFit, PlaceFits, DraftPlaces, GatePlaces
<1>5. ReviewFits
  BY <1>1 DEF Init, ReviewFits, IsReviewed, GatePlaces
<1>6. MatchFits
  BY <1>1 DEF Init, MatchFits, WorkFits, Active, GatePlaces
<1>7. GateFits
  BY <1>1 DEF Init, GateFits, GateFinds, GatePlaces
<1> QED BY <1>2, <1>3, <1>4, <1>5, <1>6, <1>7 DEF IInv, TypeInv

(* Every step of a request keeps the types. *)
LEMMA RequestKeepsTypes ==
  ASSUME IInv, NEW r \in Requests,
         DraftStep(r) \/ MoveStep(r) \/ ExportStep(r) \/ FileFails(r)
  PROVE  TypeInv'
<1>1. TypeInv
  BY DEF IInv
<1>2. CASE DraftStep(r)
  BY <1>1, <1>2, DraftBeginsDoes, LeavesDoes, WriteSpecDoes, RenderReadsDoes,
     RenderWritesDoes, RenderFailsDoes, DraftEndsDoes
  DEF DraftStep, Leaves
<1>3. CASE MoveStep(r)
  BY <1>1, <1>3, ReadForMoveDoes, LeavesDoes, WriteMoveDoes DEF MoveStep, Leaves
<1>4. CASE ExportStep(r)
  BY <1>1, <1>4, ExportBeginsDoes, LeavesDoes, GateReadsFindingsDoes,
     GateReadsChunksDoes, GateReadsContradictionsDoes, GateReadsAcksDoes,
     ReadContentDoes, NoContentDoes, SaveExportDoes, DeliverDoes, AbandonDoes
  DEF ExportStep, Leaves, ExportAuditFails
<1>5. CASE FileFails(r)
  BY <1>1, <1>5, AbandonDoes DEF FileFails
<1> QED BY <1>2, <1>3, <1>4, <1>5

(* What a failing file, or the end of the process, leaves behind.          *)
LEMMA FailureKeepsInv ==
  ASSUME IInv, NEW r \in Requests, FileFails(r)
  PROVE  IInv'
<1>1. Abandon(r) /\ Active(r) /\ pc[r] # "delivered"
  BY DEF FileFails, Active, Ended
<1>2. TypeInv'
  BY RequestKeepsTypes
<1> QED BY <1>1, <1>2, AbandonKeepsReview, AbandonKeepsMatch, AbandonKeepsGate DEF IInv

LEMMA StepKeepsInv == IInv /\ [Next]_vars => IInv'
<1> SUFFICES ASSUME IInv, [Next]_vars PROVE IInv'
  OBVIOUS
<1>1. ASSUME NEW r \in Requests, DraftStep(r) \/ MoveStep(r) \/ ExportStep(r)
      PROVE  IInv'
  BY <1>1, RequestKeepsTypes, DraftKeepsReview, MoveKeepsReview, ExportKeepsReview,
     DraftKeepsMatch, MoveKeepsMatch, ExportKeepsMatch,
     DraftKeepsGate, MoveKeepsGate, ExportKeepsGate DEF IInv
<1>4. ASSUME NEW r \in Requests, FileFails(r)
      PROVE  IInv'
  BY <1>4, FailureKeepsInv
<1>2. CASE UNCHANGED vars
  <2>1. /\ UNCHANGED <<record, specFile, markdown, finding, cited, listed, closed>>
        /\ UNCHANGED <<pc, held, buffer, refused>>
        /\ UNCHANGED <<reviewed, drafted, found, seen, standing, overlapped>>
    BY <1>2 DEF vars, files, evidence, memory, history
  <2>2. TypeInv' /\ ReviewFits'
    BY <2>1
    DEF IInv, TypeInv, RecordFits, EvidenceFits, MemoryFits, PlacesFit, PlaceFits,
        ReviewFits, IsReviewed
  <2>3. MatchFits'
    BY <2>1 DEF IInv, MatchFits, WorkFits, Matches, Unfinished, Active
  <2>4. GateFits'
    BY <2>1 DEF IInv, GateFits, GateFinds, Reasons, Approved
  <2> QED BY <2>2, <2>3, <2>4 DEF IInv
<1>3. CASE \/ \E f \in Findings : CreateFinding(f) \/ ReviewFinding(f) \/ ChunksChange(f)
           \/ DetectionSucceeds \/ DetectionFails
           \/ \E c \in Contradictions : Acknowledge(c)
  BY <1>3, EvidenceKeepsTypes, EvidenceKeepsInv
<1> QED BY <1>1, <1>2, <1>3, <1>4 DEF Next

LEMMA InvHolds == Spec => []IInv
  BY InitInv, StepKeepsInv, PTL DEF Spec

-----------------------------------------------------------------------------
(* Every variable has its type; a request that works on a record holds     *)
(* one, and the gate holds a report that was reviewed when it was read.    *)
THEOREM TypeCorrect == Spec => []TypeOK
<1>1. ASSUME IInv PROVE TypeOK
  <2>1. RecordFits /\ EvidenceFits /\ MemoryFits
    BY <1>1 DEF IInv, TypeInv
  <2>2. ASSUME NEW r \in Requests
        PROVE  /\ held[r] \in Records \cup {NoReport}
               /\ pc[r] \in {"write", "delivered"} \cup DraftPlaces \cup GatePlaces
                    => held[r] # NoReport
               /\ pc[r] \in GatePlaces => IsReviewed(held[r])
               /\ pc[r] \in {"markdown", "save", "log", "delivered"} => buffer[r] \in Specs
               /\ pc[r] = "acks" => buffer[r] \subseteq Contradictions
    BY <1>1, HoldsAtPlace, NoneAssumption DEF IInv, PlaceFits, IsReviewed
  <2> QED BY <2>1, <2>2 DEF TypeOK, RecordFits, EvidenceFits, MemoryFits
<1> QED BY <1>1, InvHolds, PTL

(* A report that is marked approved or exported, and that of every export  *)
(* that went through, is one an approver read while it was in review,      *)
(* however many requests interleave.                                       *)
THEOREM ReviewedBeforeApproval == Spec => []ApprovedWasReviewed
<1>1. IInv => ApprovedWasReviewed
  BY DEF IInv, ReviewFits, ApprovedWasReviewed
<1> QED BY <1>1, InvHolds, PTL

(* The four reads of the gate see whatever stood against the report from   *)
(* the first to the last, however the evidence changes between them.       *)
THEOREM GateStands == Spec => []GateHolds
<1>1. ASSUME IInv, NEW r \in Requests, pc[r] = "delivered"
      PROVE  /\ held[r].spec.grounded
             /\ \A f \in held[r].spec.uses :
                  <<"finding", f>> \notin standing[r] /\ <<"citation", f>> \notin standing[r]
             /\ \A c \in Contradictions : <<"listed", c>> \notin standing[r]
  <2>1. GateFinds("delivered", held[r], buffer[r], refused[r], standing[r])
    BY <1>1 DEF IInv, GateFits
  <2> QED BY <2>1 DEF GateFinds
<1>2. IInv => GateHolds
  BY <1>1 DEF GateHolds
<1> QED BY <1>2, InvHolds, PTL

(* The text an export returns is the report that was reviewed, unless that *)
(* was never rendered, a draft ran beside another request, or the text is  *)
(* that of a draft that failed before its record; and no draft is lost     *)
(* unless one ran beside another request.                                  *)
THEOREM MismatchesExplained == Spec => []MismatchExplained
<1>1. IInv => MismatchExplained
  BY DEF IInv, MatchFits, MismatchExplained, Matches
<1> QED BY <1>1, InvHolds, PTL

-----------------------------------------------------------------------------
(* Request by request, with files and a renderer that work: the review.    *)

(* What a lone request holds is what the files hold, and no draft ends     *)
(* between its text and its record.                                        *)
AloneFits(place, rec, buf) ==
  /\ place \in {"record", "write"} \cup GatePlaces => rec.rendered
  /\ place \in ({"write"} \cup GatePlaces) \ {"log"} => rec = record
  /\ place \in {"save", "log"} => buf = rec.spec
  /\ place = "log" =>
       record \in Records /\ record.status = "exported" /\ record.spec = rec.spec

SerialInv ==
  /\ \A q, r \in Requests : Active(q) /\ Active(r) => q = r
  /\ ~overlapped
  /\ record # NoReport =>
       record.rendered /\ (markdown = record.spec \/ \E r \in Requests : pc[r] = "record")
  /\ \A r \in Requests : AloneFits(pc[r], held[r], buffer[r])

LEMMA SerialKeeps ==
  ASSUME SerialInv, TypeInv, NEW r \in Requests, NEW to, NEW rec, NEW buf, NEW bad,
         Did(r, to, rec, buf, bad), RequestStep,
         \A q \in Requests : q # r => ~Active(q),
         record' # NoReport =>
           record'.rendered /\ (markdown' = record'.spec \/ to = "record"),
         to \in {"record", "write"} \cup GatePlaces => rec.rendered,
         to \in ({"write"} \cup GatePlaces) \ {"log"} => rec = record',
         to \in {"save", "log"} => buf = rec.spec,
         to = "log" =>
           record' \in Records /\ record'.status = "exported" /\ record'.spec = rec.spec
  PROVE  SerialInv'
<1>1. \A q \in Requests : q # r =>
        pc'[q] = pc[q] /\ ~Active(q)' /\ pc'[q] \notin {"record", "write"} \cup GatePlaces
  BY DEF Did, Active, Ended, GatePlaces
<1>2. ~overlapped'
  <2>1. ~\E p, q \in Requests : p # q /\ Active(p)' /\ Active(q)' /\ Op[p] = "draft"
    BY <1>1
  <2>2. ~overlapped
    BY DEF SerialInv
  <2> QED BY <2>1, <2>2, Zenon DEF RequestStep, Remember
<1>3. pc'[r] = to /\ held'[r] = rec /\ buffer'[r] = buf
  BY DEF Did
<1>4. \A q \in Requests : AloneFits(pc[q], held[q], buffer[q])'
  <2> SUFFICES ASSUME NEW q \in Requests PROVE AloneFits(pc[q], held[q], buffer[q])'
    OBVIOUS
  <2>1. CASE q = r
    BY <1>3, <2>1 DEF AloneFits
  <2>2. CASE q # r
    BY <1>1, <2>2 DEF AloneFits, GatePlaces
  <2> QED BY <2>1, <2>2
<1> QED BY <1>1, <1>2, <1>3, <1>4 DEF SerialInv

(* A request that begins is alone, and one that goes on too. *)
LEMMA OthersRest ==
  ASSUME SerialInv, OneAtATime, NEW r \in Requests,
         Active(r) \/ \E op \in Ops : Starts(r, op)
  PROVE  \A q \in Requests : q # r => ~Active(q)
  BY DEF SerialInv, Starts

LEMMA WorkingIsActive ==
  ASSUME NEW r \in Requests, pc[r] \in {"write"} \cup DraftPlaces \cup GatePlaces
  PROVE  Active(r)
  BY DEF Active, DraftPlaces, GatePlaces, Ended

LEMMA StepKeepsSerial ==
  ASSUME OneAtATime, "render" \notin Faults, IInv, SerialInv, NEW r \in Requests,
         DraftStep(r) \/ MoveStep(r) \/ ExportStep(r)
  PROVE  SerialInv'
<1>1. RequestStep /\ TypeInv
  BY DEF IInv, DraftStep, DraftBegins, DraftRefused, WriteSpec, RenderReads,
         RenderWrites, RenderFails, DraftEnds, MoveStep, ReadForMove, MoveRefused,
         WriteMove, ExportStep, ExportBegins, ExportRefused, GateReadsFindings,
         GateReadsChunks, GateReadsContradictions, GateReadsAcks, ReadContent,
         NoContent, SaveExport, Deliver, ExportAuditFails, Abandon
<1>2. \A q \in Requests : q # r => ~Active(q)
  <2>1. Active(r) \/ \E op \in Ops : Starts(r, op)
    <3>1. \/ pc[r] \in {"write"} \cup DraftPlaces \cup GatePlaces
          \/ \E op \in Ops : Starts(r, op)
      BY DEF DraftStep, DraftBegins, DraftRefused, WriteSpec, RenderReads,
         RenderWrites, RenderFails, DraftEnds, MoveStep, ReadForMove, MoveRefused,
         WriteMove, ExportStep, ExportBegins, ExportRefused, GateReadsFindings,
         GateReadsChunks, GateReadsContradictions, GateReadsAcks, ReadContent,
         NoContent, SaveExport, Deliver, ExportAuditFails, DraftPlaces, GatePlaces, Ops
    <3> QED BY <3>1, WorkingIsActive
  <2> QED BY <2>1, OthersRest
<1>3. record # NoReport =>
        record.rendered /\ (markdown = record.spec \/ pc[r] = "record")
  BY <1>2, WorkingIsActive DEF SerialInv, DraftPlaces
<1>4. AloneFits(pc[r], held[r], buffer[r])
  BY DEF SerialInv
<1>0. GatePlaces = {"findings", "chunks", "contradictions", "acks", "content", "save", "log"}
  BY DEF GatePlaces
(* A step that leaves the files, or only what the next draft will replace. *)
<1>5. ASSUME NEW to, to \notin {"write"} \cup GatePlaces, NEW rec, NEW buf, NEW bad,
             Did(r, to, rec, buf, bad), UNCHANGED <<record, markdown>>,
             pc[r] # "record", to = "record" => rec.rendered
      PROVE  SerialInv'
  BY <1>0, <1>1, <1>2, <1>3, <1>5, SerialKeeps
<1>6. ASSUME NEW to \in {"write", "findings"}, NEW buf, NEW bad,
             Did(r, to, record, buf, bad), UNCHANGED <<record, markdown>>,
             pc[r] # "record", record \in Records
      PROVE  SerialInv'
  <2>1. record.rendered
    BY <1>3, <1>6, NoneAssumption
  <2> QED BY <1>0, <1>1, <1>2, <1>3, <1>6, <2>1, SerialKeeps
<1>7. ASSUME pc[r] \in GatePlaces \ {"log"}, UNCHANGED <<record, markdown>>,
             NEW to \in GatePlaces \ {"log"}, NEW buf, NEW bad,
             Did(r, to, held[r], buf, bad), to = "save" => buf = held[r].spec
      PROVE  SerialInv'
  BY <1>0, <1>1, <1>2, <1>3, <1>4, <1>7, SerialKeeps DEF AloneFits
<1>8. CASE DraftBegins(r)
  BY <1>0, <1>1, <1>5, <1>8, DraftBeginsDoes DEF files
<1>9. CASE Leaves(r)
  BY <1>0, <1>1, <1>5, <1>9, LeavesDoes DEF files
<1>10. CASE WriteSpec(r)
  BY <1>0, <1>1, <1>5, <1>10, WriteSpecDoes
<1>11. CASE RenderReads(r)
  BY <1>0, <1>1, <1>5, <1>11, RenderReadsDoes DEF files
<1>12. CASE RenderWrites(r)
  <2>1. /\ record' = record /\ held[r] \in Records
        /\ Did(r, "record", [held[r] EXCEPT !.rendered = TRUE], NoSpec, refused[r])
    BY <1>1, <1>12, RenderWritesDoes
  <2>2. [held[r] EXCEPT !.rendered = TRUE].rendered
    BY <2>1, RecordParts
  <2> QED BY <1>0, <1>1, <1>2, <1>3, <2>1, <2>2, SerialKeeps
<1>13. ~RenderFails(r)
  BY DEF RenderFails
<1>14. CASE DraftEnds(r)
  <2>1. pc[r] = "record" /\ record' = held[r] /\ UNCHANGED markdown
    BY <1>1, <1>14, DraftEndsDoes
  <2>2. PICK to \in {"done", "failed"} : Did(r, to, NoReport, buffer[r], refused[r])
    BY <1>1, <1>14, DraftEndsDoes
  <2>3. held[r].rendered
    BY <1>4, <2>1 DEF AloneFits
  <2>4. WorkFits(pc[r], held[r], buffer[r])
    BY DEF IInv, MatchFits, SerialInv
  <2>5. markdown = held[r].spec
    BY <2>1, <2>3, <2>4 DEF WorkFits
  <2> QED BY <1>0, <1>1, <1>2, <2>1, <2>2, <2>3, <2>5, SerialKeeps
<1>15. CASE ReadForMove(r)
  BY <1>1, <1>6, <1>15, ReadForMoveDoes DEF files
<1>16. CASE WriteMove(r)
  <2>1. /\ pc[r] = "write" /\ record'.rendered = held[r].rendered
        /\ record'.spec = held[r].spec /\ UNCHANGED markdown /\ held[r] \in Records
    BY <1>1, <1>16, WriteMoveDoes
  <2>2. PICK to \in {"done", "failed"} : Did(r, to, NoReport, buffer[r], refused[r])
    BY <1>1, <1>16, WriteMoveDoes
  <2>3. held[r] = record /\ record # NoReport
    BY <1>4, <2>1, NoneAssumption DEF AloneFits
  <2> QED BY <1>0, <1>1, <1>2, <1>3, <2>1, <2>2, <2>3, SerialKeeps
<1>17. CASE ExportBegins(r)
  BY <1>1, <1>6, <1>17, ExportBeginsDoes DEF files
<1>18. CASE GateReadsFindings(r)
  BY <1>0, <1>1, <1>7, <1>18, GateReadsFindingsDoes DEF files
<1>19. CASE GateReadsChunks(r)
  BY <1>0, <1>1, <1>7, <1>19, GateReadsChunksDoes DEF files
<1>20. CASE GateReadsContradictions(r)
  BY <1>0, <1>1, <1>7, <1>20, GateReadsContradictionsDoes DEF files
<1>21. CASE GateReadsAcks(r)
  <2>1. pc[r] = "acks" /\ UNCHANGED files
    BY <1>1, <1>21, GateReadsAcksDoes
  <2>2. CASE Did(r, "refused", NoReport, NoSpec, FALSE)
    BY <1>0, <1>5, <2>1, <2>2 DEF files
  <2>3. CASE Did(r, "content", held[r], NoSpec, refused[r])
    BY <1>0, <1>7, <2>1, <2>3 DEF files
  <2> QED BY <1>1, <1>21, <2>2, <2>3, GateReadsAcksDoes
<1>22. CASE ReadContent(r)
  <2>1. /\ pc[r] = "content" /\ UNCHANGED files
        /\ Did(r, "save", held[r], markdown, refused[r])
    BY <1>1, <1>22, ReadContentDoes
  <2>2. held[r] = record /\ record # NoReport
    BY <1>0, <1>1, <1>4, <2>1, HoldsAtPlace, NoneAssumption DEF AloneFits, PlaceFits
  <2>3. markdown = held[r].spec
    BY <1>3, <2>1, <2>2
  <2> QED BY <1>0, <1>7, <2>1, <2>3 DEF files
<1>23. CASE NoContent(r)
  BY <1>0, <1>1, <1>5, <1>23, NoContentDoes DEF files
<1>24. CASE SaveExport(r)
  <2>1. /\ pc[r] = "save" /\ UNCHANGED markdown /\ held[r] \in Records
        /\ held[r].status \in {"approved", "exported"}
        /\ \/ held[r].status # "approved" /\ record' = record
           \/ /\ record' \in Records /\ record'.status = "exported"
              /\ record'.spec = held[r].spec /\ record'.rendered = held[r].rendered
        /\ Did(r, "log", held[r], buffer[r], refused[r])
    BY <1>1, <1>24, SaveExportDoes
  <2>2. held[r] = record /\ record # NoReport /\ buffer[r] = held[r].spec
    BY <1>0, <1>4, <2>1, NoneAssumption DEF AloneFits
  <2>3. /\ record' \in Records /\ record'.status = "exported"
        /\ record'.spec = held[r].spec /\ record'.rendered
        /\ markdown' = record'.spec /\ held[r].rendered
    BY <1>3, <2>1, <2>2
  <2> QED BY <1>0, <1>1, <1>2, <2>1, <2>2, <2>3, SerialKeeps
<1>25. CASE Deliver(r)
  BY <1>0, <1>1, <1>5, <1>25, DeliverDoes DEF files
<1>26. CASE ExportAuditFails(r)
  BY <1>0, <1>1, <1>5, <1>26, AbandonDoes DEF ExportAuditFails, files
<1> QED
  BY <1>8, <1>9, <1>10, <1>11, <1>12, <1>13, <1>14, <1>15, <1>16, <1>17, <1>18, <1>19,
     <1>20, <1>21, <1>22, <1>23, <1>24, <1>25, <1>26
  DEF DraftStep, MoveStep, ExportStep, Leaves

(* What the review sees. *)
Report ==
  IF record = NoReport THEN NoReport ELSE [status |-> record.status, spec |-> record.spec]

Delivered == {buffer[r] : r \in {q \in Requests : pc[q] = "delivered"}}

LEMMA DeliveredStays ==
  ASSUME NEW r \in Requests, NEW to, NEW rec, NEW buf, NEW bad,
         Did(r, to, rec, buf, bad), pc[r] # "delivered", to # "delivered"
  PROVE  Delivered' = Delivered
<1>1. \A q \in Requests : pc'[q] = "delivered" <=> pc[q] = "delivered"
  BY DEF Did
<1>2. \A q \in Requests : pc[q] = "delivered" => buffer'[q] = buffer[q]
  BY DEF Did
<1> QED BY <1>1, <1>2 DEF Delivered

(* Steps the review does not see. *)
LEMMA Unseen ==
  ASSUME NEW r \in Requests, NEW to, NEW rec, NEW buf, NEW bad,
         Did(r, to, rec, buf, bad), pc[r] # "delivered", to # "delivered",
         record' = record
  PROVE  UNCHANGED Review!vars
<1>1. Delivered' = Delivered
  BY DeliveredStays
<1>2. Report' = Report
  BY DEF Report
<1> QED BY <1>1, <1>2 DEF Review!vars, Report, Delivered

LEMMA ReportIs ==
  ASSUME record \in Records
  PROVE  /\ Report = [status |-> record.status, spec |-> record.spec]
         /\ Report # NoReport
         /\ Report.status = record.status /\ Report.spec = record.spec
<1>1. record.status \in Statuses /\ record.spec \in Specs
  BY DEF Records
<1>2. Report = [status |-> record.status, spec |-> record.spec]
  BY NoneAssumption DEF Report
<1>3. Report \in [status : Statuses, spec : Specs]
  BY <1>1, <1>2
<1> QED BY <1>2, <1>3, NoneAssumption

LEMMA ReportMoves ==
  ASSUME NEW st, record \in Records, record' \in Records,
         record'.status = st, record'.spec = record.spec
  PROVE  Report' = [Report EXCEPT !.status = st]
<1>1. Report = [status |-> record.status, spec |-> record.spec]
  BY ReportIs
<1>2. Report' = [status |-> st, spec |-> record.spec]
  BY NoneAssumption DEF Report
<1> QED BY <1>1, <1>2

(* One request after another, and with files and a renderer that work, the *)
(* service implements the review, whichever appends to the audit log fail: *)
(* a report goes from draft to approved only through the review, and an    *)
(* export hands out the text that was approved, when it is marked as       *)
(* exported; that mark may be all that is left of an export.               *)
THEOREM SerialReview ==
  ASSUME OneAtATime, "render" \notin Faults, "files" \notin Faults
  PROVE  Spec => RefinesReview
<1>1. Init => SerialInv
  BY DEF Init, SerialInv, AloneFits, Active, GatePlaces
<1>2. IInv /\ SerialInv /\ [Next]_vars => SerialInv'
  <2> SUFFICES ASSUME IInv, SerialInv, [Next]_vars PROVE SerialInv'
    OBVIOUS
  <2>1. ASSUME NEW r \in Requests, DraftStep(r) \/ MoveStep(r) \/ ExportStep(r)
        PROVE  SerialInv'
    BY <2>1, StepKeepsSerial
  <2>2. CASE UNCHANGED vars
    BY <2>2 DEF vars, files, memory, history, SerialInv, AloneFits, Active
  <2>3. CASE EvidenceStep
    <3>1. UNCHANGED <<record, markdown, pc, held, buffer>> /\ Remember
      BY <2>3 DEF EvidenceStep, files, memory
    <3>2. ~overlapped'
      <4>1. ~\E p, q \in Requests : p # q /\ Active(p)' /\ Active(q)' /\ Op[p] = "draft"
        BY <3>1 DEF SerialInv, Active
      <4>2. ~overlapped
        BY DEF SerialInv
      <4> QED BY <3>1, <4>1, <4>2, Zenon DEF Remember
    <3> QED BY <3>1, <3>2 DEF SerialInv, AloneFits, Active
  <2>4. ~\E r \in Requests : FileFails(r)
    BY DEF FileFails
  <2> QED BY <2>1, <2>2, <2>3, <2>4, EvidenceKeepsTypes DEF Next
<1>3. Init => Review!Init
  BY DEF Init, Review!Init
<1>4. IInv /\ SerialInv /\ [Next]_vars => [Review!Next]_(Review!vars)
  <2> SUFFICES ASSUME IInv, SerialInv, [Next]_vars
               PROVE  [Review!Next]_(Review!vars)
    OBVIOUS
  <2>0. TypeInv
    BY DEF IInv
  <2>1. ASSUME NEW r \in Requests, DraftEnds(r)
        PROVE  Review!Next
    <3>1. /\ record' = held[r] /\ pc[r] = "record"
          /\ held[r] \in Records /\ held[r].status = "draft"
          /\ \E to \in {"done", "failed"} : Did(r, to, NoReport, buffer[r], refused[r])
      BY <2>0, <2>1, DraftEndsDoes
    <3>2. Delivered' = Delivered
      BY <3>1, DeliveredStays
    <3>3. held[r].spec \in Specs
      BY <3>1, RecordParts
    <3>4. Report' = [status |-> "draft", spec |-> held[r].spec]
      BY <3>1, NoneAssumption DEF Report
    <3>5. Review!Edit
      BY <3>2, <3>3, <3>4 DEF Review!Edit, Report, Delivered
    <3> QED BY <3>5 DEF Review!Next
  <2>2. ASSUME NEW r \in Requests, WriteMove(r)
        PROVE  Review!Next
    <3>1. /\ pc[r] = "write" /\ Op[r] \in {"submit", "approve"}
          /\ held[r] \in Records /\ held[r].status = RequiredStatus(Op[r])
          /\ record' \in Records /\ record'.status = StatusAfter(Op[r])
          /\ record'.spec = held[r].spec
          /\ \E to \in {"done", "failed"} : Did(r, to, NoReport, buffer[r], refused[r])
      BY <2>0, <2>2, WriteMoveDoes
    <3>2. Delivered' = Delivered
      BY <3>1, DeliveredStays
    <3>3. held[r] = record
      BY <3>1 DEF SerialInv, AloneFits
    <3>4. Report # NoReport /\ Report.status = RequiredStatus(Op[r])
      BY <3>1, <3>3, ReportIs
    <3>5. Report' = [Report EXCEPT !.status = StatusAfter(Op[r])]
      BY <3>1, <3>3, ReportMoves
    <3>6. CASE Op[r] = "submit"
      <4>1. Report.status = "draft" /\ Report' = [Report EXCEPT !.status = "in_review"]
        BY <3>4, <3>5, <3>6 DEF RequiredStatus, StatusAfter
      <4>2. Review!Submit
        BY <3>2, <3>4, <4>1
        DEF Review!Submit, Review!InStatus, Review!MoveTo, Report, Delivered
      <4> QED BY <4>2 DEF Review!Next
    <3>7. CASE Op[r] = "approve"
      <4>1. Report.status = "in_review" /\ Report' = [Report EXCEPT !.status = "approved"]
        BY <3>4, <3>5, <3>7 DEF RequiredStatus, StatusAfter
      <4>2. Review!Approve
        BY <3>2, <3>4, <4>1
        DEF Review!Approve, Review!InStatus, Review!MoveTo, Report, Delivered
      <4> QED BY <4>2 DEF Review!Next
    <3> QED BY <3>1, <3>6, <3>7
  <2>3. ASSUME NEW r \in Requests, Deliver(r)
        PROVE  Review!Next
    <3>1. /\ pc[r] = "log" /\ record' = record
          /\ Did(r, "delivered", held[r], buffer[r], refused[r])
      BY <2>0, <2>3, DeliverDoes DEF files
    <3>2. /\ record \in Records /\ record.status = "exported"
          /\ buffer[r] = record.spec
      BY <3>1 DEF SerialInv, AloneFits
    <3>3. Delivered' = Delivered \cup {record.spec}
      <4>1. \A q \in Requests : pc'[q] = "delivered" <=> pc[q] = "delivered" \/ q = r
        BY <3>1 DEF Did
      <4>2. \A q \in Requests : buffer'[q] = buffer[q]
        BY <3>1 DEF Did
      <4> QED BY <3>2, <4>1, <4>2 DEF Delivered
    <3>4. /\ Report # NoReport /\ Report.status = "exported"
          /\ Report.spec = record.spec /\ Report' = Report
      BY <3>1, <3>2, ReportIs DEF Report
    <3>5. Review!HandOut
      BY <3>3, <3>4 DEF Review!HandOut, Review!InStatus, Report, Delivered
    <3> QED BY <3>5 DEF Review!Next
  <2>12. ASSUME NEW r \in Requests, SaveExport(r)
         PROVE  [Review!Next]_(Review!vars)
    <3>1. /\ pc[r] = "save" /\ held[r] \in Records
          /\ \/ record' = record
             \/ /\ held[r].status = "approved"
                /\ record' \in Records /\ record'.status = "exported"
                /\ record'.spec = held[r].spec
          /\ Did(r, "log", held[r], buffer[r], refused[r])
      BY <2>0, <2>12, SaveExportDoes
    <3>2. held[r] = record
      BY <3>1 DEF SerialInv, AloneFits, GatePlaces
    <3>3. Delivered' = Delivered
      BY <3>1, DeliveredStays
    <3>4. CASE record' = record
      BY <3>1, <3>4, Unseen
    <3>5. CASE /\ held[r].status = "approved"
               /\ record' \in Records /\ record'.status = "exported"
               /\ record'.spec = held[r].spec
      <4>1. Report # NoReport /\ Report.status = "approved"
        BY <3>1, <3>2, <3>5, ReportIs
      <4>2. Report' = [Report EXCEPT !.status = "exported"]
        BY <3>1, <3>2, <3>5, ReportMoves
      <4>3. Review!MarkExported
        BY <3>3, <4>1, <4>2
        DEF Review!MarkExported, Review!InStatus, Review!MoveTo, Report, Delivered
      <4> QED BY <4>3 DEF Review!Next
    <3> QED BY <3>1, <3>4, <3>5
  <2>10. ASSUME NEW r \in Requests, ExportAuditFails(r)
         PROVE  UNCHANGED Review!vars
    BY <2>0, <2>10, AbandonDoes, Unseen DEF ExportAuditFails, files
  <2>11. ~\E r \in Requests : FileFails(r)
    BY DEF FileFails
  <2>4. ASSUME NEW r \in Requests,
               Leaves(r) \/ DraftBegins(r) \/ WriteSpec(r) \/ RenderReads(r) \/ RenderWrites(r)
        PROVE  UNCHANGED Review!vars
    <3>1. CASE Leaves(r)
      BY <2>0, <3>1, LeavesDoes, Unseen DEF files
    <3>2. CASE DraftBegins(r)
      BY <2>0, <3>2, DraftBeginsDoes, Unseen DEF files
    <3>3. CASE WriteSpec(r)
      BY <2>0, <3>3, WriteSpecDoes, Unseen
    <3>4. CASE RenderReads(r)
      BY <2>0, <3>4, RenderReadsDoes, Unseen DEF files
    <3>5. CASE RenderWrites(r)
      BY <2>0, <3>5, RenderWritesDoes, Unseen
    <3> QED BY <2>4, <3>1, <3>2, <3>3, <3>4, <3>5
  <2>5. ASSUME NEW r \in Requests,
               \/ ReadForMove(r) \/ ExportBegins(r) \/ GateReadsFindings(r)
               \/ GateReadsChunks(r) \/ GateReadsContradictions(r)
               \/ GateReadsAcks(r) \/ ReadContent(r) \/ NoContent(r)
        PROVE  UNCHANGED Review!vars
    <3>1. CASE ReadForMove(r)
      BY <2>0, <3>1, ReadForMoveDoes, Unseen DEF files
    <3>2. CASE ExportBegins(r)
      BY <2>0, <3>2, ExportBeginsDoes, Unseen DEF files
    <3>3. CASE GateReadsFindings(r)
      BY <2>0, <3>3, GateReadsFindingsDoes, Unseen DEF files
    <3>4. CASE GateReadsChunks(r)
      BY <2>0, <3>4, GateReadsChunksDoes, Unseen DEF files
    <3>5. CASE GateReadsContradictions(r)
      BY <2>0, <3>5, GateReadsContradictionsDoes, Unseen DEF files
    <3>6. CASE GateReadsAcks(r)
      BY <2>0, <3>6, GateReadsAcksDoes, Unseen DEF files
    <3>7. CASE ReadContent(r)
      BY <2>0, <3>7, ReadContentDoes, Unseen DEF files
    <3>8. CASE NoContent(r)
      BY <2>0, <3>8, NoContentDoes, Unseen DEF files
    <3> QED BY <2>5, <3>1, <3>2, <3>3, <3>4, <3>5, <3>6, <3>7, <3>8
  <2>6. CASE UNCHANGED vars
    BY <2>6 DEF vars, files, memory, Review!vars
  <2>7. CASE EvidenceStep
    BY <2>7 DEF EvidenceStep, files, memory, Review!vars
  <2>8. ASSUME NEW r \in Requests PROVE ~RenderFails(r)
    BY DEF RenderFails
  <2>9. ASSUME NEW r \in Requests, DraftStep(r) \/ MoveStep(r) \/ ExportStep(r)
        PROVE  [Review!Next]_(Review!vars)
    BY <2>1, <2>2, <2>3, <2>4, <2>5, <2>8, <2>9, <2>10, <2>12
    DEF DraftStep, MoveStep, ExportStep, Leaves
  <2> QED BY <2>6, <2>7, <2>9, <2>11, EvidenceKeepsTypes DEF Next
<1> QED
  BY <1>1, <1>2, <1>3, <1>4, InvHolds, PTL DEF Spec, RefinesReview, Review!Spec

=============================================================================
