------------------------------ MODULE Inquiry ------------------------------
(***************************************************************************)
(* InquiryService of src/packages/server/src/inquiry: a question is asked  *)
(* of the material of a case, by one request to the model ("single") or by *)
(* an agent with tools ("agent"), and what comes of it is appended to      *)
(* inquiries.jsonl and to the audit log.                                   *)
(*                                                                         *)
(* All asks share one agent, which is created by the first of them and     *)
(* again when the methodology was edited, and which reads the methodology  *)
(* from AGENTS.md whenever a conversation begins.  Each ask has a ledger   *)
(* of its own: what its tools have retrieved, cited and concluded.  The    *)
(* material changes meanwhile.  The claims of an answer are judged one by  *)
(* one, each as if it were alone: the model has one.                       *)
(***************************************************************************)
EXTENDS Naturals, FiniteSets

CONSTANTS
  Asks,        \* the questions of a behaviour
  Chunks,      \* the chunks of the case
  Media,       \* the chunks a tool makes of raw material
  MaxEdits,    \* bound on the edits of the methodology
  NoAsk

ASSUME InquiryAssumption ==
  Chunks \cap Media = {} /\ MaxEdits \in Nat /\ NoAsk \notin Asks

VARIABLES
  mode,          \* MINI_AGENT_INQUIRY_MODE
  prompt,        \* the edits of the methodology so far
  chunk,         \* the case's chunks on disk; "bad": the hash does not match
  stage,         \* where each ask is
  retrieved,     \* ledger.retrieved
  cited,         \* ledger.cited
  claim,         \* ledger.finalize
  inquiry        \* the inquiry that was made

(* The agent: creations are named after the ask that began them.           *)
VARIABLES
  promise,       \* inquiryAgentPromise
  baked,         \* bakedMethodology
  making,        \* where each creation is
  body,          \* the methodology a creation has read
  instructions,  \* AGENTS.md
  awaited,       \* the creation each ask waits for

(* History, which no code reads. *)
  begun,         \* the methodology that was current when the ask began
  mixed,         \* two creations that overlap have read different methodologies
  blind          \* asks that met a methodology read and not yet remembered

askVars == <<stage, retrieved, cited, claim, inquiry>>
agentVars == <<promise, baked, making, body, instructions>>
historyVars == <<begun, mixed, blind>>
vars == <<mode, prompt, chunk, askVars, agentVars, awaited, historyVars>>

None == MaxEdits + 1      \* undefined, or a file that is not there
Empty == MaxEdits + 2     \* AGENTS.md while writeFile has only truncated it
Texts == 0..MaxEdits

Sources == Chunks \cup Media
Citations == Sources \X {"good", "bad"}
Forged == <<"forged", "bad">>   \* an id no tool has returned
NoClaim == {<<"none", "none">>}
Present == {c \in Chunks : chunk[c] # "absent"}
Loadable == Present # {}         \* there is material to read

Goto(a, s) == stage' = [stage EXCEPT ![a] = s]
Make(a, status, cites) ==
  inquiry' = [inquiry EXCEPT ![a] = [status |-> status, cites |-> cites]]

(* make(): an inquiry there is, which is stored next.                      *)
Conclude(a, status, cites) == Make(a, status, cites) /\ Goto(a, "store")

LedgerStays == UNCHANGED <<retrieved, cited, claim>>

(* The ledger is a local variable.                                         *)
DropLedger(a) ==
  /\ retrieved' = [retrieved EXCEPT ![a] = [c \in Sources |-> "absent"]]
  /\ cited' = [cited EXCEPT ![a] = {}]
  /\ claim' = [claim EXCEPT ![a] = NoClaim]

-----------------------------------------------------------------------------
(* The request: refused without access or a model, answered at once when   *)
(* the case has nothing to answer from.                                    *)
Ask(a) ==
  /\ stage[a] = "idle"
  /\ \/ Goto(a, "refused") /\ UNCHANGED inquiry
     \/ mode = "agent" /\ ~Loadable /\ Conclude(a, "insufficient", {})
     \/ mode = "agent" /\ Loadable /\ Goto(a, "check") /\ UNCHANGED inquiry
     \/ mode = "single" /\ Goto(a, "retrieve") /\ UNCHANGED inquiry
  /\ begun' = [begun EXCEPT ![a] = prompt]
  /\ LedgerStays
  /\ UNCHANGED <<mode, prompt, chunk, agentVars, awaited, mixed, blind>>

(* The chunks a word of the question may occur in.                         *)
Scored(material) == {c \in Chunks : material[c] # "absent"}

(* A ranking, of words or of words and vectors, perhaps ranked again, is   *)
(* cut to the best: any of them may be among those.                        *)
Fused(material) == SUBSET Scored(material)

Ranked(material) ==
  {[c \in Sources |-> IF c \in hits THEN material[c] ELSE "absent"] : hits \in Fused(material)}

(* The whole material if it fits the budget.                               *)
SelectContext(material) ==
  Ranked(material) \cup {[c \in Sources |-> IF c \in Chunks THEN material[c] ELSE "absent"]}

(* The question may be rewritten first.  A rewriting or a dense search     *)
(* that fails is done without.                                             *)
Retrieve(a) ==
  /\ stage[a] = "retrieve"
  /\ \E context \in SelectContext(chunk) :
       /\ retrieved' = [retrieved EXCEPT ![a] = context]
       /\ IF \A c \in Chunks : context[c] = "absent"
            THEN Conclude(a, "insufficient", {})
            ELSE Goto(a, "generate") /\ UNCHANGED inquiry
  /\ UNCHANGED <<mode, prompt, chunk, cited, claim, agentVars, awaited, historyVars>>

(* resolveValidCitations: what was retrieved, and is what its hash says.   *)
Valid(a, ids) == {c \in ids \ {"forged"} : retrieved[a][c] = "good"}

(* validateClaim: every citation has to be valid, and there has to be one. *)
Verified(a, ids) == ids # {} /\ Valid(a, ids) = ids

(* The endpoint is not on the list, or the line that says so is not in the *)
(* log: there is no request, and an error for the client.                  *)
GuardRefuses(a) == Goto(a, "refused") /\ UNCHANGED inquiry

(* The request fails, or is answered with a claim and the chunks it names, *)
(* or with none.                                                           *)
GenerateAndValidate(a) ==
  /\ stage[a] = "generate"
  /\ \/ GuardRefuses(a)
     \/ Conclude(a, "error", {})
     \/ \E ids \in SUBSET (Chunks \cup {"forged"}) :
          IF Verified(a, ids)
            THEN Conclude(a, "answered", {<<c, retrieved[a][c]>> : c \in ids})
            ELSE Conclude(a, "insufficient", {})
  /\ DropLedger(a)
  /\ UNCHANGED <<mode, prompt, chunk, agentVars, awaited, historyVars>>

-----------------------------------------------------------------------------
(* An agent whose methodology is not the current one is dropped.  Nothing  *)
(* is compared as long as the first creation has not read its own.  A      *)
(* mutant does not look.                                                   *)
InvalidatesNot == FALSE
Invalidates == promise # NoAsk /\ baked # None /\ prompt # baked

(* The methodology is read before the comparison, in one step with it: a   *)
(* prompt edited in between only drops an agent once more.                 *)
JoinAgent(a) ==
  /\ stage[a] = "check"
  /\ Goto(a, "await")
  /\ IF promise = NoAsk \/ Invalidates
       THEN promise' = a /\ awaited' = [awaited EXCEPT ![a] = a]
            /\ making' = [making EXCEPT ![a] = "scratch"]
       ELSE awaited' = [awaited EXCEPT ![a] = promise] /\ UNCHANGED <<promise, making>>
  /\ blind' = IF promise # NoAsk /\ baked = None /\ making[promise] = "read"
               THEN blind \cup {a} ELSE blind
  /\ LedgerStays
  /\ UNCHANGED <<mode, prompt, chunk, inquiry, baked, body, instructions, begun,
                 mixed>>

(* createInquiryAgent, one await after the other.  The promise of one that *)
(* fails stays in the cache.                                               *)
HasRead(b) == making[b] \in {"read", "open", "write", "build"}

(* A creation in the cache that is ready, though this one is still at      *)
(* work, has taken its place: they overlap as well.                        *)
ReadMethodology(a) ==
  /\ making[a] = "scratch"
  /\ making' = [making EXCEPT ![a] = "read"]
  /\ body' = [body EXCEPT ![a] = prompt]
  /\ mixed' = (mixed \/ \E b \in Asks :
                          \/ HasRead(b) /\ body[b] # prompt
                          \/ b = promise /\ making[b] = "ready" /\ baked # prompt)
  /\ UNCHANGED <<mode, prompt, chunk, askVars, promise, baked, instructions, awaited, begun,
                 blind>>

Bake(a) ==
  /\ making[a] = "read"
  /\ making' = [making EXCEPT ![a] = "open"]
  /\ baked' = body[a]
  /\ UNCHANGED <<mode, prompt, chunk, askVars, promise, body, instructions, awaited, historyVars>>

TruncateInstructions(a) ==
  /\ making[a] = "open"
  /\ making' = [making EXCEPT ![a] = "write"]
  /\ instructions' = Empty
  /\ UNCHANGED <<mode, prompt, chunk, askVars, promise, baked, body, awaited, historyVars>>

WriteInstructions(a) ==
  /\ making[a] = "write"
  /\ making' = [making EXCEPT ![a] = "build"]
  /\ instructions' = body[a]
  /\ UNCHANGED <<mode, prompt, chunk, askVars, promise, baked, body, awaited, historyVars>>

CreationEnds(a) ==
  /\ \/ making[a] = "build" /\ making' = [making EXCEPT ![a] = "ready"]
     \/ /\ making[a] \in {"scratch", "open", "write", "build"}
        /\ making' = [making EXCEPT ![a] = "failed"]
  /\ body' = [body EXCEPT ![a] = None]
  /\ UNCHANGED <<mode, prompt, chunk, askVars, promise, baked, instructions, awaited,
                 historyVars>>

LeaveCache(a) ==
  /\ awaited' = [awaited EXCEPT ![a] = NoAsk]
  /\ begun' = [begun EXCEPT ![a] = None]

AgentFails(a) ==
  /\ stage[a] = "await" /\ making[awaited[a]] = "failed"
  /\ Goto(a, "refused")
  /\ LeaveCache(a)
  /\ LedgerStays
  /\ UNCHANGED <<mode, prompt, chunk, inquiry, agentVars, mixed, blind>>

(* The conversation reads AGENTS.md for its prompt.                        *)
BeginRun(a) ==
  /\ stage[a] = "await" /\ making[awaited[a]] = "ready"
  /\ Goto(a, "run")
  /\ LeaveCache(a)
  /\ LedgerStays
  /\ UNCHANGED <<mode, prompt, chunk, inquiry, agentVars, mixed, blind>>

-----------------------------------------------------------------------------
(* The tools.  One that fails, and read_chunk, leave the ledger alone.     *)
Running(a) == stage[a] = "run"

ToolEnds ==
  /\ UNCHANGED <<mode, prompt, chunk, stage, inquiry, agentVars, awaited, historyVars>>

SearchChunks(a) ==
  /\ Running(a)
  /\ \E hits \in SelectContext(chunk) :
       retrieved' = [retrieved EXCEPT ![a] =
                       [c \in Sources |-> IF hits[c] = "absent" THEN @[c] ELSE hits[c]]]
  /\ UNCHANGED <<cited, claim>> /\ ToolEnds

(* transcribe, caption_frame, ocr_region: hashed as they are made.         *)
ReadMedia(a) ==
  /\ Running(a) /\ Loadable
  /\ \E m \in Media : retrieved' = [retrieved EXCEPT ![a][m] = "good"]
  /\ UNCHANGED <<cited, claim>> /\ ToolEnds

(* A mutant does not compute the hash.                                     *)
CitableUnhashed(a, c) == retrieved[a][c] # "absent"
Citable(a, c) == retrieved[a][c] = "good"

Cite(a) ==
  /\ Running(a)
  /\ \E c \in Sources :
       /\ Citable(a, c)
       /\ cited' = [cited EXCEPT ![a] = @ \cup {<<c, retrieved[a][c]>>}]
  /\ UNCHANGED <<retrieved, claim>> /\ ToolEnds

(* The last finalize_answer counts.                                        *)
FinalizeAnswer(a) ==
  /\ Running(a)
  /\ \E ids \in SUBSET (cited[a] \cup {Forged}) : claim' = [claim EXCEPT ![a] = ids]
  /\ UNCHANGED <<retrieved, cited>> /\ ToolEnds

(* Anything but the guard's refusal is an inquiry that says "error": the   *)
(* model or the audit line of a tool failed, or the client has gone, whose *)
(* signal may abort the run or the judge at any time.                      *)
RunFails(a) ==
  /\ stage[a] = "run"
  /\ GuardRefuses(a) \/ Conclude(a, "error", {})
  /\ DropLedger(a)
  /\ UNCHANGED <<mode, prompt, chunk, agentVars, awaited, historyVars>>

RunEnds(a) ==
  /\ Running(a)
  /\ IF claim[a] = NoClaim
       THEN Conclude(a, "insufficient", {})
       ELSE Goto(a, "judge") /\ UNCHANGED inquiry
  /\ LedgerStays
  /\ UNCHANGED <<mode, prompt, chunk, agentVars, awaited, historyVars>>

(* hashGrounded: every cite_id is one of the ledger, and there is one.     *)
Grounded(a) == claim[a] # {} /\ claim[a] \subseteq cited[a]

(* What the judge says of the quotes: that one supports the claim, or that *)
(* it cannot be asked, makes an answer of it.                              *)
Judge(a) ==
  /\ stage[a] = "judge"
  /\ \/ Conclude(a, "error", {})
     \/ Conclude(a, "insufficient", {})
     \/ Grounded(a) /\ Conclude(a, "answered", claim[a])
  /\ DropLedger(a)
  /\ UNCHANGED <<mode, prompt, chunk, agentVars, awaited, historyVars>>

-----------------------------------------------------------------------------
Persist(a) ==
  /\ stage[a] = "store"
  /\ Goto(a, "record") \/ Goto(a, "refused")
  /\ LedgerStays
  /\ UNCHANGED <<mode, prompt, chunk, inquiry, agentVars, awaited, historyVars>>

(* The client is told when the line is there, and an error if it is not.   *)
RecordCreate(a) ==
  /\ stage[a] = "record"
  /\ Goto(a, "told") \/ Goto(a, "refused")
  /\ LedgerStays
  /\ UNCHANGED <<mode, prompt, chunk, inquiry, agentVars, awaited, historyVars>>

(* An administrator edits the methodology; a material is processed again,  *)
(* deleted, or changed behind the back of the server.                      *)
EditMethodology ==
  /\ mode = "agent" /\ prompt < MaxEdits
  /\ prompt' = prompt + 1
  /\ UNCHANGED <<mode, chunk, askVars, agentVars, awaited, historyVars>>

ChangeMaterial ==
  /\ \E c \in Chunks, s \in {"absent", "good", "bad"} :
       s # chunk[c] /\ chunk' = [chunk EXCEPT ![c] = s]
  /\ UNCHANGED <<mode, prompt, askVars, agentVars, awaited, historyVars>>

Init ==
  /\ mode \in {"single", "agent"}
  /\ prompt = 0
  /\ chunk = [c \in Chunks |-> "good"]
  /\ stage = [a \in Asks |-> "idle"]
  /\ retrieved = [a \in Asks |-> [c \in Sources |-> "absent"]]
  /\ cited = [a \in Asks |-> {}]
  /\ claim = [a \in Asks |-> NoClaim]
  /\ inquiry = [a \in Asks |-> [status |-> "none", cites |-> {}]]
  /\ promise = NoAsk /\ baked = None /\ instructions = None
  /\ making = [a \in Asks |-> "none"]
  /\ body = [a \in Asks |-> None]
  /\ awaited = [a \in Asks |-> NoAsk]
  /\ begun = [a \in Asks |-> None]
  /\ mixed = FALSE /\ blind = {}

Next ==
  \/ \E a \in Asks :
       \/ Ask(a) \/ Retrieve(a) \/ GenerateAndValidate(a)
       \/ JoinAgent(a) \/ ReadMethodology(a) \/ Bake(a) \/ TruncateInstructions(a)
       \/ WriteInstructions(a) \/ CreationEnds(a) \/ AgentFails(a) \/ BeginRun(a)
       \/ SearchChunks(a) \/ ReadMedia(a) \/ Cite(a) \/ FinalizeAnswer(a)
       \/ RunFails(a) \/ RunEnds(a) \/ Judge(a) \/ Persist(a) \/ RecordCreate(a)
  \/ EditMethodology
  \/ ChangeMaterial

Spec == Init /\ [][Next]_vars

-----------------------------------------------------------------------------
Stages ==
  {"idle", "retrieve", "generate", "check", "await", "run", "judge", "store", "record", "told",
   "refused"}

TypeOK ==
  /\ mode \in {"single", "agent"} /\ prompt \in Texts
  /\ chunk \in [Chunks -> {"absent", "good", "bad"}]
  /\ stage \in [Asks -> Stages]
  /\ retrieved \in [Asks -> [Sources -> {"absent", "good", "bad"}]]
  /\ cited \in [Asks -> SUBSET Citations]
  /\ claim \in [Asks -> (SUBSET (Citations \cup {Forged})) \cup {NoClaim}]
  /\ inquiry \in [Asks -> [status : {"none", "answered", "insufficient", "error"},
                          cites : SUBSET Citations]]
  /\ promise \in Asks \cup {NoAsk} /\ awaited \in [Asks -> Asks \cup {NoAsk}]
  /\ baked \in Texts \cup {None}
  /\ making \in [Asks -> {"none", "scratch", "read", "open", "write", "build", "ready", "failed"}]
  /\ body \in [Asks -> Texts \cup {None}]
  /\ instructions \in Texts \cup {None, Empty}
  /\ begun \in [Asks -> Texts \cup {None}] /\ mixed \in BOOLEAN /\ blind \in SUBSET Asks

(* The red line of the service: a claim that is given out as an answer     *)
(* rests on sources, all of which this ask has retrieved and which were    *)
(* what their hash said, whatever became of the material, of the ledger or *)
(* of the run.                                                             *)
AnswersAreGrounded ==
  [][\A a \in Asks :
       (inquiry'[a] # inquiry[a] /\ inquiry'[a].status = "answered") =>
         /\ inquiry'[a].cites # {}
         /\ \A cite \in inquiry'[a].cites :
              cite \in Citations /\ cite[2] = "good" /\ retrieved[a][cite[1]] # "absent"]_vars

(* "An edit takes effect at once": the methodology a conversation reads is *)
(* no older than the one that was current when the ask began.  The ways    *)
(* around it are two creations that overlap and have read different ones,  *)
(* and an ask that meets the first creation between its reading and its    *)
(* remembering.  (While another creation writes, there is none to read.)   *)
MethodologyIsCurrent ==
  [][\A a \in Asks \ blind :
       (stage[a] = "await" /\ stage'[a] = "run" /\ instructions \in Texts /\ ~mixed) =>
         instructions >= begun[a]]_vars

=============================================================================
