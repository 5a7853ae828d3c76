--------------------------- MODULE InquiryProofs ---------------------------
(***************************************************************************)
(* What holds of Inquiry for any number of asks, chunks and edits: the     *)
(* variables have their types, answers are grounded, and the methodology   *)
(* of a conversation is current.  The second needs an invariant of the     *)
(* ledgers: what is cited was good when it was, and has been retrieved,    *)
(* even if a later search has replaced it since; the third one of the      *)
(* creations: those that overlap would all write the same.                 *)
(***************************************************************************)
EXTENDS Inquiry, TLAPS

Ledgers ==
  \A a \in Asks : \A cite \in cited[a] : cite[2] = "good" /\ retrieved[a][cite[1]] # "absent"

(* Nothing is cited before the tools run.                                  *)
Early == {"idle", "retrieve", "generate", "check", "await"}
Fresh == \A a \in Asks : stage[a] \in Early => cited[a] = {}

IInv == TypeOK /\ Ledgers /\ Fresh

LedgerType ==
  /\ retrieved \in [Asks -> [Sources -> {"absent", "good", "bad"}]]
  /\ cited \in [Asks -> SUBSET Citations]
  /\ claim \in [Asks -> (SUBSET (Citations \cup {Forged})) \cup {NoClaim}]

InquiryType ==
  /\ stage \in [Asks -> Stages]
  /\ inquiry \in [Asks -> [status : {"none", "answered", "insufficient", "error"},
                          cites : SUBSET Citations]]

AgentType ==
  /\ promise \in Asks \cup {NoAsk} /\ awaited \in [Asks -> Asks \cup {NoAsk}]
  /\ baked \in Texts \cup {None}
  /\ making \in [Asks -> {"none", "scratch", "read", "open", "write", "build", "ready", "failed"}]
  /\ body \in [Asks -> Texts \cup {None}]
  /\ instructions \in Texts \cup {None, Empty}
  /\ begun \in [Asks -> Texts \cup {None}] /\ blind \in SUBSET Asks

WorldType ==
  /\ mode \in {"single", "agent"} /\ prompt \in Texts
  /\ chunk \in [Chunks -> {"absent", "good", "bad"}]

LEMMA TypeParts ==
  TypeOK <=> WorldType /\ InquiryType /\ LedgerType /\ AgentType /\ mixed \in BOOLEAN
BY DEF TypeOK, WorldType, InquiryType, LedgerType, AgentType

(* Whatever becomes of an ask's stage and inquiry, one of these happens to *)
(* its ledger.                                                             *)
LEMMA DropKeepsLedgers ==
  ASSUME LedgerType, Ledgers, NEW a \in Asks, DropLedger(a)
  PROVE  LedgerType' /\ Ledgers'
<1> DEFINE none == [c \in Sources |-> "absent"]
<1>1. none \in [Sources -> {"absent", "good", "bad"}]
  OBVIOUS
<1>2. retrieved' \in [Asks -> [Sources -> {"absent", "good", "bad"}]]
  <2> HIDE DEF none
  <2>1. retrieved' = [retrieved EXCEPT ![a] = none]
    BY DEF DropLedger, none
  <2> QED  BY <1>1, <2>1 DEF LedgerType
<1>3. cited' \in [Asks -> SUBSET Citations]
  BY DEF DropLedger, LedgerType
<1>4. claim' \in [Asks -> (SUBSET (Citations \cup {Forged})) \cup {NoClaim}]
  <2> DEFINE claims == (SUBSET (Citations \cup {Forged})) \cup {NoClaim}
  <2>0. NoClaim \in claims
    <3>1. NoClaim \in {NoClaim}
      OBVIOUS
    <3> QED  BY <3>1, Zenon
  <2>1. claim \in [Asks -> claims]
    BY DEF LedgerType
  <2>2. claim' = [claim EXCEPT ![a] = NoClaim]
    BY DEF DropLedger
  <2> HIDE DEF claims
  <2>3. claim' \in [Asks -> claims]
    BY <2>0, <2>1, <2>2
  <2> QED  BY <2>3 DEF claims
<1>5. \A b \in Asks : cited'[b] = {} \/ (cited'[b] = cited[b] /\ retrieved'[b] = retrieved[b])
  BY DEF DropLedger, LedgerType
<1> QED  BY <1>2, <1>3, <1>4, <1>5 DEF LedgerType, Ledgers

LEMMA StayKeepsLedgers ==
  ASSUME LedgerType, Ledgers, LedgerStays
  PROVE  LedgerType' /\ Ledgers'
BY DEF LedgerType, Ledgers, LedgerStays

(* What a retrieval finds are sources with a state of their own.           *)
LEMMA ContextType ==
  ASSUME chunk \in [Chunks -> {"absent", "good", "bad"}]
  PROVE  SelectContext(chunk) \subseteq [Sources -> {"absent", "good", "bad"}]
BY DEF SelectContext, Ranked, Fused, Scored, Sources

LEMMA ToolKeepsLedgers ==
  ASSUME TypeOK, Ledgers, NEW a \in Asks,
         SearchChunks(a) \/ ReadMedia(a) \/ Cite(a) \/ FinalizeAnswer(a)
  PROVE  LedgerType' /\ Ledgers'
<1> USE DEF LedgerType, Ledgers
<1>0. LedgerType /\ chunk \in [Chunks -> {"absent", "good", "bad"}]
  BY DEF TypeOK
<1>1. CASE SearchChunks(a)
  <2>1. PICK hits \in SelectContext(chunk) :
          retrieved' = [retrieved EXCEPT ![a] =
                          [c \in Sources |-> IF hits[c] = "absent" THEN @[c] ELSE hits[c]]]
    BY <1>1 DEF SearchChunks
  <2>2. hits \in [Sources -> {"absent", "good", "bad"}]
    BY <1>0, ContextType
  <2>3. retrieved' \in [Asks -> [Sources -> {"absent", "good", "bad"}]]
    BY <1>0, <2>1, <2>2
  <2>4. \A b \in Asks, c \in Sources : retrieved[b][c] # "absent" => retrieved'[b][c] # "absent"
    BY <1>0, <2>1, <2>2
  <2>5. cited' = cited /\ claim' = claim
    BY <1>1 DEF SearchChunks
  <2>6. \A b \in Asks : \A cite \in cited[b] : cite[1] \in Sources
    BY <1>0 DEF Citations
  <2> QED  BY <1>0, <2>3, <2>4, <2>5, <2>6
<1>2. CASE ReadMedia(a)
  <2>1. PICK m \in Media : retrieved' = [retrieved EXCEPT ![a][m] = "good"]
    BY <1>2 DEF ReadMedia
  <2>2. m \in Sources
    BY DEF Sources
  <2>3. retrieved' \in [Asks -> [Sources -> {"absent", "good", "bad"}]]
    BY <1>0, <2>1, <2>2
  <2>4. \A b \in Asks, c \in Sources : retrieved[b][c] # "absent" => retrieved'[b][c] # "absent"
    BY <1>0, <2>1, <2>2
  <2>5. cited' = cited /\ claim' = claim
    BY <1>2 DEF ReadMedia
  <2>6. \A b \in Asks : \A cite \in cited[b] : cite[1] \in Sources
    BY <1>0 DEF Citations
  <2> QED  BY <1>0, <2>3, <2>4, <2>5, <2>6
<1>3. CASE Cite(a)
  <2>1. PICK c \in Sources :
          Citable(a, c) /\ cited' = [cited EXCEPT ![a] = @ \cup {<<c, retrieved[a][c]>>}]
    BY <1>3 DEF Cite
  <2>2. retrieved[a][c] = "good" /\ <<c, "good">> \in Citations
    BY <2>1 DEF Citable, Citations
  <2>3. cited' \in [Asks -> SUBSET Citations]
    BY <1>0, <2>1, <2>2
  <2>4. \A b \in Asks : \A cite \in cited'[b] : cite \in cited[b] \/ (b = a /\ cite = <<c, "good">>)
    BY <1>0, <2>1, <2>2
  <2>5. retrieved' = retrieved /\ claim' = claim
    BY <1>3 DEF Cite
  <2> QED  BY <1>0, <2>2, <2>3, <2>4, <2>5
<1>4. CASE FinalizeAnswer(a)
  <2>1. PICK ids \in SUBSET (cited[a] \cup {Forged}) : claim' = [claim EXCEPT ![a] = ids]
    BY <1>4 DEF FinalizeAnswer
  <2>2. ids \in SUBSET (Citations \cup {Forged})
    BY <1>0
  <2>3. claim' \in [Asks -> (SUBSET (Citations \cup {Forged})) \cup {NoClaim}]
    BY <1>0, <2>1, <2>2
  <2>4. retrieved' = retrieved /\ cited' = cited
    BY <1>4 DEF FinalizeAnswer
  <2> QED  BY <1>0, <2>3, <2>4
<1> QED  BY <1>1, <1>2, <1>3, <1>4

(* An inquiry that is made has a status, and citations.                    *)
LEMMA ConcludeKeepsType ==
  ASSUME InquiryType, NEW a \in Asks, NEW cites \in SUBSET Citations,
         NEW status \in {"answered", "insufficient", "error"}, Conclude(a, status, cites)
  PROVE  InquiryType'
<1>1. stage' \in [Asks -> Stages]
  BY DEF Conclude, Goto, InquiryType, Stages
<1>2. inquiry' \in [Asks -> [status : {"none", "answered", "insufficient", "error"},
                            cites : SUBSET Citations]]
  BY DEF Conclude, Make, InquiryType
<1> QED  BY <1>1, <1>2 DEF InquiryType

LEMMA GotoKeepsType ==
  ASSUME InquiryType, NEW a \in Asks, NEW s \in Stages, Goto(a, s), inquiry' = inquiry
  PROVE  InquiryType'
BY DEF Goto, InquiryType

(* A step that moves one ask and does not fill a ledger.                   *)
LEMMA MoveKeepsFresh ==
  ASSUME InquiryType, LedgerType, Fresh, NEW a \in Asks, LedgerStays \/ DropLedger(a),
         NEW s \in Stages, Goto(a, s), s \in Early => stage[a] \in Early
  PROVE  Fresh'
<1>1. \A b \in Asks : cited'[b] = {} \/ cited'[b] = cited[b]
  BY DEF LedgerStays, DropLedger, LedgerType
<1>2. \A b \in Asks : stage'[b] \in Early => stage[b] \in Early
  BY DEF Goto, InquiryType
<1> QED  BY <1>1, <1>2 DEF Fresh

LEMMA MoveKeepsInv ==
  ASSUME IInv, NEW a \in Asks, LedgerStays \/ DropLedger(a),
         \/ \E s \in Stages : /\ Goto(a, s) /\ inquiry' = inquiry
                              /\ s \in Early => stage[a] \in Early
         \/ \E status \in {"answered", "insufficient", "error"}, cites \in SUBSET Citations :
              Conclude(a, status, cites),
         WorldType', AgentType', mixed' \in BOOLEAN
  PROVE  IInv'
<1>1. WorldType /\ InquiryType /\ LedgerType /\ AgentType
  BY TypeParts DEF IInv
<1>2. InquiryType'
  BY <1>1, ConcludeKeepsType, GotoKeepsType
<1>3. LedgerType' /\ Ledgers'
  BY <1>1, DropKeepsLedgers, StayKeepsLedgers DEF IInv
<1>4. Fresh'
  <2>1. "store" \in Stages /\ "store" \notin Early
    BY DEF Stages, Early
  <2>2. \E s \in Stages : Goto(a, s) /\ (s \in Early => stage[a] \in Early)
    BY <2>1 DEF Conclude
  <2> QED  BY <1>1, <2>2, MoveKeepsFresh DEF IInv
<1>5. TypeOK'
  BY <1>2, <1>3 DEF TypeOK, WorldType, InquiryType, LedgerType, AgentType
<1> QED  BY <1>3, <1>4, <1>5 DEF IInv

(* A step of somebody else: no ask moves, and no ledger changes.           *)
LEMMA OtherKeepsInv ==
  ASSUME IInv, UNCHANGED askVars, WorldType', AgentType', mixed' \in BOOLEAN
  PROVE  IInv'
<1>1. InquiryType /\ LedgerType
  BY TypeParts DEF IInv
<1>2. InquiryType' /\ LedgerType' /\ Ledgers' /\ Fresh'
  BY <1>1 DEF IInv, InquiryType, LedgerType, Ledgers, Fresh, askVars
<1>3. TypeOK'
  BY <1>2 DEF TypeOK, WorldType, InquiryType, LedgerType, AgentType
<1> QED  BY <1>2, <1>3 DEF IInv

(* A claim that is grounded is made of citations.                          *)
LEMMA GroundedCites ==
  ASSUME LedgerType, NEW a \in Asks, Grounded(a)
  PROVE  claim[a] \in SUBSET Citations
BY DEF LedgerType, Grounded

(* So is one that validateClaim has verified.                              *)
LEMMA VerifiedCites ==
  ASSUME LedgerType, NEW a \in Asks, NEW ids \in SUBSET (Chunks \cup {"forged"}),
         Verified(a, ids)
  PROVE  /\ ids # {}
         /\ \A c \in ids : c \in Sources /\ retrieved[a][c] = "good"
         /\ {<<c, retrieved[a][c]>> : c \in ids} \in SUBSET Citations
<1>1. ids # {} /\ \A c \in ids : c \in Chunks /\ retrieved[a][c] = "good"
  BY DEF Verified, Valid
<1> QED  BY <1>1 DEF Sources, Citations

LEMMA InitInv == Init => IInv
<1> SUFFICES ASSUME Init PROVE IInv
  OBVIOUS
<1>1. prompt \in Texts /\ prompt # None
  BY InquiryAssumption DEF Init, Texts, None
<1>2. WorldType
  BY <1>1 DEF Init, WorldType
<1>3. InquiryType
  BY DEF Init, InquiryType, Stages
<1>4. AgentType /\ mixed \in BOOLEAN
  BY DEF Init, AgentType
<1>5. LedgerType
  <2> DEFINE claims == (SUBSET (Citations \cup {Forged})) \cup {NoClaim}
             none == [c \in Sources |-> "absent"]
  <2>0. NoClaim \in claims
    <3>1. NoClaim \in {NoClaim}
      OBVIOUS
    <3> QED  BY <3>1, Zenon
  <2>1. none \in [Sources -> {"absent", "good", "bad"}]
    OBVIOUS
  <2>2. /\ retrieved = [a \in Asks |-> none] /\ claim = [a \in Asks |-> NoClaim]
        /\ cited = [a \in Asks |-> {}]
    BY DEF Init
  <2> HIDE DEF claims, none
  <2>3. /\ retrieved \in [Asks -> [Sources -> {"absent", "good", "bad"}]]
        /\ claim \in [Asks -> claims] /\ cited \in [Asks -> SUBSET Citations]
    BY <2>0, <2>1, <2>2
  <2> QED  BY <2>3 DEF claims, LedgerType
<1>6. Ledgers /\ Fresh
  BY DEF Init, Ledgers, Fresh
<1> QED  BY <1>2, <1>3, <1>4, <1>5, <1>6, TypeParts DEF IInv

LEMMA StepKeepsInv == IInv /\ [Next]_vars => IInv'
<1> SUFFICES ASSUME IInv, [Next]_vars PROVE IInv'
  OBVIOUS
<1>0. TypeOK /\ Ledgers /\ Fresh /\ WorldType /\ InquiryType /\ LedgerType /\ AgentType
      /\ mixed \in BOOLEAN
  BY TypeParts DEF IInv
<1>e. {} \in SUBSET Citations
  OBVIOUS
<1>1. ASSUME NEW a \in Asks, Ask(a) PROVE IInv'
  <2>1. \/ \E s \in Stages : Goto(a, s) /\ inquiry' = inquiry
        \/ Conclude(a, "insufficient", {})
    BY <1>1 DEF Ask, GuardRefuses, Stages
  <2>2. WorldType' /\ AgentType' /\ mixed' \in BOOLEAN /\ LedgerStays /\ stage[a] \in Early
    BY <1>0, <1>1 DEF Ask, WorldType, AgentType, agentVars, Early
  <2> QED  BY <1>e, <2>1, <2>2, MoveKeepsInv
<1>2. ASSUME NEW a \in Asks, Retrieve(a) PROVE IInv'
  <2>1. PICK context \in SelectContext(chunk) :
          /\ retrieved' = [retrieved EXCEPT ![a] = context]
          /\ \/ Conclude(a, "insufficient", {})
             \/ Goto(a, "generate") /\ UNCHANGED inquiry
    BY <1>2 DEF Retrieve
  <2>2. cited' = cited /\ claim' = claim /\ stage[a] \in Early
    BY <1>2 DEF Retrieve, Early
  <2>3. InquiryType'
    BY <1>0, <1>e, <2>1, ConcludeKeepsType, GotoKeepsType DEF Stages
  <2>4. LedgerType'
    BY <1>0, <2>1, <2>2, ContextType DEF LedgerType, WorldType
  <2>5. Ledgers' /\ Fresh'
    <3>1. cited[a] = {}
      BY <1>0, <2>2 DEF Fresh
    <3>2. \A b \in Asks : b # a => retrieved'[b] = retrieved[b] /\ stage'[b] = stage[b]
      BY <1>0, <2>1 DEF LedgerType, InquiryType, Conclude, Goto
    <3> QED  BY <1>0, <2>2, <3>1, <3>2 DEF Ledgers, Fresh
  <2>6. WorldType' /\ AgentType' /\ mixed' \in BOOLEAN
    BY <1>0, <1>2 DEF Retrieve, WorldType, AgentType, agentVars, historyVars
  <2>7. TypeOK'
    BY <2>3, <2>4, <2>6 DEF TypeOK, WorldType, InquiryType, LedgerType, AgentType
  <2> QED  BY <2>5, <2>7 DEF IInv
<1>3. ASSUME NEW a \in Asks, GenerateAndValidate(a) PROVE IInv'
  <2>1. \/ Goto(a, "refused") /\ inquiry' = inquiry
        \/ Conclude(a, "error", {}) \/ Conclude(a, "insufficient", {})
        \/ \E cites \in SUBSET Citations : Conclude(a, "answered", cites)
    BY <1>0, <1>3, VerifiedCites DEF GenerateAndValidate, GuardRefuses
  <2>2. WorldType' /\ AgentType' /\ mixed' \in BOOLEAN /\ DropLedger(a)
    BY <1>0, <1>3 DEF GenerateAndValidate, WorldType, AgentType, agentVars, historyVars
  <2> QED  BY <1>e, <2>1, <2>2, MoveKeepsInv DEF Stages, Early
<1>4. ASSUME NEW a \in Asks, JoinAgent(a) PROVE IInv'
  <2>1. Goto(a, "await") /\ inquiry' = inquiry /\ LedgerStays /\ stage[a] \in Early
    BY <1>4 DEF JoinAgent, Early
  <2>2. promise' \in Asks \cup {NoAsk} /\ awaited' \in [Asks -> Asks \cup {NoAsk}]
    BY <1>0, <1>4 DEF JoinAgent, AgentType
  <2>3. /\ making' \in [Asks -> {"none", "scratch", "read", "open", "write", "build", "ready",
                                  "failed"}]
        /\ blind' \in SUBSET Asks
    BY <1>0, <1>4 DEF JoinAgent, AgentType
  <2>4. WorldType' /\ mixed' \in BOOLEAN
        /\ UNCHANGED <<baked, body, instructions, begun>>
    BY <1>0, <1>4 DEF JoinAgent, WorldType
  <2>5. AgentType'
    BY <1>0, <2>2, <2>3, <2>4 DEF AgentType
  <2> QED  BY <2>1, <2>4, <2>5, MoveKeepsInv DEF Stages
<1>5. ASSUME NEW a \in Asks,
             \/ ReadMethodology(a) \/ Bake(a) \/ TruncateInstructions(a)
             \/ WriteInstructions(a) \/ CreationEnds(a)
      PROVE  IInv'
  <2>1. UNCHANGED askVars /\ WorldType'
    BY <1>0, <1>5
    DEF ReadMethodology, Bake, TruncateInstructions, WriteInstructions, CreationEnds, WorldType
  <2>2. mixed' \in BOOLEAN
    BY <1>0, <1>5, Zenon
    DEF ReadMethodology, Bake, TruncateInstructions, WriteInstructions, CreationEnds, historyVars
  <2>3. AgentType'
    BY <1>0, <1>5
    DEF ReadMethodology, Bake, TruncateInstructions, WriteInstructions, CreationEnds, AgentType,
        WorldType, historyVars
  <2> QED  BY <2>1, <2>2, <2>3, OtherKeepsInv
<1>6. ASSUME NEW a \in Asks, AgentFails(a) \/ BeginRun(a) PROVE IInv'
  <2>1. /\ Goto(a, "refused") \/ Goto(a, "run")
        /\ inquiry' = inquiry /\ LedgerStays /\ WorldType' /\ mixed' \in BOOLEAN
    BY <1>0, <1>6 DEF AgentFails, BeginRun, WorldType
  <2>2. AgentType'
    BY <1>0, <1>6 DEF AgentFails, BeginRun, LeaveCache, AgentType, agentVars
  <2> QED  BY <2>1, <2>2, MoveKeepsInv DEF Stages, Early
<1>7. ASSUME NEW a \in Asks, SearchChunks(a) \/ ReadMedia(a) \/ Cite(a) \/ FinalizeAnswer(a)
      PROVE  IInv'
  <2>1. LedgerType' /\ Ledgers'
    BY <1>0, <1>7, ToolKeepsLedgers
  <2>2. stage[a] = "run" /\ UNCHANGED <<mode, prompt, chunk, stage, inquiry>>
    BY <1>7 DEF SearchChunks, ReadMedia, Cite, FinalizeAnswer, ToolEnds, Running
  <2>3. AgentType' /\ mixed' \in BOOLEAN
    BY <1>0, <1>7
    DEF SearchChunks, ReadMedia, Cite, FinalizeAnswer, ToolEnds, AgentType, agentVars, historyVars
  <2>4. \A b \in Asks : b # a => cited'[b] = cited[b]
    BY <1>0, <1>7 DEF SearchChunks, ReadMedia, Cite, FinalizeAnswer, LedgerType
  <2>5. Fresh'
    BY <1>0, <2>2, <2>4 DEF Fresh, Early
  <2>6. TypeOK'
    BY <1>0, <2>1, <2>2, <2>3 DEF TypeOK, WorldType, InquiryType, LedgerType, AgentType
  <2> QED  BY <2>1, <2>5, <2>6 DEF IInv
<1>8. ASSUME NEW a \in Asks, RunFails(a) \/ Judge(a) PROVE IInv'
  <2>1. \/ Goto(a, "refused") /\ inquiry' = inquiry
        \/ Conclude(a, "error", {}) \/ Conclude(a, "insufficient", {})
        \/ \E cites \in SUBSET Citations : Conclude(a, "answered", cites)
    BY <1>0, <1>8, GroundedCites DEF RunFails, Judge, GuardRefuses
  <2>2. WorldType' /\ AgentType' /\ mixed' \in BOOLEAN /\ DropLedger(a)
    BY <1>0, <1>8 DEF RunFails, Judge, WorldType, AgentType, agentVars, historyVars
  <2> QED  BY <1>e, <2>1, <2>2, MoveKeepsInv DEF Stages, Early
<1>9. ASSUME NEW a \in Asks, RunEnds(a) \/ Persist(a) \/ RecordCreate(a) PROVE IInv'
  <2>1. \/ \E s \in {"judge", "record", "told", "refused"} : Goto(a, s) /\ inquiry' = inquiry
        \/ Conclude(a, "insufficient", {})
    BY <1>9 DEF RunEnds, Persist, RecordCreate
  <2>2. WorldType' /\ AgentType' /\ mixed' \in BOOLEAN /\ LedgerStays
    BY <1>0, <1>9
    DEF RunEnds, Persist, RecordCreate, WorldType, AgentType, agentVars, historyVars
  <2> QED  BY <1>e, <2>1, <2>2, MoveKeepsInv DEF Stages, Early
<1>10. ASSUME EditMethodology \/ ChangeMaterial PROVE IInv'
  <2>1. UNCHANGED <<askVars, agentVars, awaited, historyVars, mode>>
    BY <1>10 DEF EditMethodology, ChangeMaterial
  <2>2. prompt' \in Texts
    BY <1>0, <1>10, InquiryAssumption DEF EditMethodology, ChangeMaterial, WorldType, Texts
  <2>3. chunk' \in [Chunks -> {"absent", "good", "bad"}]
    BY <1>0, <1>10 DEF EditMethodology, ChangeMaterial, WorldType
  <2>4. AgentType' /\ WorldType' /\ mixed' \in BOOLEAN
    BY <1>0, <2>1, <2>2, <2>3 DEF AgentType, WorldType, agentVars, historyVars
  <2> QED  BY <2>1, <2>4, OtherKeepsInv
<1>11. ASSUME UNCHANGED vars PROVE IInv'
  <2>1. AgentType' /\ WorldType' /\ mixed' \in BOOLEAN /\ UNCHANGED askVars
    BY <1>0, <1>11 DEF vars, AgentType, WorldType, agentVars, historyVars, askVars
  <2> QED  BY <2>1, OtherKeepsInv
<1> QED
  BY <1>1, <1>2, <1>3, <1>4, <1>5, <1>6, <1>7, <1>8, <1>9, <1>10, <1>11 DEF Next

(* The variables have their types: the asks, their ledgers and the agent.  *)
THEOREM TypeCorrect == Spec => []TypeOK
<1>1. IInv => TypeOK
  BY DEF IInv
<1> QED  BY <1>1, InitInv, StepKeepsInv, PTL DEF Spec

(* An answer rests on sources this ask has retrieved and whose hash was    *)
(* right, for any number of asks, chunks and changes of the material.      *)
THEOREM NoAnswerWithoutGrounds == Spec => AnswersAreGrounded
<1> DEFINE GroundedStep ==
      \A a \in Asks :
        (inquiry'[a] # inquiry[a] /\ inquiry'[a].status = "answered") =>
          /\ inquiry'[a].cites # {}
          /\ \A cite \in inquiry'[a].cites :
               cite \in Citations /\ cite[2] = "good" /\ retrieved[a][cite[1]] # "absent"
<1>1. IInv /\ [Next]_vars => [GroundedStep]_vars
  <2> SUFFICES ASSUME IInv, Next, NEW b \in Asks, inquiry'[b] # inquiry[b],
                      inquiry'[b].status = "answered"
               PROVE  /\ inquiry'[b].cites # {}
                      /\ \A cite \in inquiry'[b].cites :
                           /\ cite \in Citations /\ cite[2] = "good"
                           /\ retrieved[b][cite[1]] # "absent"
    OBVIOUS
  <2>0. InquiryType /\ LedgerType /\ Ledgers
    BY TypeParts DEF IInv
  <2>1. ASSUME NEW a \in Asks, NEW cites, NEW status, Conclude(a, status, cites)
        PROVE  a = b /\ status = "answered" /\ inquiry'[b].cites = cites
    BY <2>0, <2>1 DEF Conclude, Make, InquiryType
  <2>2. \E a \in Asks : GenerateAndValidate(a) \/ Judge(a)
    <3>1. PICK a \in Asks :
            \/ GenerateAndValidate(a) \/ Judge(a)
            \/ Conclude(a, "insufficient", {}) \/ Conclude(a, "error", {})
      BY DEF Next, Ask, Retrieve, JoinAgent, ReadMethodology, Bake, TruncateInstructions,
             WriteInstructions, CreationEnds, AgentFails, BeginRun, SearchChunks, ReadMedia, Cite,
             FinalizeAnswer, ToolEnds, RunFails, RunEnds, Persist, RecordCreate, GuardRefuses,
             EditMethodology, ChangeMaterial, askVars
    <3> QED  BY <2>1, <3>1
  <2>3. PICK a \in Asks : GenerateAndValidate(a) \/ Judge(a)
    BY <2>2
  <2>4. CASE GenerateAndValidate(a)
    <3>1. PICK ids \in SUBSET (Chunks \cup {"forged"}) :
            Verified(a, ids) /\ Conclude(a, "answered", {<<c, retrieved[a][c]>> : c \in ids})
      BY <2>1, <2>4 DEF GenerateAndValidate, GuardRefuses
    <3>2. a = b /\ inquiry'[b].cites = {<<c, retrieved[a][c]>> : c \in ids}
      BY <2>1, <3>1
    <3>3. /\ ids # {} /\ \A c \in ids : c \in Sources /\ retrieved[a][c] = "good"
          /\ {<<c, retrieved[a][c]>> : c \in ids} \in SUBSET Citations
      BY <2>0, <3>1, VerifiedCites
    <3>4. inquiry'[b].cites # {}
      BY <3>2, <3>3
    <3>5. ASSUME NEW cite \in inquiry'[b].cites
          PROVE  /\ cite \in Citations /\ cite[2] = "good"
                 /\ retrieved[b][cite[1]] # "absent"
      <4>1. PICK c \in ids : cite = <<c, retrieved[a][c]>>
        BY <3>2, <3>5
      <4>2. cite[1] = c /\ cite[2] = "good" /\ retrieved[b][c] = "good"
        BY <3>2, <3>3, <4>1
      <4> QED  BY <3>2, <3>3, <3>5, <4>2
    <3> QED  BY <3>4, <3>5
  <2>5. CASE Judge(a)
    <3>1. Grounded(a) /\ Conclude(a, "answered", claim[a])
      BY <2>1, <2>5 DEF Judge
    <3>2. a = b /\ inquiry'[b].cites = claim[a]
      BY <2>1, <3>1
    <3>3. claim[a] # {} /\ claim[a] \subseteq cited[a] /\ cited[a] \subseteq Citations
      BY <2>0, <3>1 DEF Grounded, LedgerType
    <3> QED  BY <2>0, <3>2, <3>3 DEF Ledgers
  <2> QED  BY <2>3, <2>4, <2>5
<1> QED  BY <1>1, InitInv, StepKeepsInv, PTL DEF Spec, AnswersAreGrounded

-----------------------------------------------------------------------------
(* The methodology.  Its edits are numbered in their order: what anybody   *)
(* has read is not newer than the prompt.                                  *)
NotNewer ==
  /\ \A a \in Asks : /\ stage[a] \in {"check", "await"} => begun[a] \in Texts /\ begun[a] <= prompt
                     /\ stage[a] = "await" => awaited[a] \in Asks
                     /\ HasRead(a) => body[a] \in Texts /\ body[a] <= prompt
  /\ baked # None => baked \in Texts /\ baked <= prompt

(* The creation in the cache: whoever else is at work has read the same,   *)
(* and that is what is remembered, and written once it has been written.   *)
CacheFits ==
  /\ \A p \in Asks : promise = p /\ making[p] = "read" =>
       /\ \A c \in Asks : HasRead(c) => body[c] = body[p]
       /\ baked # None => baked <= body[p]
  /\ \A p \in Asks : promise = p /\ making[p] \in {"open", "write", "build", "ready"} =>
       /\ baked \in Texts
       /\ \A c \in Asks : HasRead(c) => body[c] = baked
       /\ making[p] \in {"build", "ready"} /\ instructions \in Texts => instructions = baked

(* What an ask waits for is new enough for it, and so is what the others   *)
(* at work may still write in its place.                                   *)
Serves(a, p) ==
  /\ HasRead(p) \/ making[p] = "ready" => \A c \in Asks : HasRead(c) => begun[a] <= body[c]
  /\ making[p] \in {"build", "ready"} /\ instructions \in Texts => begun[a] <= instructions

AwaitedServes ==
  \A a \in Asks \ blind, p \in Asks : stage[a] = "await" /\ awaited[a] = p => Serves(a, p)

MethodologyInv == NotNewer /\ (~mixed => CacheFits /\ AwaitedServes)

LEMMA TextsFacts ==
  /\ \A t \in Texts : t \in Nat /\ t <= t
  /\ None \notin Texts /\ Empty \notin Texts /\ 0 \in Texts
BY InquiryAssumption DEF Texts, None, Empty

LEMMA AgentTypes ==
  ASSUME IInv
  PROVE  /\ prompt \in Texts /\ stage \in [Asks -> Stages] /\ promise \in Asks \cup {NoAsk}
         /\ awaited \in [Asks -> Asks \cup {NoAsk}] /\ baked \in Texts \cup {None}
         /\ making \in [Asks -> {"none", "scratch", "read", "open", "write", "build", "ready",
                                 "failed"}]
         /\ body \in [Asks -> Texts \cup {None}] /\ instructions \in Texts \cup {None, Empty}
         /\ begun \in [Asks -> Texts \cup {None}] /\ mixed \in BOOLEAN /\ blind \in SUBSET Asks
BY DEF IInv, TypeOK

(* A step that leaves the agent alone, and moves nobody to where it counts.*)
LEMMA ElsewhereKeepsMethodology ==
  ASSUME IInv, MethodologyInv, UNCHANGED <<prompt, agentVars, awaited, historyVars>>,
         \A b \in Asks : stage'[b] \in {"check", "await"} => stage'[b] = stage[b]
  PROVE  MethodologyInv'
<1>1. NotNewer'
  BY DEF MethodologyInv, NotNewer, HasRead, agentVars, historyVars
<1>2. CacheFits' = CacheFits
  BY DEF CacheFits, HasRead, agentVars
<1>3. AwaitedServes => AwaitedServes'
  BY DEF AwaitedServes, Serves, HasRead, agentVars, historyVars
<1> QED  BY <1>1, <1>2, <1>3 DEF MethodologyInv, historyVars

LEMMA AskKeepsMethodology ==
  ASSUME IInv, MethodologyInv, NEW a \in Asks, Ask(a)
  PROVE  MethodologyInv'
<1>0. prompt \in Texts /\ stage \in [Asks -> Stages] /\ begun \in [Asks -> Texts \cup {None}]
  BY AgentTypes
<1>1. /\ stage[a] = "idle" /\ begun' = [begun EXCEPT ![a] = prompt]
      /\ UNCHANGED <<prompt, agentVars, awaited, mixed, blind>>
  BY DEF Ask
<1>2. PICK s \in Stages \ {"await"} : Goto(a, s)
  BY DEF Ask, Conclude, Stages
<1>3. \A b \in Asks : stage'[b] = IF b = a THEN s ELSE stage[b]
  BY <1>0, <1>2 DEF Goto
<1>4. \A b \in Asks : begun'[b] = IF b = a THEN prompt ELSE begun[b]
  BY <1>0, <1>1
<1>5. NotNewer'
  <2>1. prompt <= prompt
    BY <1>0, TextsFacts
  <2> QED  BY <1>0, <1>1, <1>2, <1>3, <1>4, <2>1 DEF MethodologyInv, NotNewer, HasRead, agentVars
<1>6. CacheFits' = CacheFits
  BY <1>1 DEF CacheFits, HasRead, agentVars
<1>7. AwaitedServes => AwaitedServes'
  BY <1>1, <1>2, <1>3, <1>4 DEF AwaitedServes, Serves, HasRead, agentVars
<1> QED  BY <1>1, <1>5, <1>6, <1>7 DEF MethodologyInv

(* Who joins a creation that is remembered finds the current methodology   *)
(* in it, and who joins one that is not is blind, or comes before it reads.*)
LEMMA JoinKeepsMethodology ==
  ASSUME IInv, MethodologyInv, NEW a \in Asks, JoinAgent(a)
  PROVE  MethodologyInv'
<1>0. /\ prompt \in Texts /\ stage \in [Asks -> Stages] /\ promise \in Asks \cup {NoAsk}
      /\ awaited \in [Asks -> Asks \cup {NoAsk}] /\ baked \in Texts \cup {None}
      /\ making \in [Asks -> {"none", "scratch", "read", "open", "write", "build", "ready",
                              "failed"}]
      /\ body \in [Asks -> Texts \cup {None}] /\ begun \in [Asks -> Texts \cup {None}]
      /\ blind \in SUBSET Asks
  BY AgentTypes
<1>1. /\ stage[a] = "check" /\ stage' = [stage EXCEPT ![a] = "await"]
      /\ UNCHANGED <<prompt, baked, body, instructions, begun, mixed>>
      /\ blind \subseteq blind'
      /\ (promise # NoAsk /\ baked = None /\ making[promise] = "read") => a \in blind'
  BY DEF JoinAgent, Goto
<1>2. \A b \in Asks : stage'[b] = IF b = a THEN "await" ELSE stage[b]
  BY <1>0, <1>1
<1>3. begun[a] \in Texts /\ begun[a] <= prompt
  BY <1>1 DEF MethodologyInv, NotNewer
<1>4. CASE /\ promise' = a /\ awaited' = [awaited EXCEPT ![a] = a]
           /\ making' = [making EXCEPT ![a] = "scratch"]
  <2>1. \A b \in Asks : making'[b] = IF b = a THEN "scratch" ELSE making[b]
    BY <1>0, <1>4
  <2>2. \A b \in Asks : awaited'[b] = IF b = a THEN a ELSE awaited[b]
    BY <1>0, <1>4
  <2>3. \A b \in Asks : HasRead(b)' => HasRead(b)
    BY <2>1 DEF HasRead
  <2>4. NotNewer'
    BY <1>1, <1>2, <1>3, <2>2, <2>3 DEF MethodologyInv, NotNewer
  <2>5. CacheFits'
    BY <1>4, <2>1 DEF CacheFits
  <2>6. AwaitedServes => AwaitedServes'
    <3> SUFFICES ASSUME AwaitedServes, NEW b \in Asks \ blind', NEW p \in Asks,
                        stage'[b] = "await", awaited'[b] = p
                 PROVE  Serves(b, p)'
      BY DEF AwaitedServes
    <3>1. CASE p = a
      BY <2>1, <3>1 DEF Serves, HasRead
    <3>2. CASE p # a
      <4>1. b # a /\ stage[b] = "await" /\ awaited[b] = p /\ b \in Asks \ blind
        BY <1>1, <1>2, <2>2, <3>2
      <4>2. Serves(b, p)
        BY <4>1 DEF AwaitedServes
      <4> QED  BY <1>1, <2>1, <2>3, <3>2, <4>2 DEF Serves, HasRead
    <3> QED  BY <3>1, <3>2
  <2> QED  BY <1>1, <2>4, <2>5, <2>6 DEF MethodologyInv
<1>5. CASE /\ promise # NoAsk /\ ~(baked # None /\ prompt # baked)
           /\ awaited' = [awaited EXCEPT ![a] = promise] /\ UNCHANGED <<promise, making>>
  <2>1. \A b \in Asks : awaited'[b] = IF b = a THEN promise ELSE awaited[b]
    BY <1>0, <1>5
  <2>2. promise \in Asks
    BY <1>0, <1>5
  <2>3. NotNewer'
    BY <1>1, <1>2, <1>3, <1>5, <2>1, <2>2 DEF MethodologyInv, NotNewer, HasRead
  <2>4. CacheFits' = CacheFits
    BY <1>1, <1>5 DEF CacheFits, HasRead
  <2>5. CacheFits /\ AwaitedServes => AwaitedServes'
    <3> SUFFICES ASSUME CacheFits, AwaitedServes, NEW b \in Asks \ blind', NEW p \in Asks,
                        stage'[b] = "await", awaited'[b] = p
                 PROVE  Serves(b, p)
      BY <1>1, <1>5 DEF AwaitedServes, Serves, HasRead
    <3>1. CASE b # a
      <4>1. stage[b] = "await" /\ awaited[b] = p /\ b \in Asks \ blind
        BY <1>1, <1>2, <2>1, <3>1
      <4> QED  BY <4>1 DEF AwaitedServes
    <3>2. CASE b = a
      <4>1. p = promise
        BY <2>1, <3>2
      <4>2. CASE making[p] = "read"
        <5>1. baked = prompt
          BY <1>1, <1>5, <3>2, <4>1, <4>2
        <5>2. prompt # None
          BY <1>0, TextsFacts
        <5>3. \A c \in Asks : HasRead(c) => body[c] = body[p] /\ prompt <= body[p]
          BY <4>1, <4>2, <5>1, <5>2 DEF CacheFits
        <5>4. \A c \in Asks : HasRead(c) => body[c] \in Texts
          BY DEF MethodologyInv, NotNewer
        <5>5. ASSUME NEW c \in Asks, HasRead(c) PROVE begun[a] <= body[c]
          <6>1. begun[a] \in Nat /\ prompt \in Nat /\ body[c] \in Nat
            BY <1>0, <1>3, <5>4, <5>5, TextsFacts
          <6>2. begun[a] <= prompt /\ prompt <= body[c]
            BY <1>3, <5>3, <5>5
          <6> QED  BY <6>1, <6>2
        <5> QED  BY <3>2, <4>2, <5>5 DEF Serves
      <4>3. CASE making[p] \in {"open", "write", "build", "ready"}
        <5>1. baked \in Texts /\ (\A c \in Asks : HasRead(c) => body[c] = baked)
              /\ (making[p] \in {"build", "ready"} /\ instructions \in Texts => instructions = baked)
          BY <4>1, <4>3 DEF CacheFits
        <5>2. baked = prompt
          BY <1>5, <5>1, TextsFacts
        <5> QED  BY <1>3, <3>2, <5>1, <5>2 DEF Serves
      <4>4. CASE making[p] \notin {"read", "open", "write", "build", "ready"}
        BY <4>4 DEF Serves, HasRead
      <4> QED  BY <4>2, <4>3, <4>4
    <3> QED  BY <3>1, <3>2
  <2> QED  BY <1>1, <2>3, <2>4, <2>5 DEF MethodologyInv
<1> QED  BY <1>4, <1>5 DEF JoinAgent, Invalidates

(* A creation reads: unless it meets one that has read something else, all *)
(* that have read, have read the current methodology.                      *)
LEMMA ReadKeepsMethodology ==
  ASSUME IInv, MethodologyInv, NEW a \in Asks, ReadMethodology(a)
  PROVE  MethodologyInv'
<1>0. /\ prompt \in Texts /\ baked \in Texts \cup {None}
      /\ making \in [Asks -> {"none", "scratch", "read", "open", "write", "build", "ready",
                              "failed"}]
      /\ body \in [Asks -> Texts \cup {None}] /\ begun \in [Asks -> Texts \cup {None}]
  BY AgentTypes
<1>1. /\ making[a] = "scratch" /\ prompt <= prompt
      /\ UNCHANGED <<prompt, stage, promise, baked, instructions, awaited, begun, blind>>
      /\ mixed' = (mixed \/ \E b \in Asks :
                              \/ HasRead(b) /\ body[b] # prompt
                              \/ b = promise /\ making[b] = "ready" /\ baked # prompt)
  BY <1>0, TextsFacts DEF ReadMethodology, askVars
<1>2. \A b \in Asks : making'[b] = IF b = a THEN "read" ELSE making[b]
  BY <1>0 DEF ReadMethodology
<1>3. \A b \in Asks : body'[b] = IF b = a THEN prompt ELSE body[b]
  BY <1>0 DEF ReadMethodology
<1>4. \A b \in Asks : HasRead(b)' <=> b = a \/ HasRead(b)
  BY <1>2 DEF HasRead
<1>5. NotNewer'
  BY <1>0, <1>1, <1>3, <1>4 DEF MethodologyInv, NotNewer
<1>6. ASSUME ~mixed' PROVE CacheFits' /\ AwaitedServes'
  <2>0. ~mixed /\ CacheFits /\ AwaitedServes
    BY <1>1, <1>6 DEF MethodologyInv
  <2>1. \A c \in Asks : HasRead(c) => body[c] = prompt
    BY <1>1, <1>6
  <2>2. \A c \in Asks : HasRead(c)' => body'[c] = prompt
    BY <1>3, <1>4, <2>1
  <2>3. ASSUME NEW p \in Asks, promise' = p, making'[p] = "read"
        PROVE  /\ \A c \in Asks : HasRead(c)' => body'[c] = body'[p]
               /\ baked' # None => baked' <= body'[p]
    <3>1. HasRead(p)'
      BY <2>3 DEF HasRead
    <3>2. body'[p] = prompt
      BY <2>2, <3>1
    <3> QED  BY <1>1, <2>2, <3>2 DEF MethodologyInv, NotNewer
  <2>4. ASSUME NEW p \in Asks, promise' = p, making'[p] \in {"open", "write", "build", "ready"}
        PROVE  /\ baked' \in Texts
               /\ \A c \in Asks : HasRead(c)' => body'[c] = baked'
               /\ making'[p] \in {"build", "ready"} /\ instructions' \in Texts =>
                    instructions' = baked'
    <3>1. promise = p /\ making[p] = making'[p]
      BY <1>1, <1>2, <2>4
    <3>2. /\ baked \in Texts
          /\ \A c \in Asks : HasRead(c) => body[c] = baked
          /\ making[p] \in {"build", "ready"} /\ instructions \in Texts => instructions = baked
      BY <2>0, <2>4, <3>1 DEF CacheFits
    <3>3. baked = prompt
      <4>1. CASE making[p] = "ready"
        BY <1>1, <1>6, <3>1, <4>1
      <4>2. CASE making[p] # "ready"
        <5>1. HasRead(p)
          BY <2>4, <3>1, <4>2 DEF HasRead
        <5> QED  BY <2>1, <3>2, <5>1
      <4> QED  BY <4>1, <4>2
    <3> QED  BY <1>1, <2>2, <3>1, <3>2, <3>3
  <2>5. CacheFits'
    BY <2>3, <2>4 DEF CacheFits
  <2>6. AwaitedServes'
    <3> SUFFICES ASSUME NEW b \in Asks \ blind, NEW p \in Asks, stage[b] = "await", awaited[b] = p
                 PROVE  Serves(b, p)'
      BY <1>1 DEF AwaitedServes
    <3>1. Serves(b, p) /\ begun[b] <= prompt
      BY <2>0 DEF AwaitedServes, MethodologyInv, NotNewer
    <3>2. \A c \in Asks : HasRead(c)' => begun'[b] <= body'[c]
      BY <1>1, <2>2, <3>1
    <3>3. making'[p] \in {"build", "ready"} => making[p] = making'[p]
      BY <1>2
    <3> QED  BY <1>1, <3>1, <3>2, <3>3 DEF Serves
  <2> QED  BY <2>5, <2>6
<1> QED  BY <1>5, <1>6 DEF MethodologyInv

LEMMA BakeKeepsMethodology ==
  ASSUME IInv, MethodologyInv, NEW a \in Asks, Bake(a)
  PROVE  MethodologyInv'
<1>0. /\ prompt \in Texts
      /\ making \in [Asks -> {"none", "scratch", "read", "open", "write", "build", "ready",
                              "failed"}]
  BY AgentTypes
<1>1. /\ making[a] = "read" /\ baked' = body[a]
      /\ UNCHANGED <<prompt, stage, promise, body, instructions, awaited, begun, blind, mixed>>
  BY DEF Bake, askVars, historyVars
<1>2. \A b \in Asks : making'[b] = IF b = a THEN "open" ELSE making[b]
  BY <1>0 DEF Bake
<1>3. \A b \in Asks : HasRead(b)' <=> HasRead(b)
  BY <1>1, <1>2 DEF HasRead
<1>4. HasRead(a) /\ body[a] \in Texts /\ body[a] <= prompt /\ body[a] <= body[a]
  <2>1. HasRead(a) /\ body[a] \in Texts /\ body[a] <= prompt
    BY <1>1 DEF HasRead, MethodologyInv, NotNewer
  <2> QED  BY <2>1, TextsFacts
<1>5. NotNewer'
  BY <1>1, <1>3, <1>4 DEF MethodologyInv, NotNewer
<1>6. ASSUME CacheFits PROVE CacheFits'
  <2>1. ASSUME NEW p \in Asks, promise' = p, making'[p] = "read"
        PROVE  /\ \A c \in Asks : HasRead(c)' => body'[c] = body'[p]
               /\ baked' # None => baked' <= body'[p]
    <3>1. promise = p /\ making[p] = "read"
      BY <1>1, <1>2, <2>1
    <3>2. \A c \in Asks : HasRead(c) => body[c] = body[p]
      BY <1>6, <3>1 DEF CacheFits
    <3> QED  BY <1>1, <1>3, <1>4, <3>2
  <2>2. ASSUME NEW p \in Asks, promise' = p, making'[p] \in {"open", "write", "build", "ready"}
        PROVE  /\ baked' \in Texts
               /\ \A c \in Asks : HasRead(c)' => body'[c] = baked'
               /\ making'[p] \in {"build", "ready"} /\ instructions' \in Texts =>
                    instructions' = baked'
    <3>1. CASE p = a
      <4>1. \A c \in Asks : HasRead(c) => body[c] = body[a]
        BY <1>1, <1>6, <2>2, <3>1 DEF CacheFits
      <4> QED  BY <1>1, <1>2, <1>3, <1>4, <3>1, <4>1
    <3>2. CASE p # a
      <4>1. promise = p /\ making[p] = making'[p]
        BY <1>1, <1>2, <2>2, <3>2
      <4>2. /\ \A c \in Asks : HasRead(c) => body[c] = baked
            /\ making[p] \in {"build", "ready"} /\ instructions \in Texts => instructions = baked
        BY <1>6, <2>2, <4>1 DEF CacheFits
      <4>3. baked' = baked
        BY <1>1, <1>4, <4>2
      <4> QED  BY <1>1, <1>3, <1>4, <4>1, <4>2, <4>3
    <3> QED  BY <3>1, <3>2
  <2> QED  BY <2>1, <2>2 DEF CacheFits
<1>7. AwaitedServes => AwaitedServes'
  <2>1. \A p \in Asks : making'[p] \in {"build", "ready"} => making[p] = making'[p]
    BY <1>2
  <2>2. \A p \in Asks : making'[p] = "ready" => making[p] = "ready"
    BY <1>2
  <2> QED  BY <1>1, <1>3, <2>1, <2>2 DEF AwaitedServes, Serves
<1> QED  BY <1>1, <1>5, <1>6, <1>7 DEF MethodologyInv

(* AGENTS.md is truncated, and then written: what is in it is what every   *)
(* creation that has read would write.                                     *)
LEMMA WriteKeepsMethodology ==
  ASSUME IInv, MethodologyInv, NEW a \in Asks, TruncateInstructions(a) \/ WriteInstructions(a)
  PROVE  MethodologyInv'
<1>0. making \in [Asks -> {"none", "scratch", "read", "open", "write", "build", "ready", "failed"}]
  BY AgentTypes
<1>1. /\ UNCHANGED <<prompt, stage, promise, baked, body, awaited, begun, blind, mixed>>
      /\ \/ making[a] = "open" /\ making' = [making EXCEPT ![a] = "write"] /\ instructions' = Empty
         \/ making[a] = "write" /\ making' = [making EXCEPT ![a] = "build"] /\ instructions' = body[a]
  BY DEF TruncateInstructions, WriteInstructions, askVars, historyVars
<1>2. /\ making[a] \in {"open", "write"} /\ \A b \in Asks \ {a} : making'[b] = making[b]
      /\ making'[a] \in {"write", "build"}
      /\ instructions' \in Texts => instructions' = body[a]
  BY <1>0, <1>1, TextsFacts
<1>3. HasRead(a) /\ \A b \in Asks : HasRead(b)' <=> HasRead(b)
  BY <1>2 DEF HasRead
<1>4. NotNewer'
  BY <1>1, <1>3 DEF MethodologyInv, NotNewer
<1>5. ASSUME CacheFits PROVE CacheFits'
  <2>1. ASSUME NEW p \in Asks, promise' = p, making'[p] = "read"
        PROVE  /\ \A c \in Asks : HasRead(c)' => body'[c] = body'[p]
               /\ baked' # None => baked' <= body'[p]
    <3>1. promise = p /\ making[p] = "read"
      BY <1>1, <1>2, <2>1
    <3> QED  BY <1>1, <1>3, <1>5, <3>1 DEF CacheFits
  <2>2. ASSUME NEW p \in Asks, promise' = p, making'[p] \in {"open", "write", "build", "ready"}
        PROVE  /\ baked' \in Texts
               /\ \A c \in Asks : HasRead(c)' => body'[c] = baked'
               /\ making'[p] \in {"build", "ready"} /\ instructions' \in Texts =>
                    instructions' = baked'
    <3>1. promise = p /\ making[p] \in {"open", "write", "build", "ready"}
      BY <1>1, <1>2, <2>2
    <3>2. baked \in Texts /\ \A c \in Asks : HasRead(c) => body[c] = baked
      BY <1>5, <3>1 DEF CacheFits
    <3> QED  BY <1>1, <1>2, <1>3, <3>2
  <2> QED  BY <2>1, <2>2 DEF CacheFits
<1>6. ASSUME AwaitedServes PROVE AwaitedServes'
  <2> SUFFICES ASSUME NEW b \in Asks \ blind, NEW p \in Asks, stage[b] = "await", awaited[b] = p
               PROVE  Serves(b, p)'
    BY <1>1 DEF AwaitedServes
  <2>1. Serves(b, p)
    BY <1>6 DEF AwaitedServes
  <2>2. (HasRead(p)' \/ making'[p] = "ready") => HasRead(p) \/ making[p] = "ready"
    BY <1>2, <1>3
  <2>3. making'[p] \in {"build", "ready"} => HasRead(p) \/ making[p] = "ready"
    BY <1>2, <1>3 DEF HasRead
  <2> QED  BY <1>1, <1>2, <1>3, <2>1, <2>2, <2>3 DEF Serves
<1> QED  BY <1>1, <1>4, <1>5, <1>6 DEF MethodologyInv

LEMMA EndKeepsMethodology ==
  ASSUME IInv, MethodologyInv, NEW a \in Asks, CreationEnds(a)
  PROVE  MethodologyInv'
<1>0. /\ making \in [Asks -> {"none", "scratch", "read", "open", "write", "build", "ready",
                              "failed"}]
      /\ body \in [Asks -> Texts \cup {None}]
  BY AgentTypes
<1>1. /\ UNCHANGED <<prompt, stage, promise, baked, instructions, awaited, begun, blind, mixed>>
      /\ \A b \in Asks \ {a} : body'[b] = body[b] /\ making'[b] = making[b]
      /\ making'[a] \in {"ready", "failed"} /\ (making'[a] = "ready" => making[a] = "build")
  BY <1>0 DEF CreationEnds, askVars, historyVars
<1>2. \A b \in Asks : HasRead(b)' => HasRead(b) /\ body'[b] = body[b]
  BY <1>1 DEF HasRead
<1>3. NotNewer'
  BY <1>1, <1>2 DEF MethodologyInv, NotNewer
<1>4. ASSUME CacheFits PROVE CacheFits'
  <2>1. ASSUME NEW p \in Asks, promise' = p, making'[p] = "read"
        PROVE  /\ \A c \in Asks : HasRead(c)' => body'[c] = body'[p]
               /\ baked' # None => baked' <= body'[p]
    <3>1. promise = p /\ making[p] = "read" /\ body'[p] = body[p]
      BY <1>1, <2>1
    <3> QED  BY <1>1, <1>2, <1>4, <3>1 DEF CacheFits
  <2>2. ASSUME NEW p \in Asks, promise' = p, making'[p] \in {"open", "write", "build", "ready"}
        PROVE  /\ baked' \in Texts
               /\ \A c \in Asks : HasRead(c)' => body'[c] = baked'
               /\ making'[p] \in {"build", "ready"} /\ instructions' \in Texts =>
                    instructions' = baked'
    <3>1. /\ promise = p /\ making[p] \in {"open", "write", "build", "ready"}
          /\ making'[p] \in {"build", "ready"} => making[p] \in {"build", "ready"}
      BY <1>1, <2>2
    <3> QED  BY <1>1, <1>2, <1>4, <3>1 DEF CacheFits
  <2> QED  BY <2>1, <2>2 DEF CacheFits
<1>5. ASSUME AwaitedServes PROVE AwaitedServes'
  <2> SUFFICES ASSUME NEW b \in Asks \ blind, NEW p \in Asks, stage[b] = "await", awaited[b] = p
               PROVE  Serves(b, p)'
    BY <1>1 DEF AwaitedServes
  <2>1. Serves(b, p)
    BY <1>5 DEF AwaitedServes
  <2>2. /\ (HasRead(p)' \/ making'[p] = "ready") => HasRead(p) \/ making[p] = "ready"
        /\ making'[p] \in {"build", "ready"} => making[p] \in {"build", "ready"}
    BY <1>1, <1>2 DEF HasRead
  <2> QED  BY <1>1, <1>2, <2>1, <2>2 DEF Serves
<1> QED  BY <1>1, <1>3, <1>4, <1>5 DEF MethodologyInv

LEMMA LeaveKeepsMethodology ==
  ASSUME IInv, MethodologyInv, NEW a \in Asks, AgentFails(a) \/ BeginRun(a)
  PROVE  MethodologyInv'
<1>0. stage \in [Asks -> Stages] /\ begun \in [Asks -> Texts \cup {None}]
      /\ awaited \in [Asks -> Asks \cup {NoAsk}]
  BY AgentTypes
<1>1. /\ UNCHANGED <<prompt, agentVars, mixed, blind>> /\ stage'[a] \in {"run", "refused"}
      /\ \A b \in Asks \ {a} :
           stage'[b] = stage[b] /\ awaited'[b] = awaited[b] /\ begun'[b] = begun[b]
  BY <1>0 DEF AgentFails, BeginRun, LeaveCache, Goto
<1>2. NotNewer'
  BY <1>1 DEF MethodologyInv, NotNewer, HasRead, agentVars
<1>3. CacheFits' = CacheFits
  BY <1>1 DEF CacheFits, HasRead, agentVars
<1>4. AwaitedServes => AwaitedServes'
  BY <1>1 DEF AwaitedServes, Serves, HasRead, agentVars
<1> QED  BY <1>1, <1>2, <1>3, <1>4 DEF MethodologyInv

LEMMA EditKeepsMethodology ==
  ASSUME IInv, MethodologyInv, EditMethodology
  PROVE  MethodologyInv'
<1>0. prompt \in Nat /\ prompt' = prompt + 1 /\ \A n \in Nat : n <= prompt => n <= prompt'
  <2>1. prompt \in Nat /\ prompt' = prompt + 1
    BY AgentTypes, TextsFacts DEF EditMethodology
  <2> QED  BY <2>1
<1>1. UNCHANGED <<stage, agentVars, awaited, historyVars>>
  BY DEF EditMethodology, askVars
<1>2. NotNewer'
  <2>1. /\ \A a \in Asks : /\ stage[a] \in {"check", "await"} => begun[a] \in Texts /\ begun[a] <= prompt'
                           /\ stage[a] = "await" => awaited[a] \in Asks
                           /\ HasRead(a) => body[a] \in Texts /\ body[a] <= prompt'
        /\ baked # None => baked \in Texts /\ baked <= prompt'
    BY <1>0, TextsFacts DEF MethodologyInv, NotNewer
  <2> QED  BY <1>1, <2>1 DEF NotNewer, HasRead, agentVars, historyVars
<1>3. CacheFits' = CacheFits
  BY <1>1 DEF CacheFits, HasRead, agentVars
<1>4. AwaitedServes => AwaitedServes'
  BY <1>1 DEF AwaitedServes, Serves, HasRead, agentVars, historyVars
<1> QED  BY <1>1, <1>2, <1>3, <1>4 DEF MethodologyInv, historyVars

LEMMA StepKeepsMethodology == IInv /\ MethodologyInv /\ [Next]_vars => MethodologyInv'
<1> SUFFICES ASSUME IInv, MethodologyInv, [Next]_vars PROVE MethodologyInv'
  OBVIOUS
<1>0. stage \in [Asks -> Stages]
  BY AgentTypes
<1>1. ASSUME NEW a \in Asks,
             \/ Retrieve(a) \/ GenerateAndValidate(a) \/ RunFails(a) \/ RunEnds(a) \/ Judge(a)
             \/ Persist(a) \/ RecordCreate(a)
      PROVE  MethodologyInv'
  <2>1. UNCHANGED <<prompt, agentVars, awaited, historyVars>>
    BY <1>1 DEF Retrieve, GenerateAndValidate, RunFails, RunEnds, Judge, Persist, RecordCreate
  <2>2. \E s \in {"generate", "judge", "store", "record", "told", "refused"} : Goto(a, s)
    BY <1>1 DEF Retrieve, GenerateAndValidate, RunFails, RunEnds, Judge, Persist, RecordCreate,
                GuardRefuses, Conclude
  <2>3. \A b \in Asks : stage'[b] \in {"check", "await"} => stage'[b] = stage[b]
    BY <1>0, <2>2 DEF Goto
  <2> QED  BY <2>1, <2>3, ElsewhereKeepsMethodology
<1>2. ASSUME NEW a \in Asks, SearchChunks(a) \/ ReadMedia(a) \/ Cite(a) \/ FinalizeAnswer(a)
      PROVE  MethodologyInv'
  BY <1>2, ElsewhereKeepsMethodology DEF SearchChunks, ReadMedia, Cite, FinalizeAnswer, ToolEnds
<1>3. ASSUME ChangeMaterial \/ UNCHANGED vars PROVE MethodologyInv'
  BY <1>3, ElsewhereKeepsMethodology DEF ChangeMaterial, vars, askVars
<1>4. ASSUME NEW a \in Asks, Ask(a) \/ JoinAgent(a) \/ ReadMethodology(a) \/ Bake(a)
      PROVE  MethodologyInv'
  BY <1>4, AskKeepsMethodology, JoinKeepsMethodology, ReadKeepsMethodology, BakeKeepsMethodology
<1>5. ASSUME NEW a \in Asks,
             \/ TruncateInstructions(a) \/ WriteInstructions(a) \/ CreationEnds(a)
             \/ AgentFails(a) \/ BeginRun(a)
      PROVE  MethodologyInv'
  BY <1>5, WriteKeepsMethodology, EndKeepsMethodology, LeaveKeepsMethodology
<1>6. ASSUME EditMethodology PROVE MethodologyInv'
  BY <1>6, EditKeepsMethodology
<1> QED  BY <1>1, <1>2, <1>3, <1>4, <1>5, <1>6 DEF Next

(* "An edit takes effect at once": whatever edits, questions and creations *)
(* overlap, a conversation reads a methodology no older than the one that  *)
(* was current when its question came, outside the two ways around.        *)
THEOREM CurrentMethodology == Spec => MethodologyIsCurrent
<1> DEFINE CurrentStep ==
      \A a \in Asks \ blind :
        (stage[a] = "await" /\ stage'[a] = "run" /\ instructions \in Texts /\ ~mixed) =>
          instructions >= begun[a]
<1>1. Init => MethodologyInv
  BY DEF Init, MethodologyInv, NotNewer, CacheFits, AwaitedServes, HasRead
<1>2. IInv /\ MethodologyInv /\ [Next]_vars => [CurrentStep]_vars
  <2> SUFFICES ASSUME IInv, MethodologyInv, Next, NEW a \in Asks \ blind, stage[a] = "await",
                      stage'[a] = "run", instructions \in Texts, ~mixed
               PROVE  instructions >= begun[a]
    OBVIOUS
  <2>0. stage \in [Asks -> Stages]
    BY AgentTypes
  <2>1. BeginRun(a)
    <3>1. ASSUME NEW b \in Asks,
                 \/ Ask(b) \/ Retrieve(b) \/ GenerateAndValidate(b) \/ JoinAgent(b)
                 \/ ReadMethodology(b) \/ Bake(b) \/ TruncateInstructions(b)
                 \/ WriteInstructions(b) \/ CreationEnds(b) \/ AgentFails(b)
          PROVE  FALSE
      BY <2>0, <3>1 DEF Ask, Retrieve, GenerateAndValidate, JoinAgent, ReadMethodology, Bake,
                        TruncateInstructions, WriteInstructions, CreationEnds, AgentFails,
                        GuardRefuses, Conclude, Goto, askVars
    <3>2. ASSUME NEW b \in Asks,
                 \/ SearchChunks(b) \/ ReadMedia(b) \/ Cite(b) \/ FinalizeAnswer(b)
                 \/ RunFails(b) \/ RunEnds(b) \/ Judge(b) \/ Persist(b) \/ RecordCreate(b)
          PROVE  FALSE
      BY <2>0, <3>2 DEF SearchChunks, ReadMedia, Cite, FinalizeAnswer, ToolEnds, RunFails,
                        RunEnds, Judge, Persist, RecordCreate, GuardRefuses, Conclude, Goto, askVars
    <3>3. ASSUME NEW b \in Asks, BeginRun(b) PROVE b = a
      BY <2>0, <3>3 DEF BeginRun, Goto
    <3> QED
      BY <3>1, <3>2, <3>3 DEF Next, EditMethodology, ChangeMaterial, askVars
  <2>2. awaited[a] \in Asks /\ making[awaited[a]] = "ready"
    BY <2>1 DEF BeginRun, MethodologyInv, NotNewer
  <2>3. Serves(a, awaited[a])
    BY <2>2 DEF MethodologyInv, AwaitedServes
  <2>4. begun[a] <= instructions /\ begun[a] \in Texts
    BY <2>2, <2>3 DEF Serves, MethodologyInv, NotNewer
  <2> QED  BY <2>4, TextsFacts
<1> QED
  BY <1>1, <1>2, InitInv, StepKeepsInv, StepKeepsMethodology, PTL DEF Spec, MethodologyIsCurrent

=============================================================================
