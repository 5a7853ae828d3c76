---------------------------- MODULE ReportReview ----------------------------
(***************************************************************************)
(* What the report state machine promises (the comment above ReportService *)
(* and section 7.4 of the phase-1 plan): an edit makes the report a draft, *)
(* a draft is submitted, the submitted report is approved, and only the    *)
(* report that was approved is handed out.  It is marked as exported       *)
(* first, and an export may end there: no promise that whoever finds a     *)
(* report exported finds somebody who has its text.                        *)
(***************************************************************************)
CONSTANTS Specs, NoReport

VARIABLES
  report,    \* NoReport, or the status and the spec of the report
  delivered  \* the specs whose text an export has returned

vars == <<report, delivered>>

InStatus(status) == report # NoReport /\ report.status = status
MoveTo(status) == report' = [report EXCEPT !.status = status]

Init == report = NoReport /\ delivered = {}

Edit ==
  /\ \E spec \in Specs : report' = [status |-> "draft", spec |-> spec]
  /\ UNCHANGED delivered

Submit == InStatus("draft") /\ MoveTo("in_review") /\ UNCHANGED delivered

Approve == InStatus("in_review") /\ MoveTo("approved") /\ UNCHANGED delivered

MarkExported == InStatus("approved") /\ MoveTo("exported") /\ UNCHANGED delivered

HandOut ==
  /\ InStatus("exported")
  /\ delivered' = delivered \cup {report.spec}
  /\ UNCHANGED report

Next == Edit \/ Submit \/ Approve \/ MarkExported \/ HandOut

Spec == Init /\ [][Next]_vars

=============================================================================
