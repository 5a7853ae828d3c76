CONSTANTS
  d1 = d1
  d2 = d2
  s1 = s1
  a1 = a1
  x1 = x1
  Requests <- MCRequests
  Op <- MCOp
  Findings = {f1}
  Contradictions = {}
  NoReport = NoReport
  NoSpec = NoSpec
  Faults = {"render", "files"}
  OneAtATime = FALSE
SYMMETRY Symmetric
SPECIFICATION Spec
INVARIANTS
  TypeOK
  ApprovedWasReviewed
  MismatchExplained
\* A behaviour ends when every request has ended.
CHECK_DEADLOCK FALSE
