CONSTANTS
  d1 = d1
  d2 = d2
  s1 = s1
  a1 = a1
  x1 = x1
  Requests <- MCRequests
  Op <- MCOp
  Findings = {f1}
  Contradictions = {k1}
  NoReport = NoReport
  NoSpec = NoSpec
  Faults = {"audit"}
  OneAtATime = TRUE
SPECIFICATION Spec
INVARIANTS
  GateHolds
PROPERTY RefinesReview
\* A behaviour ends when every request has ended.
CHECK_DEADLOCK FALSE
