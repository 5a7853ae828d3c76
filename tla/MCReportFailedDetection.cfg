CONSTANTS
  d1 = d1
  d2 = d2
  s1 = s1
  a1 = a1
  x1 = x1
  Requests <- MCRequests
  Op <- MCOp
  Findings = {f1}
  Contradictions = {k1}
  NoReport = NoReport
  NoSpec = NoSpec
  Faults = {}
  OneAtATime = TRUE
SPECIFICATION Spec
INVARIANT NoOpenContradictionExported
CHECK_DEADLOCK FALSE
