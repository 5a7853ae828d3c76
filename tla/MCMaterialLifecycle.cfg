CONSTANTS
  i1 = i1
  p1 = p1
  q1 = q1
  Requests <- MCRequests
  Op <- MCOp
  NoFile = NoFile
  Counts = {2}
  ProcessAtIngest = TRUE
  ContextualRetrieval = TRUE
  AuditMayFail = TRUE
  DiskMayFail = TRUE
  MaxCrashes = 1
SPECIFICATION FairSpec
INVARIANTS
  DoneHasChunks
  OneRun
  ServedIsOneRun
PROPERTIES
  StaysRemoved
  ProcessingEnds
\* A behaviour ends when every request has ended.
CHECK_DEADLOCK FALSE
