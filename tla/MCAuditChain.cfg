CONSTANTS
  e1 = e1
  e2 = e2
  e3 = e3
  e4 = e4
  c1 = c1
  c2 = c2
  NoCase = NoCase
  Events <- MCEvents
  Cases <- MCCases
  CaseOf <- MCCaseOf
  Faults = {"main", "mirror", "torn"}
  MaxCrashes = 2
SPECIFICATION FairSpec
INVARIANTS
  TypeOK
  BreakFollowsFailedMirror
  MirrorFollowsLog
PROPERTIES
  RefinesLog
  EveryCallSettles
\* A behaviour ends when every call has been made and settled.
CHECK_DEADLOCK FALSE
