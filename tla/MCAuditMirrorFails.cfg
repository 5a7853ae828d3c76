CONSTANTS
  e1 = e1
  e2 = e2
  e3 = e3
  e4 = e4
  c1 = c1
  c2 = c2
  NoCase = NoCase
  Events <- MCEvents
  Cases <- MCCases
  CaseOf <- MCCaseOf
  Faults = {"mirror"}
  MaxCrashes = 0
SPECIFICATION FairSpec
INVARIANT ChainVerifies
CHECK_DEADLOCK FALSE
