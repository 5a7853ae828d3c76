CONSTANTS
  c1 = c1
  c2 = c2
  m1 = m1
  m2 = m2
  m3 = m3
  Requests <- MCRequests
  Creates <- MCCreates
  Template <- MCTemplate
  InitialFacts <- MCInitialFacts
  MaxChanges = 1
  MaxCrashes = 1
  NoRun = NoRun
SYMMETRY Symmetric
SPECIFICATION Spec
INVARIANTS
  NothingLost
  CheckpointsHold
  GroundsHeld
PROPERTY VerdictStands
\* A behaviour ends when every request has ended.
CHECK_DEADLOCK FALSE
