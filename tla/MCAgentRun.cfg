CONSTANTS
  Calls <- MCCalls
  Tools <- MCTools
  MaxSends = 2
  MaxTurns = 2
  MaxMishaps = 1
SPECIFICATION Spec
INVARIANTS
  ModelSeesAnsweredCalls
  JournalBreaksOnlyBehindInterruption
  TraceTellsTheRun
PROPERTIES
  EditsCompose
  SendSettles
\* A behaviour ends with the last message, or with a session nobody can use.
CHECK_DEADLOCK FALSE
