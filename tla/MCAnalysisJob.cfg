CONSTANTS
  r1 = r1
  r2 = r2
  Runs <- MCRuns
  Batches = 3
  Concurrency = 2
  NoRun = NoRun
  NoFile = NoFile
SPECIFICATION FairSpec
INVARIANTS
  TypeOK
  OneJob
  SettledIsQuiet
  ToldTheTruth
  FilesAgree
PROPERTIES
  AbortNeverResolves
  RefinesContract
  JobEnds
\* A behaviour ends when every run has ended.
CHECK_DEADLOCK FALSE
