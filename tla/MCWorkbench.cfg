CONSTANTS
  Cases = {"a", "b"}
  Pieces = {"m", "n"}
  MaxSessions <- McSessions
  MaxJobs = 2
  MaxQuestions = 3
  MaxCalls = 2
  MaxDeleted = 1
  MaxUploaded = 1
  None = None
SPECIFICATION ClientSpec
INVARIANTS
  ShownBelongs
  DoneIsListed
  JobIsFollowed
CHECK_DEADLOCK FALSE
