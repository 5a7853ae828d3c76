CONSTANTS
  q1 = q1
  q2 = q2
  NoAsk = NoAsk
  Asks <- MCAsks
  Chunks = {"text"}
  Media = {"frame"}
  MaxEdits = 1
SYMMETRY AskSymmetry
SPECIFICATION Spec
PROPERTIES
  AnswersAreGrounded
  MethodologyIsCurrent
\* Every question has been dealt with.
CHECK_DEADLOCK FALSE
