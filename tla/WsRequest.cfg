SPECIFICATION Spec
CONSTANTS
  Calls = {c1, c2}
  MaxFrames = 2
INVARIANT
  OkIsOwnAnswer
PROPERTY
  AnswerEndsCall
CHECK_DEADLOCK FALSE
