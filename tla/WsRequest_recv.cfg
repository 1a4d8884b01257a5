SPECIFICATION Spec
CONSTANTS
  Calls = {c1}
  MaxFrames = 1
PROPERTY
  RecvReturns
CHECK_DEADLOCK FALSE
