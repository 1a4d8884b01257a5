SPECIFICATION Spec
CONSTANTS
  MaxNotifications = 3
  MaxNoise = 2
INVARIANT
  InOrderWithoutGaps
PROPERTIES
  ImplementsStream
  UnsubscribeEndsLoop
CHECK_DEADLOCK FALSE
