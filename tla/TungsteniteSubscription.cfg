SPECIFICATION Spec
CONSTANTS
  MaxAttempts = 1
  U8Max = 255
  MaxNotifications = 2
  MaxNoise = 1
INVARIANTS
  ThreadTypeOK
  DialsBounded
  InOrderWithoutGaps
  NothingLostWhileConnected
  RequestsBounded
  StopsForAReason
PROPERTIES
  StopsOrSettles
  ImplementsStream
  ImplementsConnectionAttempts
  EveryNotificationIsForwarded
  UnsubscribeStopsAtNextNotification
CHECK_DEADLOCK FALSE
