SPECIFICATION Spec
CONSTANTS
  Hash = {b1, b2}
  NoHash = NoHash
  WatchUntil = {"InBlock"}
  MaxUpdates = 4
  MaxReconnects = 0
INVARIANT
  StopsWhenReached
CHECK_DEADLOCK FALSE
