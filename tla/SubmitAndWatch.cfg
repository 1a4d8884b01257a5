SPECIFICATION Spec
CONSTANTS
  Hash = {b1, b2}
  NoHash = NoHash
  WatchUntil = {"Ready", "Broadcast", "Finalized"}
  MaxUpdates = 5
  MaxReconnects = 1
INVARIANTS
  FinalizedMeansFinal
  StopsWhenReached
  ResultMatchesLastStatus
PROPERTY
  CallEnds
CHECK_DEADLOCK FALSE
