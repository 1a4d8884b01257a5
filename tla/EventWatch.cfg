CONSTANTS
  Event = {"Transfer", "Remark", "failed"}
  Wanted = {"Transfer", "Remark"}
  BlockEvents <- MCBlockEvents
  MaxBlocks = 2
  MaxWaits = 2
  MaxReconnects = 1
SPECIFICATION Spec
INVARIANTS FirstDecisiveEvent EventsComeInOrder
PROPERTY DecisiveEventEndsWait
CHECK_DEADLOCK FALSE
