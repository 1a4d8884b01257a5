SPECIFICATION Spec
CONSTANTS
  Apis = {a1, a2}
  NoApi = NoApi
  MaxRuntime = 2
  MaxExtrinsics = 2
INVARIANTS
  CacheIsWhole
  ExecutedAsMeant
  NonceNotAhead
CHECK_DEADLOCK FALSE
