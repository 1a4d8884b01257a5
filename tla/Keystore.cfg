SPECIFICATION Spec
CONSTANTS
  s1 = s1
  s2 = s2
  t1 = t1
  t2 = t2
  t3 = t3
  Stores <- MCStores
  Threads <- MCThreads
  StoreOf <- MCStoreOf
  Keys = {k1, k2}
  Passwords = {"pw"}
  NoPassword = "none"
  MaxWrites = 2
  MaxSeeds = 1
SYMMETRY MCSymmetry
INVARIANTS
  GeneratedKeysAreFound
  PartialFilesAreExplained
  HasKeysHolds
  MemoryKeysAreUsable
  SeedsStayInMemory
CHECK_DEADLOCK FALSE
