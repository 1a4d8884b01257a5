CONSTANTS
  Registry <- MCRegistry
  BytesOf256 = 2
  PayloadLimit = 40
  RawMetadata <- MCRawMetadata
  Values <- MCValues
  Tails <- MCTails
  CallInputs <- MCCallInputs
  ParamInputs <- MCParamInputs
  SizesOfType <- MCSizesOfType
  Chain <- MCChain
SPECIFICATION Spec
INVARIANTS RoundTrip CutIsNoticed NodeReadsWhatWasMeant
CHECK_DEADLOCK FALSE
