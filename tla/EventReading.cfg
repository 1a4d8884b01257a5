CONSTANTS
  Registry <- MCRegistry
  BytesOf256 = 2
  HashBytes = 2
  DecodeFields <- DecodeEach
  RawMetadata <- MCRawMetadata
  Holders <- MCHolders
  EventBlocks <- MCEventBlocks
  StaticEvents <- MCStaticEvents
SPECIFICATION ReadingSpec
INVARIANTS EventsAreRead ErrorsAreNamed
CHECK_DEADLOCK FALSE
