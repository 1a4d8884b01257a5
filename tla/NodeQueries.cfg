CONSTANTS
  MaxBalance = 7
  Runtimes <- MCRuntimes
  Stored <- MCStored
  Queries <- MCQueries
  FeeAnswers <- MCFeeAnswers
  Labels = {"a", "b"}
  MaxHeight = 2
  MaxBlocks = 3
  MaxFrames = 1
SPECIFICATION Spec
INVARIANTS ReadIsTheEntry BlockHasItsNumber FeeIsTheInclusionFee
PROPERTY AnswerEndsRequest
CHECK_DEADLOCK FALSE
