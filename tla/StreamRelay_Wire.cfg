SPECIFICATION Spec
CONSTANTS
  MaxBlocks = 2
  MaxDeltas = 2
  Reported = {0, 5}
  Extras <- OddHeaders
  Asks <- SmallAsks
  Answers <- SmallAnswers
INVARIANTS
  OutcomeIsTrue
  TextIsBilled
  WireWellFormed
  ConversationKept
