CONSTANTS
  Person = {1}
  NameOf <- OwnName
  NumHours = 1
  HoursPerDay = 1
  Aliases = {}
  LastId = 1
  Texts <- TwiceTexts
  ChatPriorities = {0, 2}
  MaxAttempts = 3
  MaxCrashes = 1
  MaxPanel = 2
SPECIFICATION Spec
INVARIANTS ExtractedOnce
PROPERTIES RetryKeepsDecision
CHECK_DEADLOCK FALSE
