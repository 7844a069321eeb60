CONSTANTS
  Person = {1}
  NameOf <- OwnName
  NumHours = 1
  HoursPerDay = 1
  Aliases = {}
  LastId = 2
  Texts <- HastyTexts
  ChatPriorities = {0, 2}
  MaxAttempts = 3
  MaxCrashes = 0
  MaxPanel = 0
SPECIFICATION Spec
INVARIANTS AnsweredMeansRead
CHECK_DEADLOCK FALSE
