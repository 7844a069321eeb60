CONSTANTS
  Person = {1}
  NameOf <- OwnName
  NumHours = 1
  HoursPerDay = 1
  Aliases = {}
  LastId = 2
  Texts <- CallTexts
  ChatPriorities = {0, 2}
  MaxAttempts = 2
  MaxCrashes = 1
  MaxPanel = 1
SPECIFICATION FairSpec
PROPERTIES EveryCallAnswered
CHECK_DEADLOCK FALSE
