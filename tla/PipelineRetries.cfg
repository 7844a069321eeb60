CONSTANTS
  Person = {1}
  NameOf <- OwnName
  NumHours = 1
  HoursPerDay = 1
  Aliases = {}
  LastId = 3
  Texts <- EffectTexts
  ChatPriorities = {0, 2}
  MaxAttempts = 2
  MaxCrashes = 1
  MaxPanel = 2
SPECIFICATION Spec
INVARIANTS TypeOK UnreadOnlyInHaste
PROPERTIES AttendsInOrder
CHECK_DEADLOCK FALSE
