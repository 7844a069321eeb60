CONSTANTS
  DayTicks = 2
  Offered <- TwoOptions
  LinkLife = 1
  Origins <- MondayAndSunday
  LastTick = 14
  MaxDecisions = 2
  MaxEvents = 2
  MaxLinks = 1
SPECIFICATION Spec
INVARIANTS OneEventEach
