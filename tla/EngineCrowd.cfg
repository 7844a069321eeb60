CONSTANTS
  Person <- Crowd
  NameOf <- OwnName
  NumHours = 1
  HoursPerDay = 1
  Demandable = {}
  Weighable = {}
  Weights = {}
  Schedules <- EverybodyFree
  GroupCounts = {201}
SPECIFICATION EngineSpec
INVARIANTS FullCoverageIsEverybody
