CONSTANTS
  Person = {1, 2}
  NameOf <- OneName
  NumHours = 2
  HoursPerDay = 2
  Demandable = {1}
  Weighable = {}
  Weights = {}
  Schedules <- SomeSchedules
  GroupCounts = {0}
SPECIFICATION EngineSpec
INVARIANTS RequiredFirst
