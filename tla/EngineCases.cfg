CONSTANTS
  Person = {1, 2, 3}
  NameOf <- OwnName
  NumHours = 4
  HoursPerDay = 2
  Demandable = {1, 2}
  Weighable = {1}
  Weights = {2}
  Schedules <- SomeSchedules
  GroupCounts = {0, 4}
SPECIFICATION EngineSpec
INVARIANTS RequiredFirst BestOffered NoAlternativeLost FullCoverageIsEverybody CompleteMeansAnswered
