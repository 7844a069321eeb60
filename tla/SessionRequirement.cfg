CONSTANTS
  Person = {1, 2}
  NameOf <- OwnName
  NumHours = 2
  HoursPerDay = 2
  Aliases <- OneHumanTwice
  Clients = {}
  Managed = {1, 2}
  SlotChoices <- EachHour
  Priorities = {0}
  Rosters <- Everybody
  Reports = {0}
  Extractions <- FirstHours
  MaxRevision = 3
  MaxDecisions = 1
SPECIFICATION Spec
PROPERTIES RequirementPersists
