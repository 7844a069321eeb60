CONSTANTS
  Person = {1, 2}
  NameOf <- OwnName
  NumHours = 2
  HoursPerDay = 2
  Aliases = {}
  Clients = {}
  Managed = {1}
  SlotChoices <- EachHour
  Priorities = {0}
  Rosters <- NoRoster
  Reports = {0}
  Extractions <- FirstHours
  MaxRevision = 3
  MaxDecisions = 1
SPECIFICATION Spec
PROPERTIES AuditIsImmutable
