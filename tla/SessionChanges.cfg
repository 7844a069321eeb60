CONSTANTS
  Person = {1, 2}
  NameOf <- OwnName
  NumHours = 2
  HoursPerDay = 2
  Aliases = {}
  Clients = {client}
  Managed = {1}
  SlotChoices <- FirstHour
  Priorities = {0}
  Rosters <- NewMember
  Reports = {0}
  Extractions <- SomeExtractions
  MaxRevision = 2
  MaxDecisions = 2
SPECIFICATION Spec
INVARIANTS TypeOK DecisionCoherent OptionsFresh DecisionStands DecisionCoversRequired
PROPERTIES ConfirmClosesWhatWasShown RevisionMarksEveryChange DecisionsAreSound HistoryOnlyGrows DecisionSurvivesSilence
