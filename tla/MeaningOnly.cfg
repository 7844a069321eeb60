CONSTANTS
  Person = {1, 2}
  Me = 0
  NumDays = 3
  WorkStart = 1
  WorkEnd = 4
  Today = 1
  Messages <- OneExclusive
  Beginnings <- InWorkingHours
  MaxHeard = 1
SPECIFICATION Spec

PROPERTIES OnlyReplaces
