CONSTANTS
  Person = {1, 2}
  Me = 0
  NumDays = 3
  WorkStart = 1
  WorkEnd = 4
  Today = 1
  Messages <- AllMessages
  Beginnings <- SomeAvailability
  MaxHeard = 1
SPECIFICATION Spec

PROPERTIES OnlyGives OnlyClearsWeek
