CONSTANTS
  LastMessage = 4
  GroupOf <- TwoGroups
  KindOf <- Busy
  InitialLinks <- SomeLinks
  QueueLimit = 2
  MaxAttempts = 2
  RecentLimit = 4
  FaultKinds <- EveryFault
  MaxFaults = 2
SPECIFICATION Spec
INVARIANTS TypeOK
PROPERTIES DeliversInOrder
CHECK_DEADLOCK FALSE
