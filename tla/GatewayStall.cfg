CONSTANTS
  LastMessage = 1
  GroupOf <- OneGroup
  KindOf <- OneQuestion
  InitialLinks <- AllLinked
  QueueLimit = 2
  MaxAttempts = 3
  RecentLimit = 3
  FaultKinds <- OnlyDisconnects
  MaxFaults = 1
SPECIFICATION FairSpec
PROPERTY QueueDrains
CHECK_DEADLOCK FALSE
