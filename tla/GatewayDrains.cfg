CONSTANTS
  LastMessage = 3
  GroupOf <- TwoGroups
  KindOf <- ThreeMessages
  InitialLinks <- AllLinked
  QueueLimit = 2
  MaxAttempts = 3
  RecentLimit = 3
  FaultKinds <- NoDisconnects
  MaxFaults = 2
SPECIFICATION FairSpec
PROPERTY QueueDrains
CHECK_DEADLOCK FALSE
