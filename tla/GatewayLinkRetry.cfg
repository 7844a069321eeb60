CONSTANTS
  LastMessage = 2
  GroupOf <- OneGroup
  KindOf <- LinkThenAsk
  InitialLinks <- NoLinks
  QueueLimit = 2
  MaxAttempts = 3
  RecentLimit = 3
  FaultKinds <- NoFaults
  MaxFaults = 0
SPECIFICATION Spec
INVARIANT RefusedMeansNotLinked
CHECK_DEADLOCK FALSE
