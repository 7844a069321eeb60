CONSTANTS
  Worker = {w1, w2}
  Admins = {a1}
  Members = {m1, m2}
  Group = {g1}
  g1 = g1
  g2 = g2
  SlackGroups = {}
  AccessLists <- Nobody
  Backends = {"json"}
  OddPending = FALSE
  MaxSessions = 1
SPECIFICATION Spec
INVARIANTS OwnersActive
PROPERTIES OwnerChangesStick
