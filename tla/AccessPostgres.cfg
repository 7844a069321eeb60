CONSTANTS
  Worker = {w1, w2}
  Admins = {a1, a2}
  Members = {m1, m2}
  Group = {g1}
  g1 = g1
  g2 = g2
  SlackGroups = {}
  AccessLists <- Nobody
  Backends = {"postgres"}
  OddPending = FALSE
  MaxSessions = 1
SPECIFICATION Spec
INVARIANTS AdminStaysAnywhere
