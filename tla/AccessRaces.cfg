CONSTANTS
  Worker = {w1, w2}
  Admins = {a1, a2}
  Members = {m1}
  Group = {g1, g2, slack}
  g1 = g1
  g2 = g2
  SlackGroups = {slack}
  AccessLists <- Nobody
  Backends = {"json", "postgres"}
  OddPending = FALSE
  MaxSessions = 2
SPECIFICATION Spec
INVARIANTS TypeOK OneSessionPerGroup GatewayRemembersRight AdminStays
PROPERTIES LinkIsForever
SYMMETRY Alike
