CONSTANTS
  Worker = {w1, w2}
  Message = {m1}
  Secret = {env, s1}
  env = env
  EnvSecret = {env}
  Managed = TRUE
  FallbackModel = TRUE
  CacheSize = 1
  AuditLimit = 2
  MaxKeys = 2
SPECIFICATION Spec
INVARIANT RestHasEnd
SYMMETRY Alike
CHECK_DEADLOCK FALSE
