CONSTANTS
  Worker = {w1, w2}
  Message = {m1, m2, m3, m4}
  Secret = {env, s1}
  env = env
  EnvSecret = {env}
  Managed = FALSE
  FallbackModel = TRUE
  CacheSize = 1
  AuditLimit = 2
  MaxKeys = 2
SPECIFICATION Spec
INVARIANTS CacheBounded CachedIsServed
SYMMETRY Alike
CHECK_DEADLOCK FALSE
