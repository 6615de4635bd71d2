SPECIFICATION Spec
CONSTANTS
  AKID = {k1}
  User = {alice}
  Replica = {r1, r2}
  Retention = 1
  CacheTTL = 1
  MaxTime = 3
  Expiry = {1}
  NoCreds = NoCreds
INVARIANTS
  CountIsLive
