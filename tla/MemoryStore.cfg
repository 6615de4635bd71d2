SPECIFICATION Spec
CONSTANTS
  AKID = {k1, k2}
  User = {alice}
  Retention = 2
  MaxTime = 5
  Expiry = {0, 1, 3}
  NoCreds = NoCreds
INVARIANTS
  RetentionKept
  CountIsLive
PROPERTIES
  EventuallySwept
  ImplementsStore
