SPECIFICATION Spec
CONSTANTS
  Interval = {0, 2}
  CodeLife = {0, 3}
  Life = {1, 3, 13}
  Backoff = 1
  Floor = 1
  RetryLife = 2
  Timeout = 1
  Rotates = TRUE
  MaxTime = 15
INVARIANTS
  TokenFileWhole
  FreshDespiteFailures
  EndsOnlyWithSession
PROPERTIES
  PollPace
  LoginEnds
CHECK_DEADLOCK FALSE
