SPECIFICATION Spec
CONSTANTS
  Second = 3
  Width = 64
  MaxDuration = 4
  Raw <- MCRaw
  Letter <- MCLetter
  Plus = "+"
  Horizon = 8
  Timeout = 4
  LastExp = 6
  LastReq = 50
CHECK_DEADLOCK FALSE
INVARIANTS
  TTLBounded
  AnnouncedUsable
  SessionNameAccepted
PROPERTIES
  EveryPageRendered
