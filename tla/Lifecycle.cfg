SPECIFICATION Spec
CONSTANTS
  HttpURL = {"http://a", "http://b"}
  Undecodable = Undecodable
  File <- MCFile
  Env <- MCEnv
  MaxRequests = 2
  NoConfig = NoConfig
CHECK_DEADLOCK FALSE
INVARIANTS
  ServesOnlySound
  GraceKept
  AdminOutlivesMain
PROPERTIES
  ProcessEnds
