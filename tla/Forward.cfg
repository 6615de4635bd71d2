SPECIFICATION Spec
CONSTANTS
  Query <- MCQuery
  Connection <- MCConnection
  Endpoint <- MCEndpoint
  AuthKey <- MCAuthKey
  SigKey = 5
  Special <- MCSpecial
  Day = 2
  Skew = 1
  Expires = 1
  MaxTime = 4
  None = None
CHECK_DEADLOCK FALSE
INVARIANTS OneIdentityForwarded ScopeMatchesDate ResignedIsValid
PROPERTY AcceptedAsSigned
