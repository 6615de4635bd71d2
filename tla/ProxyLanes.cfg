SPECIFICATION Spec
CONSTANTS
  k1 = k1
  k2 = k2
  alice = alice
  bob = bob
  AKID = {k1, k2}
  User = {alice, bob}
  Replica = {r1}
  Cached = {}
  Handler = {h1}
  Backend = "memory"
  Token <- MCToken
  Request <- MCRequest
  Retention = 1
  MaxTime = 3
  Second = 1
  Width = 16
  MaxDuration = 2
  JwtSkew = 1
  ClockSkew = 1
  MaxPresign = 2
  Strict = {r1}
  BearerEnabled = {r1}
  NoCreds = NoCreds
  NoToken = NoToken
  NoUser = NoUser
INVARIANTS
  TypeOK
  Attribution
  WithinTokenLifetime

  
