SPECIFICATION Spec
CONSTANTS
  Proc = {p1, p2}
  Kid = {a}
  Gen = {g1, g2}
  Discovery = TRUE
  Cooldown = 1
  Nobody = Nobody
  Absent = Absent
  NoSet = NoSet
INVARIANTS
  TypeOK
  RotationSeen
PROPERTIES
  RefreshesApart
  EveryLookupEnds
  AcceptedInTheEnd
