SPECIFICATION Spec
CONSTANTS
  Proc = {p1, p2}
  Kid = {a, b}
  Gen = {g1}
  Discovery = FALSE
  Cooldown = 1
  Nobody = Nobody
  Absent = Absent
  NoSet = NoSet
PROPERTIES
  ReusesResult
