CONSTANTS
  one = one
  two = two
  foreign = foreign
  Keys = {one, two, foreign}
  DraKeys = {one, two}
  NoKey = NoKey
  UuidLen = 3
  DashAt = {1}
  HexDigits = {"a", "b"}
  Dash = "-"
  MaxLen = 7
  Annotations <- MCAnnotations
SPECIFICATION Spec
INVARIANTS
  TypeOK
  EveryUidFound
  ReportedOnce
CHECK_DEADLOCK FALSE
