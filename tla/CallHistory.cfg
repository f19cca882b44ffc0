CONSTANTS
  Calls = {c1, c2}
  Incoming = {c2}
  KeyCount = 2
  Filters = {{c1}}
  NoFilter = NoFilter
  NoId = NoId
  Absent = Absent
  Null = Null
  MaxTurn = 5
SPECIFICATION Spec
INVARIANTS TypeOK FileIsListed ListIsFile KeysApart OneEntry EndIsNoted
PROPERTIES OldestGivesWay
CHECK_DEADLOCK FALSE
