SPECIFICATION FMSpec
CONSTANTS
  c1 = c1
  c2 = c2
  Clis = {c1}
  NoCli = NoCli
  Absent = Absent
  Board = "MC20E"
  MaxRule = 2
  Row = 4
  Kinds = {1, 2, 3, 4}
  Vlans = {5}
INVARIANTS NoDefaultStored SaveRestores TagMatches
