SPECIFICATION Spec
CONSTANTS
  c1 = c1
  c2 = c2
  Clis = {c1, c2}
  NoCli = NoCli
  Absent = Absent
  Sets = {1}
  MaxRule = 2
  RuleIds = {0}
  Rules <- OneRule
  CamSelect = 2
  Board = "MC20E"
  Ops = {"set", "clear"}
  Word = 8
  MaxFaults = 0
  FaultKinds = {}
INVARIANTS ClearedMatchesNothing
