SPECIFICATION Spec
CONSTANTS
  c1 = c1
  c2 = c2
  Clis = {c1}
  NoCli = NoCli
  Absent = Absent
  Sets = {1, 2}
  MaxRule = 4
  RuleIds = {0, 1}
  Rules <- CamRules
  CamSelect = 2
  Board = "MC10P_FLOW"
  Ops = {"set", "clear", "show", "restore", "save", "exit"}
  Word = 8
  MaxFaults = 1
  FaultKinds = {"cam", "settings"}
INVARIANTS CamMatches
PROPERTIES CommandsEnd
