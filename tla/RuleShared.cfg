SPECIFICATION Spec
CONSTANTS
  c1 = c1
  c2 = c2
  Clis = {c1, c2}
  NoCli = NoCli
  Absent = Absent
  Sets = {1}
  MaxRule = 2
  RuleIds = {0, 1}
  Rules <- TwoRules
  CamSelect = 2
  Board = "none"
  Ops = {"set", "clear", "show", "restore", "save", "exit"}
  Word = 8
  MaxFaults = 1
  FaultKinds = {"signal", "memory"}
SYMMETRY Symm
INVARIANTS FilterNoKept ScanInTable ReadsWhole InitOnce SectionOwned LocksUndone
