SPECIFICATION Spec
CONSTANTS
  d1 = d1
  d2 = d2
  f1 = f1
  f2 = f2
  Cards <- TwoCards
  Hyphy = {d1}
  Files <- TwoFiles
  QNF_MAX_BOARDS = 2
  NULL = NULL
  Gone = Gone
  MaxFaults = 1
SYMMETRY Symm
CHECK_DEADLOCK FALSE
INVARIANTS SlotsAccounted AccessesArrive OpenedAfterSetUp
