SPECIFICATION Spec
CONSTANTS
  c1 = c1
  c2 = c2
  Clis <- TwoClis
  NoCli = NoCli
  Boards = {"MC10P_FLOW", "MC20P_GTP", "QT20"}
  Names = {"flow", "ports"}
  Items = {"PPP_MODE", "CRC32_MODE"}
  Lines = {0, 1}
  MaxCmds = 3
  MaxFaults = 1
SYMMETRY Symm
INVARIANTS AsTold FileWhole SurvivesRestart
CHECK_DEADLOCK FALSE
