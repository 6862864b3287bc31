SPECIFICATION Spec
CONSTANTS
  EOL = EOL
  NULL = NULL
  NoFile = NoFile
  Words <- MCWords
  WlSize = 2
  Grammar <- Commands
  Typed <- Lines
  FileText <- Texts
  DefaultFile = "conf"
  MaxTyped = 2
  MaxFaults = 1
CHECK_DEADLOCK FALSE
INVARIANTS TypeOK
PROPERTIES IsScript OneCommandEnds
