SPECIFICATION Spec
CONSTANTS
  c1 = c1
  c2 = c2
  Clients = {c1, c2}
  None = None
  Lines = 1
  MaxCmds = 1
  MaxTty = 3
  Faults = {"kill", "exit"}
INVARIANTS PromptIsWhole OneInShell CountInBuffer
PROPERTIES Answered
CHECK_DEADLOCK FALSE
