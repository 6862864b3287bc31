SPECIFICATION Spec
CONSTANTS
  BufferSize = 2
  BlockSize = 4
  Blocks = 2
  Banks = 4
  NumberBank = 2
  Uint8 = 8
  Files <- SomeFiles
  MaxUpdates = 3
  MaxFaults = 2
  MaxReplaced = 1
INVARIANTS ReconfiguredWhole TryAgainSucceeds HardwareNumKept
CHECK_DEADLOCK FALSE
