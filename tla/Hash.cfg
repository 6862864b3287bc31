SPECIFICATION Spec
CONSTANTS
  k1 = k1
  k2 = k2
  k3 = k3
  Keys <- ThreeKeys
  Name <- Names
  Globs <- ShortGlobs
  Values = {1, 2}
  Absent = Absent
  Addrs = {a1, a2, a3}
  Null = Null
  Size = 2
  HASH <- TwoBins
INVARIANTS ChainsSound CursorLive
PROPERTIES IsKeyStore
