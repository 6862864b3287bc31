--------------------------- MODULE MCGlobalConfig ---------------------------
(* Instances of GlobalConfig.                                              *)
EXTENDS GlobalConfig, TLC
CONSTANTS c1, c2
TwoClis == {c1, c2}
Symm == Permutations(TwoClis)
=============================================================================
