--------------------------- MODULE MCForwardMode ---------------------------
(* Instances of ForwardMode.                                               *)
EXTENDS ForwardMode, TLC
CONSTANTS c1, c2
TwoClis == {c1, c2}
Symm == Permutations(TwoClis)
=============================================================================
