---------------------------- MODULE MCQnfDriver ----------------------------
(* Instances of QnfDriver.                                                 *)
EXTENDS QnfDriver, TLC
CONSTANTS d1, d2, f1, f2
TwoCards == {d1, d2}
TwoFiles == {f1, f2}
Symm == Permutations(TwoFiles)
=============================================================================
