----------------------------- MODULE MCDbServer -----------------------------
(***************************************************************************)
(* Instances of DbServer for TLC.                                           *)
(***************************************************************************)
EXTENDS DbServer, TLC

CONSTANTS c1, c2, s1, s2

\* Clients are interchangeable; used by the runs without liveness.
Symm == Permutations(Clients)
====
