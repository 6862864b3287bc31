----------------------------- MODULE MCCsServer -----------------------------
(* Instances of CsServer.                                                  *)
EXTENDS CsServer, TLC
CONSTANTS c1, c2
=============================================================================
