-------------------------- MODULE MCFirmwareUpdate --------------------------
(* An instance of FirmwareUpdate: a bank has two blocks of two buffers of  *)
(* two words.  The files: too short, of no word, of one bank all but a     *)
(* word, of a bank, of a bank and a word, of all banks before the numbers, *)
(* of a word more, of all banks, of more, of 2^8 banks and of a word more. *)
EXTENDS FirmwareUpdate
Sizes == {-1, 0, 7, 8, 9, 16, 17, 32, 33, 64, 65}
SomeFiles ==
  {[version |-> 1, size |-> n, odd |-> FALSE] : n \in Sizes}
  \cup {[version |-> 2, size |-> 8, odd |-> FALSE], [version |-> 3, size |-> 8, odd |-> TRUE]}
=============================================================================
