--------------------------- MODULE FirmwareUpdate ---------------------------
(***************************************************************************)
(* "lif update firmware": a cli writes firmware.bin into the flash of a    *)
(* card, its last eight bytes as the logic number into a bank of its own,  *)
(* reads all of it back, compares it with the file and reconfigures the    *)
(* card (drv_update_firmware in cli/drvops.c, the flash routines of        *)
(* cli/lib/qnfapi.c).                                                      *)
(*                                                                         *)
(* It takes 20 minutes.  In that time the alarm that the last prompt has   *)
(* set may go off, a routine may find an error bit and call exit(), a word *)
(* may be written wrong without one, and another file may get the name     *)
(* firmware.bin.  What is in the flash then is where the next update       *)
(* starts.  Left out: a firmware.bin that is overwritten in place while it *)
(* is read, and a read in the verification that fails, the result of which *)
(* nobody looks at.                                                        *)
(*                                                                         *)
(* A word is a number; the number of eight bytes, four words of the flash, *)
(* is one word here.  Polling the flash until it is ready is left out.     *)
(***************************************************************************)
EXTENDS Integers, SequencesExt

CONSTANTS
  BufferSize,   \* the words of a buffer, 32
  BlockSize,    \* BLOCK_SIZE_W
  Blocks,       \* the blocks of a bank, 8
  Banks,        \* the banks of the flash, 16
  NumberBank,   \* the bank of the logic and the hardware number, 14
  Uint8,        \* 2^8
  Files,        \* the files that come: version, words before the number, odd size
  MaxUpdates, MaxFaults, MaxReplaced   \* bounds

BankSize == BlockSize * Blocks
ASSUME FlashAssumption ==
  /\ BufferSize \in Nat \ {0} /\ BlockSize \in Nat \ {0} /\ BlockSize % BufferSize = 0
  /\ Blocks \in Nat \ {0, 1} /\ Banks \in Nat /\ NumberBank \in 1 .. Banks - 1
  /\ Uint8 \in Nat /\ Uint8 > Banks
  /\ \A f \in Files : f.version \in Nat \ {0} /\ f.size \in Int /\ f.odd \in BOOLEAN
  /\ MaxUpdates \in Nat /\ MaxFaults \in Nat /\ MaxReplaced \in Nat

VARIABLES
  flash,      \* the words of the flash
  file,       \* firmware.bin
  src,        \* the file that the last update has opened
  step,       \* the next step of the update, 0 when there is none
  compared,   \* the file it was compared with
  outcome,    \* of the last update: none, success or error
  disturbed,  \* that update met a fault or a new file
  spoilt,     \* a file reached into the bank of the numbers
  updates, faults, replaced
vars == <<flash, file, src, step, compared, outcome, disturbed, spoilt, updates, faults, replaced>>

-----------------------------------------------------------------------------
(* The contents.  byte_swap mirrors the bits of each byte: it is its own   *)
(* inverse, and leaves an erased word as it is.  Up to 98 words a file has *)
(* no word in common with another version; longer ones may.                *)
Blank == 0
Old == 1
Hardware == 2
Junk == 3
byte_swap(w) == -w
Word(f, i) == 100 * f.version + i
Number(f) == 100 * f.version + 99
Addresses == 0 .. Banks * BankSize - 1
LogicAt == NumberBank * BankSize
HardwareAt == LogicAt + BlockSize
(* A word that is not erased cannot be programmed to another value.        *)
Programmed(old, new) == IF old \in {Blank, new} THEN new ELSE Junk

(* w words in parts of a size: how many, and how long the last one is.     *)
Need(w, size) == IF w % size = 0 THEN w \div size ELSE w \div size + 1
LastPart(w, size) == IF w % size = 0 THEN size ELSE w % size
Part(w, size, i) == IF i = Need(w, size) THEN LastPart(w, size) ELSE size

(* The words of the file are counted in 31 bits, its banks in 8.           *)
Words(f) == f.size % (2 * Uint8 * BankSize)
need_bank(f) == Need(Words(f), BankSize) % Uint8
last_bank(f) == (need_bank(f) - 1) % Uint8
last_words_full(f) == Words(f) % BankSize
last_words(f) == LastPart(Words(f), BankSize)

(* The buffers of a block, of a bank, and of the file: addr is where in    *)
(* the flash, from the place in the file.                                  *)
Do(what, addr, from, len) == [do |-> what, addr |-> addr, from |-> from, len |-> len]
block_program(addr, from, w) ==
  [i \in 1 .. Need(w, BufferSize) |->
     Do("program", addr + (i - 1) * BufferSize, from + (i - 1) * BufferSize, Part(w, BufferSize, i))]
bank_program(bank, from, w) ==
  FlattenSeq([i \in 1 .. Need(w, BlockSize) |->
     block_program(bank * BankSize + (i - 1) * BlockSize, from + (i - 1) * BlockSize,
                   Part(w, BlockSize, i))])
whole_banks(f) == IF need_bank(f) = 0 THEN 0 ELSE need_bank(f) - 1
Taken(f) == whole_banks(f) * BankSize
program(f) ==
  FlattenSeq([b \in 1 .. whole_banks(f) |-> bank_program(b - 1, (b - 1) * BankSize, BankSize)])
  \o bank_program(last_bank(f), Taken(f), last_words(f))
unlock(f) == [b \in 1 .. need_bank(f) |-> Do("unlock", (b - 1) * BankSize, 0, BankSize)]
erase(f) ==
  [k \in 1 .. need_bank(f) * Blocks |-> Do("erase", (k - 1) * BlockSize, 0, BlockSize)]
set_logic_num == <<Do("erase", LogicAt, 0, BlockSize), Do("number", LogicAt, 0, 1)>>
Plan ==
  [f \in Files |->
     unlock(f) \o erase(f) \o program(f) \o set_logic_num
     \o <<Do("compare", 0, 0, 0), Do("reconfig", 0, 0, 0)>>]

-----------------------------------------------------------------------------
Now(what) == step > 0 /\ Plan[src][step].do = what
Range_(s) == s.addr .. s.addr + s.len - 1
Goes == step' = step + 1 /\ UNCHANGED <<outcome, compared>>
Ends(how) == step' = 0 /\ outcome' = how /\ UNCHANGED compared
Fault == faults < MaxFaults /\ faults' = faults + 1 /\ disturbed' = TRUE
NoFault == UNCHANGED <<faults, disturbed>>
Same == UNCHANGED <<file, src, spoilt, updates, replaced>>

(* A file whose size is odd is refused.                                    *)
drv_update_firmware ==
  /\ step = 0 /\ updates < MaxUpdates /\ updates' = updates + 1
  /\ src' = file
  /\ IF file.odd THEN Ends("error") ELSE step' = 1 /\ outcome' = "none" /\ UNCHANGED compared
  /\ disturbed' = FALSE
  /\ spoilt' = (spoilt \/ (~file.odd /\ ((Words(file) - 1) \div BankSize) % Uint8 \in NumberBank .. Banks - 1))
  /\ UNCHANGED <<flash, file, faults, replaced>>

(* The card, firmware.bin or its size cannot be had: the files that are    *)
(* open stay open, and nothing has been done to the flash.                 *)
open_fails ==
  /\ step = 0 /\ updates < MaxUpdates /\ updates' = updates + 1
  /\ Fault /\ Ends("error")
  /\ UNCHANGED <<flash, file, src, spoilt, replaced>>

(* Behind the end of the flash every read gives 0xffff: the block is still *)
(* locked, every error bit is set.                                         *)
bank_unlock ==
  /\ Now("unlock")
  /\ IF Plan[src][step].addr \in Addresses THEN Goes ELSE Ends("error")
  /\ flash' = flash /\ NoFault /\ Same

block_erase_bank ==
  /\ Now("erase")
  /\ LET bank == Plan[src][step].addr \div BankSize
     IN  flash' = [a \in Addresses |-> IF a \div BankSize = bank THEN Blank ELSE flash[a]]
  /\ Goes /\ NoFault /\ Same
block_erase ==
  /\ Now("erase")
  /\ LET block == Range_(Plan[src][step])
     IN  flash' = [a \in Addresses |-> IF a \in block THEN Blank ELSE flash[a]]
  /\ Goes /\ NoFault /\ Same

(* A buffer of words, of which one may be written wrong.                   *)
buffer_program ==
  /\ Now("program")
  /\ LET s == Plan[src][step]
         new == [a \in Addresses |->
                   IF a \in Range_(s)
                   THEN Programmed(flash[a], byte_swap(Word(src, s.from + a - s.addr + 1)))
                   ELSE flash[a]]
     IN  IF s.addr \in Addresses
         THEN Goes /\ \/ flash' = new /\ NoFault
                      \/ \E a \in Range_(s) : flash' = [new EXCEPT ![a] = Junk] /\ Fault
         ELSE flash' = flash /\ Ends("error") /\ NoFault
  /\ Same

(* The number follows the last word that was read; of a file whose banks   *)
(* were miscounted these are other words.                                  *)
word_program ==
  /\ Now("number")
  /\ LET read == Taken(src) + last_words(src)
         sn == IF read = src.size THEN Number(src) ELSE Word(src, read + 1)
     IN  \/ flash' = [flash EXCEPT ![LogicAt] = Programmed(@, sn)] /\ NoFault
         \/ flash' = [flash EXCEPT ![LogicAt] = Junk] /\ Fault
  /\ Goes /\ Same

(* The flash is read into a file, which is compared with the firmware.bin  *)
(* of now: sizes first, then word by word, all but the number swapped.     *)
ReadBack(f) ==
  [i \in 1 .. Taken(f) + last_words(f) + 1 |->
     IF i <= Taken(f) + last_words(f) THEN flash[i - 1] ELSE flash[LogicAt]]
Swapped(f) == [i \in 1 .. f.size + 1 |-> IF i <= f.size THEN byte_swap(Word(f, i)) ELSE Number(f)]
compare_file_order_sizes ==
  /\ Now("compare")
  /\ IF Len(ReadBack(src)) = file.size + 1
     THEN step' = step + 1 /\ compared' = file /\ outcome' = outcome
     ELSE Ends("error")
  /\ flash' = flash /\ NoFault /\ Same
compare_file_order ==
  /\ Now("compare")
  /\ IF ~file.odd /\ file.size >= 0 /\ ReadBack(src) = Swapped(file)
     THEN step' = step + 1 /\ compared' = file /\ outcome' = outcome
     ELSE Ends("error")
  /\ flash' = flash /\ NoFault /\ Same

reconfig ==
  /\ Now("reconfig") /\ Ends("success")
  /\ flash' = flash /\ NoFault /\ Same

(* An error bit, SIGALRM, or the end of the power.                         *)
exit ==
  /\ step > 0 /\ Fault /\ Ends("error")
  /\ flash' = flash /\ Same
replace ==
  /\ replaced < MaxReplaced /\ replaced' = replaced + 1
  /\ file' \in Files \ {file}
  /\ disturbed' = (disturbed \/ step > 0)
  /\ UNCHANGED <<flash, src, step, compared, outcome, spoilt, updates, faults>>

-----------------------------------------------------------------------------
Init ==
  /\ flash = [a \in Addresses |-> IF a = HardwareAt THEN Hardware ELSE Old]
  /\ file \in Files /\ src = file /\ compared = file
  /\ step = 0 /\ outcome = "none"
  /\ disturbed = FALSE /\ spoilt = FALSE
  /\ updates = 0 /\ faults = 0 /\ replaced = 0
Next ==
  \/ drv_update_firmware \/ open_fails
  \/ bank_unlock \/ block_erase \/ buffer_program \/ word_program
  \/ compare_file_order \/ reconfig \/ exit \/ replace
Spec == Init /\ [][Next]_vars

-----------------------------------------------------------------------------
(* A card is reconfigured only when its flash holds the whole of the file  *)
(* it was compared with, in the order the card reads it, and its number:   *)
(* not a file that came in the middle, not the rest of an older one, not a *)
(* word that was written wrong (drvops.c:177, "Verify Error").             *)
ReconfiguredWhole ==
  Now("reconfig") =>
    /\ \A i \in 1 .. compared.size : flash[i - 1] = byte_swap(Word(compared, i))
    /\ flash[LogicAt] = Number(compared)

(* "Update failed, please try again" (parserops.c:648): whatever was left  *)
(* in the flash, an update that nothing disturbs succeeds, with every file *)
(* of at least one word that ends before the bank of the numbers.          *)
TryAgainSucceeds ==
  outcome = "error" /\ ~disturbed => src.odd \/ src.size \notin 1 .. NumberBank * BankSize

(* The hardware number stands in the bank that an update erases a block    *)
(* of.  It survives every update, the cut-off ones too, and files too      *)
(* short or too long, but those of 15 and 16 banks.                        *)
HardwareNumKept == flash[HardwareAt] = Hardware \/ spoilt
=============================================================================
