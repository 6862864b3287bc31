----------------------------- MODULE QnfDriver -----------------------------
(***************************************************************************)
(* The kernel driver of the capture cards (cli/drv/qnf_drv.c): a table of  *)
(* QNF_MAX_BOARDS slots, filled by the probe of a card and emptied by its  *)
(* removal, and the files that are open on the slots.                      *)
(*                                                                         *)
(* The kernel around it is external: it probes and removes one card at a   *)
(* time, opens only device nodes that were added, and does not unload the  *)
(* module while an open is under way or a file is open.  The driver takes  *)
(* no lock.  An open takes several steps, because it sets up the chip of   *)
(* an MC20P card, which takes seconds; a card may be pulled, and another   *)
(* put in, between any two of them, and another process may open the slot. *)
(* Nothing an open does depends on the result of the set-up.               *)
(***************************************************************************)
EXTENDS Naturals

CONSTANTS
  Cards,           \* the cards that come and go
  Hyphy,           \* those of them with PCI_DEVICE_ID_MC20P
  Files,           \* the open files of user processes
  QNF_MAX_BOARDS,  \* the number of slots
  NULL,            \* no card
  Gone,            \* a card that was removed under an open file
  MaxFaults        \* bound on the calls of the kernel that fail

ASSUME DriverAssumption ==
  /\ Hyphy \subseteq Cards
  /\ QNF_MAX_BOARDS \in Nat /\ MaxFaults \in Nat
  /\ NULL \notin Cards /\ Gone \notin Cards /\ NULL # Gone

VARIABLES
  module,   \* out, in, or empty: loaded, with no driver registered
  flags,    \* flags[u]: QNFF_ATTACHED and QNFF_INITED of slot u
  devId,    \* devId[u]: the card whose PCI id slot u holds
  mmio,     \* mmio[u]: the card whose registers slot u maps
  node,     \* node[u]: the character device of slot u exists
  drvdata,  \* drvdata[c]: the slot the PCI device of card c points to, 0 while
            \* the driver does not serve it, when nobody reads it
  bound,    \* the cards whose probe succeeded
  probing,  \* the probe under way: its card, its slot, the flags it read
  file,     \* file[f]: where its open is, its slot, the card it was opened
            \* for, and the flags it read before it marks the slot
  chip,     \* chip[c]: raw, or what the last set-up to end has made of it
  leaked,   \* the slots of failed probes
  crossed,  \* the cards two opens of which found their slot unmarked at once
  raced,    \* TRUE when a card was removed in the middle of an open
  torn,     \* TRUE when a mark has changed QNFF_ATTACHED, too
  faults    \* the calls that failed
slots == <<flags, devId, mmio, node>>
cards == <<module, drvdata, bound, probing>>
history == <<leaked, crossed, raced, torn, faults>>
vars == <<cards, slots, file, chip, history>>

Units == 0 .. QNF_MAX_BOARDS - 1
Attached(u) == "attached" \in flags[u]
Closed == [at |-> "closed", unit |-> 0, card |-> NULL, seen |-> {}]
Killed == [Closed EXCEPT !.at = "killed"]
Idle == [card |-> NULL, unit |-> 0, seen |-> {}]
Fails == faults < MaxFaults /\ faults' = faults + 1
Works == UNCHANGED faults

(* A file that found its slot unmarked and has not marked it yet.          *)
Window(f) == file[f].at \in {"found", "init", "setup", "mark", "store"}
Opening(f) == file[f].at = "test" \/ Window(f)

-----------------------------------------------------------------------------
(* Loading.  A driver that cannot be registered leaves its device numbers  *)
(* allocated.  Without device numbers qnf_init cleans up and returns err,  *)
(* which is 0: the module is in and serves no card.                        *)
qnf_init ==
  /\ module = "out"
  /\ \/ module' = "in" /\ Works
     \/ module' = "empty" /\ Fails
     \/ module' = "out" /\ Fails
  /\ UNCHANGED <<slots, drvdata, bound, probing, file, chip, leaked, crossed, raced, torn>>
(* Unloading removes every card; a new load starts with a table of zeros.  *)
qnf_cleanup ==
  /\ module # "out" /\ module' = "out" /\ probing = Idle
  /\ \A f \in Files : file[f] = Closed
  /\ flags' = [u \in Units |-> {}]
  /\ devId' = [u \in Units |-> NULL]
  /\ mmio' = [u \in Units |-> NULL]
  /\ node' = [u \in Units |-> FALSE]
  /\ bound' = {} /\ leaked' = {} /\ crossed' = {}
  /\ drvdata' = [c \in Cards |-> 0]
  /\ chip' = [c \in Cards |-> "raw"]
  /\ UNCHANGED <<probing, file, raced, torn, faults>>

(* The first slot that is not attached.                                    *)
qnf_find_unattached_any(u) == u \in Units
qnf_find_unattached(u) ==
  /\ u \in Units /\ ~Attached(u)
  /\ \A v \in Units : v < u => Attached(v)

(* The probe of a card reads the flags of its slot and stores them with    *)
(* QNFF_ATTACHED.  One that fails in pci_enable_device, or finds its       *)
(* memory in use, returns with the slot attached.  A node that cannot be   *)
(* added is only logged.                                                   *)
qnf_init_one(c) ==
  /\ module = "in" /\ c \notin bound /\ probing = Idle
  /\ \E u \in Units :
       qnf_find_unattached(u) /\ probing' = [card |-> c, unit |-> u, seen |-> flags[u]]
  /\ UNCHANGED <<module, drvdata, bound, slots, file, chip, history>>
Served(c, u) ==
  /\ bound' = bound \cup {c} /\ UNCHANGED leaked
  /\ drvdata' = [drvdata EXCEPT ![c] = u]
  /\ devId' = [devId EXCEPT ![u] = c]
  /\ mmio' = [mmio EXCEPT ![u] = c]
  /\ \/ node' = [node EXCEPT ![u] = TRUE] /\ Works
     \/ node' = node /\ Fails
Refused(c, u) ==
  /\ Fails
  /\ leaked' = leaked \cup {u}
  /\ devId' = devId \/ devId' = [devId EXCEPT ![u] = c]
  /\ UNCHANGED <<mmio, node, bound, drvdata>>
attach(c) ==
  /\ probing # Idle /\ probing.card = c /\ probing' = Idle
  /\ LET u == probing.unit
     IN  /\ flags' = [flags EXCEPT ![u] = probing.seen \cup {"attached"}]
         /\ Served(c, u) \/ Refused(c, u)
  /\ UNCHANGED <<module, file, chip, crossed, raced, torn>>

(* The slot is cleared under the files that are open on it; the PCI device *)
(* goes with its card.                                                     *)
Forget(c) ==
  file' = [f \in Files |-> IF file[f].card = c THEN [file[f] EXCEPT !.card = Gone] ELSE file[f]]
qnf_remove_one_flagged(c) ==
  /\ c \in bound /\ bound' = bound \ {c} /\ probing = Idle
  /\ LET u == drvdata[c]
     IN  /\ devId' = [devId EXCEPT ![u] = NULL]
         /\ mmio' = [mmio EXCEPT ![u] = NULL]
         /\ node' = [node EXCEPT ![u] = FALSE]
  /\ Forget(c)
  /\ raced' = (raced \/ \E f \in Files : file[f].card = c /\ Opening(f))
  /\ chip' = [chip EXCEPT ![c] = "raw"] /\ crossed' = crossed \ {c}
  /\ drvdata' = [drvdata EXCEPT ![c] = 0]
  /\ UNCHANGED <<module, flags, probing, leaked, torn, faults>>
qnf_remove_one(c) ==
  /\ c \in bound /\ bound' = bound \ {c} /\ probing = Idle
  /\ LET u == drvdata[c]
     IN  /\ flags' = [flags EXCEPT ![u] = {}]
         /\ devId' = [devId EXCEPT ![u] = NULL]
         /\ mmio' = [mmio EXCEPT ![u] = NULL]
         /\ node' = [node EXCEPT ![u] = FALSE]
  /\ Forget(c)
  /\ raced' = (raced \/ \E f \in Files : file[f].card = c /\ Opening(f))
  /\ chip' = [chip EXCEPT ![c] = "raw"] /\ crossed' = crossed \ {c}
  /\ drvdata' = [drvdata EXCEPT ![c] = 0]
  /\ UNCHANGED <<module, probing, leaked, torn, faults>>

-----------------------------------------------------------------------------
(* An open: the slot must be attached, or the open fails and nothing is    *)
(* changed.                                                                *)
Becomes(f, at) == file' = [file EXCEPT ![f].at = at]
qnf_open(f, u) ==
  /\ file[f] = Closed /\ node[u] /\ Attached(u)
  /\ file' = [file EXCEPT ![f] = [at |-> "test", unit |-> u, card |-> devId[u], seen |-> {}]]
  /\ UNCHANGED <<cards, slots, chip, history>>
(* An open that finds the slot marked is through.                          *)
test_inited_marks(f) ==
  /\ file[f].at = "test"
  /\ Becomes(f, IF "inited" \in flags[file[f].unit] THEN "open" ELSE "found")
  /\ flags' = [flags EXCEPT ![file[f].unit] = @ \cup {"inited"}]
  /\ UNCHANGED <<cards, devId, mmio, node, chip, history>>
test_inited(f) ==
  /\ file[f].at = "test"
  /\ \/ /\ "inited" \in flags[file[f].unit]
        /\ Becomes(f, "open") /\ UNCHANGED crossed
     \/ /\ "inited" \notin flags[file[f].unit]
        /\ Becomes(f, "found")
        /\ crossed' = crossed \cup {c \in {file[f].card} : \E g \in Files : Window(g) /\ file[g].card = c}
  /\ UNCHANGED <<cards, slots, chip, leaked, raced, torn, faults>>
test_devId(f) ==
  /\ file[f].at = "found"
  /\ Becomes(f, IF devId[file[f].unit] \in Hyphy THEN "init" ELSE "mark")
  /\ UNCHANGED <<cards, slots, chip, history>>

(* The set-up of the chip.  When its settings cannot be read, it closes a  *)
(* file that is not open, and on a slot that was cleared it faults: either *)
(* kills the process, whose open never ends.                               *)
hyphy20g_init(f) ==
  /\ file[f].at = "init"
  /\ \/ mmio[file[f].unit] # NULL /\ Becomes(f, "setup") /\ Works
     \/ mmio[file[f].unit] # NULL /\ file' = [file EXCEPT ![f] = Killed] /\ Fails
     \/ mmio[file[f].unit] = NULL /\ file' = [file EXCEPT ![f] = Killed] /\ Works
  /\ UNCHANGED <<cards, slots, chip, leaked, crossed, raced, torn>>
(* It ends well or not, and says in both cases that it did.  Two of them   *)
(* on one chip, and one that began on another card, may end either way.    *)
set_up(f) ==
  /\ file[f].at = "setup"
  /\ LET c == mmio[file[f].unit]
     IN  \/ /\ c = NULL /\ file' = [file EXCEPT ![f] = Killed] /\ chip' = chip /\ Works
         \/ /\ c # NULL /\ Becomes(f, "mark")
            /\ \/ chip' = [chip EXCEPT ![c] = "good"] /\ Works
               \/ chip' = [chip EXCEPT ![c] = "failed"] /\ Fails
               \/ /\ c \in crossed \/ file[f].card # c
                  /\ chip' = [chip EXCEPT ![c] = "failed"] /\ Works
  /\ UNCHANGED <<cards, slots, leaked, crossed, raced, torn>>

(* The mark reads the flags of the slot and stores them with QNFF_INITED.  *)
read_flags(f) ==
  /\ file[f].at = "mark"
  /\ file' = [file EXCEPT ![f].at = "store", ![f].seen = flags[file[f].unit]]
  /\ UNCHANGED <<cards, slots, chip, history>>
mark_inited(f) ==
  /\ file[f].at = "store"
  /\ LET u == file[f].unit
     IN  /\ flags' = [flags EXCEPT ![u] = file[f].seen \cup {"inited"}]
         /\ torn' = (torn \/ (Attached(u) # ("attached" \in file[f].seen)))
  /\ file' = [file EXCEPT ![f].at = "open", ![f].seen = {}]
  /\ UNCHANGED <<cards, devId, mmio, node, chip, leaked, crossed, raced, faults>>
qnf_release(f) ==
  /\ file[f].at = "open"
  /\ file' = [file EXCEPT ![f] = Closed]
  /\ UNCHANGED <<cards, slots, chip, history>>

(* A register is read or written in the memory the slot maps, which        *)
(* changes nothing here.  In a slot that was cleared the size is 0: an     *)
(* offset above it is refused, offset 0 faults and kills the process.      *)
qnf_ioctl(f) ==
  /\ file[f].at = "open" /\ mmio[file[f].unit] = NULL
  /\ file' = [file EXCEPT ![f] = Closed]
  /\ UNCHANGED <<cards, slots, chip, history>>

-----------------------------------------------------------------------------
Init ==
  /\ module = "out" /\ bound = {} /\ probing = Idle
  /\ flags = [u \in Units |-> {}]
  /\ devId = [u \in Units |-> NULL]
  /\ mmio = [u \in Units |-> NULL]
  /\ node = [u \in Units |-> FALSE]
  /\ drvdata \in [Cards -> {0}]
  /\ file = [f \in Files |-> Closed]
  /\ chip = [c \in Cards |-> "raw"]
  /\ leaked = {} /\ crossed = {} /\ raced = FALSE /\ torn = FALSE /\ faults = 0
Next ==
  \/ qnf_init \/ qnf_cleanup
  \/ \E c \in Cards : qnf_init_one(c) \/ attach(c) \/ qnf_remove_one(c)
  \/ \E f \in Files :
       \/ \E u \in Units : qnf_open(f, u)
       \/ test_inited(f) \/ test_devId(f) \/ hyphy20g_init(f) \/ set_up(f)
       \/ read_flags(f) \/ mark_inited(f) \/ qnf_ioctl(f) \/ qnf_release(f)
Spec == Init /\ [][Next]_vars

-----------------------------------------------------------------------------
(* Every card that is bound has a slot of its own, which maps that card,   *)
(* and the other attached slots are those of failed probes: a card is      *)
(* refused ("Too many QNF devices loaded") only when bound cards and       *)
(* failed probes have used up the table.  The flags are updated without a  *)
(* lock, and the only way that a mark brings QNFF_ATTACHED back or loses   *)
(* it, after which a slot may be lost or serve two cards, is that a card   *)
(* is removed in the middle of an open.                                    *)
SlotsAccounted ==
  /\ torn => raced
  /\ ~torn =>
       /\ \A c \in bound : devId[drvdata[c]] = c /\ mmio[drvdata[c]] = c
       /\ {u \in Units : Attached(u)} = leaked \cup {drvdata[c] : c \in bound}
       /\ \A c \in bound : drvdata[c] \notin leaked

(* As long as no mark has changed QNFF_ATTACHED, a process reads and       *)
(* writes the registers of the card it opened, unless that card was        *)
(* removed since: a file left open over a change of cards reads and writes *)
(* the next card of its slot.                                              *)
AccessesArrive ==
  ~torn => \A f \in Files :
    file[f].at = "open" /\ mmio[file[f].unit] # NULL => file[f].card \in {mmio[file[f].unit], Gone}

(* An open on an MC20P card returns only after a set-up of its chip has    *)
(* ended, however many processes open it together, and none is under way   *)
(* on it any more, unless two opens found the slot unmarked at once: then  *)
(* the later one sets up the chip again under the file of the first.  It   *)
(* is not said that the set-up went well: the driver does not ask.  And a  *)
(* card must not be removed in the middle of an open, which then marks the *)
(* slot for the next card, too.                                            *)
OpenedAfterSetUp ==
  ~raced => \A f \in Files : LET c == file[f].card IN
    file[f].at = "open" /\ c \in Hyphy =>
      /\ chip[c] # "raw"
      /\ c \notin crossed => \A g \in Files : file[g].at = "setup" => file[g].card # c
=============================================================================
