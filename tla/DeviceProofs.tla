---------------------------- MODULE DeviceProofs ----------------------------
(***************************************************************************)
(* What holds of two parts that meet in the card: of its driver            *)
(* (QnfDriver), for every set of cards, every number of slots, of open     *)
(* files and of failing calls; and of the forward modes that the cli       *)
(* writes to it (ForwardMode), for every number of rules, every set of cli *)
(* processes and every set of modes.  The two share no constant and no     *)
(* variable.                                                               *)
(***************************************************************************)
EXTENDS QnfDriver, ForwardMode, TLAPS

Bits == SUBSET {"attached", "inited"}
Within == {"found", "init", "setup", "mark", "store"}
Record == [at : {"closed", "killed", "test", "open"} \cup Within, unit : Nat,
           card : Cards \cup {NULL, Gone}, seen : Bits]
Types ==
  /\ flags \in [Units -> Bits]
  /\ devId \in [Units -> Cards \cup {NULL}]
  /\ mmio \in [Units -> Cards \cup {NULL}]
  /\ node \in [Units -> BOOLEAN]
  /\ drvdata \in [Cards -> Nat]
  /\ bound \subseteq Cards
  /\ file \in [Files -> Record]
  /\ chip \in [Cards -> {"raw", "good", "failed"}]
  /\ leaked \subseteq Units

(* A probe under way has a slot that is not attached, and knows its flags. *)
Probes ==
  \/ probing = Idle
  \/ /\ probing.card \in Cards \ bound /\ probing.unit \in Units
     /\ probing.seen \in Bits
     /\ ~raced => "inited" \notin probing.seen
     /\ ~torn => ~Attached(probing.unit)

(* A slot with a node is the slot of a card that is there.                 *)
Nodes == ~torn => \A u \in Units : node[u] => devId[u] \in bound /\ drvdata[devId[u]] = u

(* A file that is in use is on the slot of its card, or lost its card.     *)
Fits(r) ==
  IF r.at \in {"closed", "killed"} THEN r \in {Closed, Killed}
  ELSE /\ r.unit \in Units
       /\ ~torn => r.card = Gone \/ (r.card \in bound /\ r.unit = drvdata[r.card])
Uses == \A f \in Files : Fits(file[f])

(* As long as no open lost its card: a mark is on an attached slot, and    *)
(* the mark of an MC20P says that a set-up of its chip has ended.          *)
Marked ==
  /\ \A u \in Units : "inited" \in flags[u] => Attached(u)
  /\ \A c \in bound \cap Hyphy : "inited" \in flags[drvdata[c]] => chip[c] # "raw"
(* So does an open that is about to mark, and one that is through has its  *)
(* slot marked, which one on its way does not unless another one crossed.  *)
Told(r) ==
  /\ r.at \in {"test"} \cup Within => r.card # Gone
  /\ r.at = "store" => "attached" \in r.seen
  /\ r.at \in {"mark", "store", "open"} /\ r.card \in Hyphy => chip[r.card] # "raw"
  /\ r.at = "open" /\ r.card # Gone => "inited" \in flags[r.unit]
  /\ r.at \in Within /\ "inited" \in flags[r.unit] => r.card \in crossed
Crosses(r, s) == r.at \in Within /\ s.at \in Within /\ r.card = s.card => r.card \in crossed
Marks ==
  ~raced =>
    /\ Marked
    /\ \A f \in Files : Told(file[f])
    /\ \A f, g \in Files : f # g => Crosses(file[f], file[g])

IInv == Types /\ SlotsAccounted /\ Probes /\ Nodes /\ Uses /\ Marks

-----------------------------------------------------------------------------
LEMMA UnitsNat == Units \subseteq Nat
BY DriverAssumption DEF Units

(* The slots of bound cards are attached, are not leaked, and differ.      *)
LEMMA BoundSlot ==
  ASSUME Types, SlotsAccounted, ~torn
  PROVE  /\ \A c \in bound : drvdata[c] \in Units /\ Attached(drvdata[c])
         /\ \A c, d \in bound : drvdata[c] = drvdata[d] => c = d
         /\ \A u \in Units : Attached(u) <=> u \in leaked \/ \E c \in bound : drvdata[c] = u
BY DEF Types, SlotsAccounted

LEMMA ClosedFile == Closed \in Record /\ Killed \in Record /\ Closed.at = "closed" /\ Killed.at = "killed"
BY DEF Closed, Killed, Record, Bits

LEMMA InitInv == Init => IInv
<1> SUFFICES ASSUME Init PROVE IInv
  OBVIOUS
<1> USE DriverAssumption, ClosedFile DEF Init
<1>1. Types
  BY DEF Types, Bits
<1>2. SlotsAccounted
  BY DEF SlotsAccounted, Attached
<1>3. Probes /\ Nodes /\ Uses
  BY DEF Probes, Nodes, Uses, Fits
<1>4. Marks
  BY DEF Marks, Marked, Told, Crosses, Within
<1> QED
  BY <1>1, <1>2, <1>3, <1>4 DEF IInv

LEMMA StutterInv == IInv /\ UNCHANGED vars => IInv'
<1> SUFFICES ASSUME IInv, UNCHANGED vars PROVE IInv'
  OBVIOUS
<1> USE DEF IInv, vars, cards, slots, history
<1>1. Types' /\ SlotsAccounted' /\ Probes' /\ Nodes' /\ Uses'
  BY DEF Types, SlotsAccounted, Probes, Nodes, Uses, Fits, Attached
<1>2. Marks'
  BY DEF Marks, Marked, Told, Crosses, Attached
<1> QED
  BY <1>1, <1>2

LEMMA LoadInv == IInv /\ (qnf_init \/ qnf_cleanup) => IInv'
<1> SUFFICES ASSUME IInv, qnf_init \/ qnf_cleanup PROVE IInv'
  OBVIOUS
<1> USE DriverAssumption DEF IInv
<1>1. CASE qnf_init
  <2> USE <1>1 DEF qnf_init, slots
  <2>1. Types' /\ SlotsAccounted' /\ Probes' /\ Nodes' /\ Uses'
    BY DEF Types, SlotsAccounted, Probes, Nodes, Uses, Fits, Attached
  <2>2. Marks'
    BY DEF Marks, Marked, Told, Crosses, Attached
  <2> QED
    BY <2>1, <2>2
<1>2. CASE qnf_cleanup
  <2> USE <1>2, ClosedFile DEF qnf_cleanup
  <2>1. Types'
    BY DEF Types, Bits
  <2>2. SlotsAccounted'
    BY DEF SlotsAccounted, Attached, Types
  <2>3. Probes' /\ Nodes' /\ Uses'
    BY DEF Probes, Nodes, Uses, Fits
  <2>4. Marks'
    BY DEF Marks, Marked, Told, Crosses, Within
  <2> QED
    BY <2>1, <2>2, <2>3, <2>4
<1> QED
  BY <1>1, <1>2

(* A probe begins on a slot that is not attached.                          *)
LEMMA FindInv == ASSUME NEW c \in Cards, IInv, qnf_init_one(c) PROVE IInv'
<1> USE DriverAssumption DEF IInv
<1>1. PICK u \in Units : ~Attached(u) /\ probing' = [card |-> c, unit |-> u, seen |-> flags[u]]
  BY DEF qnf_init_one, qnf_find_unattached
<1>2. c \notin bound /\ UNCHANGED <<drvdata, bound, flags, devId, mmio, node, file, chip, leaked, crossed, raced, torn>>
  BY DEF qnf_init_one, slots, history
<1>3. Types' /\ SlotsAccounted' /\ Nodes' /\ Uses'
  BY <1>2 DEF Types, SlotsAccounted, Nodes, Uses, Fits, Attached
<1>4. Marks'
  BY <1>2 DEF Marks, Marked, Told, Crosses, Attached
<1>5. flags[u] \in Bits /\ (~raced => "inited" \notin flags[u])
  BY <1>1 DEF Types, Marks, Marked
<1>6. Probes'
  BY <1>1, <1>2, <1>5 DEF Probes, Attached
<1> QED
  BY <1>3, <1>4, <1>6

(* It ends on a slot that no card and no open file has, and gives it to    *)
(* its card or leaves it attached.                                         *)
LEMMA AttachInv == ASSUME NEW c \in Cards, IInv, attach(c) PROVE IInv'
<1> USE DriverAssumption DEF IInv
<1> DEFINE u == probing.unit
           b == probing.seen
<1>1. /\ c \notin bound /\ u \in Units /\ b \in Bits /\ probing' = Idle
      /\ ~raced => "inited" \notin b
      /\ ~torn => ~Attached(u)
  BY DEF attach, Probes
<1>2. /\ flags' = [flags EXCEPT ![u] = b \cup {"attached"}]
      /\ UNCHANGED <<file, chip, crossed, raced, torn>>
      /\ Served(c, u) \/ Refused(c, u)
  BY DEF attach
<1> HIDE DEF u, b
<1>3. u \in Nat
  BY <1>1, UnitsNat
<1>4. ASSUME Served(c, u)
      PROVE  /\ bound' = bound \cup {c} /\ leaked' = leaked
             /\ drvdata' = [drvdata EXCEPT ![c] = u]
             /\ devId' = [devId EXCEPT ![u] = c]
             /\ mmio' = [mmio EXCEPT ![u] = c]
             /\ node' = [node EXCEPT ![u] = TRUE] \/ node' = node
  BY <1>4 DEF Served
<1>5. ASSUME Refused(c, u)
      PROVE  /\ bound' = bound /\ leaked' = leaked \cup {u}
             /\ drvdata' = drvdata /\ mmio' = mmio /\ node' = node
             /\ devId' = devId \/ devId' = [devId EXCEPT ![u] = c]
  BY <1>5 DEF Refused
<1>6. ~torn => /\ u \notin leaked /\ ~node[u]
               /\ \A d \in bound : /\ drvdata[d] # u /\ drvdata[d] \in Units
                                   /\ drvdata'[d] = drvdata[d]
                                   /\ devId'[drvdata[d]] = d /\ mmio'[drvdata[d]] = d
  <2> SUFFICES ASSUME ~torn
               PROVE /\ u \notin leaked /\ ~node[u]
                     /\ \A d \in bound : /\ drvdata[d] # u /\ drvdata[d] \in Units
                                         /\ drvdata'[d] = drvdata[d]
                                         /\ devId'[drvdata[d]] = d /\ mmio'[drvdata[d]] = d
    OBVIOUS
  <2>1. u \notin leaked /\ (\A d \in bound : drvdata[d] # u /\ drvdata[d] \in Units)
    BY <1>1, BoundSlot
  <2>2. ~node[u]
    BY <2>1, <1>1 DEF Nodes
  <2>3. \A d \in bound : devId[drvdata[d]] = d /\ mmio[drvdata[d]] = d /\ d # c
    BY <1>1 DEF SlotsAccounted
  <2>4. CASE Served(c, u)
    BY <2>1, <2>2, <2>3, <2>4, <1>4 DEF Types
  <2>5. CASE Refused(c, u)
    BY <2>1, <2>2, <2>3, <2>5, <1>5 DEF Types
  <2> QED
    BY <2>4, <2>5, <1>2
<1>7. Types'
  <2>1. flags' \in [Units -> Bits]
    BY <1>1, <1>2 DEF Types, Bits
  <2>2. CASE Served(c, u)
    <3>1. devId' \in [Units -> Cards \cup {NULL}] /\ mmio' \in [Units -> Cards \cup {NULL}]
      BY <2>2, <1>4 DEF Types
    <3>2. node' \in [Units -> BOOLEAN]
      BY <2>2, <1>4 DEF Types
    <3>3. drvdata' \in [Cards -> Nat]
      BY <2>2, <1>3, <1>4 DEF Types
    <3>4. bound' \subseteq Cards /\ leaked' \subseteq Units
      BY <2>2, <1>4 DEF Types
    <3> QED
      BY <2>1, <3>1, <3>2, <3>3, <3>4, <1>2 DEF Types
  <2>3. CASE Refused(c, u)
    BY <2>1, <2>3, <1>1, <1>2, <1>3, <1>5 DEF Types
  <2> QED
    BY <2>2, <2>3, <1>2
<1>8. \A v \in Units : Attached(v)' <=> Attached(v) \/ v = u
  BY <1>2 DEF Attached, Types
<1>9. SlotsAccounted'
  <2>1. (torn => raced)'
    BY <1>2 DEF SlotsAccounted
  <2> SUFFICES ASSUME ~torn
               PROVE /\ \A d \in bound' : devId'[drvdata'[d]] = d /\ mmio'[drvdata'[d]] = d
                     /\ {v \in Units : Attached(v)'} = leaked' \cup {drvdata'[d] : d \in bound'}
                     /\ \A d \in bound' : drvdata'[d] \notin leaked'
    BY <2>1, <1>2 DEF SlotsAccounted
  <2>2. \A v \in Units : Attached(v) <=> v \in leaked \/ \E d \in bound : drvdata'[d] = v
    BY BoundSlot, <1>6
  <2>3. leaked \subseteq Units /\ bound \subseteq Cards
    BY DEF Types
  <2>4. CASE Served(c, u)
    <3>1. drvdata'[c] = u /\ devId'[u] = c /\ mmio'[u] = c
      BY <2>4, <1>1, <1>4 DEF Types
    <3>2. \A d \in bound' : devId'[drvdata'[d]] = d /\ mmio'[drvdata'[d]] = d
      BY <3>1, <2>4, <1>4, <1>6
    <3>3. {v \in Units : Attached(v)'} = leaked' \cup {drvdata'[d] : d \in bound'}
      BY <3>1, <2>2, <2>3, <2>4, <1>1, <1>4, <1>6, <1>8
    <3>4. \A d \in bound' : drvdata'[d] \notin leaked'
      BY <3>1, <2>4, <1>4, <1>6 DEF SlotsAccounted
    <3> QED
      BY <3>2, <3>3, <3>4
  <2>5. CASE Refused(c, u)
    <3>1. \A d \in bound' : devId'[drvdata'[d]] = d /\ mmio'[drvdata'[d]] = d
      BY <2>5, <1>5, <1>6
    <3>2. {v \in Units : Attached(v)'} = leaked' \cup {drvdata'[d] : d \in bound'}
      BY <2>2, <2>3, <2>5, <1>1, <1>5, <1>6, <1>8
    <3>3. \A d \in bound' : drvdata'[d] \notin leaked'
      BY <2>5, <1>5, <1>6 DEF SlotsAccounted
    <3> QED
      BY <3>1, <3>2, <3>3
  <2> QED
    BY <2>4, <2>5, <1>2
<1>10. Probes'
  BY <1>1 DEF Probes
<1>11. Nodes'
  <2> SUFFICES ASSUME ~torn, NEW v \in Units, node'[v]
               PROVE devId'[v] \in bound' /\ drvdata'[devId'[v]] = v
    BY <1>2 DEF Nodes
  <2>1. CASE Served(c, u)
    BY <2>1, <1>1, <1>4, <1>6 DEF Nodes, Types
  <2>2. CASE Refused(c, u)
    BY <2>2, <1>1, <1>5, <1>6 DEF Nodes, Types
  <2> QED
    BY <2>1, <2>2, <1>2
<1>12. bound \subseteq bound'
  BY <1>2, <1>4, <1>5
<1>13. Uses'
  BY <1>2, <1>6, <1>12 DEF Uses, Fits
<1>14. Marks'
  <2> SUFFICES ASSUME ~raced
               PROVE /\ Marked'
                     /\ \A f \in Files : Told(file[f])'
                     /\ \A f, g \in Files : f # g => Crosses(file[f], file[g])'
    BY <1>2 DEF Marks
  <2>1. ~torn /\ "inited" \notin flags'[u] /\ \A v \in Units : v # u => flags'[v] = flags[v]
    BY <1>1, <1>2 DEF SlotsAccounted, Types
  <2>2. \A d \in bound' : d \in bound \/ (d = c /\ drvdata'[c] = u)
    BY <1>2, <1>4, <1>5 DEF Types
  <2>3. Marked'
    BY <2>1, <2>2, <1>2, <1>6, <1>8 DEF Marks, Marked
  <2>4. \A f \in Files : Told(file[f])'
    <3> SUFFICES ASSUME NEW f \in Files PROVE Told(file[f])'
      OBVIOUS
    <3>1. Told(file[f]) /\ Fits(file[f])
      BY DEF Marks, Uses
    <3>2. file[f].at = "open" \/ file[f].at \in {"test"} \cup Within => file[f].at \notin {"closed", "killed"}
      BY DEF Within
    <3>3. file[f].at = "open" /\ file[f].card # Gone => flags'[file[f].unit] = flags[file[f].unit]
      BY <2>1, <3>1, <3>2, <1>6 DEF Fits
    <3>4. file[f].at \in Within => flags'[file[f].unit] = flags[file[f].unit]
      BY <2>1, <3>1, <3>2, <1>6 DEF Fits, Told
    <3> QED
      BY <3>1, <3>3, <3>4, <1>2 DEF Told
  <2>5. \A f, g \in Files : f # g => Crosses(file[f], file[g])'
    BY <1>2 DEF Marks, Crosses
  <2> QED
    BY <2>3, <2>4, <2>5
<1> QED
  BY <1>7, <1>9, <1>10, <1>11, <1>13, <1>14
(* A removal clears a slot no other card has; its files lose their card.   *)
LEMMA RemoveInv == ASSUME NEW c \in Cards, IInv, qnf_remove_one(c) PROVE IInv'
<1> USE DriverAssumption DEF IInv
<1> DEFINE u == drvdata[c]
<1>1. /\ c \in bound /\ bound' = bound \ {c} /\ probing' = Idle
      /\ flags' = [flags EXCEPT ![u] = {}]
      /\ devId' = [devId EXCEPT ![u] = NULL]
      /\ mmio' = [mmio EXCEPT ![u] = NULL]
      /\ node' = [node EXCEPT ![u] = FALSE]
      /\ drvdata' = [drvdata EXCEPT ![c] = 0]
      /\ chip' = [chip EXCEPT ![c] = "raw"] /\ crossed' = crossed \ {c}
      /\ UNCHANGED <<leaked, torn>>
  BY DEF qnf_remove_one
<1>2. /\ raced => raced'
      /\ ~raced' => \A f \in Files : file[f].card = c => file[f].at \notin {"test"} \cup Within
  BY DEF qnf_remove_one, Opening, Window, Within
<1>3. ~torn => /\ u \in Units /\ u \notin leaked
               /\ \A d \in bound : drvdata[d] = u => d = c
  BY <1>1, BoundSlot DEF SlotsAccounted
<1> HIDE DEF u
<1>4. \A f \in Files : file'[f] = IF file[f].card = c THEN [file[f] EXCEPT !.card = Gone]
                                  ELSE file[f]
  BY DEF qnf_remove_one, Forget
<1>5. \A f \in Files : /\ file'[f].at = file[f].at
                       /\ file'[f].unit = file[f].unit
                       /\ file'[f].seen = file[f].seen
                       /\ file'[f].card = IF file[f].card = c THEN Gone ELSE file[f].card
  BY <1>4 DEF Types, Record
<1>6. Types'
  <2>1. file' \in [Files -> Record]
    <3>1. DOMAIN file' = Files /\ file' = [f \in Files |-> file'[f]]
      BY DEF qnf_remove_one, Forget
    <3>2. ASSUME NEW f \in Files PROVE file'[f] \in Record
      <4>1. file[f] \in Record
        BY DEF Types
      <4> QED
        BY <4>1, <1>4 DEF Record
    <3> QED
      BY <3>1, <3>2
  <2>2. flags' \in [Units -> Bits] /\ node' \in [Units -> BOOLEAN]
    BY <1>1 DEF Types, Bits
  <2>3. devId' \in [Units -> Cards \cup {NULL}] /\ mmio' \in [Units -> Cards \cup {NULL}]
    BY <1>1 DEF Types
  <2>4. drvdata' \in [Cards -> Nat] /\ bound' \subseteq Cards
    BY <1>1 DEF Types
  <2>5. chip' \in [Cards -> {"raw", "good", "failed"}]
    BY <1>1 DEF Types
  <2> QED
    BY <2>1, <2>2, <2>3, <2>4, <2>5, <1>1 DEF Types
<1>7. SlotsAccounted'
  <2>1. (torn => raced)'
    BY <1>1, <1>2 DEF SlotsAccounted
  <2> SUFFICES ASSUME ~torn
               PROVE /\ \A d \in bound' : devId'[drvdata'[d]] = d /\ mmio'[drvdata'[d]] = d
                     /\ {v \in Units : Attached(v)'} = leaked' \cup {drvdata'[d] : d \in bound'}
                     /\ \A d \in bound' : drvdata'[d] \notin leaked'
    BY <2>1, <1>1 DEF SlotsAccounted
  <2>2. \A v \in Units : Attached(v)' <=> Attached(v) /\ v # u
    BY <1>1 DEF Attached, Types
  <2>3. \A d \in bound' : drvdata[d] # u /\ drvdata'[d] = drvdata[d] /\ drvdata[d] \in Units
    BY <1>1, <1>3, BoundSlot DEF Types
  <2>4. \A v \in Units : Attached(v)' <=> v \in leaked \/ \E d \in bound' : drvdata[d] = v
    BY <2>2, <1>1, <1>3, BoundSlot DEF u
  <2>5. \A d \in bound' : devId'[drvdata[d]] = d /\ mmio'[drvdata[d]] = d /\ drvdata[d] \notin leaked
    BY <2>3, <1>1 DEF Types, SlotsAccounted
  <2>6. leaked \subseteq Units
    BY DEF Types
  <2>7. {v \in Units : Attached(v)'} = leaked \cup {drvdata[d] : d \in bound'}
    BY <2>3, <2>4, <2>6
  <2>8. {drvdata[d] : d \in bound'} = {drvdata'[d] : d \in bound'}
    BY <2>3
  <2> QED
    BY <2>3, <2>5, <2>7, <2>8, <1>1
<1>8. Probes'
  BY <1>1 DEF Probes
<1>9. Nodes'
  <2> SUFFICES ASSUME ~torn, NEW v \in Units, node'[v]
               PROVE devId'[v] \in bound' /\ drvdata'[devId'[v]] = v
    BY <1>1 DEF Nodes
  <2>1. v # u /\ node[v]
    BY <1>1 DEF Types
  <2>2. devId[v] \in bound /\ drvdata[devId[v]] = v /\ devId[v] # c
    BY <2>1 DEF Nodes, u
  <2> QED
    BY <2>1, <2>2, <1>1 DEF Types
<1>10. Uses'
  <2> SUFFICES ASSUME NEW f \in Files PROVE Fits(file[f])'
    BY DEF Uses
  <2>1. Fits(file[f])
    BY DEF Uses
  <2>2. CASE file[f].at \in {"closed", "killed"}
    <3>1. file[f] \in {Closed, Killed} /\ file[f].card # c
      BY <2>1, <2>2 DEF Fits, Closed, Killed
    <3> QED
      BY <3>1, <2>2, <1>4, <1>5 DEF Fits, Closed, Killed
  <2>3. CASE file[f].at \notin {"closed", "killed"}
    <3>1. file[f].unit \in Units
            /\ (~torn => file[f].card = Gone
                         \/ (file[f].card \in bound /\ file[f].unit = drvdata[file[f].card]))
      BY <2>1, <2>3 DEF Fits
    <3>2. file[f].card \in bound /\ file[f].card # c
            => file[f].card \in bound' /\ drvdata'[file[f].card] = drvdata[file[f].card]
      BY <1>1 DEF Types
    <3> QED
      BY <3>1, <3>2, <2>3, <1>1, <1>5 DEF Fits
  <2> QED
    BY <2>2, <2>3
<1>11. Marks'
  <2> SUFFICES ASSUME ~raced'
               PROVE /\ Marked'
                     /\ \A f \in Files : Told(file[f])'
                     /\ \A f, g \in Files : f # g => Crosses(file[f], file[g])'
    BY DEF Marks
  <2>1. ~raced /\ ~torn /\ \A f \in Files : file[f].card = c => file[f].at \notin {"test"} \cup Within
    BY <1>2 DEF SlotsAccounted
  <2>2. \A v \in Units : flags'[v] = IF v = u THEN {} ELSE flags[v]
    BY <1>1 DEF Types
  <2>3. \A d \in bound' : d # c /\ d \in bound /\ drvdata'[d] = drvdata[d] /\ drvdata[d] \in Units
                          /\ chip'[d] = chip[d] /\ drvdata[d] # u
    BY <2>1, <1>1, <1>3, BoundSlot DEF Types
  <2>4. Marked'
    BY <2>1, <2>2, <2>3 DEF Marks, Marked, Attached
  <2>5. \A f \in Files : Told(file[f])'
    <3> SUFFICES ASSUME NEW f \in Files PROVE Told(file[f])'
      OBVIOUS
    <3>1. Told(file[f]) /\ Fits(file[f])
      BY <2>1 DEF Marks, Uses
    <3>2. CASE file[f].at \in {"closed", "killed"}
      BY <3>2, <1>5 DEF Told, Within
    <3>3. CASE file[f].at \notin {"closed", "killed"} /\ file[f].card \in {c, Gone}
      <4>1. file[f].at \notin {"test"} \cup Within
        BY <3>1, <3>3, <2>1 DEF Told
      <4>2. file'[f].at = file[f].at /\ file'[f].card = Gone /\ Gone \notin Hyphy
        BY <3>3, <1>5
      <4> QED
        BY <4>1, <4>2 DEF Told, Within
    <3>4. CASE file[f].at \notin {"closed", "killed"} /\ file[f].card \notin {c, Gone}
      <4>1. file[f].card \in bound' /\ file[f].unit = drvdata[file[f].card] /\ file[f].unit \in Units
        BY <3>1, <3>4, <2>1, <1>1 DEF Fits
      <4>2. flags'[file[f].unit] = flags[file[f].unit] /\ chip'[file[f].card] = chip[file[f].card]
        BY <4>1, <2>2, <2>3
      <4>3. file'[f] = file[f] /\ (file[f].card \in crossed => file[f].card \in crossed')
        BY <3>4, <1>1, <1>4
      <4> QED
        BY <3>1, <4>2, <4>3 DEF Told
    <3> QED
      BY <3>2, <3>3, <3>4
  <2>6. \A f, g \in Files : f # g => Crosses(file[f], file[g])'
    <3> SUFFICES ASSUME NEW f \in Files, NEW g \in Files, f # g,
                        file'[f].at \in Within, file'[g].at \in Within, file'[f].card = file'[g].card
                 PROVE file'[f].card \in crossed'
      BY DEF Crosses
    <3>1. file[f].card # c /\ file[g].card # c
      BY <2>1, <1>5
    <3>2. Crosses(file[f], file[g])
      BY <2>1 DEF Marks
    <3> QED
      BY <3>1, <3>2, <1>1, <1>5 DEF Crosses
  <2> QED
    BY <2>4, <2>5, <2>6
<1> QED
  BY <1>6, <1>7, <1>8, <1>9, <1>10, <1>11

-----------------------------------------------------------------------------
(* A step of one file that leaves the slots alone.                         *)
LEMMA FileStep ==
  ASSUME NEW f \in Files, NEW r \in Record, IInv,
         file' = [file EXCEPT ![f] = r],
         UNCHANGED <<drvdata, bound, probing, flags, devId, mmio, node, leaked, raced, torn>>,
         chip' \in [Cards -> {"raw", "good", "failed"}],
         \A c \in Cards : chip[c] # "raw" => chip'[c] # "raw",
         crossed \subseteq crossed',
         Fits(r),
         ~raced => /\ r.at \in {"test"} \cup Within => r.card # Gone
                   /\ r.at = "store" => "attached" \in r.seen
                   /\ r.at \in {"mark", "store", "open"} /\ r.card \in Hyphy => chip'[r.card] # "raw"
                   /\ r.at = "open" /\ r.card # Gone => "inited" \in flags[r.unit]
                   /\ r.at \in Within /\ "inited" \in flags[r.unit] => r.card \in crossed'
                   /\ \A g \in Files \ {f} :
                        r.at \in Within /\ file[g].at \in Within /\ r.card = file[g].card
                          => r.card \in crossed'
  PROVE  IInv'
<1> USE DriverAssumption DEF IInv
<1>1. \A g \in Files : file'[g] = IF g = f THEN r ELSE file[g]
  BY DEF Types
<1>2. Types'
  BY DEF Types
<1>3. SlotsAccounted' /\ Probes' /\ Nodes'
  BY DEF SlotsAccounted, Probes, Nodes, Attached
<1>4. Uses'
  <2> SUFFICES ASSUME NEW g \in Files PROVE Fits(file[g])'
    BY DEF Uses
  <2>1. Fits(file'[g])
    BY <1>1 DEF Uses
  <2> QED
    BY <2>1 DEF Fits
<1>5. Marks'
  <2> SUFFICES ASSUME ~raced
               PROVE /\ Marked'
                     /\ \A g \in Files : Told(file[g])'
                     /\ \A g, h \in Files : g # h => Crosses(file[g], file[h])'
    BY DEF Marks
  <2>1. Marked'
    BY DEF Marks, Marked, Attached, Types
  <2>2. \A g \in Files : Told(file[g])'
    <3> SUFFICES ASSUME NEW g \in Files PROVE Told(file[g])'
      OBVIOUS
    <3>1. CASE g = f
      BY <3>1, <1>1 DEF Told
    <3>2. CASE g # f
      <4>1. Told(file[g]) /\ file'[g] = file[g]
        BY <3>2, <1>1 DEF Marks
      <4> QED
        BY <4>1 DEF Told
    <3> QED
      BY <3>1, <3>2
  <2>3. \A g, h \in Files : g # h => Crosses(file[g], file[h])'
    <3> SUFFICES ASSUME NEW g \in Files, NEW h \in Files, g # h,
                        file'[g].at \in Within, file'[h].at \in Within, file'[g].card = file'[h].card
                 PROVE file'[g].card \in crossed'
      BY DEF Crosses
    <3>1. CASE g = f
      BY <3>1, <1>1
    <3>2. CASE h = f
      BY <3>2, <1>1
    <3>3. CASE g # f /\ h # f
      BY <3>3, <1>1 DEF Marks, Crosses
    <3> QED
      BY <3>1, <3>2, <3>3
  <2> QED
    BY <2>1, <2>2, <2>3
<1> QED
  BY <1>2, <1>3, <1>4, <1>5

LEMMA EndStep ==
  ASSUME NEW f \in Files, NEW r \in {Closed, Killed}, IInv,
         file' = [file EXCEPT ![f] = r],
         UNCHANGED <<drvdata, bound, probing, flags, devId, mmio, node, leaked, raced, torn, crossed, chip>>
  PROVE  IInv'
<1>1. r \in Record /\ r.at \in {"closed", "killed"}
  BY ClosedFile
<1>2. Fits(r) /\ r.at \notin {"test", "open"} \cup Within
  BY <1>1 DEF Fits, Within
<1>3. chip' \in [Cards -> {"raw", "good", "failed"}]
  BY DEF IInv, Types
<1> QED
  BY <1>1, <1>2, <1>3, FileStep DEF Within

(* What the steps of an open rely on.                                      *)
LEMMA InUse ==
  ASSUME NEW f \in Files, IInv, file[f].at \in {"test", "open"} \cup Within
  PROVE  /\ file[f] \in Record /\ file[f].unit \in Units /\ file[f].unit \in Nat /\ Fits(file[f])
         /\ ~raced => Told(file[f]) /\ ~torn
         /\ ~raced /\ file[f].card # Gone =>
              /\ file[f].card \in bound /\ file[f].card \in Cards
              /\ file[f].unit = drvdata[file[f].card]
              /\ devId[file[f].unit] = file[f].card /\ mmio[file[f].unit] = file[f].card
              /\ Attached(file[f].unit)
<1> USE DEF IInv
<1>1. file[f] \in Record /\ Fits(file[f]) /\ (~raced => Told(file[f]) /\ ~torn)
  BY DEF Types, Uses, Marks, SlotsAccounted
<1>2. file[f].at \notin {"closed", "killed"}
  BY DEF Within
<1>3. file[f].unit \in Units
        /\ (~torn => file[f].card = Gone
                     \/ (file[f].card \in bound /\ file[f].unit = drvdata[file[f].card]))
  BY <1>1, <1>2 DEF Fits
<1>4. ASSUME ~torn, NEW c \in bound
      PROVE devId[drvdata[c]] = c /\ mmio[drvdata[c]] = c /\ Attached(drvdata[c]) /\ c \in Cards
  BY <1>4, BoundSlot DEF SlotsAccounted, Types
<1> QED
  BY <1>1, <1>3, <1>4, UnitsNat

(* An open reads its card from the slot of its node.                       *)
LEMMA OpenInv == ASSUME NEW f \in Files, NEW u \in Units, IInv, qnf_open(f, u) PROVE IInv'
<1> USE DriverAssumption
<1> DEFINE r == [at |-> "test", unit |-> u, card |-> devId[u], seen |-> {}]
<1>1. /\ file' = [file EXCEPT ![f] = r] /\ node[u]
      /\ UNCHANGED <<drvdata, bound, probing, flags, devId, mmio, node, leaked, raced, torn, crossed, chip>>
  BY DEF qnf_open, cards, slots, history
<1>2. ~torn => devId[u] \in bound /\ drvdata[devId[u]] = u
  BY <1>1 DEF IInv, Nodes
<1>3. /\ r \in Record /\ r.at = "test" /\ r.unit = u /\ r.card = devId[u] /\ "test" \notin Within
      /\ bound \subseteq Cards /\ chip \in [Cards -> {"raw", "good", "failed"}]
  BY UnitsNat DEF IInv, Types, Record, Bits, Within
<1> HIDE DEF r
<1>4. Fits(r)
  BY <1>2, <1>3 DEF Fits
<1>5. ~raced => r.card # Gone
  BY <1>2, <1>3 DEF IInv, SlotsAccounted
<1> QED
  BY <1>1, <1>3, <1>4, <1>5, FileStep DEF Within

(* One that finds the mark is through, one that does not is in the window. *)
LEMMA TestInv == ASSUME NEW f \in Files, IInv, test_inited(f) PROVE IInv'
<1> USE DriverAssumption
<1> DEFINE c == file[f].card
           v == file[f].unit
<1>1. /\ file[f].at = "test"
      /\ UNCHANGED <<drvdata, bound, probing, flags, devId, mmio, node, leaked, raced, torn, chip>>
      /\ \/ /\ "inited" \in flags[v] /\ crossed' = crossed
            /\ file' = [file EXCEPT ![f].at = "open"]
         \/ /\ "inited" \notin flags[v]
            /\ file' = [file EXCEPT ![f].at = "found"]
            /\ crossed' = crossed \cup {d \in {c} : \E g \in Files : Window(g) /\ file[g].card = d}
  BY DEF test_inited, Becomes, cards, slots
<1>2. /\ file[f] \in Record /\ v \in Units /\ Fits(file[f])
      /\ ~raced => Told(file[f]) /\ ~torn
      /\ ~raced /\ c # Gone => c \in bound /\ c \in Cards /\ v = drvdata[c]
  BY <1>1, InUse
<1>3. ~raced => c # Gone /\ c \in bound
  BY <1>1, <1>2 DEF Told
<1>4. chip \in [Cards -> {"raw", "good", "failed"}]
  BY DEF IInv, Types
<1>5. CASE "inited" \in flags[v]
  <2> DEFINE r == [file[f] EXCEPT !.at = "open"]
  <2>1. r \in Record /\ r.at = "open" /\ r.card = c /\ r.unit = v /\ "open" \notin {"test"} \cup Within
    BY <1>2 DEF Record, Within
  <2>2. file' = [file EXCEPT ![f] = r] /\ crossed' = crossed
    BY <1>1, <1>5
  <2> HIDE DEF r
  <2>3. Fits(r)
    BY <2>1, <1>1, <1>2 DEF Fits
  <2>4. ~raced /\ c \in Hyphy => chip[c] # "raw"
    BY <1>2, <1>3, <1>5 DEF IInv, Marks, Marked
  <2> QED
    BY <2>1, <2>2, <2>3, <2>4, <1>1, <1>4, <1>5, FileStep
<1>6. CASE "inited" \notin flags[v]
  <2> DEFINE r == [file[f] EXCEPT !.at = "found"]
  <2>1. r \in Record /\ r.at = "found" /\ r.card = c /\ r.unit = v
    BY <1>2 DEF Record, Within
  <2>2. /\ file' = [file EXCEPT ![f] = r]
        /\ crossed' = crossed \cup {d \in {c} : \E g \in Files : Window(g) /\ file[g].card = d}
    BY <1>1, <1>6
  <2> HIDE DEF r
  <2>3. Fits(r)
    BY <2>1, <1>1, <1>2 DEF Fits
  <2>4. \A g \in Files : file[g].at \in Within /\ c = file[g].card => c \in crossed'
    BY <2>2 DEF Window, Within
  <2> QED
    BY <2>1, <2>2, <2>3, <2>4, <1>1, <1>3, <1>4, <1>6, FileStep
<1> QED
  BY <1>5, <1>6

(* The steps in the window before the store.                               *)
LEMMA WindowStep ==
  ASSUME NEW f \in Files, IInv, NEW r \in Record, file[f].at \in Within,
         r.at \in Within, r.card = file[f].card, r.unit = file[f].unit,
         file' = [file EXCEPT ![f] = r],
         UNCHANGED <<drvdata, bound, probing, flags, devId, mmio, node, leaked, raced, torn, crossed>>,
         chip' \in [Cards -> {"raw", "good", "failed"}],
         \A c \in Cards : chip[c] # "raw" => chip'[c] # "raw",
         ~raced => /\ r.at = "store" => "attached" \in r.seen
                   /\ r.at \in {"mark", "store"} /\ r.card \in Hyphy => chip'[r.card] # "raw"
  PROVE  IInv'
<1>1. Fits(file[f]) /\ (~raced => Told(file[f]))
  BY InUse
<1>2. Fits(r)
  BY <1>1 DEF Fits, Within
<1>3. ~raced => r.card # Gone /\ ("inited" \in flags[r.unit] => r.card \in crossed)
  BY <1>1 DEF Told
<1>4. ~raced => \A g \in Files \ {f} : file[g].at \in Within /\ r.card = file[g].card => r.card \in crossed
  BY DEF IInv, Marks, Crosses
<1>5. r.at # "open"
  BY DEF Within
<1> QED
  BY <1>2, <1>3, <1>4, <1>5, FileStep

LEMMA WindowInv ==
  ASSUME NEW f \in Files, IInv, test_devId(f) \/ hyphy20g_init(f) \/ set_up(f) \/ read_flags(f)
  PROVE  IInv'
<1> USE DriverAssumption
<1> DEFINE c == file[f].card
           v == file[f].unit
<1>1. /\ file[f].at \in Within
      /\ UNCHANGED <<drvdata, bound, probing, flags, devId, mmio, node, leaked, raced, torn, crossed>>
  BY DEF test_devId, hyphy20g_init, set_up, read_flags, cards, slots, history, Within
<1>2. /\ file[f] \in Record /\ v \in Units
      /\ ~raced => /\ Told(file[f]) /\ ~torn
                   /\ c # Gone => /\ c \in bound /\ c \in Cards /\ v = drvdata[c]
                                  /\ devId[v] = c /\ mmio[v] = c /\ Attached(v)
  BY <1>1, InUse
<1>3. ~raced => c # Gone
  BY <1>1, <1>2 DEF Told
<1>4. chip \in [Cards -> {"raw", "good", "failed"}] /\ flags[v] \in Bits /\ mmio[v] \in Cards \cup {NULL}
  BY <1>2 DEF IInv, Types
<1>5. \A a \in Within : /\ [file[f] EXCEPT !.at = a] \in Record
                        /\ [file[f] EXCEPT !.at = a].at = a
                        /\ [file[f] EXCEPT !.at = a].card = c
                        /\ [file[f] EXCEPT !.at = a].unit = v
                        /\ [file[f] EXCEPT !.at = a].seen = file[f].seen
  BY <1>2 DEF Record
<1>6. CASE test_devId(f)
  <2> DEFINE a == IF devId[v] \in Hyphy THEN "init" ELSE "mark"
  <2>1. file' = [file EXCEPT ![f] = [file[f] EXCEPT !.at = a]] /\ chip' = chip
    BY <1>6 DEF test_devId, Becomes
  <2>2. a \in Within /\ a # "store" /\ (~raced /\ a = "mark" => c \notin Hyphy)
    BY <1>2, <1>3 DEF Within
  <2>3. a \in {"mark", "store"} => a = "mark"
    OBVIOUS
  <2> HIDE DEF a
  <2> DEFINE r == [file[f] EXCEPT !.at = a]
  <2>4. r \in Record /\ r.at = a /\ r.card = c /\ r.unit = v
    BY <2>2, <1>5
  <2> HIDE DEF r
  <2> QED
    BY <2>1, <2>2, <2>3, <2>4, <1>1, <1>4, WindowStep DEF r
<1>7. CASE hyphy20g_init(f)
  <2>1. chip' = chip
    BY <1>7 DEF hyphy20g_init
  <2>2. CASE file' = [file EXCEPT ![f] = Killed]
    BY <2>1, <2>2, <1>1, EndStep
  <2>3. CASE file' = [file EXCEPT ![f].at = "setup"]
    <3> DEFINE r == [file[f] EXCEPT !.at = "setup"]
    <3>1. r \in Record /\ r.at = "setup" /\ r.at \in Within /\ r.card = c /\ r.unit = v
      BY <1>5 DEF Within
    <3>2. file' = [file EXCEPT ![f] = r]
      BY <2>3
    <3> HIDE DEF r
    <3> QED
      BY <3>1, <3>2, <2>1, <1>1, <1>4, WindowStep
  <2> QED
    BY <2>2, <2>3, <1>7 DEF hyphy20g_init, Becomes
<1>8. CASE set_up(f)
  <2>1. CASE mmio[v] = NULL
    <3>1. file' = [file EXCEPT ![f] = Killed] /\ chip' = chip
      BY <2>1, <1>8 DEF set_up
    <3> QED
      BY <3>1, <1>1, EndStep
  <2>2. CASE mmio[v] # NULL
    <3> DEFINE r == [file[f] EXCEPT !.at = "mark"]
    <3>1. r \in Record /\ r.at = "mark" /\ r.at \in Within /\ r.card = c /\ r.unit = v
      BY <1>5 DEF Within
    <3>2. file' = [file EXCEPT ![f] = r]
      BY <2>2, <1>8 DEF set_up, Becomes
    <3>3. PICK s \in {"good", "failed"} : chip' = [chip EXCEPT ![mmio[v]] = s]
      BY <2>2, <1>8 DEF set_up
    <3>4. mmio[v] \in Cards /\ chip' \in [Cards -> {"raw", "good", "failed"}]
            /\ (\A x \in Cards : chip[x] # "raw" => chip'[x] # "raw") /\ chip'[mmio[v]] # "raw"
      BY <2>2, <3>3, <1>4
    <3>5. ~raced => chip'[c] # "raw"
      BY <3>4, <1>2, <1>3
    <3> HIDE DEF r
    <3> QED
      BY <3>1, <3>2, <3>4, <3>5, <1>1, WindowStep
  <2> QED
    BY <2>1, <2>2
<1>9. CASE read_flags(f)
  <2> DEFINE r == [file[f] EXCEPT !.at = "store", !.seen = flags[v]]
  <2>1. r \in Record /\ r.at = "store" /\ r.at \in Within /\ r.card = c /\ r.unit = v /\ r.seen = flags[v]
    BY <1>2, <1>4 DEF Record, Within
  <2>2. file' = [file EXCEPT ![f] = r] /\ chip' = chip /\ file[f].at = "mark"
    BY <1>9 DEF read_flags
  <2>3. ~raced => "attached" \in flags[v] /\ (c \in Hyphy => chip[c] # "raw")
    BY <2>2, <1>2, <1>3 DEF Attached, Told
  <2> HIDE DEF r
  <2> QED
    BY <2>1, <2>2, <2>3, <1>1, <1>4, WindowStep
<1> QED
  BY <1>6, <1>7, <1>8, <1>9

(* A mark changes nothing but itself unless a card was removed meanwhile.  *)
LEMMA MarkInv == ASSUME NEW f \in Files, IInv, mark_inited(f) PROVE IInv'
<1> USE DriverAssumption DEF IInv
<1> DEFINE c == file[f].card
           v == file[f].unit
           b == file[f].seen
           r == [file[f] EXCEPT !.at = "open", !.seen = {}]
<1>1. /\ file[f].at = "store" /\ file' = [file EXCEPT ![f] = r]
      /\ flags' = [flags EXCEPT ![v] = b \cup {"inited"}]
      /\ torn' = (torn \/ (Attached(v) # ("attached" \in b)))
      /\ UNCHANGED <<drvdata, bound, probing, devId, mmio, node, chip, leaked, crossed, raced>>
  BY DEF mark_inited, cards
<1>2. "store" \in Within
  BY DEF Within
<1>3. /\ file[f] \in Record /\ v \in Units /\ v \in Nat /\ Fits(file[f])
      /\ ~raced => /\ Told(file[f]) /\ ~torn
                   /\ c # Gone => /\ c \in bound /\ c \in Cards /\ v = drvdata[c] /\ Attached(v)
  BY <1>1, <1>2, InUse
<1>4. ~raced => /\ c \in bound /\ v = drvdata[c] /\ "attached" \in b /\ Attached(v)
                /\ (c \in Hyphy => chip[c] # "raw")
  BY <1>1, <1>2, <1>3 DEF Told
<1>5. torn => torn'
  BY <1>1
<1>6. torn' => raced
  <2>1. CASE torn
    BY <2>1 DEF SlotsAccounted
  <2>2. CASE ~torn
    <3>1. Attached(v) # ("attached" \in b) => ~(Attached(v) /\ "attached" \in b)
      OBVIOUS
    <3> QED
      BY <2>2, <3>1, <1>1, <1>4
  <2> QED
    BY <2>1, <2>2, <1>1
<1>7. r \in Record /\ r.at = "open" /\ r.card = c /\ r.unit = v /\ b \in Bits
  BY <1>3 DEF Record, Bits
<1> HIDE DEF r
<1>8. \A g \in Files : file'[g] = IF g = f THEN r ELSE file[g]
  BY <1>1 DEF Types
<1>9. \A w \in Units : flags'[w] = IF w = v THEN b \cup {"inited"} ELSE flags[w]
  BY <1>1 DEF Types
<1>10. ~torn' => \A w \in Units : Attached(w)' <=> Attached(w)
  <2> SUFFICES ASSUME ~torn', NEW w \in Units PROVE Attached(w)' <=> Attached(w)
    OBVIOUS
  <2>1. Attached(v) <=> "attached" \in b
    BY <1>1 DEF Attached
  <2> QED
    BY <2>1, <1>9 DEF Attached
<1>11. Types'
  <2>1. flags' \in [Units -> Bits]
    BY <1>1, <1>7 DEF Types, Bits
  <2>2. file' \in [Files -> Record]
    BY <1>1, <1>7 DEF Types
  <2> QED
    BY <2>1, <2>2, <1>1 DEF Types
<1>12. SlotsAccounted'
  <2>1. ~torn' => {w \in Units : Attached(w)'} = {w \in Units : Attached(w)}
    BY <1>10
  <2> QED
    BY <2>1, <1>1, <1>5, <1>6 DEF SlotsAccounted
<1>13. Probes' /\ Nodes'
  BY <1>1, <1>5, <1>10 DEF Probes, Nodes
<1>14. Uses'
  <2> SUFFICES ASSUME NEW g \in Files PROVE Fits(file[g])'
    BY DEF Uses
  <2>1. Fits(file[g])
    BY DEF Uses
  <2>2. Fits(r)
    BY <1>1, <1>3, <1>7 DEF Fits
  <2> QED
    BY <2>1, <2>2, <1>1, <1>5, <1>8 DEF Fits
<1>15. Marks'
  <2> SUFFICES ASSUME ~raced
               PROVE /\ Marked'
                     /\ \A g \in Files : Told(file[g])'
                     /\ \A g, h \in Files : g # h => Crosses(file[g], file[h])'
    BY <1>1 DEF Marks
  <2>1. ~torn /\ ~torn'
    BY <1>3, <1>6
  <2>2. Marked'
    <3>1. \A w \in Units : "inited" \in flags'[w] => Attached(w)'
      BY <2>1, <1>4, <1>9, <1>10 DEF Marks, Marked
    <3>2. ASSUME NEW d \in bound \cap Hyphy, "inited" \in flags'[drvdata[d]] PROVE chip[d] # "raw"
      <4>1. drvdata[d] \in Units /\ (drvdata[d] = v => d = c)
        BY <2>1, <1>4, BoundSlot
      <4> QED
        BY <3>2, <4>1, <1>4, <1>9 DEF Marks, Marked
    <3> QED
      BY <3>1, <3>2, <1>1 DEF Marked
  <2>3. \A g \in Files : Told(file[g])'
    <3> SUFFICES ASSUME NEW g \in Files PROVE Told(file[g])'
      OBVIOUS
    <3>1. CASE g = f
      <4>1. file'[f] = r /\ r.at \notin {"test", "store"} \cup Within
        BY <1>7, <1>8 DEF Within
      <4>2. "inited" \in flags'[v]
        BY <1>3, <1>9
      <4> QED
        BY <3>1, <4>1, <4>2, <1>1, <1>4, <1>7 DEF Told
    <3>2. CASE g # f
      <4>1. Told(file[g]) /\ file'[g] = file[g] /\ Crosses(file[g], file[f])
        BY <3>2, <1>8 DEF Marks
      <4>2. file[g].at = "open" /\ file[g].card # Gone => "inited" \in flags'[file[g].unit]
        <5> SUFFICES ASSUME file[g].at = "open", file[g].card # Gone
                     PROVE "inited" \in flags'[file[g].unit]
          OBVIOUS
        <5>1. file[g].unit \in Units
          BY InUse
        <5> QED
          BY <4>1, <5>1, <1>9 DEF Told
      <4>3. file[g].at \in Within /\ "inited" \in flags'[file[g].unit] => file[g].card \in crossed
        <5> SUFFICES ASSUME file[g].at \in Within, "inited" \in flags'[file[g].unit]
                     PROVE file[g].card \in crossed
          OBVIOUS
        <5>1. /\ file[g].unit \in Units
              /\ file[g].card \in bound /\ file[g].unit = drvdata[file[g].card]
          BY <4>1, InUse DEF Told
        <5>2. CASE file[g].unit = v
          <6>1. file[g].card = c
            BY <5>1, <5>2, <2>1, <1>4, BoundSlot
          <6> QED
            BY <6>1, <4>1, <1>1, <1>2 DEF Crosses
        <5>3. CASE file[g].unit # v
          BY <5>1, <5>3, <4>1, <1>9 DEF Told
        <5> QED
          BY <5>2, <5>3
      <4> QED
        BY <4>1, <4>2, <4>3, <1>1 DEF Told
    <3> QED
      BY <3>1, <3>2
  <2>4. \A g, h \in Files : g # h => Crosses(file[g], file[h])'
    <3> SUFFICES ASSUME NEW g \in Files, NEW h \in Files, g # h,
                        file'[g].at \in Within, file'[h].at \in Within, file'[g].card = file'[h].card
                 PROVE file'[g].card \in crossed'
      BY DEF Crosses
    <3>1. g # f /\ h # f
      BY <1>7, <1>8 DEF Within
    <3> QED
      BY <3>1, <1>1, <1>8 DEF Marks, Crosses
  <2> QED
    BY <2>2, <2>3, <2>4
<1> QED
  BY <1>11, <1>12, <1>13, <1>14, <1>15

LEMMA CloseInv == ASSUME NEW f \in Files, IInv, qnf_ioctl(f) \/ qnf_release(f) PROVE IInv'
<1>1. /\ file' = [file EXCEPT ![f] = Closed]
      /\ UNCHANGED <<drvdata, bound, probing, flags, devId, mmio, node, leaked, raced, torn, crossed, chip>>
  BY DEF qnf_ioctl, qnf_release, cards, slots, history
<1> QED
  BY <1>1, EndStep

LEMMA StepInv == IInv /\ [Next]_vars => IInv'
<1> SUFFICES ASSUME IInv, [Next]_vars PROVE IInv'
  OBVIOUS
<1>1. ASSUME NEW c \in Cards, qnf_init_one(c) \/ attach(c) \/ qnf_remove_one(c) PROVE IInv'
  BY <1>1, FindInv, AttachInv, RemoveInv
<1>2. ASSUME NEW f \in Files, \E u \in Units : qnf_open(f, u) PROVE IInv'
  BY <1>2, OpenInv
<1>3. ASSUME NEW f \in Files,
             \/ test_inited(f) \/ test_devId(f) \/ hyphy20g_init(f) \/ set_up(f)
             \/ read_flags(f) \/ mark_inited(f) \/ qnf_ioctl(f) \/ qnf_release(f)
      PROVE  IInv'
  BY <1>3, TestInv, WindowInv, MarkInv, CloseInv
<1> QED
  BY <1>1, <1>2, <1>3, StutterInv, LoadInv DEF Next

(* For any number of cards, slots, open files and failing calls: a card is *)
(* refused only when bound cards and failed probes fill the table, and the *)
(* unlocked updates of the flags cost or free a slot only when a card is   *)
(* removed in the middle of an open.                                       *)
THEOREM SlotsSafe == Spec => []SlotsAccounted
<1>1. IInv => SlotsAccounted
  BY DEF IInv
<1> QED
  BY <1>1, InitInv, StepInv, PTL DEF Spec

(* As long as the table is accounted for, an access through a file reaches *)
(* the card the file was opened for while that card is there; of a file    *)
(* whose card was removed it says nothing: it reaches the next card.       *)
THEOREM AccessesReach == Spec => []AccessesArrive
<1>1. IInv => AccessesArrive
  <2> SUFFICES ASSUME IInv, ~torn, NEW f \in Files, file[f].at = "open", mmio[file[f].unit] # NULL
               PROVE file[f].card \in {mmio[file[f].unit], Gone}
    BY DEF AccessesArrive
  <2>1. file[f].card = Gone \/ (file[f].card \in bound /\ file[f].unit = drvdata[file[f].card])
    BY DEF IInv, Uses, Fits
  <2> QED
    BY <2>1 DEF IInv, SlotsAccounted
<1> QED
  BY <1>1, InitInv, StepInv, PTL DEF Spec

(* While no card is removed in the middle of an open: an open on an MC20P  *)
(* card returns after a set-up of its chip has ended, well or not, and     *)
(* none is under way under an open file unless two opens found the slot    *)
(* unmarked at once.                                                       *)
THEOREM OpenedSetUp == Spec => []OpenedAfterSetUp
<1>1. IInv => OpenedAfterSetUp
  <2> SUFFICES ASSUME IInv, ~raced, NEW f \in Files, file[f].at = "open", file[f].card \in Hyphy
               PROVE /\ chip[file[f].card] # "raw"
                     /\ file[f].card \notin crossed =>
                          \A g \in Files : file[g].at = "setup" => file[g].card # file[f].card
    BY DEF OpenedAfterSetUp
  <2>1. file[f].card # Gone
    BY DriverAssumption
  <2>2. /\ chip[file[f].card] # "raw" /\ "inited" \in flags[file[f].unit]
        /\ file[f].unit = drvdata[file[f].card]
    BY <2>1, InUse DEF Told
  <2>3. ASSUME NEW g \in Files, file[g].at = "setup", file[g].card = file[f].card
        PROVE  file[f].card \in crossed
    <3>1. file[g].at \in Within
      BY <2>3 DEF Within
    <3>2. Told(file[g]) /\ file[g].unit = drvdata[file[f].card]
      BY <3>1, <2>1, <2>3, InUse
    <3> QED
      BY <3>1, <3>2, <2>2, <2>3 DEF Told
  <2> QED
    BY <2>2, <2>3
<1> QED
  BY <1>1, InitInv, StepInv, PTL DEF Spec

-----------------------------------------------------------------------------
(* The forward modes.                                                      *)
(* The walk of a cli, and how far it has come: what it has reached      *)
(* already has its new mode.                                               *)
Walks ==
  \A c \in Clis :
    /\ pc[c] = "idle" => cells[c] = {}
    /\ pc[c] \in {"db", "drv"} => left[c] \subseteq cells[c]
    /\ pc[c] = "db" => \A p \in cells[c] \ left[c] : db_get_forward_mode(table, p) = mode[c]
    /\ pc[c] = "drv" => /\ \A p \in cells[c] : db_get_forward_mode(table, p) = mode[c]
                        /\ Supported(mode[c]) =>
                             \A p \in cells[c] \ left[c] : tag[SetAddr(p)] = mode[c]
    /\ pc[c] \in {"resetdrv", "resetdb"} =>
         /\ cells[c] = {}
         /\ \A p \in Pairs : tag[SetAddr(p)] = FORWARD_DEF \/ (pc[c] = "resetdrv" /\ p \in left[c])
         /\ pc[c] = "resetdb" => \A p \in Pairs \ left[c] : table[p] = Absent

LEMMA DefaultIsDefault ==
  \A m \in Modes : IsDefault(m) => m = FORWARD_DEF
BY ForwardAssumption DEF Modes, IsDefault, Mode, FORWARD_DEF

LEMMA RuleNumbers == NoCli \notin Clis /\ MaxRule \in Nat \ {0}
BY ForwardAssumption

LEMMA NamedPairs == \A r1, r2 \in 0 .. MaxRule : Named(r1, r2) \subseteq Pairs
<1>1. \A r \in 0 .. MaxRule : Span(r) \subseteq Ids
  BY RuleNumbers DEF Span, Ids
<1> QED
  BY <1>1 DEF Named, Pairs

LEMMA DefaultMode == FORWARD_DEF \in Modes /\ FORWARD_DEF \in Tags
BY DEF Modes, Tags

LEMMA AddrOfPair == \A p \in Pairs : SetAddr(p) \in Addrs /\ ResetAddr(p) \in Addrs
BY DEF Addrs

(* A write leaves one of the modes of the device, and the one it was told  *)
(* to write when the board knows it.                                       *)
LEMMA Written ==
  \A m \in Modes, old \in Tags : \A new \in qnf_cam_lut_set(m, old) :
    new \in Tags /\ (Supported(m) => new = m)
BY DefaultMode DEF qnf_cam_lut_set, Tags

LEMMA TypeStep == TypeOK /\ [FMNext]_FMvars => TypeOK'
<1> SUFFICES ASSUME TypeOK, [FMNext]_FMvars PROVE TypeOK'
  OBVIOUS
<1> USE ForwardAssumption, DefaultMode DEF TypeOK
<1>1. CASE UNCHANGED FMvars
  BY <1>1 DEF FMvars
<1>2. ASSUME NEW c \in Clis, cli_set_forward_mode(c) PROVE TypeOK'
  BY <1>2, NamedPairs DEF cli_set_forward_mode, Set
<1>3. ASSUME NEW c \in Clis, db_forward_mode(c) PROVE TypeOK'
  BY <1>3 DEF db_forward_mode, Reach, Update
<1>4. ASSUME NEW c \in Clis, Unlock(c) PROVE TypeOK'
  BY <1>4 DEF Unlock
<1>5. ASSUME NEW c \in Clis, drv_set_forward_mode(c) PROVE TypeOK'
  <2>1. PICK p \in Pairs, m \in Tags : drv_write(c, p, m)
    BY <1>5 DEF drv_set_forward_mode
  <2>2. tag' \in [Addrs -> Tags]
    BY <2>1, AddrOfPair DEF drv_write
  <2>3. left' \in [Clis -> SUBSET Pairs]
    BY <2>1 DEF drv_write, Reach
  <2> QED
    BY <1>5, <2>2, <2>3 DEF drv_set_forward_mode
<1>6. ASSUME NEW c \in Clis, Done(c) PROVE TypeOK'
  BY <1>6 DEF Done
<1>7. ASSUME NEW c \in Clis, Reset(c) PROVE TypeOK'
  BY <1>7 DEF Reset
<1>8. ASSUME NEW c \in Clis, drv_reset_forward_default_config(c) PROVE TypeOK'
  <2>1. PICK p \in Pairs : drv_reset(c, p)
    BY <1>8 DEF drv_reset_forward_default_config
  <2>2. tag' \in [Addrs -> Tags]
    BY <2>1, AddrOfPair DEF drv_reset
  <2>3. left' \in [Clis -> SUBSET Pairs]
    BY <2>1 DEF drv_reset, Reach
  <2> QED
    BY <1>8, <2>2, <2>3 DEF drv_reset_forward_default_config
<1>9. ASSUME NEW c \in Clis, ResetDb(c) PROVE TypeOK'
  BY <1>9 DEF ResetDb
<1>10. ASSUME NEW c \in Clis, db_reset_forward_default_conf(c) PROVE TypeOK'
  BY <1>10 DEF db_reset_forward_default_conf, Reach
<1>11. ASSUME NEW c \in Clis, ResetDone(c) PROVE TypeOK'
  BY <1>11 DEF ResetDone
<1> QED
  BY <1>1, <1>2, <1>3, <1>4, <1>5, <1>6, <1>7, <1>8, <1>9, <1>10, <1>11 DEF FMNext

(* Mutual exclusion, and no default in the database.                       *)
LEMMA TableStep ==
  TypeOK /\ OneWalk /\ NoDefaultStored /\ [FMNext]_FMvars => (OneWalk /\ NoDefaultStored)'
<1> SUFFICES ASSUME TypeOK, OneWalk, NoDefaultStored, [FMNext]_FMvars
             PROVE (OneWalk /\ NoDefaultStored)'
  OBVIOUS
<1> USE RuleNumbers DEF TypeOK, OneWalk, NoDefaultStored
<1>1. CASE UNCHANGED FMvars
  BY <1>1 DEF FMvars
<1>2. ASSUME NEW c \in Clis, cli_set_forward_mode(c) \/ Reset(c) PROVE (OneWalk /\ NoDefaultStored)'
  BY <1>2 DEF cli_set_forward_mode, Set, Reset
<1>3. ASSUME NEW c \in Clis, db_forward_mode(c) PROVE (OneWalk /\ NoDefaultStored)'
  BY <1>3 DEF db_forward_mode, Update
<1>4. ASSUME NEW c \in Clis, Unlock(c) \/ ResetDone(c) PROVE (OneWalk /\ NoDefaultStored)'
  BY <1>4 DEF Unlock, ResetDone
<1>5. ASSUME NEW c \in Clis,
             drv_set_forward_mode(c) \/ Done(c) \/ drv_reset_forward_default_config(c) \/ ResetDb(c)
      PROVE (OneWalk /\ NoDefaultStored)'
  BY <1>5 DEF drv_set_forward_mode, Done, drv_reset_forward_default_config, ResetDb
<1>6. ASSUME NEW c \in Clis, db_reset_forward_default_conf(c) PROVE (OneWalk /\ NoDefaultStored)'
  BY <1>6 DEF db_reset_forward_default_conf
<1> QED
  BY <1>1, <1>2, <1>3, <1>4, <1>5, <1>6 DEF FMNext

(* The types are as declared, the walks over the database exclude each     *)
(* other, and the database holds no default: for any number of clis.       *)
THEOREM Safe == FMSpec => [](TypeOK /\ OneWalk /\ NoDefaultStored)
<1>1. FMInit => TypeOK /\ OneWalk /\ NoDefaultStored
  BY RuleNumbers, DefaultMode DEF FMInit, TypeOK, OneWalk, NoDefaultStored
<1> QED
  BY <1>1, TypeStep, TableStep, PTL DEF FMSpec

-----------------------------------------------------------------------------
(* What a mode prints is read back as the same mode.                       *)
LEMMA PrintedParsed ==
  \A m \in Modes : Parsed(Printed(m)) = m /\ (Printed(m).to = "default" <=> IsDefault(m))
<1> SUFFICES ASSUME NEW m \in Modes
             PROVE Parsed(Printed(m)) = m /\ (Printed(m).to = "default" <=> IsDefault(m))
  OBVIOUS
<1> USE DEF Parsed, Printed, Mode, IsDefault, isdrop, isvlan, issample, FORWARD_DEF
<1>1. m = FORWARD_DEF \/ m = Mode(2, 0) \/ m = Mode(4, 0)
        \/ (\E v \in Vlans : m = Mode(1, v)) \/ (\E v \in Vlans : m = Mode(3, v))
  BY DEF Modes
<1>2. CASE m = FORWARD_DEF
  BY <1>2
<1>3. CASE m = Mode(2, 0)
  BY <1>3
<1>4. CASE m = Mode(4, 0)
  BY <1>4
<1>5. CASE \E v \in Vlans : m = Mode(1, v)
  BY <1>5
<1>6. CASE \E v \in Vlans : m = Mode(3, v)
  BY <1>6
<1> QED
  BY <1>1, <1>2, <1>3, <1>4, <1>5, <1>6

(* A line of a saved file that names a pair gives it the mode the database *)
(* has for it, and there is such a line unless the mode is the default.    *)
LEMMA SavedLines ==
  ASSUME NEW t \in [Pairs -> Modes \cup {Absent}], NEW p \in Pairs
  PROVE  /\ \A l \in save_forward_config(t) :
              Covers(l, p) => l.op = Printed(db_get_forward_mode(t, p))
         /\ (\E l \in save_forward_config(t) : Covers(l, p))
              <=> Printed(db_get_forward_mode(t, p)).to # "default"
<1> DEFINE m(q) == db_get_forward_mode(t, q)
<1>1. PICK i \in Ids, j \in Ids : p = <<i, j>>
  BY DEF Pairs
<1>2. ASSUME NEW k \in Ids, NEW l \in save_row(t, k), Covers(l, p)
      PROVE  l.op = Printed(m(p))
  <2>1. CASE \A x \in Ids : m(<<k, x>>) = m(<<k, 0>>)
    <3>1. l = Line(k, MaxRule, m(<<k, 0>>))
      BY <1>2, <2>1 DEF save_row
    <3>2. k = i
      BY <1>1, <1>2, <3>1, RuleNumbers DEF Covers, Named, Span, Line, Ids
    <3> QED
      BY <3>1, <3>2, <2>1, <1>1 DEF Line
  <2>2. CASE ~ \A x \in Ids : m(<<k, x>>) = m(<<k, 0>>)
    <3>1. PICK x \in Ids : l = Line(k, x, m(<<k, x>>))
      BY <1>2, <2>2 DEF save_row
    <3>2. k = i /\ x = j
      BY <1>1, <1>2, <3>1, RuleNumbers DEF Covers, Named, Span, Line, Ids
    <3> QED
      BY <3>1, <3>2, <1>1 DEF Line
  <2> QED
    BY <2>1, <2>2
<1>3. \E l \in save_row(t, i) : Covers(l, p) /\ l.op = Printed(m(p))
  <2>1. CASE \A x \in Ids : m(<<i, x>>) = m(<<i, 0>>)
    <3>1. Line(i, MaxRule, m(<<i, 0>>)) \in save_row(t, i)
      BY <2>1 DEF save_row
    <3>2. Covers(Line(i, MaxRule, m(<<i, 0>>)), p)
      BY <1>1, RuleNumbers DEF Covers, Named, Span, Line, Ids
    <3> QED
      BY <3>1, <3>2, <2>1, <1>1 DEF Line
  <2>2. CASE ~ \A x \in Ids : m(<<i, x>>) = m(<<i, 0>>)
    <3>1. Line(i, j, m(p)) \in save_row(t, i)
      BY <2>2, <1>1 DEF save_row
    <3>2. Covers(Line(i, j, m(p)), p)
      BY <1>1, RuleNumbers DEF Covers, Named, Span, Line, Ids
    <3> QED
      BY <3>1, <3>2 DEF Line
  <2> QED
    BY <2>1, <2>2
<1> QED
  BY <1>2, <1>3 DEF save_forward_config

(* Nothing is lost in a saved file, for every table the program reaches.   *)
LEMMA RoundTrip ==
  ASSUME NEW t \in [Pairs -> Modes \cup {Absent}],
         \A p \in Pairs : t[p] # Absent => ~IsDefault(t[p])
  PROVE  Restored(save_forward_config(t)) = t
<1> SUFFICES ASSUME NEW p \in Pairs PROVE Restored(save_forward_config(t))[p] = t[p]
  BY DEF Restored
<1> DEFINE lines == save_forward_config(t)
           m == db_get_forward_mode(t, p)
<1>1. m \in Modes /\ (t[p] = Absent <=> IsDefault(m)) /\ (t[p] # Absent => t[p] = m)
  BY DefaultMode, AbsentAssumption DEF db_get_forward_mode, IsDefault, FORWARD_DEF, Mode
<1>2. CASE t[p] = Absent
  <2>1. ~ \E l \in lines : Covers(l, p)
    BY <1>1, <1>2, SavedLines, PrintedParsed
  <2> QED
    BY <2>1, <1>2 DEF Restored
<1>3. CASE t[p] # Absent
  <2>1. \E l \in lines : Covers(l, p)
    BY <1>1, <1>3, SavedLines, PrintedParsed
  <2>2. (CHOOSE l \in lines : Covers(l, p)).op = Printed(m)
    BY <2>1, SavedLines
  <2>3. Parsed((CHOOSE l \in lines : Covers(l, p)).op) = m
    BY <2>2, <1>1, PrintedParsed
  <2> QED
    BY <2>1, <2>3, <1>1, <1>3 DEF Restored
<1> QED
  BY <1>2, <1>3

(* Whenever the lock is free, a save and a restore of its file leave the   *)
(* forward modes as they are.                                              *)
THEOREM SavesRestore == FMSpec => []SaveRestores
<1>1. TypeOK /\ NoDefaultStored => SaveRestores
  BY RoundTrip DEF TypeOK, NoDefaultStored, SaveRestores
<1> QED
  BY <1>1, Safe, PTL

-----------------------------------------------------------------------------
LEMMA GotMode ==
  ASSUME NEW t \in [Pairs -> Modes \cup {Absent}], NEW p \in Pairs, NEW q \in Pairs, NEW m \in Modes
  PROVE  db_get_forward_mode(Update(t, p, m), q) = IF q = p THEN m ELSE db_get_forward_mode(t, q)
BY DefaultIsDefault, AbsentAssumption DEF db_get_forward_mode, Update

(* The pairs have an address each, the one the reset uses, too.            *)
Separate ==
  \A p, q \in Pairs : (SetAddr(p) = SetAddr(q) => p = q) /\ ResetAddr(p) = SetAddr(p)

(* On MC20E_PPOE, whose rule numbers have five bits, they have.            *)
LEMMA FiveBits ==
  ASSUME Board = "MC20E", MaxRule <= Row \div 2
  PROVE  Separate
<1> USE ForwardAssumption
<1>1. Half \in Nat /\ MaxRule <= Half
  BY DEF Half
<1>2. ASSUME NEW i \in Ids, NEW j \in Ids PROVE Or(i, j) = i * Half + j
  <2>1. j \in 0 .. Half - 1
    BY <1>1 DEF Ids
  <2>2. j % Half = j
    <3> HIDE DEF Half
    <3> QED
      BY <1>1, <2>1
  <2> QED
    BY <2>2 DEF Or
<1>3. ASSUME NEW i \in Ids, NEW j \in Ids, NEW k \in Ids, NEW l \in Ids,
             i * Half + j = k * Half + l
      PROVE  i = k /\ j = l
  <2>1. ASSUME NEW a \in Nat, NEW b \in Nat, NEW x \in 0 .. Half - 1, NEW y \in 0 .. Half - 1, a < b
        PROVE  a * Half + x < b * Half + y
    <3>1. (b - a) * Half >= Half
      BY <2>1, <1>1
    <3>2. b * Half = a * Half + (b - a) * Half
      BY <2>1, <1>1
    <3> HIDE DEF Half
    <3> QED
      BY <2>1, <1>1, <3>1, <3>2
  <2>2. ~(i < k) /\ ~(k < i)
    BY <1>1, <1>3, <2>1 DEF Ids
  <2> QED
    BY <1>1, <1>3, <2>2 DEF Ids
<1> QED
  BY <1>2, <1>3 DEF Separate, SetAddr, ResetAddr, Pairs

(* With one cli nothing moves the tables but its own walk.                 *)
LEMMA WalkStep ==
  ASSUME \A c, d \in Clis : c = d, Separate, TypeOK, Walks, TagMatches, [FMNext]_FMvars
  PROVE  (Walks /\ TagMatches)'
<1> USE ForwardAssumption, DefaultMode, AddrOfPair DEF TypeOK
<1> DEFINE Goal == (Walks /\ TagMatches)'
<1>1. CASE UNCHANGED FMvars
  BY <1>1 DEF FMvars, Walks, TagMatches, Busy, db_get_forward_mode
<1>2. ASSUME NEW c \in Clis, cli_set_forward_mode(c) PROVE Goal
  BY <1>2, NamedPairs DEF cli_set_forward_mode, Set, Walks, TagMatches, Busy, db_get_forward_mode
<1>3. ASSUME NEW c \in Clis, db_forward_mode(c) PROVE Goal
  <2>1. PICK p \in Pairs : Reach(c, p) /\ table' = Update(table, p, mode[c])
    BY <1>3 DEF db_forward_mode
  <2>2. \A q \in Pairs : db_get_forward_mode(table', q)
                           = IF q = p THEN mode[c] ELSE db_get_forward_mode(table, q)
    BY <2>1, GotMode
  <2>3. Walks'
    BY <1>3, <2>1, <2>2 DEF db_forward_mode, Reach, Walks, db_get_forward_mode
  <2>4. TagMatches'
    BY <1>3, <2>1, <2>2 DEF db_forward_mode, Reach, Walks, TagMatches, Busy
  <2> QED
    BY <2>3, <2>4
<1>4. ASSUME NEW c \in Clis, Unlock(c) PROVE Goal
  BY <1>4 DEF Unlock, Walks, TagMatches, Busy, db_get_forward_mode
<1>5. ASSUME NEW c \in Clis, drv_set_forward_mode(c) PROVE Goal
  <2>1. PICK p \in Pairs, m \in Tags : drv_write(c, p, m)
    BY <1>5 DEF drv_set_forward_mode
  <2>2. m \in qnf_cam_lut_set(mode[c], tag[SetAddr(p)]) /\ tag' = [tag EXCEPT ![SetAddr(p)] = m]
    BY <2>1 DEF drv_write
  <2>3. Supported(mode[c]) => m = mode[c]
    BY <2>2, Written
  <2>4. \A q \in Pairs : tag'[SetAddr(q)] = IF q = p THEN m ELSE tag[SetAddr(q)]
    BY <2>2 DEF Separate
  <2>5. Walks'
    BY <1>5, <2>1, <2>3, <2>4 DEF drv_set_forward_mode, drv_write, Reach, Walks, db_get_forward_mode
  <2>6. TagMatches'
    BY <1>5, <2>1, <2>3, <2>4 DEF drv_set_forward_mode, drv_write, Reach, Walks, TagMatches, Busy, db_get_forward_mode
  <2> QED
    BY <2>5, <2>6
<1>6. ASSUME NEW c \in Clis, Done(c) PROVE Goal
  BY <1>6 DEF Done, Walks, TagMatches, Busy, db_get_forward_mode
<1>7. ASSUME NEW c \in Clis, Reset(c) PROVE Goal
  BY <1>7 DEF Reset, Walks, TagMatches, Busy, db_get_forward_mode
<1>8. ASSUME NEW c \in Clis, drv_reset_forward_default_config(c) PROVE Goal
  <2>1. PICK p \in Pairs : drv_reset(c, p)
    BY <1>8 DEF drv_reset_forward_default_config
  <2>2. \A q \in Pairs : tag'[SetAddr(q)] = IF q = p THEN FORWARD_DEF ELSE tag[SetAddr(q)]
    BY <2>1 DEF Separate, drv_reset
  <2> QED
    BY <1>8, <2>1, <2>2 DEF drv_reset_forward_default_config, drv_reset, Reach, Walks, TagMatches, Busy, db_get_forward_mode
<1>9. ASSUME NEW c \in Clis, ResetDb(c) PROVE Goal
  BY <1>9 DEF ResetDb, Walks, TagMatches, Busy, db_get_forward_mode
<1>10. ASSUME NEW c \in Clis, db_reset_forward_default_conf(c) PROVE Goal
  BY <1>10 DEF db_reset_forward_default_conf, Reach, Walks, TagMatches, Busy, db_get_forward_mode
<1>11. ASSUME NEW c \in Clis, ResetDone(c) PROVE Goal
  BY <1>11 DEF ResetDone, Walks, TagMatches, Busy, db_get_forward_mode
<1> QED
  BY <1>1, <1>2, <1>3, <1>4, <1>5, <1>6, <1>7, <1>8, <1>9, <1>10, <1>11 DEF FMNext

(* With a single cli on MC20E_PPOE, the device does to a pair what the     *)
(* database says of it, as soon as the command that changes the pair is    *)
(* through.                                                                *)
THEOREM DeviceFollows ==
  ASSUME \A c, d \in Clis : c = d, Board = "MC20E", MaxRule <= Row \div 2
  PROVE  FMSpec => []TagMatches
<1>1. FMInit => Walks /\ TagMatches
  BY ForwardAssumption, AddrOfPair DEF FMInit, Walks, TagMatches, Busy, db_get_forward_mode
<1>2. TypeOK /\ Walks /\ TagMatches /\ [FMNext]_FMvars => (Walks /\ TagMatches)'
  BY WalkStep, FiveBits
<1>3. FMSpec => []TypeOK
  BY Safe, PTL
<1> QED
  BY <1>1, <1>2, <1>3, PTL DEF FMSpec
=============================================================================
