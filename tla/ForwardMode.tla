---------------------------- MODULE ForwardMode ----------------------------
(***************************************************************************)
(* The forward modes of one framer: what happens to a packet that matches  *)
(* rule i of rule set 1 and rule j of rule set 2.  The database holds a    *)
(* key Forward.Mode.<oc>.<i>.<j> for every pair whose mode is not the      *)
(* default, the FPGA a table of all pairs.  Sources: cli/parserops.c       *)
(* (cli_set_forward_mode, save_forward_config), cli/database.c,            *)
(* cli/drvops.c, cli/lib/qnfapi.c and the forward commands of              *)
(* cli/parser.y.                                                           *)
(*                                                                         *)
(* A command that names "all" rules walks over its pairs, one database     *)
(* call a pair under the lock, and then, after the unlock, one write to    *)
(* the device a pair.  The order of a walk is left open.  The lock is the  *)
(* one of module RuleConfig.                                               *)
(***************************************************************************)
EXTENDS Integers, FiniteSets

CONSTANTS
  Clis,      \* cli processes
  NoCli,     \* nobody holds the database lock
  Absent,    \* a key that the database does not hold
  Board,     \* "MC10P_FLOW" or "MC20E" (and its variant MC20E_PPOE)
  MaxRule,   \* MAX_RULE_NO, which as a rule number also means "all"
  Row,       \* 64, the entries of a row in the addresses the cli makes
  Kinds,     \* the operations the operators use, beside the default
  Vlans      \* the vlans of "to vlan"; 0 when there is none

ASSUME ForwardAssumption ==
  /\ NoCli \notin Clis
  /\ Board \in {"MC10P_FLOW", "MC20E"}
  /\ MaxRule \in Nat \ {0}
  /\ Row \in Nat /\ Row % 2 = 0 /\ MaxRule <= Row
  /\ Kinds \subseteq 1 .. 4
  /\ Vlans \subseteq 0 .. 4095

VARIABLES
  owner,     \* the cli that holds the database lock
  pc,        \* pc[c]: idle, or the walk that c is on
  mode,      \* mode[c]: the mode that c is setting
  cells,     \* cells[c]: the pairs of rules that the command of c names
  left,      \* left[c]: those of them the walk has yet to reach
  table,     \* the database: table[p] is the mode of the pair p, or Absent
  tag        \* the device: tag[a] is the mode at address a
FMvars == <<owner, pc, mode, cells, left, table, tag>>

Ids == 0 .. MaxRule - 1
Pairs == Ids \X Ids

(* A stored mode: four bits of operation and twelve of vlan.  The parser   *)
(* makes the default and four kinds more: 1 "to vlan", 2 "sample", 3 "to   *)
(* vlan sample", 4 "drop".                                                 *)
Mode(op, vlan) == [op |-> op, vlan |-> vlan]
FORWARD_DEF == Mode(0, 0)
Modes ==
  {FORWARD_DEF} \cup {Mode(k, 0) : k \in Kinds \cap {2, 4}}
    \cup {Mode(k, v) : k \in Kinds \cap {1, 3}, v \in Vlans}
IsDefault(m) == m.op = 0
ASSUME AbsentAssumption == Absent \notin Modes

(* The address of a pair in the device.  Or(i, j) is (i << 5) | j for two  *)
(* numbers of six bits.  A set makes an address of twelve bits, which is   *)
(* what MC10P_FLOW gets; qnf_cam_lut_set, on MC20E, puts the two numbers   *)
(* five bits apart.  So does the reset, on MC10P_FLOW in ten bits.         *)
Half == Row \div 2
Or(i, j) == i * Half + (IF i % 2 = 1 THEN j % Half ELSE j)
SetAddr(p) == IF Board = "MC10P_FLOW" THEN p[1] * Row + p[2] ELSE Or(p[1], p[2])
ResetAddr(p) ==
  IF Board = "MC10P_FLOW" THEN Or(p[1], p[2]) % ((Row * Row) \div 4) ELSE Or(p[1], p[2])
Addrs == {SetAddr(p) : p \in Pairs} \cup {ResetAddr(p) : p \in Pairs}

(* What a write of mode m makes of the entry "old".  MC20E knows the       *)
(* default and "drop"; for the others the command it is given is not       *)
(* initialised, and is one of these two or one that is refused.            *)
DROP == Mode(4, 0)
Supported(m) == Board = "MC10P_FLOW" \/ m \in {FORWARD_DEF, DROP}
Tags == Modes \cup {DROP}
qnf_cam_lut_set(m, old) == IF Supported(m) THEN {m} ELSE {FORWARD_DEF, DROP, old}

Span(r) == IF r = MaxRule THEN Ids ELSE {r}
Named(r1, r2) == Span(r1) \X Span(r2)

(* What the getters, the save and the show of a pair go by.                *)
db_get_forward_mode(t, p) == IF t[p] = Absent THEN FORWARD_DEF ELSE t[p]

-----------------------------------------------------------------------------
(* The saved configuration: the lines of save_forward_config, a line being *)
(* the rule numbers and the operation it prints.                           *)
isvlan(m) == m.op % 2 = 1
issample(m) == (m.op \div 2) % 2 = 1
isdrop(m) == (m.op \div 4) % 2 = 1
Printed(m) ==
  IF isdrop(m) THEN [to |-> "drop", vlan |-> 0]
  ELSE IF isvlan(m) THEN [to |-> IF issample(m) THEN "vlan sample" ELSE "vlan", vlan |-> m.vlan]
  ELSE IF issample(m) THEN [to |-> "sample", vlan |-> 0]
  ELSE [to |-> "default", vlan |-> 0]
Line(i, j, m) == [r1 |-> i, r2 |-> j, op |-> Printed(m)]

(* A row whose pairs all have the same mode is one line for "all".         *)
save_row_first(t, i) ==
  LET m(j) == db_get_forward_mode(t, <<i, j>>)
  IN  IF \A j \in Ids : IsDefault(m(j)) = IsDefault(m(0))
      THEN {Line(i, MaxRule, m(0))}
      ELSE {Line(i, j, m(j)) : j \in Ids}
save_row(t, i) ==
  LET m(j) == db_get_forward_mode(t, <<i, j>>)
  IN  IF \A j \in Ids : m(j) = m(0)
      THEN {Line(i, MaxRule, m(0))}
      ELSE {Line(i, j, m(j)) : j \in Ids}
(* A default mode prints nothing.                                          *)
save_forward_config(t) == {l \in UNION {save_row(t, i) : i \in Ids} : l.op.to # "default"}

(* The commands of the parser for such a line, each on its own.            *)
Parsed(op) ==
  CASE op.to = "drop" -> Mode(4, 0)
    [] op.to = "vlan" -> Mode(1, op.vlan)
    [] op.to = "vlan sample" -> Mode(3, op.vlan)
    [] op.to = "sample" -> Mode(2, 0)
    [] OTHER -> FORWARD_DEF

(* The table that a mode set for a pair leaves: cases 0 to 3 of the code.  *)
Update_keeps(t, p, m) == [t EXCEPT ![p] = m]
Update(t, p, m) == [t EXCEPT ![p] = IF IsDefault(m) THEN Absent ELSE m]

(* The table that a reset and the lines of the file leave.  No two lines   *)
(* of a saved file name the same pair, so their order does not matter.     *)
Covers(l, p) == p \in Named(l.r1, l.r2)
Restored(lines) ==
  [p \in Pairs |->
     IF \E l \in lines : Covers(l, p)
     THEN Parsed((CHOOSE l \in lines : Covers(l, p)).op)
     ELSE Absent]

-----------------------------------------------------------------------------
(* cli_set_forward_mode takes the lock and walks over the database.        *)
Set(c, r1, r2, m) ==
  /\ pc[c] = "idle" /\ owner = NoCli
  /\ owner' = c
  /\ pc' = [pc EXCEPT ![c] = "db"]
  /\ mode' = [mode EXCEPT ![c] = m]
  /\ cells' = [cells EXCEPT ![c] = Named(r1, r2)]
  /\ left' = [left EXCEPT ![c] = Named(r1, r2)]
  /\ UNCHANGED <<table, tag>>

Reach(c, p) == p \in left[c] /\ left' = [left EXCEPT ![c] = @ \ {p}]

db_forward_mode(c) ==
  /\ pc[c] = "db"
  /\ \E p \in Pairs : Reach(c, p) /\ table' = Update(table, p, mode[c])
  /\ UNCHANGED <<owner, pc, mode, cells, tag>>

(* The unlock, before the walk over the device.                            *)
Unlock_ends(c) ==
  /\ pc[c] = "db" /\ left[c] = {}
  /\ owner' = NoCli
  /\ pc' = [pc EXCEPT ![c] = "drv"]
  /\ UNCHANGED <<mode, cells, left, table, tag>>
Unlock(c) ==
  /\ pc[c] = "db" /\ left[c] = {}
  /\ owner' = NoCli
  /\ pc' = [pc EXCEPT ![c] = "drv"]
  /\ left' = [left EXCEPT ![c] = cells[c]]
  /\ UNCHANGED <<mode, cells, table, tag>>

drv_write(c, p, m) ==
  /\ Reach(c, p)
  /\ m \in qnf_cam_lut_set(mode[c], tag[SetAddr(p)])
  /\ tag' = [tag EXCEPT ![SetAddr(p)] = m]
drv_set_forward_mode(c) ==
  /\ pc[c] = "drv"
  /\ \E p \in Pairs, m \in Tags : drv_write(c, p, m)
  /\ UNCHANGED <<owner, pc, mode, cells, table>>
Done(c) ==
  /\ pc[c] = "drv" /\ left[c] = {}
  /\ pc' = [pc EXCEPT ![c] = "idle"]
  /\ mode' = [mode EXCEPT ![c] = FORWARD_DEF]
  /\ cells' = [cells EXCEPT ![c] = {}]
  /\ UNCHANGED <<owner, left, table, tag>>

(* cli_reset_default_config, whole under the lock: the device first.       *)
Reset(c) ==
  /\ pc[c] = "idle" /\ owner = NoCli
  /\ owner' = c
  /\ pc' = [pc EXCEPT ![c] = "resetdrv"]
  /\ left' = [left EXCEPT ![c] = Pairs]
  /\ UNCHANGED <<mode, cells, table, tag>>
drv_reset(c, p) == Reach(c, p) /\ tag' = [tag EXCEPT ![ResetAddr(p)] = FORWARD_DEF]
drv_reset_forward_default_config(c) ==
  /\ pc[c] = "resetdrv"
  /\ \E p \in Pairs : drv_reset(c, p)
  /\ UNCHANGED <<owner, pc, mode, cells, table>>
ResetDb(c) ==
  /\ pc[c] = "resetdrv" /\ left[c] = {}
  /\ pc' = [pc EXCEPT ![c] = "resetdb"]
  /\ left' = [left EXCEPT ![c] = Pairs]
  /\ UNCHANGED <<owner, mode, cells, table, tag>>
db_reset_forward_default_conf(c) ==
  /\ pc[c] = "resetdb"
  /\ \E p \in Pairs : Reach(c, p) /\ table' = [table EXCEPT ![p] = Absent]
  /\ UNCHANGED <<owner, pc, mode, cells, tag>>
ResetDone(c) ==
  /\ pc[c] = "resetdb" /\ left[c] = {}
  /\ owner' = NoCli
  /\ pc' = [pc EXCEPT ![c] = "idle"]
  /\ UNCHANGED <<mode, cells, left, table, tag>>

FMInit ==
  /\ owner = NoCli
  /\ pc = [c \in Clis |-> "idle"]
  /\ mode = [c \in Clis |-> FORWARD_DEF]
  /\ cells = [c \in Clis |-> {}]
  /\ left = [c \in Clis |-> {}]
  /\ table = [p \in Pairs |-> Absent]
  /\ tag = [a \in Addrs |-> FORWARD_DEF]

cli_set_forward_mode(c) == \E r1, r2 \in 0 .. MaxRule, m \in Modes : Set(c, r1, r2, m)
FMNext ==
  \E c \in Clis :
    \/ cli_set_forward_mode(c) \/ db_forward_mode(c) \/ Unlock(c)
    \/ drv_set_forward_mode(c) \/ Done(c)
    \/ Reset(c) \/ drv_reset_forward_default_config(c) \/ ResetDb(c)
    \/ db_reset_forward_default_conf(c) \/ ResetDone(c)
FMSpec == FMInit /\ [][FMNext]_FMvars

-----------------------------------------------------------------------------
(* Every variable has values of its kind.                                  *)
TypeOK ==
  /\ owner \in Clis \cup {NoCli}
  /\ pc \in [Clis -> {"idle", "db", "drv", "resetdrv", "resetdb"}]
  /\ mode \in [Clis -> Modes]
  /\ cells \in [Clis -> SUBSET Pairs]
  /\ left \in [Clis -> SUBSET Pairs]
  /\ table \in [Pairs -> Modes \cup {Absent}]
  /\ tag \in [Addrs -> Tags]

(* The walks over the database are under the lock, one cli at a time.      *)
OneWalk == \A c \in Clis : pc[c] \in {"db", "resetdrv", "resetdb"} <=> owner = c

(* "new(default): delete", "unchange": the database never holds a key for  *)
(* a pair whose mode is the default.                                       *)
NoDefaultStored == \A p \in Pairs : table[p] # Absent => ~IsDefault(table[p])

(* A saved configuration loses nothing: whenever the database lock is      *)
(* free, a save and a restore of its file leave the table as it is.        *)
SaveRestores == owner = NoCli => Restored(save_forward_config(table)) = table

(* With one cli, what the device does to a pair is what the database says  *)
(* of it, once the command that changes it is through - if it is a mode    *)
(* that the board knows.                                                   *)
Busy(p) == \E c \in Clis : pc[c] # "idle" /\ (p \in cells[c] \/ pc[c] \in {"resetdrv", "resetdb"})
TagMatches ==
  \A p \in Pairs :
    LET m == db_get_forward_mode(table, p)
    IN  Busy(p) \/ ~Supported(m) \/ tag[SetAddr(p)] = m
=============================================================================
