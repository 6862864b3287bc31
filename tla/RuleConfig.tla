----------------------------- MODULE RuleConfig -----------------------------
(***************************************************************************)
(* The classification rules of one framer ("oc"), as the cli processes     *)
(* keep them: in the database of db_server, where every rule is a Flag key *)
(* and one key per field the flag names, with a count of rules beside      *)
(* them, and in the CAM of the FPGA, written through registers that all    *)
(* processes share.  Sources: cli/parserops.c, cli/database.c,             *)
(* cli/drvops.c, cli/cli.c and the rule commands of cli/parser.y.          *)
(*                                                                         *)
(* A cli runs one command at a time.  todo[c] is what is left of it: the   *)
(* database calls, register writes, locks and unlocks still to be made, in *)
(* the order of the code.  A step that reads the database replaces itself  *)
(* by the steps its branch of the code makes.  Reads and the branch on     *)
(* them are one step, since the database lock is held; every write is a    *)
(* step of its own, because a signal, a failing write or the register      *)
(* writes of another process may come between any two.                     *)
(*                                                                         *)
(* db_server is seen here through its promise, which module DbServer is    *)
(* about: one owner of the lock, and data commands that are atomic.        *)
(***************************************************************************)
EXTENDS Integers, FiniteSets, SequencesExt

CONSTANTS
  Clis,       \* cli processes
  NoCli,      \* nobody holds the database lock
  Absent,     \* a key that the database does not hold
  Sets,       \* the rule sets in use, out of {1, 2}
  MaxRule,    \* MAX_RULE_NO
  RuleIds,    \* the rule indices the operators use
  Rules,      \* Rules[s]: the rules the operators set in rule set s
  CamSelect,  \* 0x20, the CAM address bit that selects rule set 2
  Board,      \* "MC10P_FLOW", "MC20E", or "none": there is no /dev/qnf<oc>
  Ops,        \* the commands the operators give
  Word,       \* 2^32, the width of db_lock and of a stored count
  FaultKinds, \* the faults that happen: "signal", "memory", "settings", "cam"
  MaxFaults   \* bound on signals, failing database calls and CAM time-outs

(* The fields of a rule, in the order in which they are stored: two stand  *)
(* for the six of rule set 1 (protocol, addresses, ports, length range).   *)
FieldSeq == [s \in {1, 2} |-> IF s = 1 THEN <<"protocol", "srcip">> ELSE <<"offset", "key">>]
Fields(s) == {FieldSeq[s][i] : i \in 1 .. 2}

ASSUME RuleAssumption ==
  /\ NoCli \notin Clis
  /\ Sets \subseteq {1, 2} /\ Sets # {}
  /\ MaxRule \in Nat \ {0}
  /\ RuleIds \subseteq 0 .. MaxRule - 1
  /\ CamSelect \in Nat \ {0}
  /\ MaxRule <= 2 * CamSelect
  /\ Word \in Nat /\ Word > MaxRule + 1
  /\ FaultKinds \subseteq {"signal", "memory", "settings", "cam"} /\ MaxFaults \in Nat
  /\ Board \in {"MC10P_FLOW", "MC20E", "none"}
  /\ \A s \in Sets : \A r \in Rules[s] :
       /\ r = [f \in DOMAIN r |-> r[f]]
       /\ DOMAIN r \subseteq Fields(s) /\ \A f \in DOMAIN r : r[f] # Absent
  /\ \A s \in Sets : \A F \in SUBSET Fields(s) : F # Absent
  /\ \A n \in 0 .. Word - 1 : n # Absent

VARIABLES
  owner,      \* the cli that holds the database lock
  db_lock,    \* db_lock[c]: the nesting count of cli_db_lock, unsigned
  up,         \* up[c]: off, starting (signals not captured yet) or on
  todo,       \* todo[c]: what is left of the command of c
  inited,     \* the key DB.Init
  num,        \* num[s]: the key Filter<s>.<oc>.No
  flag,       \* flag[s][id]: the key Filter<s>.<oc>.<id>.Flag
  field,      \* field[s][id][f]: the key of field f of rule id
  regs,       \* the CAM data and mask registers, in two halves
  cam,        \* cam[a]: the CAM entry at address a
  faults      \* faults so far
vars == <<owner, db_lock, up, todo, inited, num, flag, field, regs, cam, faults>>
dbvars == <<inited, num, flag, field>>
hwvars == <<regs, cam>>

(* A rule names the fields that must match: the empty one is "any".        *)
AnyRule == [f \in {} |-> 0]
(* All options set and all values zero: "no packet should match this".     *)
Nothing == [f \in {"every"} |-> 0]
Ids == 0 .. MaxRule - 1

Exists(s, id) == flag[s][id] # Absent
Existing(s) == {id \in Ids : Exists(s, id)}
Whole(s, id) == \A f \in flag[s][id] : field[s][id][f] # Absent
Stored(s, id) == [f \in flag[s][id] |-> field[s][id][f]]

-----------------------------------------------------------------------------
(* The steps a command is made of.                                         *)
Lock == [do |-> "lock"]
Unlock == [do |-> "unlock"]
SetNum(s, n) == [do |-> "num", s |-> s, n |-> n]
InsertFlag(s, id, F) == [do |-> "flag", s |-> s, id |-> id, fs |-> F]
InsertField(s, id, f, v) == [do |-> "field", s |-> s, id |-> id, f |-> f, v |-> v]
DeleteFlag(s, id) == [do |-> "delflag", s |-> s, id |-> id]
DeleteField(s, id, f) == [do |-> "delfield", s |-> s, id |-> id, f |-> f]
WriteHalf(h, r) == [do |-> "reg", h |-> h, r |-> r]
CamCommand(a) == [do |-> "cam", a |-> a]
Branch(op, s, id, r) == [do |-> op, s |-> s, id |-> id, r |-> r]
Count(mode, s) == [do |-> "count", mode |-> mode, s |-> s]
Scan(mode, s, id, matched, number) ==
  [do |-> "scan", mode |-> mode, s |-> s, id |-> id, matched |-> matched, number |-> number]
Plain(op) == [do |-> op]

Named(s, F) ==
  LET one(i) == IF FieldSeq[s][i] \in F THEN <<FieldSeq[s][i]>> ELSE <<>>
  IN  one(1) \o one(2)
PerSet(steps) ==
  (IF 1 \in Sets THEN steps[1] ELSE <<>>) \o (IF 2 \in Sets THEN steps[2] ELSE <<>>)

db_set_filter_rule_short(s, id, r) ==
  LET fs == Named(s, DOMAIN r)
  IN  <<InsertFlag(s, id, DOMAIN r), InsertField(s, id, fs[1], r[fs[1]])>>
db_set_filter_rule(s, id, r) ==
  LET fs == Named(s, DOMAIN r)
  IN  <<InsertFlag(s, id, DOMAIN r)>>
        \o [i \in 1 .. Len(fs) |-> InsertField(s, id, fs[i], r[fs[i]])]

(* The flag is read before it is deleted, and says which keys to delete.   *)
db_delete_filter_rule(s, id) ==
  LET fs == Named(s, flag[s][id])
  IN  <<DeleteFlag(s, id)>> \o [i \in 1 .. Len(fs) |-> DeleteField(s, id, fs[i])]

(* Rule set 1 takes the lower half of the CAM, rule set 2 the upper one:   *)
(* an address is the select bit and the index in the half.  On MC20E the   *)
(* two rule sets are two tables.                                           *)
CamAddr(s, id) ==
  IF Board # "MC10P_FLOW" THEN <<s - 1, id>>
  ELSE <<IF s = 2 THEN 1 ELSE (id \div CamSelect) % 2, id % CamSelect>>

(* The data and mask registers, one by one, then the command.  The two     *)
(* halves are the first and the last of them: registers 0, 1 and 2, 3 on   *)
(* MC10P_FLOW, masks and data on MC20E.  When the device cannot be opened  *)
(* nothing is written, and that is no error.                               *)
WriteCam_swapped(s, id, r) ==
  <<CamCommand(CamAddr(s, id)), WriteHalf(1, r), WriteHalf(2, r)>>
WriteCam(s, id, r) ==
  IF Board = "none" THEN <<>>
  ELSE <<WriteHalf(1, r), WriteHalf(2, r), CamCommand(CamAddr(s, id))>>
(* A rule of set 2 without a key never reaches the device.                 *)
drv_set_ruleset(s, id, r) ==
  IF s = 2 /\ DOMAIN r \intersect {"key", "every"} = {} THEN <<>> ELSE WriteCam(s, id, r)

-----------------------------------------------------------------------------
(* The reset of the driver: every entry matches nothing, the last one of   *)
(* rule set 1 everything; the last one of rule set 2 is set to "any".      *)
reset_filter_default_config(s) ==
  FlattenSeq([i \in 1 .. MaxRule |->
                drv_set_ruleset(s, i - 1, IF i < MaxRule THEN Nothing ELSE AnyRule)])

cli_reset_default_config_db(s) == <<Count("reset", s)>>
cli_reset_default_config ==
  <<Lock>> \o PerSet([s \in Sets |-> reset_filter_default_config(s)])
           \o PerSet([s \in Sets |-> cli_reset_default_config_db(s)]) \o <<Unlock>>

db_init_config(s) == <<SetNum(s, 0)>>
(* StartCLI under its lock, with or without the key DB.Init.  The cli that *)
(* initialises has "lif restore config" for its first command, which it    *)
(* runs after the unlock; the commands of the file follow as any others.   *)
Startup(initialized) ==
  IF initialized THEN <<Unlock, Plain("signals")>>
  ELSE <<Plain("uninit")>> \o PerSet([s \in Sets |-> db_init_config(s)]) \o cli_reset_default_config
         \o <<Plain("init"), Unlock, Plain("signals")>> \o cli_reset_default_config

cli_save_config_filter(s) == <<Count("save", s)>>
cli_save_config ==
  <<Lock>> \o PerSet([s \in Sets |-> cli_save_config_filter(s)]) \o <<Plain("global"), Unlock>>

(* What an error return leaves of a command: the unlock of the routine     *)
(* that failed and what its caller does after it.  StartCLI ignores the    *)
(* result of db_init_config and of cli_init_config; a rule that could not  *)
(* be stored is not handed to the driver.                                  *)
Recover_unlocked(q) == <<>>
Recover(q) ==
  LET k == CHOOSE i \in 1 .. Len(q) :
             /\ q[i].do \in {"lock", "unlock"}
             /\ \A j \in 1 .. i - 1 : q[j].do \notin {"lock", "unlock"}
      rest == SubSeq(q, k, Len(q))
  IN  IF \E i \in k .. Len(q) : q[i].do = "lock" THEN rest
      ELSE FlattenSeq([i \in 1 .. Len(rest) |->
                         IF rest[i].do \in {"reg", "cam"} THEN <<>> ELSE <<rest[i]>>])

-----------------------------------------------------------------------------
Running(c, do) == todo[c] # <<>> /\ Head(todo[c]).do = do
Rest(c) == Tail(todo[c])
Become(c, q) == todo' = [todo EXCEPT ![c] = q]
Ready(c) == up[c] = "on" /\ todo[c] = <<>>
Give(c, op, q) ==
  /\ op \in Ops
  /\ Ready(c)
  /\ Become(c, q)
  /\ UNCHANGED <<owner, db_lock, up, dbvars, hwvars, faults>>

StartCLI(c) ==
  /\ up[c] = "off"
  /\ up' = [up EXCEPT ![c] = "starting"]
  /\ db_lock' = [db_lock EXCEPT ![c] = 0]
  /\ Become(c, <<Lock, Plain("startup")>>)
  /\ UNCHANGED <<owner, dbvars, hwvars, faults>>

set(c) == \E s \in Sets, id \in RuleIds : \E r \in Rules[s] :
            Give(c, "set", <<Lock, Branch("set", s, id, r)>>)
clear(c) == \E s \in Sets, id \in RuleIds :
              Give(c, "clear", <<Lock, Branch("clear", s, id, Nothing)>>)
show(c) == \E s \in Sets, id \in RuleIds :
             Give(c, "show", <<Lock, Branch("show", s, id, Nothing)>>)
restore(c) == Give(c, "restore", cli_reset_default_config)
save(c) == Give(c, "save", cli_save_config)

Suffer(kind) ==
  kind \in FaultKinds /\ faults < MaxFaults /\ faults' = faults + 1
(* The end of StartCLI, and db_close, which unlocks whatever is held.      *)
Leave(c) ==
  /\ up' = [up EXCEPT ![c] = "off"]
  /\ owner' = IF owner = c THEN NoCli ELSE owner
  /\ Become(c, <<>>)
  /\ UNCHANGED <<db_lock, dbvars, hwvars>>
exit(c) == "exit" \in Ops /\ Ready(c) /\ Leave(c) /\ UNCHANGED faults
(* SIGINT, SIGTERM or SIGALRM, captured once StartCLI has set up the cli.  *)
cleanup(c) == up[c] = "on" /\ Suffer("signal") /\ Leave(c)

-----------------------------------------------------------------------------
cli_db_lock_free(c) ==
  /\ Running(c, "lock")
  /\ owner' = c
  /\ db_lock' = [db_lock EXCEPT ![c] = (@ + 1) % Word]
  /\ Become(c, Rest(c))
  /\ UNCHANGED <<up, dbvars, hwvars, faults>>
cli_db_lock(c) ==
  /\ Running(c, "lock")
  /\ IF db_lock[c] = 0 THEN owner = NoCli /\ owner' = c ELSE owner' = owner
  /\ db_lock' = [db_lock EXCEPT ![c] = (@ + 1) % Word]
  /\ Become(c, Rest(c))
  /\ UNCHANGED <<up, dbvars, hwvars, faults>>

cli_db_unlock_flat(c) ==
  /\ Running(c, "unlock")
  /\ db_lock' = [db_lock EXCEPT ![c] = 0]
  /\ owner' = IF owner = c THEN NoCli ELSE owner
  /\ Become(c, Rest(c))
  /\ UNCHANGED <<up, dbvars, hwvars, faults>>
cli_db_unlock(c) ==
  /\ Running(c, "unlock")
  /\ db_lock' = [db_lock EXCEPT ![c] = (@ - 1) % Word]
  /\ owner' = IF db_lock'[c] = 0 /\ owner = c THEN NoCli ELSE owner
  /\ Become(c, Rest(c))
  /\ UNCHANGED <<up, dbvars, hwvars, faults>>

(* A database read: the branch of the code that its answer selects.        *)
Read(c, q) ==
  /\ Become(c, q)
  /\ UNCHANGED <<owner, db_lock, up, dbvars, hwvars, faults>>

StartBranch(c) == Running(c, "startup") /\ Read(c, Startup(inited))
capture_signals(c) ==
  /\ Running(c, "signals")
  /\ up' = [up EXCEPT ![c] = "on"]
  /\ Become(c, Rest(c))
  /\ UNCHANGED <<owner, db_lock, dbvars, hwvars, faults>>

(* A new rule is counted before it is stored.                              *)
cli_fpga_set_ruleset_counts(c) ==
  /\ Running(c, "set")
  /\ LET t == Head(todo[c])
     IN  IF num[t.s] = Absent THEN Read(c, <<Unlock>>)
         ELSE Read(c, <<SetNum(t.s, num[t.s] + 1)>> \o db_set_filter_rule(t.s, t.id, t.r)
                        \o <<Unlock>> \o drv_set_ruleset(t.s, t.id, t.r))
cli_fpga_set_ruleset(c) ==
  /\ Running(c, "set")
  /\ LET t == Head(todo[c])
         count == IF Exists(t.s, t.id) THEN <<>> ELSE <<SetNum(t.s, (num[t.s] + 1) % Word)>>
     IN  IF ~Exists(t.s, t.id) /\ num[t.s] = Absent THEN Read(c, <<Unlock>>)
         ELSE Read(c, count \o db_set_filter_rule(t.s, t.id, t.r) \o <<Unlock>>
                        \o drv_set_ruleset(t.s, t.id, t.r))

(* The entry of a cleared rule is written before the unlock.               *)
cli_fpga_clear_ruleset(c) ==
  /\ Running(c, "clear")
  /\ LET t == Head(todo[c])
     IN  IF ~Exists(t.s, t.id) \/ num[t.s] = Absent THEN Read(c, <<Unlock>>)
         ELSE Read(c, <<SetNum(t.s, (num[t.s] - 1) % Word)>> \o db_delete_filter_rule(t.s, t.id)
                        \o drv_set_ruleset(t.s, t.id, t.r) \o <<Unlock>>)

(* Shows the rule, or fails on a missing key: it changes nothing.          *)
cli_get_filter_ruleset(c) == Running(c, "show") /\ Read(c, <<Unlock>>)

(* The loops over the rules: they count matches up to the stored number,   *)
(* with no other bound on the index.  Beyond the table no index exists, so *)
(* the index stays there.                                                  *)
StartScan(c) ==
  /\ Running(c, "count")
  /\ LET t == Head(todo[c])
     IN  IF num[t.s] = Absent THEN Read(c, Recover(Rest(c)))
         ELSE Read(c, <<Scan(t.mode, t.s, 0, 0, num[t.s])>> \o Rest(c))
ScanStep_keeps(c) ==
  /\ Running(c, "scan")
  /\ LET t == Head(todo[c])
         next == IF t.id < MaxRule THEN t.id + 1 ELSE t.id
         found == t.id < MaxRule /\ Exists(t.s, t.id)
         on(m) == <<Scan(t.mode, t.s, next, m, t.number)>> \o Rest(c)
     IN  Read(c, IF t.matched >= t.number THEN Rest(c)
                 ELSE IF ~found THEN on(t.matched)
                 ELSE IF t.mode = "reset"
                      THEN db_delete_filter_rule(t.s, t.id) \o on(t.matched + 1)
                      ELSE on(t.matched + 1))
ScanStep(c) ==
  /\ Running(c, "scan")
  /\ LET t == Head(todo[c])
         next == IF t.id < MaxRule THEN t.id + 1 ELSE t.id
         found == t.id < MaxRule /\ Exists(t.s, t.id)
         on(m) == <<Scan(t.mode, t.s, next, m, t.number)>> \o Rest(c)
     IN  \/ /\ t.matched >= t.number
            /\ Read(c, IF t.mode = "reset" THEN <<SetNum(t.s, 0)>> \o Rest(c) ELSE Rest(c))
         \/ /\ t.matched < t.number /\ ~found
            /\ Read(c, on(t.matched))
         \/ /\ t.matched < t.number /\ found /\ t.mode = "reset"
            /\ Read(c, db_delete_filter_rule(t.s, t.id) \o on(t.matched + 1))
         \/ /\ t.matched < t.number /\ found /\ t.mode = "save"
            /\ Read(c, IF Whole(t.s, t.id) THEN on(t.matched + 1) ELSE Recover(Rest(c)))

save_global_config(c) == Running(c, "global") /\ Read(c, Rest(c))

(* An insert, a delete or a register write.                                *)
Wrote(c) == Become(c, Rest(c)) /\ UNCHANGED <<owner, db_lock, up, faults>>
db_set_filter_rule_num(c) ==
  /\ Running(c, "num")
  /\ LET t == Head(todo[c]) IN num' = [num EXCEPT ![t.s] = t.n]
  /\ Wrote(c) /\ UNCHANGED <<inited, flag, field, hwvars>>
db_insert_flag(c) ==
  /\ Running(c, "flag")
  /\ LET t == Head(todo[c]) IN flag' = [flag EXCEPT ![t.s][t.id] = t.fs]
  /\ Wrote(c) /\ UNCHANGED <<inited, num, field, hwvars>>
db_insert_field(c) ==
  /\ Running(c, "field")
  /\ LET t == Head(todo[c]) IN field' = [field EXCEPT ![t.s][t.id][t.f] = t.v]
  /\ Wrote(c) /\ UNCHANGED <<inited, num, flag, hwvars>>
db_delete_flag(c) ==
  /\ Running(c, "delflag")
  /\ LET t == Head(todo[c]) IN flag' = [flag EXCEPT ![t.s][t.id] = Absent]
  /\ Wrote(c) /\ UNCHANGED <<inited, num, field, hwvars>>
(* Deleting a key that is not there is an error, and ends the command.     *)
db_delete_field(c) ==
  /\ Running(c, "delfield")
  /\ LET t == Head(todo[c])
     IN  IF field[t.s][t.id][t.f] = Absent THEN Read(c, Recover(Rest(c)))
         ELSE /\ field' = [field EXCEPT ![t.s][t.id][t.f] = Absent]
              /\ Wrote(c) /\ UNCHANGED <<inited, num, flag, hwvars>>
db_mark_uninitialized(c) ==
  /\ Running(c, "uninit")
  /\ inited' = FALSE
  /\ Wrote(c) /\ UNCHANGED <<num, flag, field, hwvars>>
db_set_initialized(c) ==
  /\ Running(c, "init")
  /\ inited' = TRUE
  /\ Wrote(c) /\ UNCHANGED <<num, flag, field, hwvars>>

reg_write(c) ==
  /\ Running(c, "reg")
  /\ LET t == Head(todo[c]) IN regs' = [regs EXCEPT ![t.h] = t.r]
  /\ Wrote(c) /\ UNCHANGED <<dbvars, cam>>
cam_command(c) ==
  /\ Running(c, "cam")
  /\ LET t == Head(todo[c]) IN cam' = [cam EXCEPT ![t.a] = regs]
  /\ Wrote(c) /\ UNCHANGED <<dbvars, regs>>

-----------------------------------------------------------------------------
(* Faults.  A call to db_server that fails for want of memory, be it a     *)
(* fetch or an insert; when it fails, an insert has already freed the old  *)
(* value of the key.  DB.Init that cannot be read counts as not there;     *)
(* save_global_config unlocks before it returns, and so does its caller:   *)
(* its fetches are a kind of fault of their own.                           *)
Fetches(t) ==
  \/ t.do \in {"startup", "count", "global", "delflag"}
  \/ t.do = "set" /\ ~Exists(t.s, t.id)
  \/ t.do \in {"clear", "show"} /\ Exists(t.s, t.id)
  \/ t.do = "scan" /\ t.matched < t.number /\ t.id < MaxRule /\ Exists(t.s, t.id)
DbFails(c) ==
  /\ todo[c] # <<>>
  /\ LET t == Head(todo[c])
     IN  /\ Suffer(IF t.do = "global" THEN "settings" ELSE "memory")
         /\ Fetches(t) \/ t.do \in {"num", "flag", "field", "uninit", "init"}
         /\ Become(c, CASE t.do = "startup" -> Startup(FALSE)
                        [] t.do \in {"set", "clear", "show"} -> <<Unlock>>
                        [] t.do = "global" -> <<Unlock>> \o Rest(c)
                        [] t.do = "init" -> Rest(c)
                        [] OTHER -> Recover(Rest(c)))
         /\ num' = IF t.do = "num" THEN [num EXCEPT ![t.s] = Absent] ELSE num
         /\ flag' = IF t.do = "flag" THEN [flag EXCEPT ![t.s][t.id] = Absent] ELSE flag
         /\ field' = IF t.do = "field" THEN [field EXCEPT ![t.s][t.id][t.f] = Absent] ELSE field
         /\ inited' = (inited /\ t.do \notin {"uninit", "init"})
  /\ UNCHANGED <<owner, db_lock, up, hwvars>>
(* The CAM is busy: on MC10P_FLOW it does not acknowledge the command      *)
(* within 1000 polls, when the entry may be written or not; on MC20E it is *)
(* not ready for it after 10, and the entry is not written.  The result is *)
(* ignored (on MC10P_FLOW with the device left open), the command goes on. *)
CamTimeout(c) ==
  /\ Running(c, "cam") /\ Suffer("cam")
  /\ Become(c, Rest(c))
  /\ \/ cam' = cam
     \/ Board = "MC10P_FLOW" /\ cam' = [cam EXCEPT ![Head(todo[c]).a] = regs]
  /\ UNCHANGED <<owner, db_lock, up, dbvars, regs>>

Init ==
  /\ owner = NoCli
  /\ db_lock = [c \in Clis |-> 0]
  /\ up = [c \in Clis |-> "off"]
  /\ todo = [c \in Clis |-> <<>>]
  /\ inited = FALSE
  /\ num = [s \in Sets |-> Absent]
  /\ flag = [s \in Sets |-> [id \in Ids |-> Absent]]
  /\ field = [s \in Sets |-> [id \in Ids |-> [f \in Fields(s) |-> Absent]]]
  /\ regs = <<Nothing, Nothing>>
  /\ cam = [a \in {CamAddr(s, id) : s \in Sets, id \in Ids} |-> <<Nothing, Nothing>>]
  /\ faults = 0

Command(c) == set(c) \/ clear(c) \/ show(c) \/ restore(c) \/ save(c)
Step(c) ==
  \/ cli_db_lock(c) \/ cli_db_unlock(c)
  \/ StartBranch(c) \/ cli_fpga_set_ruleset(c) \/ cli_fpga_clear_ruleset(c)
  \/ cli_get_filter_ruleset(c) \/ StartScan(c) \/ ScanStep(c) \/ save_global_config(c)
  \/ db_set_filter_rule_num(c) \/ db_insert_flag(c) \/ db_insert_field(c)
  \/ db_delete_flag(c) \/ db_delete_field(c)
  \/ db_mark_uninitialized(c) \/ db_set_initialized(c) \/ capture_signals(c)
  \/ reg_write(c) \/ cam_command(c)
Fault(c) == cleanup(c) \/ DbFails(c) \/ CamTimeout(c)
Next == \E c \in Clis : StartCLI(c) \/ Command(c) \/ exit(c) \/ Step(c) \/ Fault(c)

(* A command that has begun goes on, and a cli that waits for the database *)
(* lock is served in the end: the mutex of db_server lets one of the       *)
(* waiting threads in.                                                     *)
Spec == Init /\ [][Next]_vars /\ \A c \in Clis : WF_vars(Step(c)) /\ SF_vars(cli_db_lock(c))

-----------------------------------------------------------------------------
Quiet == owner = NoCli /\ \A c \in Clis : todo[c] = <<>>
(* What a fault in the middle of a command leaves behind stays there.      *)
Undisturbed == faults = 0

(* "Number of filter rules" (the key list of database.c): when nobody      *)
(* holds the database lock, the stored count of a rule set is the number   *)
(* of its rules.                                                           *)
FilterNo ==
  inited /\ owner = NoCli => \A s \in Sets : num[s] = Cardinality(Existing(s))
(* The same, as long as no signal and no failing call cut a command short. *)
FilterNoKept == Undisturbed => FilterNo

(* The loops of save and reset, bounded only by the stored count, find     *)
(* that many rules inside the table.                                       *)
ScanInTable ==
  Undisturbed => \A c \in Clis : Running(c, "scan") =>
    LET t == Head(todo[c]) IN t.id = MaxRule => t.matched = t.number

(* Whoever reads a rule (show and save) finds every key its flag names.    *)
ReadsWhole ==
  Undisturbed => \A c \in Clis : \A s \in Sets, id \in Ids :
    /\ Exists(s, id)
    /\ \/ Running(c, "show") /\ Head(todo[c]).s = s
       \/ Running(c, "scan") /\ Head(todo[c]).s = s /\ Head(todo[c]).mode = "save"
    => Whole(s, id)

(* DB.Init is set once: "db_set_initialized called twice!" is never seen,  *)
(* however many cli processes start together.                              *)
InitOnce == Undisturbed => \A c \in Clis : Running(c, "init") => ~inited

(* save_global_config unlocks when one of its fetches fails                *)
(* (parserops.c:470), and its caller unlocks again (parserops.c:183): the  *)
(* count of that cli is then off by one for good.  What follows is about   *)
(* systems where that does not happen, or has not yet.                     *)
SettingsRead == "settings" \notin FaultKinds \/ faults = 0

(* Unless the settings could not be read in a save, every path out of a    *)
(* command, the error returns too, has undone its locks: a cli that waits  *)
(* for input does not hold up the others.                                  *)
LocksUndone ==
  SettingsRead => \A c \in Clis : todo[c] = <<>> => owner # c /\ (up[c] # "off" => db_lock[c] = 0)

(* With the same exception, a cli between its lock and its unlock is the   *)
(* owner of the lock.                                                      *)
SectionOwned ==
  SettingsRead => \A c \in Clis :
    \A k \in {"set", "clear", "show", "count", "scan", "num", "flag", "field", "delflag", "delfield"} :
      Running(c, k) => owner = c

(* With nothing under way the CAM matches what the database says: a stored *)
(* rule is in its entry, an absent one matches nothing, but for the last   *)
(* entries, which a reset leaves open (set 1) or as they were (set 2), and *)
(* for rules of set 2 without a key, which the driver does not write.      *)
CamMatches ==
  Undisturbed /\ Quiet /\ inited => \A s \in Sets, id \in RuleIds :
    LET entry == cam[CamAddr(s, id)]
        last == id = MaxRule - 1
        is(r) == entry = <<r, r>>
    IN  IF Exists(s, id)
        THEN (s = 2 /\ "key" \notin flag[s][id]) \/ is(Stored(s, id))
        ELSE is(Nothing) \/ (last /\ (s = 2 \/ is(AnyRule)))

(* "set this entry to be all '0', no packet should match this": once       *)
(* everything is done, a cleared rule of set 1 matches no packet.          *)
ClearedMatchesNothing ==
  Quiet /\ inited => \A id \in RuleIds \ {MaxRule - 1} :
    ~Exists(1, id) => cam[CamAddr(1, id)] = <<Nothing, Nothing>>

(* Every command ends.                                                     *)
CommandsEnd == \A c \in Clis : todo[c] # <<>> ~> todo[c] = <<>>
=============================================================================
