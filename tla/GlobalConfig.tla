---------------------------- MODULE GlobalConfig ----------------------------
(***************************************************************************)
(* The settings of the cli that are not rules: the words, the MAC          *)
(* addresses, the bypass lines, and the settings of the optical ports with *)
(* their file qnf.conf (parserops.c, database.c, drvops.c,                 *)
(* bypass_monitor.c, drv/tap_drv.c).                                       *)
(*                                                                         *)
(* A set command changes the database under its lock and the device after  *)
(* it, without one.  The board is chosen when the program is built.        *)
(*                                                                         *)
(* Left out: inserts into the database that fail, after which the command  *)
(* returns without a word to the device and the key may be gone; writes of *)
(* qnf.conf.tmp that fail, which the code does not see and renames; and a  *)
(* cli that is killed in the middle of a command.                          *)
(***************************************************************************)
EXTENDS Naturals, Sequences, SequencesExt

CONSTANTS
  Clis, NoCli,  \* the cli processes; no holder of the database lock
  Boards,       \* the builds
  Names,        \* the words that commands set
  Items,        \* the port settings that commands set
  Lines,        \* the bypass lines
  MaxCmds,      \* bound on the commands
  MaxFaults     \* bound on the fetches that fail

ASSUME ConfigAssumption ==
  /\ NoCli \notin Clis /\ MaxCmds \in Nat
  /\ MaxFaults \in {0, 1}   \* a cli leaves at most one stream
  /\ Boards \subseteq {"MC10P_FLOW", "MC20P_GTP", "MC20E", "QT20"}
  /\ Names \subseteq {"flow", "mms", "sample", "range", "traffic", "ports", "mode"}
  /\ Items \subseteq {"LINE_RATE", "SONET_MODE", "PPP_MODE", "SONET_SCRAMBLE",
                      "PAYLOAD_SCRAMBLE", "CRC32_MODE"}

VARIABLES
  board,    \* the build
  lock,     \* the holder of the database lock
  word,     \* word[n]: the setting n in the database, 0 for its default
  mac,      \* mac[e]: the address of an end in the database
  port,     \* port[i][k]: the setting i of port k in the database
  reg,      \* reg[n]: the register of setting n
  addr,     \* addr[e]: the register of an end, and its half of MAC_ADDR2
  latched,  \* addr at the last write of MAC_ADDR_UPDATE
  tap,      \* the register of the bypass driver: the normal lines, the leds
  wanted,   \* the lines the commands made normal
  inode,    \* inode[k]: the lines in file k
  conf,     \* the file named qnf.conf
  tmp,      \* the file named qnf.conf.tmp
  left,     \* left[c]: the stream c did not close: its file, its unwritten lines
  saved,    \* the port settings that qnf.conf should hold
  smeared,  \* the files that a save that failed has spoilt
  job,      \* job[c]: where the command of c is, and what it carries
  monitor,  \* where the bypass monitor is, and what it read
  astray,   \* the registers two commands crossed on, or a reset leaves out
  cmds, faults
database == <<word, mac, port>>
device == <<reg, addr, latched>>
bypass == <<tap, wanted>>
files == <<inode, conf, tmp, left, saved, smeared>>
counts == <<cmds, faults>>
vars == <<board, lock, database, device, bypass, files, job, monitor, astray, counts>>

PortNos == {0, 1}
Ends == {"src", "dst"}
NoFile == MaxCmds + 1   \* a name that is not there
Nothing == [file |-> NoFile, lines |-> <<>>]
Idle == [at |-> "idle", name |-> "none", val |-> 0, seen |-> 0]
At(c, at) == job[c].at = at
Goes(c, at) == job' = [job EXCEPT ![c].at = at]
Stops(c) == job' = [job EXCEPT ![c] = Idle]
Command == cmds < MaxCmds /\ cmds' = cmds + 1 /\ UNCHANGED faults

(* The registers a build has, and those of them that its reset writes.     *)
Wired(b) ==
  CASE b = "MC10P_FLOW" -> {"flow", "mms", "sample", "range", "traffic"}
    [] b = "MC20P_GTP"  -> {"ports", "mode"}
    [] b = "MC20E"      -> {"range", "traffic"}
    [] b = "QT20"       -> {}
DevReset(b) ==
  CASE b = "MC10P_FLOW" -> {"flow", "mms", "sample", "range", "traffic"}
    [] b = "MC20E"      -> {"traffic"}
    [] OTHER            -> {}

(* A command sets out for a register that another one is still changing.   *)
Register(n) == IF n \in Ends THEN "mac" ELSE n
Starts(c, at, n, v) ==
  /\ job' = [job EXCEPT ![c] = [at |-> at, name |-> n, val |-> v, seen |-> 0]]
  /\ astray' = IF \E d \in Clis \ {c} : Register(job[d].name) = Register(n)
               THEN astray \cup {Register(n)} ELSE astray

-----------------------------------------------------------------------------
(* The words: cli_fpga_set_flow_enable, cli_set_sample_rate and their like.*)
cli_set_word(c, n, v) ==
  /\ At(c, "idle") /\ lock = NoCli /\ board # "QT20" /\ Command
  /\ word' = [word EXCEPT ![n] = v]
  /\ Starts(c, "word", n, v)
  /\ UNCHANGED <<board, lock, mac, port, device, bypass, files, monitor>>
drv_set_word(c) ==
  /\ At(c, "word") /\ Stops(c)
  /\ reg' = IF job[c].name \in Wired(board) THEN [reg EXCEPT ![job[c].name] = job[c].val] ELSE reg
  /\ UNCHANGED <<board, lock, database, addr, latched, bypass, files, monitor, astray, counts>>

(* The MAC addresses: a register for each end and one they share.          *)
cli_set_eth_mac(c, e, v) ==
  /\ At(c, "idle") /\ lock = NoCli /\ board = "MC10P_FLOW" /\ Command
  /\ mac' = [mac EXCEPT ![e] = v]
  /\ Starts(c, "mac", e, v)
  /\ UNCHANGED <<board, lock, word, port, device, bypass, files, monitor>>
MacStep(c, high) ==
  LET e == job[c].name
      v == job[c].val
  IN  \/ /\ At(c, "mac") /\ job' = [job EXCEPT ![c].at = "low", ![c].seen = addr.high]
         /\ UNCHANGED <<addr, latched>>
      \/ /\ At(c, "low") /\ Goes(c, "high")
         /\ addr' = [addr EXCEPT !.low[e] = v] /\ UNCHANGED latched
      \/ /\ At(c, "high") /\ Goes(c, "latch")
         /\ addr' = [addr EXCEPT !.high = high] /\ UNCHANGED latched
      \/ /\ At(c, "latch") /\ Stops(c)
         /\ latched' = addr /\ UNCHANGED addr
MacFrame ==
  UNCHANGED <<board, lock, database, reg, bypass, files, monitor, astray, counts>>
drv_set_eth_mac_blind(c) ==
  MacStep(c, [e \in Ends |-> IF e = job[c].name THEN job[c].val ELSE 0]) /\ MacFrame
drv_set_eth_mac(c) ==
  MacStep(c, [e \in Ends |-> IF e = job[c].name THEN job[c].val ELSE job[c].seen[e]]) /\ MacFrame

(* A reset holds the lock over the device and the database.  It leaves the *)
(* MAC addresses and the port settings alone, and on some builds registers *)
(* whose words it resets.                                                  *)
cli_reset_default_config(c) ==
  /\ At(c, "idle") /\ lock = NoCli /\ board # "QT20" /\ Command
  /\ lock' = c
  /\ job' = [job EXCEPT ![c] = [Idle EXCEPT !.at = "reset"]]
  /\ astray' = astray \cup {job[d].name : d \in {d \in Clis : At(d, "word")}}
                      \cup (Wired(board) \ DevReset(board))
  /\ UNCHANGED <<board, database, device, bypass, files, monitor>>
drv_reset_global_default_config(c) ==
  /\ At(c, "reset") /\ Goes(c, "dbreset")
  /\ reg' = [n \in Names |-> IF n \in DevReset(board) THEN 0 ELSE reg[n]]
  /\ UNCHANGED <<board, lock, database, addr, latched, bypass, files, monitor, astray, counts>>
db_reset_global_default_conf(c) ==
  /\ At(c, "dbreset") /\ Stops(c)
  /\ word' = [n \in Names |-> 0]
  /\ lock' = NoCli
  /\ UNCHANGED <<board, mac, port, device, bypass, files, monitor, astray, counts>>

-----------------------------------------------------------------------------
(* The bypass lines, and the monitor that blinks the leds: each reads the  *)
(* register of the tap driver, changes its own bits and writes it back.    *)
cli_bypass_set(c, pbmp, normal) ==
  /\ At(c, "idle") /\ board = "QT20" /\ Command
  /\ wanted' = IF normal THEN wanted \cup pbmp ELSE wanted \ pbmp
  /\ job' = [job EXCEPT ![c] = [at |-> "tap", name |-> "tap", val |-> <<pbmp, normal>>, seen |-> 0]]
  /\ astray' = IF monitor.at = "set" \/ \E d \in Clis : job[d].name = "tap"
               THEN astray \cup {"tap"} ELSE astray
  /\ UNCHANGED <<board, lock, database, device, tap, files, monitor>>
drv_bypass_set(c) ==
  /\ \/ /\ At(c, "tap")
        /\ job' = [job EXCEPT ![c].at = "tapset", ![c].seen = tap]
        /\ tap' = tap
     \/ /\ At(c, "tapset") /\ Stops(c)
        /\ tap' = [job[c].seen EXCEPT !.lines = IF job[c].val[2] THEN @ \cup job[c].val[1]
                                                ELSE @ \ job[c].val[1]]
  /\ UNCHANGED <<board, lock, database, device, wanted, files, monitor, astray, counts>>
bypass_monitor ==
  /\ board = "QT20"
  /\ \/ /\ monitor.at = "get"
        /\ monitor' = [at |-> "set", seen |-> tap]
        /\ astray' = IF \E d \in Clis : job[d].name = "tap" THEN astray \cup {"tap"} ELSE astray
        /\ tap' = tap
     \/ /\ monitor.at = "set"
        /\ tap' = [monitor.seen EXCEPT !.leds = ~@]
        /\ monitor' = [at |-> "get", seen |-> 0]
        /\ UNCHANGED astray
  /\ UNCHANGED <<board, lock, database, device, wanted, files, job, counts>>

-----------------------------------------------------------------------------
(* The port settings, in the order of the lines of qnf.conf, each with its *)
(* value for port 0 and port 1.  Lines up to PPP_MODE are written "%u,%u", *)
(* the others "%u, %u".                                                    *)
Layout == <<"LINE_RATE", "SONET_MODE", "PPP_MODE", "SONET_SCRAMBLE", "PAYLOAD_SCRAMBLE",
            "CRC32_MODE", "PASS_CRC", "MAX_PKT_SIZE", "MIN_PKT_SIZE">>
Dense_two == {"LINE_RATE", "SONET_MODE"}
Dense == {"LINE_RATE", "SONET_MODE", "PPP_MODE"}
Junk == 9   \* what an uninitialised variable of db_init_config holds
Printed(p) == [i \in 1 .. Len(Layout) |-> [item |-> Layout[i], val |-> p[Layout[i]]]]

(* A line is split at its spaces, and "%u,%u" is read from the second      *)
(* piece: of a line with a space before its second value, only the first   *)
(* value is in there, and value1 stays what the line before left in it.    *)
ReadLine(acc, line) ==
  LET v == IF line.item \in Dense THEN line.val ELSE [line.val EXCEPT ![1] = acc.value[1]]
  IN  [value |-> v, cfg |-> [acc.cfg EXCEPT ![line.item] = v]]
Parsed(lines) ==
  FoldLeft(ReadLine, [value |-> [k \in PortNos |-> Junk],
                      cfg |-> [i \in ToSet(Layout) |-> [k \in PortNos |-> Junk]]], lines).cfg

cli_set_oc(c, i, k, v) ==
  /\ At(c, "idle") /\ lock = NoCli /\ board = "MC10P_FLOW" /\ Command
  /\ port' = [port EXCEPT ![i][k] = v]
  /\ UNCHANGED <<board, lock, word, mac, device, bypass, files, job, monitor, astray>>

(* Saving: the temporary file is opened, and emptied, before the lock is   *)
(* taken.  The settings are printed into the buffer of the stream; closing *)
(* it writes them to the file, and the file takes the name qnf.conf.       *)
fopen_tmp(c) ==
  /\ At(c, "idle") /\ board = "MC10P_FLOW" /\ Command
  /\ LET k == IF tmp = NoFile THEN cmds ELSE tmp
     IN  /\ tmp' = k
         /\ inode' = [inode EXCEPT ![k] = <<>>]
         /\ job' = [job EXCEPT ![c] = [at |-> "opened", name |-> "none", val |-> k, seen |-> 0]]
  /\ UNCHANGED <<board, lock, database, device, bypass, conf, left, saved, smeared,
                 monitor, astray>>
(* A stream writes from the start of its file: what lies behind the lines  *)
(* it writes stays.                                                        *)
Flushed_append(k, lines) == [inode EXCEPT ![k] = @ \o lines]
Flushed(k, lines) ==
  [inode EXCEPT ![k] = lines \o SubSeq(@, Len(lines) + 1, Len(@))]
(* The lock keeps the settings as they are from the first fetch to the     *)
(* last, so fetching, printing and closing are one step.                   *)
save_close(c) ==
  /\ At(c, "opened") /\ lock = NoCli
  /\ lock' = c
  /\ inode' = Flushed(job[c].val, Printed(port))
  /\ job' = [job EXCEPT ![c].at = "closed", ![c].seen = port]
  /\ smeared' = smeared \ {job[c].val}
  /\ UNCHANGED <<board, database, device, bypass, conf, tmp, left, saved,
                 monitor, astray, counts>>
(* A fetch that fails leaves the stream open, with the lines printed so    *)
(* far in its buffer.                                                      *)
save_fails(c) ==
  /\ At(c, "opened") /\ lock = NoCli /\ faults < MaxFaults /\ faults' = faults + 1
  /\ Stops(c)
  /\ \E n \in 0 .. Len(Layout) - 1 :
       left' = [left EXCEPT ![c] = [file |-> job[c].val, lines |-> SubSeq(Printed(port), 1, n)]]
  /\ smeared' = smeared \cup {job[c].val}
  /\ UNCHANGED <<board, lock, database, device, bypass, inode, conf, tmp, saved,
                 monitor, astray, cmds>>
(* Whatever file is called qnf.conf.tmp by now takes the name qnf.conf; if *)
(* there is none the command fails.                                        *)
save_rename(c) ==
  /\ At(c, "closed") /\ Stops(c)
  /\ lock' = NoCli
  /\ conf' = IF tmp = NoFile THEN conf ELSE tmp
  /\ tmp' = NoFile
  /\ saved' = IF conf' = job[c].val THEN job[c].seen ELSE saved
  /\ UNCHANGED <<board, database, device, bypass, inode, left, smeared, monitor, astray,
                 counts>>
(* The end of a cli writes what is left in its streams.                    *)
exit(c) ==
  /\ At(c, "idle") /\ left[c] # Nothing
  /\ inode' = Flushed(left[c].file, left[c].lines)
  /\ left' = [left EXCEPT ![c] = Nothing]
  /\ smeared' = smeared \cup (IF left[c].lines = <<>> THEN {} ELSE {left[c].file})
  /\ UNCHANGED <<board, lock, database, device, bypass, conf, tmp, saved, job, monitor,
                 astray, counts>>

(* A new database: its first cli reads qnf.conf and resets the device,     *)
(* which leaves the MAC addresses of the old one in their registers.       *)
Quiet == monitor.at = "get" /\ \A c \in Clis : At(c, "idle")
db_init_config ==
  /\ Quiet /\ board # "QT20" /\ Command
  /\ word' = [n \in Names |-> 0]
  /\ mac' = [e \in Ends |-> 0]
  /\ port' = IF board = "MC10P_FLOW" THEN Parsed(inode[conf]) ELSE port
  /\ reg' = [n \in Names |-> IF n \in DevReset(board) THEN 0 ELSE reg[n]]
  /\ astray' = astray \cup {"mac"} \cup (Wired(board) \ DevReset(board))
  /\ UNCHANGED <<board, lock, addr, latched, bypass, files, job, monitor>>

-----------------------------------------------------------------------------
Factory == [i \in ToSet(Layout) |-> [k \in PortNos |-> 0]]
Init ==
  /\ board \in Boards /\ lock = NoCli
  /\ word = [n \in Names |-> 0] /\ reg = word
  /\ mac = [e \in Ends |-> 0]
  /\ addr = [low |-> mac, high |-> mac] /\ latched = addr
  /\ port = Factory /\ saved = Factory
  /\ inode = [k \in 0 .. MaxCmds |-> IF k = MaxCmds THEN Printed(Factory) ELSE <<>>]
  /\ conf = MaxCmds /\ tmp = NoFile
  /\ left = [c \in Clis |-> Nothing] /\ smeared = {}
  /\ tap = [lines |-> {}, leds |-> FALSE] /\ wanted = {}
  /\ job = [c \in Clis |-> Idle]
  /\ monitor = [at |-> "get", seen |-> 0]
  /\ astray = {} /\ cmds = 0 /\ faults = 0
Next ==
  \/ \E c \in Clis :
       \/ \E v \in {0, 1} : \/ \E n \in Names : cli_set_word(c, n, v)
                            \/ \E e \in Ends : cli_set_eth_mac(c, e, v)
                            \/ \E i \in Items, k \in PortNos : cli_set_oc(c, i, k, v)
       \/ drv_set_word(c) \/ drv_set_eth_mac(c)
       \/ cli_reset_default_config(c) \/ drv_reset_global_default_config(c)
       \/ db_reset_global_default_conf(c)
       \/ \E pbmp \in SUBSET Lines \ {{}}, normal \in BOOLEAN : cli_bypass_set(c, pbmp, normal)
       \/ drv_bypass_set(c)
       \/ fopen_tmp(c) \/ save_close(c) \/ save_fails(c) \/ save_rename(c) \/ exit(c)
  \/ bypass_monitor \/ db_init_config
Spec == Init /\ [][Next]_vars

-----------------------------------------------------------------------------
(* When nothing is under way every register holds what the commands asked  *)
(* for, unless two commands (or a command and the monitor) crossed on it,  *)
(* or a reset leaves it out: commands on different settings do not disturb *)
(* each other, but the two ends of the MAC addresses share a register.     *)
AsTold ==
  Quiet =>
    /\ \A n \in (Names \cap Wired(board)) \ astray : reg[n] = word[n]
    /\ "mac" \in astray \/ (latched.low = mac /\ latched.high = mac)
    /\ "tap" \in astray \/ tap.lines = wanted

(* However many clis save at a time, in the end qnf.conf is the whole of   *)
(* one save; only a save that failed spoils it, when it had emptied the    *)
(* file that has the name, or when its cli exits and writes what it left.  *)
(* The failures this is about are those of fetches: printing and closing   *)
(* do not fail here, and no cli is killed before its rename.               *)
FileWhole == Quiet /\ conf \notin smeared => inode[conf] = Printed(saved)

(* What a new database reads from it: all settings of port 0, and of       *)
(* port 1 those on lines up to PPP_MODE.  All others of port 1 come back   *)
(* as the PPP_MODE of port 1.                                              *)
SurvivesRestart ==
  Quiet /\ conf \notin smeared =>
    LET cfg == Parsed(inode[conf])
    IN  \A i \in ToSet(Layout) :
          /\ cfg[i][0] = saved[i][0]
          /\ cfg[i][1] = (IF i \in {"LINE_RATE", "SONET_MODE"} THEN saved[i][1] ELSE saved["PPP_MODE"][1])
=============================================================================
