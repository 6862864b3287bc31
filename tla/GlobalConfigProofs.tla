-------------------------- MODULE GlobalConfigProofs --------------------------
(***************************************************************************)
(* What holds of GlobalConfig for any number of cli processes, commands    *)
(* and bypass lines, and for every set of words, items and boards.         *)
(***************************************************************************)
EXTENDS GlobalConfig, SequenceTheorems, WellFoundedInduction, TLAPS

Changing == {"mac", "low", "high", "latch"}
Tapping == {"tap", "tapset"}
Locking == {"reset", "dbreset", "closed"}
OnWord(c, n) == At(c, "word") /\ job[c].name = n
OnMac(c) == job[c].at \in Changing
OnTap(c) == job[c].at \in Tapping
Bit == {0, 1}
Halves == [low : [Ends -> Bit], high : [Ends -> Bit]]
TapReg == [lines : SUBSET Lines, leds : BOOLEAN]

Types ==
  /\ lock \in Clis \cup {NoCli}
  /\ word \in [Names -> Bit] /\ mac \in [Ends -> Bit]
  /\ reg \in [Names -> Bit] /\ addr \in Halves /\ latched \in Halves
  /\ tap \in TapReg /\ wanted \in SUBSET Lines
  /\ monitor.at \in {"get", "set"} /\ (monitor.at = "set" => monitor.seen \in TapReg)

(* What a command carries.                                                 *)
IsJob(j) ==
  /\ j = [at |-> j.at, name |-> j.name, val |-> j.val, seen |-> j.seen]
  /\ \/ j.at \in {"idle", "opened"} \cup Locking /\ j.name = "none"
     \/ j.at = "word" /\ j.name \in Names /\ j.val \in Bit
     \/ /\ j.at \in Changing /\ j.name \in Ends /\ j.val \in Bit
        /\ j.at # "mac" => j.seen \in [Ends -> Bit]
     \/ /\ j.at \in Tapping /\ j.name = "tap" /\ j.val \in (SUBSET Lines) \X BOOLEAN
        /\ j.at = "tapset" => j.seen \in TapReg
Jobs == job = [c \in Clis |-> job[c]] /\ \A c \in Clis : IsJob(job[c])

Locked == \A c \in Clis : job[c].at \in Locking <=> lock = c

(* A word that two commands did not cross on is in its register, or one    *)
(* command has it on its way, or a reset is at work on both.               *)
Words ==
  \A n \in (Names \cap Wired(board)) \ astray :
    /\ \A c, d \in Clis : OnWord(c, n) /\ OnWord(d, n) => c = d
    /\ \A c \in Clis : OnWord(c, n) => job[c].val = word[n]
    /\ \A c \in Clis : At(c, "reset") \/ At(c, "dbreset") =>
         n \in DevReset(board) /\ \A d \in Clis : ~OnWord(d, n)
    /\ \A c \in Clis : At(c, "dbreset") => reg[n] = 0
    /\ (\A c \in Clis : ~At(c, "dbreset") /\ ~OnWord(c, n)) => reg[n] = word[n]

(* The command that changes one end leaves the other end in both registers *)
(* and in what it has read of the one they share.                          *)
Macs ==
  "mac" \notin astray =>
    /\ \A c, d \in Clis : OnMac(c) /\ OnMac(d) => c = d
    /\ (\A c \in Clis : ~OnMac(c)) => addr = [low |-> mac, high |-> mac] /\ latched = addr
    /\ \A c \in Clis : OnMac(c) =>
         /\ job[c].val = mac[job[c].name]
         /\ \A e \in Ends \ {job[c].name} :
              addr.low[e] = mac[e] /\ addr.high[e] = mac[e]
              /\ (job[c].at # "mac" => job[c].seen[e] = mac[e])
         /\ job[c].at \in {"high", "latch"} => addr.low[job[c].name] = mac[job[c].name]
         /\ job[c].at = "latch" => addr.high[job[c].name] = mac[job[c].name]

(* The lines are as the commands want them, or one command is about to     *)
(* make them so from what it has read; the monitor writes back what it has *)
(* read of them.                                                           *)
Applied(lines, v) == IF v[2] THEN lines \cup v[1] ELSE lines \ v[1]
Taps ==
  "tap" \notin astray =>
    /\ \A c, d \in Clis : OnTap(c) /\ OnTap(d) => c = d
    /\ (\A c \in Clis : ~OnTap(c)) =>
         tap.lines = wanted /\ (monitor.at = "set" => monitor.seen = tap)
    /\ \A c \in Clis : OnTap(c) =>
         /\ monitor.at = "get"
         /\ wanted = Applied(IF At(c, "tap") THEN tap.lines ELSE job[c].seen.lines, job[c].val)

-----------------------------------------------------------------------------
(* The files.                                                              *)
IsLines(s) == s \in Seq({s[i] : i \in DOMAIN s})
N == Len(Layout)
Opened(k) == \E c \in Clis : At(c, "opened") /\ job[c].val = k

(* No file is longer than one save.                                        *)
FileTypes ==
  /\ cmds \in 0 .. MaxCmds
  /\ inode = [k \in 0 .. MaxCmds |-> inode[k]]
  /\ \A k \in 0 .. MaxCmds : IsLines(inode[k]) /\ Len(inode[k]) <= N
  /\ left = [c \in Clis |-> left[c]]
  /\ \A c \in Clis : \/ left[c] = Nothing
                     \/ /\ left[c].file \in 0 .. MaxCmds
                        /\ IsLines(left[c].lines) /\ Len(left[c].lines) < N

(* A new file has a number that no file had.                               *)
Fresh ==
  /\ conf \in 0 .. cmds - 1 \/ conf = MaxCmds
  /\ tmp \in 0 .. cmds - 1 \/ tmp = NoFile
  /\ \A c \in Clis : job[c].at \in {"opened", "closed"} => job[c].val \in 0 .. cmds - 1

(* A file that is spoilt is known to be; any other one that has or may get *)
(* the name qnf.conf is going to be written, or has just been written by   *)
(* the save that has the lock, or holds the settings it should.            *)
Written ==
  \A c \in Clis : At(c, "closed") =>
    LET k == job[c].val
    IN  k \in smeared \/ Opened(k) \/ inode[k] = Printed(job[c].seen)
TmpWhole ==
  tmp = NoFile \/ tmp \in smeared \/ Opened(tmp)
  \/ \E c \in Clis : At(c, "closed") /\ job[c].val = tmp
ConfWhole ==
  \/ conf \in smeared \/ Opened(conf) \/ inode[conf] = Printed(saved)
  \/ \E c \in Clis : At(c, "closed") /\ job[c].val = conf

Settings == Words /\ Macs /\ Taps
Files == FileTypes /\ Fresh /\ Written /\ TmpWhole /\ ConfWhole
IInv == Types /\ Jobs /\ Locked /\ Settings /\ Files

-----------------------------------------------------------------------------
(* A command of c sets out or stops; a command of c goes on.               *)
LEMMA JobSet ==
  ASSUME Jobs, NEW c \in Clis, NEW j, IsJob(j), job' = [job EXCEPT ![c] = j]
  PROVE  Jobs' /\ job'[c] = j /\ \A d \in Clis \ {c} : job'[d] = job[d]
BY DEF Jobs

LEMMA JobStops ==
  ASSUME Jobs, NEW c \in Clis, Stops(c)
  PROVE  Jobs' /\ job'[c] = Idle /\ \A d \in Clis \ {c} : job'[d] = job[d]
<1>1. IsJob(Idle)
  BY DEF IsJob, Idle
<1> QED
  BY <1>1, JobSet DEF Stops

LEMMA JobGoes ==
  ASSUME Jobs, NEW c \in Clis, NEW at, NEW seen,
         \/ job' = [job EXCEPT ![c].at = at, ![c].seen = seen]
         \/ job' = [job EXCEPT ![c].at = at] /\ seen = job[c].seen,
         IsJob([at |-> at, name |-> job[c].name, val |-> job[c].val, seen |-> seen])
  PROVE  /\ Jobs' /\ \A d \in Clis \ {c} : job'[d] = job[d]
         /\ job'[c].at = at /\ job'[c].seen = seen
         /\ job'[c].name = job[c].name /\ job'[c].val = job[c].val
<1> DEFINE j == [at |-> at, name |-> job[c].name, val |-> job[c].val, seen |-> seen]
<1>1. job[c] = [at |-> job[c].at, name |-> job[c].name, val |-> job[c].val, seen |-> job[c].seen]
  BY DEF Jobs, IsJob
<1>2. job = [d \in Clis |-> job[d]]
  BY DEF Jobs
<1>3. job' = [job EXCEPT ![c] = j]
  BY <1>1, <1>2
<1>4. Jobs' /\ job'[c] = j /\ \A d \in Clis \ {c} : job'[d] = job[d]
  BY <1>3, JobSet
<1> QED
  BY <1>4

(* What the steps of other commands leave alone.                           *)
LEMMA WordsFrame ==
  ASSUME Words, UNCHANGED <<board, word, reg>>, astray \subseteq astray',
         \A c \in Clis : job'[c] = job[c]
                         \/ {job[c].at, job'[c].at} \cap {"word", "reset", "dbreset"} = {}
  PROVE  Words'
<1>1. ASSUME NEW c \in Clis
      PROVE  /\ job'[c].at = "word" \/ job[c].at = "word" => job'[c] = job[c]
             /\ job'[c].at = "reset" <=> job[c].at = "reset"
             /\ job'[c].at = "dbreset" <=> job[c].at = "dbreset"
  OBVIOUS
<1>2. astray \subseteq astray' /\ board' = board /\ word' = word /\ reg' = reg
  OBVIOUS
<1> QED
  BY <1>1, <1>2 DEF Words, OnWord, At

LEMMA MacsFrame ==
  ASSUME Macs, UNCHANGED <<mac, addr, latched>>, astray \subseteq astray',
         \A c \in Clis : job'[c] = job[c] \/ {job[c].at, job'[c].at} \cap Changing = {}
  PROVE  Macs'
<1> SUFFICES ASSUME "mac" \notin astray' PROVE Macs'
  BY DEF Macs
<1>1. \A c \in Clis : OnMac(c)' <=> OnMac(c)
  BY DEF OnMac
<1>2. \A c \in Clis : OnMac(c) => job'[c] = job[c]
  BY DEF OnMac
<1> QED
  BY <1>1, <1>2 DEF Macs

LEMMA TapsFrame ==
  ASSUME Taps, UNCHANGED <<tap, wanted, monitor>>, astray \subseteq astray',
         \A c \in Clis : job'[c] = job[c] \/ {job[c].at, job'[c].at} \cap Tapping = {}
  PROVE  Taps'
<1> SUFFICES ASSUME "tap" \notin astray' PROVE Taps'
  BY DEF Taps
<1>1. \A c \in Clis : OnTap(c)' <=> OnTap(c)
  BY DEF OnTap
<1>2. \A c \in Clis : OnTap(c) => job'[c] = job[c]
  BY DEF OnTap
<1> QED
  BY <1>1, <1>2 DEF Taps, Applied, At

LEMMA FilesFrame ==
  ASSUME Files, UNCHANGED <<inode, conf, tmp, left, saved, smeared>>,
         cmds' = cmds \/ Command,
         \A c \in Clis : job'[c] = job[c]
                         \/ {job[c].at, job'[c].at} \cap {"opened", "closed"} = {}
  PROVE  Files'
<1> USE ConfigAssumption DEF Files
<1>1. cmds' \in 0 .. MaxCmds /\ cmds' >= cmds /\ cmds \in 0 .. MaxCmds
  BY DEF FileTypes, Command
<1>2. FileTypes'
  BY <1>1 DEF FileTypes
<1>3. \A c \in Clis : job[c].at \in {"opened", "closed"} \/ job'[c].at \in {"opened", "closed"}
                        => job'[c] = job[c]
  OBVIOUS
<1>4. Fresh'
  BY <1>1, <1>3 DEF Fresh, NoFile
<1>5. \A k : Opened(k)' <=> Opened(k)
  BY <1>3 DEF Opened, At
<1>6. Written'
  BY <1>3, <1>5 DEF Written, At, Printed
<1>7. TmpWhole'
  BY <1>3, <1>5 DEF TmpWhole, At
<1>8. ConfWhole'
  BY <1>3, <1>5 DEF ConfWhole, At, Printed
<1> QED
  BY <1>2, <1>4, <1>6, <1>7, <1>8

LEMMA LockFrame ==
  ASSUME Locked, UNCHANGED lock,
         \A c \in Clis : job'[c].at \in Locking <=> job[c].at \in Locking
  PROVE  Locked'
BY DEF Locked

(* The names of the commands: no word is called like an end, like the      *)
(* registers they share, or like a command without a register.             *)
LEMMA Crossed ==
  ASSUME Jobs, NEW c \in Clis
  PROVE  /\ \A n \in Names : Register(n) = n /\ (Register(job[c].name) = n <=> OnWord(c, n))
         /\ \A e \in Ends : Register(e) = "mac"
         /\ Register(job[c].name) = "mac" <=> OnMac(c)
         /\ job[c].name = "tap" <=> OnTap(c)
<1>1. Names \cap {"src", "dst", "mac", "tap", "none"} = {}
  BY ConfigAssumption
<1>2. IsJob(job[c])
  BY DEF Jobs
<1>3. \A n \in Names : Register(n) = n
  BY <1>1 DEF Register, Ends
<1>4. \A e \in Ends : Register(e) = "mac"
  BY DEF Register
<1>5. CASE job[c].at \in {"idle", "opened"} \cup Locking /\ job[c].name = "none"
  BY <1>1, <1>3, <1>4, <1>5 DEF OnWord, OnMac, OnTap, At, Register, Ends, Locking, Changing, Tapping
<1>6. CASE job[c].at = "word" /\ job[c].name \in Names
  BY <1>1, <1>3, <1>4, <1>6 DEF OnWord, OnMac, OnTap, At, Register, Ends, Changing, Tapping
<1>7. CASE job[c].at \in Changing /\ job[c].name \in Ends
  BY <1>1, <1>3, <1>4, <1>7 DEF OnWord, OnMac, OnTap, At, Register, Ends, Changing, Tapping
<1>8. CASE job[c].at \in Tapping /\ job[c].name = "tap"
  BY <1>1, <1>3, <1>4, <1>8 DEF OnWord, OnMac, OnTap, At, Register, Ends, Changing, Tapping
<1> QED
  BY <1>2, <1>3, <1>4, <1>5, <1>6, <1>7, <1>8 DEF IsJob

LEMMA Starting ==
  ASSUME Jobs, NEW c \in Clis, At(c, "idle"), NEW at, NEW n, NEW v, Starts(c, at, n, v),
         IsJob([at |-> at, name |-> n, val |-> v, seen |-> 0])
  PROVE  /\ Jobs' /\ \A d \in Clis \ {c} : job'[d] = job[d]
         /\ job'[c] = [at |-> at, name |-> n, val |-> v, seen |-> 0]
         /\ astray \subseteq astray'
         /\ Register(n) \notin astray' => \A d \in Clis \ {c} : Register(job[d].name) # Register(n)
BY JobSet DEF Starts

-----------------------------------------------------------------------------
(* Sequences and files: a save writes as many lines as any file has.       *)
LEMMA SeqShape ==
  ASSUME NEW s, NEW n \in Nat, s = [i \in 1 .. n |-> s[i]]
  PROVE  IsLines(s) /\ Len(s) = n
<1>1. DOMAIN s = 1 .. n
  OBVIOUS
<1>2. s \in [1 .. n -> {s[k] : k \in DOMAIN s}]
  BY <1>1
<1>3. s \in Seq({s[k] : k \in DOMAIN s})
  BY <1>2
<1>4. Len(s) = n
  BY <1>1, <1>3
<1> QED
  BY <1>3, <1>4 DEF IsLines

LEMMA NoLines ==
  ASSUME NEW s, s = <<>>
  PROVE  IsLines(s) /\ Len(s) = 0
<1>1. Len(s) = 0
  OBVIOUS
<1>2. s = [i \in 1 .. 0 |-> s[i]] /\ 0 \in Nat
  OBVIOUS
<1>3. IsLines(s)
  BY <1>2, SeqShape
<1> QED
  BY <1>1, <1>3

LEMMA PrintedSeq ==
  ASSUME NEW p
  PROVE  IsLines(Printed(p)) /\ Len(Printed(p)) = N /\ N \in Nat \ {0}
<1>1. N \in Nat \ {0}
  BY DEF N, Layout
<1> HIDE DEF N
<1>2. Printed(p) = [i \in 1 .. N |-> [item |-> Layout[i], val |-> p[Layout[i]]]]
  BY DEF Printed, N
<1>3. \A i \in 1 .. N : Printed(p)[i] = [item |-> Layout[i], val |-> p[Layout[i]]]
  BY <1>2
<1>4. Printed(p) = [i \in 1 .. N |-> Printed(p)[i]]
  BY <1>2, <1>3
<1>5. IsLines(Printed(p))
  BY <1>1, <1>4, SeqShape
<1> QED
  BY <1>1, <1>2, <1>5

(* Lines written over a file.                                              *)
LEMMA OverWrite ==
  ASSUME NEW s, NEW t, IsLines(s), IsLines(t)
  PROVE  LET w == s \o SubSeq(t, Len(s) + 1, Len(t))
         IN  /\ IsLines(w)
             /\ Len(w) = IF Len(s) < Len(t) THEN Len(t) ELSE Len(s)
             /\ Len(t) <= Len(s) => w = s
             /\ s = <<>> => w = t
<1> DEFINE S == {s[i] : i \in DOMAIN s} \cup {t[i] : i \in DOMAIN t}
           w == s \o SubSeq(t, Len(s) + 1, Len(t))
<1>1. s \in Seq(S) /\ t \in Seq(S)
  BY DEF IsLines
<1> HIDE DEF S
<1>2. w \in Seq(S) /\ Len(w) = (IF Len(s) < Len(t) THEN Len(t) ELSE Len(s))
  BY <1>1
<1>3. Len(w) \in Nat /\ w = [i \in 1 .. Len(w) |-> w[i]]
  BY <1>2
<1>4. IsLines(w)
  BY <1>3, SeqShape
<1>5. Len(t) <= Len(s) => w = s
  BY <1>1
<1>6. s = <<>> => w = t
  BY <1>1
<1> QED
  BY <1>2, <1>4, <1>5, <1>6

LEMMA InitInv == Init => IInv
<1> SUFFICES ASSUME Init PROVE IInv
  OBVIOUS
<1> USE ConfigAssumption DEF Init
<1>1. Types
  BY DEF Types, Bit, Halves, TapReg
<1>2. Jobs /\ \A c \in Clis : job[c].at = "idle" /\ c # NoCli
  BY DEF Jobs, IsJob, Idle
<1>3. Locked
  BY <1>2 DEF Locked, Locking
<1>4. Words
  BY <1>2 DEF Words, OnWord, At
<1>5. Macs
  BY <1>2 DEF Macs, OnMac, Changing
<1>6. Taps
  BY <1>2 DEF Taps, OnTap, Tapping
<1>7. Files
  <2>1. FileTypes
    <3>1. \A k \in 0 .. MaxCmds : inode[k] = Printed(Factory) \/ inode[k] = <<>>
      OBVIOUS
    <3>2. ASSUME NEW k \in 0 .. MaxCmds PROVE IsLines(inode[k]) /\ Len(inode[k]) <= N
      <4>1. IsLines(Printed(Factory)) /\ Len(Printed(Factory)) = N /\ N \in Nat
        BY PrintedSeq
      <4> HIDE DEF N
      <4>2. CASE inode[k] = <<>>
        <5>1. IsLines(inode[k])
          BY <4>2, NoLines
        <5>2. Len(inode[k]) = 0
          BY <4>2
        <5> QED
          BY <4>1, <5>1, <5>2
      <4>3. CASE inode[k] = Printed(Factory)
        BY <4>1, <4>3
      <4> QED
        BY <3>1, <4>2, <4>3
    <3>3. inode = [k \in 0 .. MaxCmds |-> inode[k]] /\ left = [c \in Clis |-> left[c]]
      OBVIOUS
    <3> QED
      BY <3>2, <3>3 DEF FileTypes
  <2>2. Fresh /\ Written /\ TmpWhole /\ ConfWhole
    BY <1>2 DEF Fresh, Written, TmpWhole, ConfWhole, At
  <2> QED
    BY <2>1, <2>2 DEF Files
<1> QED
  BY <1>1, <1>2, <1>3, <1>4, <1>5, <1>6, <1>7 DEF IInv, Settings

-----------------------------------------------------------------------------
(* The words.                                                              *)
LEMMA SetWordInv ==
  ASSUME NEW c \in Clis, NEW v \in {0, 1}, NEW n \in Names, IInv, cli_set_word(c, n, v)
  PROVE  IInv'
<1> USE DEF cli_set_word, IInv, Settings
<1> DEFINE j == [at |-> "word", name |-> n, val |-> v, seen |-> 0]
<1>1. IsJob(j)
  BY DEF IsJob, Bit
<1>2. /\ Jobs' /\ (\A d \in Clis \ {c} : job'[d] = job[d])
      /\ job'[c] = j
      /\ astray \subseteq astray'
      /\ Register(n) \notin astray' => \A d \in Clis \ {c} : Register(job[d].name) # Register(n)
  BY <1>1, Starting
<1>3. job[c].at = "idle" /\ job'[c].at = "word" /\ job'[c].name = n /\ job'[c].val = v
  BY <1>2 DEF At
<1> HIDE DEF j
<1>4. Types'
  BY DEF Types, Bit, device, bypass
<1>5. Locked'
  BY <1>2, <1>3, LockFrame DEF Locking
<1>6. Macs' /\ Taps'
  BY <1>2, <1>3, MacsFrame, TapsFrame DEF Changing, Tapping, device, bypass
<1>7. Files'
  BY <1>2, <1>3, FilesFrame DEF files
<1>8. Words'
  <2> SUFFICES ASSUME NEW m \in (Names \cap Wired(board)) \ astray' PROVE
        /\ \A a, d \in Clis : OnWord(a, m)' /\ OnWord(d, m)' => a = d
        /\ \A d \in Clis : OnWord(d, m)' => job'[d].val = word'[m]
        /\ \A a \in Clis : At(a, "reset")' \/ At(a, "dbreset")' =>
             m \in DevReset(board) /\ \A d \in Clis : ~OnWord(d, m)'
        /\ \A a \in Clis : At(a, "dbreset")' => reg'[m] = 0
        /\ (\A a \in Clis : ~At(a, "dbreset")' /\ ~OnWord(a, m)') => reg'[m] = word'[m]
    BY DEF Words
  <2>1. \A d \in Clis : ~At(d, "reset")' /\ ~At(d, "dbreset")'
                        /\ ~At(d, "reset") /\ ~At(d, "dbreset")
    BY <1>2, <1>3, ConfigAssumption DEF Locked, Locking, At
  <2>2. m \in (Names \cap Wired(board)) \ astray /\ reg' = reg
    BY <1>2 DEF device
  <2>3. CASE m = n
    <3>1. \A d \in Clis \ {c} : ~OnWord(d, m)
      BY <2>3, <1>2, Crossed
    <3>2. \A d \in Clis \ {c} : ~OnWord(d, m)'
      BY <3>1, <1>2 DEF OnWord, At
    <3>3. OnWord(c, m)' /\ word'[m] = v
      BY <1>3, <2>3 DEF OnWord, At, Types
    <3> QED
      BY <2>1, <3>2, <3>3, <1>3
  <2>4. CASE m # n
    <3>1. \A d \in Clis : OnWord(d, m)' <=> OnWord(d, m)
      BY <2>4, <1>2, <1>3 DEF OnWord, At
    <3>2. word'[m] = word[m] /\ ~OnWord(c, m)
      BY <2>4, <1>3 DEF Types, OnWord, At
    <3> QED
      BY <2>1, <2>2, <3>1, <3>2, <1>2 DEF Words
  <2> QED
    BY <2>3, <2>4
<1> QED
  BY <1>2, <1>4, <1>5, <1>6, <1>7, <1>8

LEMMA DrvWordInv == ASSUME NEW c \in Clis, IInv, drv_set_word(c) PROVE IInv'
<1> USE DEF drv_set_word, IInv, Settings
<1>1. Jobs' /\ job'[c] = Idle /\ \A d \in Clis \ {c} : job'[d] = job[d]
  BY JobStops
<1>2. job[c].at = "word" /\ job'[c].at = "idle" /\ job[c].name \in Names /\ job[c].val \in Bit
  BY <1>1 DEF At, Idle, Jobs, IsJob, Locking, Changing, Tapping
<1>3. Types'
  BY <1>2 DEF Types, database, bypass
<1>4. Locked'
  BY <1>1, <1>2, LockFrame DEF Locking
<1>5. Macs' /\ Taps'
  BY <1>1, <1>2, MacsFrame, TapsFrame DEF Changing, Tapping, database, bypass
<1>6. Files'
  BY <1>1, <1>2, FilesFrame DEF files, counts
<1>7. Words'
  <2> SUFFICES ASSUME NEW m \in (Names \cap Wired(board)) \ astray PROVE
        /\ \A a, d \in Clis : OnWord(a, m)' /\ OnWord(d, m)' => a = d
        /\ \A d \in Clis : OnWord(d, m)' => job'[d].val = word'[m]
        /\ \A a \in Clis : At(a, "reset")' \/ At(a, "dbreset")' =>
             m \in DevReset(board) /\ \A d \in Clis : ~OnWord(d, m)'
        /\ \A a \in Clis : At(a, "dbreset")' => reg'[m] = 0
        /\ (\A a \in Clis : ~At(a, "dbreset")' /\ ~OnWord(a, m)') => reg'[m] = word'[m]
    BY DEF Words
  <2>1. \A d \in Clis : /\ OnWord(d, m)' => OnWord(d, m) /\ d # c /\ job'[d] = job[d]
                        /\ OnWord(d, m) => OnWord(d, m)' \/ d = c
                        /\ At(d, "reset")' <=> At(d, "reset")
                        /\ At(d, "dbreset")' <=> At(d, "dbreset")
    BY <1>1, <1>2 DEF OnWord, At
  <2>2. word' = word
    BY DEF database
  <2>3. CASE job[c].name = m
    <3>1. OnWord(c, m) /\ reg'[m] = job[c].val
      BY <1>2, <2>3 DEF OnWord, At, Types
    <3>2. reg'[m] = word[m]
      BY <3>1 DEF Words
    <3> QED
      BY <2>1, <2>2, <3>1, <3>2 DEF Words
  <2>4. CASE job[c].name # m
    <3>1. reg'[m] = reg[m] /\ ~OnWord(c, m)
      BY <2>4 DEF Types, OnWord
    <3> QED
      BY <2>1, <2>2, <3>1 DEF Words
  <2> QED
    BY <2>3, <2>4
<1> QED
  BY <1>1, <1>3, <1>4, <1>5, <1>6, <1>7

-----------------------------------------------------------------------------
(* A reset: the registers it leaves out and those a command is on its way  *)
(* to are given up, the others are 0 on both sides in the end.             *)
LEMMA ResetInv == ASSUME NEW c \in Clis, IInv, cli_reset_default_config(c) PROVE IInv'
<1> USE DEF cli_reset_default_config, IInv, Settings
<1> DEFINE j == [Idle EXCEPT !.at = "reset"]
<1>1. IsJob(j)
  BY DEF IsJob, Idle, Locking
<1>2. Jobs' /\ job'[c] = j /\ \A d \in Clis \ {c} : job'[d] = job[d]
  BY <1>1, JobSet
<1>3. job[c].at = "idle" /\ job'[c].at = "reset" /\ astray \subseteq astray'
  BY <1>2 DEF At, Idle
<1> HIDE DEF j
<1>4. Types'
  BY DEF Types, database, device, bypass
<1>5. Locked'
  BY <1>2, <1>3, ConfigAssumption DEF Locked, Locking
<1>6. Macs' /\ Taps'
  BY <1>2, <1>3, MacsFrame, TapsFrame DEF Changing, Tapping, database, device, bypass
<1>7. Files'
  BY <1>2, <1>3, FilesFrame DEF files
<1>8. Words'
  <2> SUFFICES ASSUME NEW m \in (Names \cap Wired(board)) \ astray' PROVE
        /\ \A a, d \in Clis : OnWord(a, m)' /\ OnWord(d, m)' => a = d
        /\ \A d \in Clis : OnWord(d, m)' => job'[d].val = word'[m]
        /\ \A a \in Clis : At(a, "reset")' \/ At(a, "dbreset")' =>
             m \in DevReset(board) /\ \A d \in Clis : ~OnWord(d, m)'
        /\ \A a \in Clis : At(a, "dbreset")' => reg'[m] = 0
        /\ (\A a \in Clis : ~At(a, "dbreset")' /\ ~OnWord(a, m)') => reg'[m] = word'[m]
    BY DEF Words
  <2>1. m \in DevReset(board) /\ \A d \in Clis : ~OnWord(d, m)
    BY DEF OnWord
  <2>2. \A d \in Clis : ~OnWord(d, m)'
    BY <2>1, <1>2, <1>3 DEF OnWord, At
  <2>3. \A d \in Clis : ~At(d, "dbreset") /\ ~At(d, "dbreset")'
    BY <1>2, <1>3, ConfigAssumption DEF Locked, Locking, At
  <2>4. m \in (Names \cap Wired(board)) \ astray /\ reg' = reg /\ word' = word
    BY <1>3 DEF device, database
  <2> QED
    BY <2>1, <2>2, <2>3, <2>4 DEF Words
<1> QED
  BY <1>2, <1>4, <1>5, <1>6, <1>7, <1>8

LEMMA DeviceResetInv ==
  ASSUME NEW c \in Clis, IInv, drv_reset_global_default_config(c) PROVE IInv'
<1> USE DEF drv_reset_global_default_config, IInv, Settings
<1>1. job[c].at = "reset" /\ job[c].name = "none"
  BY DEF At, Jobs, IsJob, Changing, Tapping
<1>2. IsJob([at |-> "dbreset", name |-> job[c].name, val |-> job[c].val, seen |-> job[c].seen])
  BY <1>1 DEF IsJob, Locking
<1>3. Jobs' /\ (\A d \in Clis \ {c} : job'[d] = job[d]) /\ job'[c].at = "dbreset"
  BY <1>2, JobGoes DEF Goes
<1>4. Types'
  BY DEF Types, Bit, database, bypass
<1>5. Locked'
  BY <1>1, <1>3, LockFrame DEF Locking
<1>6. Macs' /\ Taps'
  BY <1>1, <1>3, MacsFrame, TapsFrame DEF Changing, Tapping, database, bypass
<1>7. Files'
  BY <1>1, <1>3, FilesFrame DEF files, counts
<1>8. Words'
  <2> SUFFICES ASSUME NEW m \in (Names \cap Wired(board)) \ astray PROVE
        /\ \A d \in Clis : ~OnWord(d, m)'
        /\ m \in DevReset(board)
        /\ reg'[m] = 0 /\ At(c, "dbreset")'
    BY DEF Words
  <2>1. m \in DevReset(board) /\ \A d \in Clis : ~OnWord(d, m)
    BY DEF Words
  <2> QED
    BY <2>1, <1>1, <1>3 DEF OnWord, At
<1> QED
  BY <1>3, <1>4, <1>5, <1>6, <1>7, <1>8

LEMMA DatabaseResetInv ==
  ASSUME NEW c \in Clis, IInv, db_reset_global_default_conf(c) PROVE IInv'
<1> USE DEF db_reset_global_default_conf, IInv, Settings
<1>1. Jobs' /\ job'[c] = Idle /\ \A d \in Clis \ {c} : job'[d] = job[d]
  BY JobStops
<1>2. job[c].at = "dbreset" /\ job'[c].at = "idle"
  BY <1>1 DEF At, Idle
<1>3. Types'
  BY DEF Types, Bit, device, bypass
<1>4. Locked'
  BY <1>1, <1>2, ConfigAssumption DEF Locked, Locking
<1>5. Macs' /\ Taps'
  BY <1>1, <1>2, MacsFrame, TapsFrame DEF Changing, Tapping, device, bypass
<1>6. Files'
  BY <1>1, <1>2, FilesFrame DEF files, counts
<1>7. Words'
  <2> SUFFICES ASSUME NEW m \in (Names \cap Wired(board)) \ astray PROVE
        /\ \A d \in Clis : ~OnWord(d, m)' /\ ~At(d, "reset")' /\ ~At(d, "dbreset")'
        /\ reg'[m] = word'[m]
    BY DEF Words
  <2>1. \A d \in Clis : ~OnWord(d, m) /\ reg[m] = 0
    BY DEF Words
  <2>2. \A d \in Clis \ {c} : job[d].at \notin Locking
    BY <1>2 DEF Locked, Locking
  <2>3. reg'[m] = 0 /\ word'[m] = 0
    BY <2>1 DEF device
  <2> QED
    BY <2>1, <2>2, <2>3, <1>1, <1>2 DEF OnWord, At, Locking
<1> QED
  BY <1>1, <1>3, <1>4, <1>5, <1>6, <1>7

-----------------------------------------------------------------------------
(* The MAC addresses.                                                      *)
LEMMA SetMacInv ==
  ASSUME NEW c \in Clis, NEW v \in {0, 1}, NEW e \in Ends, IInv, cli_set_eth_mac(c, e, v)
  PROVE  IInv'
<1> USE DEF cli_set_eth_mac, IInv, Settings
<1> DEFINE j == [at |-> "mac", name |-> e, val |-> v, seen |-> 0]
<1>1. IsJob(j)
  BY DEF IsJob, Bit, Changing
<1>2. /\ Jobs' /\ (\A d \in Clis \ {c} : job'[d] = job[d])
      /\ job'[c] = j
      /\ astray \subseteq astray'
      /\ Register(e) \notin astray' => \A d \in Clis \ {c} : Register(job[d].name) # Register(e)
  BY <1>1, Starting
<1>3. job[c].at = "idle" /\ job'[c].at = "mac" /\ job'[c].name = e /\ job'[c].val = v
  BY <1>2 DEF At
<1> HIDE DEF j
<1>4. Types'
  BY DEF Types, Bit, device, bypass
<1>5. Locked'
  BY <1>2, <1>3, LockFrame DEF Locking
<1>6. Words' /\ Taps'
  BY <1>2, <1>3, WordsFrame, TapsFrame DEF Tapping, device, bypass
<1>7. Files'
  BY <1>2, <1>3, FilesFrame DEF files
<1>8. Macs'
  <2> SUFFICES ASSUME "mac" \notin astray' PROVE Macs'
    BY DEF Macs
  <2>1. \A d \in Clis \ {c} : ~OnMac(d)
    BY <1>2, Crossed
  <2>2. \A d \in Clis : ~OnMac(d)
    BY <2>1, <1>3 DEF OnMac, Changing
  <2>3. addr = [low |-> mac, high |-> mac]
    BY <2>2, <1>2 DEF Macs
  <2>4. mac'[e] = v /\ \A o \in Ends \ {e} : mac'[o] = mac[o]
    BY DEF Types
  <2>5. \A d \in Clis : OnMac(d)' <=> d = c
    BY <2>1, <1>2, <1>3 DEF OnMac, Changing
  <2>6. addr' = addr /\ addr.low = mac /\ addr.high = mac
    BY <2>3 DEF device
  <2> QED
    BY <1>3, <2>4, <2>5, <2>6 DEF Macs
<1> QED
  BY <1>2, <1>4, <1>5, <1>6, <1>7, <1>8

(* One step of the driver, when no other command is on the registers.      *)
LEMMA DrvMacInv == ASSUME NEW c \in Clis, IInv, drv_set_eth_mac(c) PROVE IInv'
<1> USE DEF IInv, Settings
<1> DEFINE high == [o \in Ends |-> IF o = job[c].name THEN job[c].val ELSE job[c].seen[o]]
           e == job[c].name
           v == job[c].val
<1>1. MacStep(c, high) /\ MacFrame
  BY DEF drv_set_eth_mac
<1>2. /\ OnMac(c) /\ e \in Ends /\ v \in Bit /\ (job[c].at # "mac" => job[c].seen \in [Ends -> Bit])
      /\ job[c].at \notin Locking \cup Tapping \cup {"word", "opened", "idle"}
  BY <1>1 DEF MacStep, OnMac, Changing, At, Jobs, IsJob, Locking, Tapping
<1>3. addr \in Halves /\ mac \in [Ends -> Bit]
  BY DEF Types
<1>4. /\ Jobs' /\ (\A d \in Clis \ {c} : job'[d] = job[d]) /\ addr' \in Halves /\ latched' \in Halves
      /\ \/ /\ job[c].at = "mac" /\ job'[c].at = "low" /\ job'[c].seen = addr.high
            /\ job'[c].name = e /\ job'[c].val = v
            /\ UNCHANGED <<addr, latched>>
         \/ /\ job[c].at = "low" /\ job'[c].at = "high" /\ job'[c].seen = job[c].seen
            /\ job'[c].name = e /\ job'[c].val = v
            /\ addr' = [addr EXCEPT !.low[e] = v] /\ UNCHANGED latched
         \/ /\ job[c].at = "high" /\ job'[c].at = "latch" /\ job'[c].seen = job[c].seen
            /\ job'[c].name = e /\ job'[c].val = v
            /\ addr' = [addr EXCEPT !.high = high] /\ UNCHANGED latched
         \/ /\ job[c].at = "latch" /\ job'[c].at = "idle"
            /\ latched' = addr /\ UNCHANGED addr
  <2>1. CASE At(c, "mac") /\ job' = [job EXCEPT ![c].at = "low", ![c].seen = addr.high]
             /\ UNCHANGED <<addr, latched>>
    <3>1. addr.high \in [Ends -> Bit]
      BY <1>3 DEF Halves
    <3>2. IsJob([at |-> "low", name |-> job[c].name, val |-> job[c].val, seen |-> addr.high])
      BY <1>2, <3>1 DEF IsJob, Changing
    <3>3. /\ Jobs' /\ \A d \in Clis \ {c} : job'[d] = job[d]
          /\ job'[c].at = "low" /\ job'[c].seen = addr.high
          /\ job'[c].name = job[c].name /\ job'[c].val = job[c].val
      BY <2>1, <3>2, JobGoes
    <3> QED
      BY <2>1, <3>3, <1>3 DEF At, Types
  <2>2. CASE At(c, "low") /\ Goes(c, "high") /\ addr' = [addr EXCEPT !.low[e] = v]
             /\ UNCHANGED latched
    <3>1. IsJob([at |-> "high", name |-> job[c].name, val |-> job[c].val, seen |-> job[c].seen])
      BY <2>2, <1>2 DEF IsJob, Changing, At
    <3>2. /\ Jobs' /\ \A d \in Clis \ {c} : job'[d] = job[d]
          /\ job'[c].at = "high" /\ job'[c].seen = job[c].seen
          /\ job'[c].name = job[c].name /\ job'[c].val = job[c].val
      BY <2>2, <3>1, JobGoes DEF Goes
    <3>3. addr' \in Halves
      BY <2>2, <1>2, <1>3 DEF Halves
    <3> QED
      BY <2>2, <3>2, <3>3 DEF At, Types
  <2>3. CASE At(c, "high") /\ Goes(c, "latch") /\ addr' = [addr EXCEPT !.high = high]
             /\ UNCHANGED latched
    <3>1. IsJob([at |-> "latch", name |-> job[c].name, val |-> job[c].val, seen |-> job[c].seen])
      BY <2>3, <1>2 DEF IsJob, Changing, At
    <3>2. /\ Jobs' /\ \A d \in Clis \ {c} : job'[d] = job[d]
          /\ job'[c].at = "latch" /\ job'[c].seen = job[c].seen
          /\ job'[c].name = job[c].name /\ job'[c].val = job[c].val
      BY <2>3, <3>1, JobGoes DEF Goes
    <3>3. high \in [Ends -> Bit]
      BY <2>3, <1>2 DEF At
    <3>4. addr' \in Halves
      BY <2>3, <3>3, <1>3 DEF Halves
    <3> QED
      BY <2>3, <3>2, <3>4 DEF At, Types
  <2>4. CASE At(c, "latch") /\ Stops(c) /\ latched' = addr /\ UNCHANGED addr
    <3>1. Jobs' /\ job'[c] = Idle /\ \A d \in Clis \ {c} : job'[d] = job[d]
      BY <2>4, JobStops
    <3> QED
      BY <2>4, <3>1, <1>3 DEF At, Idle
  <2> QED
    BY <1>1, <2>1, <2>2, <2>3, <2>4 DEF MacStep
<1>5. /\ UNCHANGED <<board, lock, word, mac, port, reg, tap, wanted, inode, conf, tmp, left, saved,
                     smeared, monitor, astray, cmds, faults>>
      /\ job'[c].at \notin Locking \cup Tapping \cup {"word", "opened"}
  BY <1>1, <1>4 DEF MacFrame, database, bypass, files, counts, Locking, Tapping
<1>6. Types'
  BY <1>4, <1>5 DEF Types
<1>7. Locked'
  BY <1>2, <1>4, <1>5, LockFrame
<1>8. Words' /\ Taps'
  <2>1. UNCHANGED <<board, word, reg, tap, wanted, monitor>> /\ astray \subseteq astray'
    BY <1>5
  <2>2. \A d \in Clis : job'[d] = job[d]
                        \/ {job[d].at, job'[d].at} \cap {"word", "reset", "dbreset"} = {}
    BY <1>2, <1>4, <1>5 DEF Locking
  <2>3. \A d \in Clis : job'[d] = job[d] \/ {job[d].at, job'[d].at} \cap Tapping = {}
    BY <1>2, <1>4, <1>5
  <2> QED
    BY <2>1, <2>2, <2>3, WordsFrame, TapsFrame
<1>9. Files'
  <2>1. \A d \in Clis : job'[d] = job[d] \/ {job[d].at, job'[d].at} \cap {"opened", "closed"} = {}
    BY <1>2, <1>4, <1>5 DEF Locking
  <2> QED
    BY <2>1, <1>5, FilesFrame
<1>10. Macs'
  <2> SUFFICES ASSUME "mac" \notin astray PROVE Macs'
    BY <1>5 DEF Macs
  <2>1. \A d \in Clis \ {c} : ~OnMac(d) /\ ~OnMac(d)'
    BY <1>2, <1>4 DEF Macs, OnMac
  <2>2. /\ v = mac[e]
        /\ \A o \in Ends \ {e} : addr.low[o] = mac[o] /\ addr.high[o] = mac[o]
                                 /\ (job[c].at # "mac" => job[c].seen[o] = mac[o])
        /\ job[c].at \in {"high", "latch"} => addr.low[e] = mac[e]
        /\ job[c].at = "latch" => addr.high[e] = mac[e]
    BY <1>2 DEF Macs
  <2>3. addr.low \in [Ends -> Bit] /\ addr.high \in [Ends -> Bit]
    BY <1>3 DEF Halves
  <2>4. CASE job[c].at = "mac" /\ job'[c].at = "low" /\ job'[c].seen = addr.high
             /\ job'[c].name = e /\ job'[c].val = v /\ UNCHANGED <<addr, latched>>
    BY <2>1, <2>2, <2>4, <1>5 DEF Macs, OnMac, Changing
  <2>5. CASE job[c].at = "low" /\ job'[c].at = "high" /\ job'[c].seen = job[c].seen
             /\ job'[c].name = e /\ job'[c].val = v
             /\ addr' = [addr EXCEPT !.low[e] = v] /\ UNCHANGED latched
    <3>1. addr'.low[e] = v /\ addr'.high = addr.high
          /\ \A o \in Ends \ {e} : addr'.low[o] = addr.low[o]
      BY <2>3, <2>5, <1>2, <1>3 DEF Halves
    <3> QED
      BY <2>1, <2>2, <2>5, <3>1, <1>5 DEF Macs, OnMac, Changing
  <2>6. CASE job[c].at = "high" /\ job'[c].at = "latch" /\ job'[c].seen = job[c].seen
             /\ job'[c].name = e /\ job'[c].val = v
             /\ addr' = [addr EXCEPT !.high = high] /\ UNCHANGED latched
    <3>1. addr'.low = addr.low /\ addr'.high = high
      BY <2>6, <1>3 DEF Halves
    <3>2. addr'.high[e] = v /\ \A o \in Ends \ {e} : addr'.high[o] = job[c].seen[o]
      BY <3>1, <1>2
    <3> QED
      BY <2>1, <2>2, <2>6, <3>1, <3>2, <1>5 DEF Macs, OnMac, Changing
  <2>7. CASE job[c].at = "latch" /\ job'[c].at = "idle" /\ latched' = addr /\ UNCHANGED addr
    <3>1. addr.low = mac /\ addr.high = mac
      BY <2>2, <2>3, <2>7, <1>2, <1>3
    <3>2. addr = [low |-> mac, high |-> mac]
      BY <3>1, <1>3 DEF Halves
    <3>3. \A d \in Clis : ~OnMac(d)'
      BY <2>1, <2>7 DEF OnMac, Changing
    <3> QED
      BY <2>7, <3>2, <3>3, <1>5 DEF Macs
  <2> QED
    BY <1>4, <2>4, <2>5, <2>6, <2>7
<1> QED
  BY <1>4, <1>6, <1>7, <1>8, <1>9, <1>10

-----------------------------------------------------------------------------
(* The bypass lines.                                                       *)
LEMMA SetTapInv ==
  ASSUME NEW c \in Clis, NEW pbmp \in SUBSET Lines, NEW normal \in BOOLEAN, IInv,
         cli_bypass_set(c, pbmp, normal)
  PROVE  IInv'
<1> USE DEF cli_bypass_set, IInv, Settings
<1> DEFINE j == [at |-> "tap", name |-> "tap", val |-> <<pbmp, normal>>, seen |-> 0]
<1>1. IsJob(j)
  BY DEF IsJob, Tapping, Changing, Locking
<1>2. /\ Jobs' /\ (\A d \in Clis \ {c} : job'[d] = job[d]) /\ job'[c] = j
  BY <1>1, JobSet
<1>3. /\ job[c].at = "idle" /\ job'[c].at = "tap" /\ job'[c].val = <<pbmp, normal>>
      /\ astray \subseteq astray'
  BY <1>2 DEF At
<1> HIDE DEF j
<1>4. Types'
  BY DEF Types, database, device
<1>5. Locked'
  BY <1>2, <1>3, LockFrame DEF Locking
<1>6. Words' /\ Macs'
  BY <1>2, <1>3, WordsFrame, MacsFrame DEF Changing, database, device
<1>7. Files'
  BY <1>2, <1>3, FilesFrame DEF files
<1>8. Taps'
  <2> SUFFICES ASSUME "tap" \notin astray' PROVE Taps'
    BY DEF Taps
  <2>1. monitor.at # "set" /\ \A d \in Clis : job[d].name # "tap"
    OBVIOUS
  <2>2. \A d \in Clis : ~OnTap(d)
    BY <2>1, Crossed
  <2>3. "tap" \notin astray /\ tap.lines = wanted /\ monitor.at = "get"
    BY <2>1, <2>2, <1>3 DEF Taps, Types
  <2>4. \A d \in Clis : OnTap(d)' <=> d = c
    BY <2>2, <1>2, <1>3 DEF OnTap, Tapping
  <2>5. wanted' = Applied(tap.lines, job'[c].val)
    <3>1. job'[c].val[1] = pbmp /\ job'[c].val[2] = normal
      BY <1>3
    <3>2. CASE normal = TRUE
      BY <3>1, <3>2, <2>3 DEF Applied
    <3>3. CASE normal = FALSE
      BY <3>1, <3>3, <2>3 DEF Applied
    <3> QED
      BY <3>2, <3>3
  <2> QED
    BY <2>3, <2>4, <2>5, <1>3 DEF Taps, At, Applied
<1> QED
  BY <1>2, <1>4, <1>5, <1>6, <1>7, <1>8

LEMMA DrvTapInv == ASSUME NEW c \in Clis, IInv, drv_bypass_set(c) PROVE IInv'
<1> USE DEF drv_bypass_set, IInv, Settings
<1>1. /\ OnTap(c) /\ job[c].val \in (SUBSET Lines) \X BOOLEAN /\ job[c].name = "tap"
      /\ job[c].at = "tapset" => job[c].seen \in TapReg
      /\ job[c].at \notin Locking \cup Changing \cup {"word", "opened", "idle"}
  BY DEF OnTap, Tapping, At, Jobs, IsJob, Locking, Changing
<1>2. /\ UNCHANGED <<board, lock, word, mac, port, reg, addr, latched, wanted, inode, conf, tmp,
                     left, saved, smeared, monitor, astray, cmds, faults>>
  BY DEF database, device, files, counts
<1>3. tap \in TapReg /\ wanted \in SUBSET Lines
  BY DEF Types
<1>4. /\ Jobs' /\ (\A d \in Clis \ {c} : job'[d] = job[d]) /\ tap' \in TapReg
      /\ \/ /\ job[c].at = "tap" /\ job'[c].at = "tapset" /\ job'[c].seen = tap
            /\ job'[c].val = job[c].val /\ tap' = tap
         \/ /\ job[c].at = "tapset" /\ job'[c].at = "idle"
            /\ tap'.lines = Applied(job[c].seen.lines, job[c].val)
  <2>1. CASE At(c, "tap") /\ job' = [job EXCEPT ![c].at = "tapset", ![c].seen = tap] /\ tap' = tap
    <3>1. IsJob([at |-> "tapset", name |-> job[c].name, val |-> job[c].val, seen |-> tap])
      BY <1>1, <1>3 DEF IsJob, Tapping
    <3>2. /\ Jobs' /\ \A d \in Clis \ {c} : job'[d] = job[d]
          /\ job'[c].at = "tapset" /\ job'[c].seen = tap
          /\ job'[c].name = job[c].name /\ job'[c].val = job[c].val
      BY <2>1, <3>1, JobGoes
    <3> QED
      BY <2>1, <3>2, <1>3 DEF At
  <2>2. CASE /\ At(c, "tapset") /\ Stops(c)
             /\ tap' = [job[c].seen EXCEPT !.lines = IF job[c].val[2] THEN @ \cup job[c].val[1]
                                                     ELSE @ \ job[c].val[1]]
    <3>1. Jobs' /\ job'[c] = Idle /\ \A d \in Clis \ {c} : job'[d] = job[d]
      BY <2>2, JobStops
    <3>2. job[c].seen \in TapReg /\ job[c].val[1] \in SUBSET Lines
      BY <2>2, <1>1 DEF At
    <3>3. tap' = [job[c].seen EXCEPT !.lines = Applied(job[c].seen.lines, job[c].val)]
      BY <2>2 DEF Applied
    <3>4. Applied(job[c].seen.lines, job[c].val) \in SUBSET Lines
      BY <3>2 DEF Applied, TapReg
    <3>5. tap' \in TapReg /\ tap'.lines = Applied(job[c].seen.lines, job[c].val)
      BY <3>2, <3>3, <3>4 DEF TapReg
    <3> QED
      BY <2>2, <3>1, <3>5 DEF At, Idle
  <2> QED
    BY <2>1, <2>2
<1>5. job'[c].at \notin Locking \cup Changing \cup {"word", "opened"}
  BY <1>4 DEF Locking, Changing
<1>6. Types'
  BY <1>2, <1>4 DEF Types
<1>7. Locked'
  BY <1>1, <1>2, <1>4, <1>5, LockFrame
<1>8. Words' /\ Macs'
  <2>1. \A d \in Clis : job'[d] = job[d]
                        \/ {job[d].at, job'[d].at} \cap {"word", "reset", "dbreset"} = {}
    BY <1>1, <1>4, <1>5 DEF Locking
  <2>2. \A d \in Clis : job'[d] = job[d] \/ {job[d].at, job'[d].at} \cap Changing = {}
    BY <1>1, <1>4, <1>5
  <2>3. UNCHANGED <<board, word, reg, mac, addr, latched>> /\ astray \subseteq astray'
    BY <1>2
  <2> QED
    BY <2>1, <2>2, <2>3, WordsFrame, MacsFrame
<1>9. Files'
  <2>1. \A d \in Clis : job'[d] = job[d] \/ {job[d].at, job'[d].at} \cap {"opened", "closed"} = {}
    BY <1>1, <1>4, <1>5 DEF Locking
  <2> QED
    BY <2>1, <1>2, FilesFrame
<1>10. Taps'
  <2> SUFFICES ASSUME "tap" \notin astray PROVE Taps'
    BY <1>2 DEF Taps
  <2>1. \A d \in Clis \ {c} : ~OnTap(d) /\ ~OnTap(d)'
    BY <1>1, <1>4 DEF Taps, OnTap
  <2>2. /\ monitor.at = "get"
        /\ wanted = Applied(IF job[c].at = "tap" THEN tap.lines ELSE job[c].seen.lines, job[c].val)
    BY <1>1 DEF Taps, At
  <2>3. CASE job[c].at = "tap" /\ job'[c].at = "tapset" /\ job'[c].seen = tap
             /\ job'[c].val = job[c].val /\ tap' = tap
    <3>1. wanted' = Applied(job'[c].seen.lines, job'[c].val) /\ monitor'.at = "get"
      BY <2>2, <2>3, <1>2
    <3>2. \A d \in Clis : OnTap(d)' <=> d = c
      BY <2>1, <2>3 DEF OnTap, Tapping
    <3> QED
      BY <2>3, <3>1, <3>2 DEF Taps, At, Applied
  <2>4. CASE job[c].at = "tapset" /\ job'[c].at = "idle"
             /\ tap'.lines = Applied(job[c].seen.lines, job[c].val)
    <3>1. tap'.lines = wanted' /\ monitor'.at = "get"
      BY <2>2, <2>4, <1>2
    <3>2. \A d \in Clis : ~OnTap(d)'
      BY <2>1, <2>4 DEF OnTap, Tapping
    <3> QED
      BY <3>1, <3>2 DEF Taps
  <2> QED
    BY <1>4, <2>3, <2>4
<1> QED
  BY <1>4, <1>6, <1>7, <1>8, <1>9, <1>10

LEMMA MonitorInv == IInv /\ bypass_monitor => IInv'
<1> SUFFICES ASSUME IInv, bypass_monitor PROVE IInv'
  OBVIOUS
<1> USE DEF bypass_monitor, IInv, Settings
<1>1. /\ UNCHANGED <<board, lock, word, mac, port, reg, addr, latched, wanted, inode, conf, tmp,
                     left, saved, smeared, job, cmds, faults>>
      /\ astray \subseteq astray'
  BY DEF database, device, files, counts
<1>2. tap \in TapReg /\ tap' \in TapReg /\ (monitor.at = "set" => tap'.lines = monitor.seen.lines)
      /\ (monitor.at = "get" => tap' = tap)
  BY DEF Types, TapReg
<1>3. Types' /\ Jobs' /\ Locked'
  BY <1>1, <1>2 DEF Types, Jobs, Locked
<1>4. Words' /\ Macs' /\ Files'
  BY <1>1, WordsFrame, MacsFrame, FilesFrame
<1>5. Taps'
  <2> SUFFICES ASSUME "tap" \notin astray' PROVE Taps'
    BY DEF Taps
  <2>1. \A d \in Clis : OnTap(d)' <=> OnTap(d)
    BY <1>1 DEF OnTap
  <2>2. \A d \in Clis : ~OnTap(d)
    <3>1. CASE monitor.at = "get"
      BY <3>1, Crossed
    <3>2. CASE monitor.at = "set"
      BY <3>2, <1>1 DEF Taps
    <3> QED
      BY <3>1, <3>2
  <2>3. tap.lines = wanted /\ (monitor.at = "set" => monitor.seen = tap)
    BY <2>2, <1>1 DEF Taps
  <2>4. tap'.lines = wanted' /\ (monitor'.at = "set" => monitor'.seen = tap')
    BY <2>3, <1>1, <1>2
  <2> QED
    BY <2>1, <2>2, <2>4 DEF Taps
<1> QED
  BY <1>3, <1>4, <1>5

-----------------------------------------------------------------------------
(* The port settings and their file.                                       *)
LEMMA SetPortInv ==
  ASSUME NEW c \in Clis, NEW v \in {0, 1}, NEW i \in Items, NEW k \in PortNos, IInv,
         cli_set_oc(c, i, k, v)
  PROVE  IInv'
<1> USE DEF cli_set_oc, IInv, Settings
<1>1. Types' /\ Jobs' /\ Locked'
  BY DEF Types, Jobs, Locked, device, bypass
<1>2. Words' /\ Macs' /\ Taps' /\ Files'
  BY WordsFrame, MacsFrame, TapsFrame, FilesFrame DEF device, bypass, files
<1> QED
  BY <1>1, <1>2

(* The steps of a save leave the settings alone.                           *)
LEMMA SaveFrame ==
  ASSUME IInv, NEW c \in Clis,
         UNCHANGED <<board, word, mac, reg, addr, latched, tap, wanted, monitor, astray>>,
         \A d \in Clis \ {c} : job'[d] = job[d],
         job[c].at \in {"idle", "opened", "closed"}, job'[c].at \in {"idle", "opened", "closed"},
         lock' \in Clis \cup {NoCli}
  PROVE  Types' /\ Settings'
<1> USE DEF IInv, Settings
<1>1. Types'
  BY DEF Types
<1>2. \A d \in Clis : job'[d] = job[d]
                      \/ {job[d].at, job'[d].at} \cap {"word", "reset", "dbreset"} = {}
  OBVIOUS
<1>3. \A d \in Clis : job'[d] = job[d] \/ {job[d].at, job'[d].at} \cap Changing = {}
  BY DEF Changing
<1>4. \A d \in Clis : job'[d] = job[d] \/ {job[d].at, job'[d].at} \cap Tapping = {}
  BY DEF Tapping
<1>5. astray \subseteq astray'
  OBVIOUS
<1> QED
  BY <1>1, <1>2, <1>3, <1>4, <1>5, WordsFrame, MacsFrame, TapsFrame

(* A save that begins: the file is new, or another save has it open.       *)
LEMMA OpenInv == ASSUME NEW c \in Clis, IInv, fopen_tmp(c) PROVE IInv'
<1> USE ConfigAssumption DEF fopen_tmp, IInv, Files
<1>0. PICK k : k = IF tmp = NoFile THEN cmds ELSE tmp
  OBVIOUS
<1> DEFINE j == [at |-> "opened", name |-> "none", val |-> k, seen |-> 0]
<1>1. /\ tmp' = k /\ inode' = [inode EXCEPT ![k] = <<>>] /\ job' = [job EXCEPT ![c] = j]
      /\ cmds < MaxCmds /\ cmds' = cmds + 1 /\ job[c].at = "idle"
      /\ UNCHANGED <<board, lock, word, mac, port, reg, addr, latched, tap, wanted, conf, left,
                     saved, smeared, monitor, astray>>
  <2>1. tmp' = k /\ inode' = [inode EXCEPT ![k] = <<>>] /\ job' = [job EXCEPT ![c] = j]
    BY <1>0
  <2> HIDE DEF j
  <2> QED
    BY <2>1 DEF Command, At, database, device, bypass
<1>2. /\ cmds \in 0 .. MaxCmds /\ k \in 0 .. cmds /\ k \in 0 .. MaxCmds
      /\ k # conf \/ k = tmp
      /\ NoFile \notin 0 .. MaxCmds
  BY <1>0, <1>1 DEF FileTypes, Fresh, NoFile
<1>3. IsJob(j)
  BY DEF IsJob
<1>4. Jobs' /\ job'[c] = j /\ \A d \in Clis \ {c} : job'[d] = job[d]
  BY <1>1, <1>3, JobSet
<1>5. job'[c].at = "opened" /\ job'[c].val = k
  <2>1. j.at = "opened" /\ j.val = k
    OBVIOUS
  <2> HIDE DEF j
  <2> QED
    BY <2>1, <1>4
<1> HIDE DEF j
<1>6. Types' /\ Settings'
  <2>1. lock' \in Clis \cup {NoCli}
    BY <1>1 DEF Types
  <2> QED
    BY <1>1, <1>4, <1>5, <2>1, SaveFrame
<1>7. Locked'
  BY <1>1, <1>4, <1>5, LockFrame DEF Locking
<1>8. inode'[k] = <<>> /\ (\A m \in 0 .. MaxCmds \ {k} : inode'[m] = inode[m])
      /\ inode' = [m \in 0 .. MaxCmds |-> inode'[m]]
  BY <1>1, <1>2 DEF FileTypes
<1>9. FileTypes'
  <2>1. IsLines(inode'[k]) /\ Len(inode'[k]) <= N
    <3>1. IsLines(inode'[k])
      BY <1>8, NoLines
    <3>2. Len(inode'[k]) = 0 /\ N \in Nat
      BY <1>8, PrintedSeq
    <3> HIDE DEF N
    <3> QED
      BY <3>1, <3>2
  <2>2. cmds' \in 0 .. MaxCmds
    BY <1>1, <1>2
  <2> QED
    BY <1>1, <1>8, <2>1, <2>2 DEF FileTypes
<1>10. Fresh'
  <2>1. conf' \in 0 .. cmds' - 1 \/ conf' = MaxCmds
    BY <1>1, <1>2 DEF Fresh
  <2>2. tmp' \in 0 .. cmds' - 1
    BY <1>1, <1>2
  <2>3. \A d \in Clis : job'[d].at \in {"opened", "closed"} => job'[d].val \in 0 .. cmds' - 1
    BY <1>1, <1>2, <1>4, <1>5 DEF Fresh
  <2> QED
    BY <2>1, <2>2, <2>3 DEF Fresh
<1>11. Opened(k)' /\ \A m : Opened(m) => Opened(m)'
  BY <1>1, <1>4, <1>5 DEF Opened, At
<1>12. Written'
  <2> SUFFICES ASSUME NEW d \in Clis, At(d, "closed")', ~Opened(job[d].val)',
                      job[d].val \notin smeared, d # c, job'[d] = job[d]
               PROVE  inode'[job[d].val] = Printed(job[d].seen)
    <3>1. smeared' = smeared /\ \A d \in Clis \ {c} : job'[d] = job[d]
      BY <1>1, <1>4
    <3>2. ~At(c, "closed")'
      BY <1>5 DEF At
    <3> QED
      BY <3>1, <3>2 DEF Written
  <2>1. job[d].val # k /\ ~Opened(job[d].val)
    BY <1>11
  <2>2. job[d].val \in 0 .. MaxCmds /\ At(d, "closed")
    BY <1>2 DEF Fresh, At
  <2> QED
    BY <2>1, <2>2, <1>8 DEF Written
<1>13. TmpWhole'
  BY <1>1, <1>11 DEF TmpWhole
<1>14. ConfWhole'
  <2>1. CASE k = conf
    BY <2>1, <1>1, <1>11 DEF ConfWhole
  <2>2. CASE k # conf
    <3>1. inode'[conf] = inode[conf]
      BY <2>2, <1>2, <1>8 DEF Fresh
    <3>2. \A d \in Clis : At(d, "closed") => At(d, "closed")' /\ job'[d].val = job[d].val
      BY <1>1, <1>4 DEF At
    <3> QED
      BY <3>1, <3>2, <1>1, <1>11 DEF ConfWhole, Printed
  <2> QED
    BY <2>1, <2>2
<1> QED
  BY <1>4, <1>6, <1>7, <1>9, <1>10, <1>12, <1>13, <1>14

(* Whatever the file held, it is the whole of the settings now.            *)
LEMMA CloseInv == ASSUME NEW c \in Clis, IInv, save_close(c) PROVE IInv'
<1> USE ConfigAssumption DEF save_close, IInv, Files
<1>0. PICK k : k = job[c].val
  OBVIOUS
<1> DEFINE w == Printed(port) \o SubSeq(inode[k], Len(Printed(port)) + 1, Len(inode[k]))
<1>1. /\ job[c].at = "opened" /\ lock = NoCli /\ lock' = c
      /\ inode' = [inode EXCEPT ![k] = w]
      /\ job' = [job EXCEPT ![c].at = "closed", ![c].seen = port]
      /\ smeared' = smeared \ {k}
      /\ UNCHANGED <<board, word, mac, port, reg, addr, latched, tap, wanted, conf, tmp, left,
                     saved, monitor, astray, cmds, faults>>
  BY <1>0 DEF At, database, device, bypass, counts, Flushed
<1>2. cmds \in 0 .. MaxCmds /\ k \in 0 .. cmds - 1 /\ k \in 0 .. MaxCmds
  BY <1>0, <1>1 DEF FileTypes, Fresh
<1>3. w = Printed(port)
  <2>1. IsLines(inode[k]) /\ Len(inode[k]) <= N
    BY <1>2 DEF FileTypes
  <2>2. IsLines(Printed(port)) /\ Len(Printed(port)) = N
    BY PrintedSeq
  <2> HIDE DEF N
  <2>3. Len(inode[k]) <= Len(Printed(port))
    BY <2>1, <2>2
  <2> QED
    BY <2>1, <2>2, <2>3, OverWrite
<1> HIDE DEF w
<1>4. job[c].name = "none"
  BY <1>1 DEF Jobs, IsJob, Changing, Tapping
<1>5. IsJob([at |-> "closed", name |-> job[c].name, val |-> job[c].val, seen |-> port])
  BY <1>4 DEF IsJob, Locking
<1>6. /\ Jobs' /\ \A d \in Clis \ {c} : job'[d] = job[d]
      /\ job'[c].at = "closed" /\ job'[c].seen = port
      /\ job'[c].name = job[c].name /\ job'[c].val = k
  <2>1. /\ Jobs' /\ \A d \in Clis \ {c} : job'[d] = job[d]
        /\ job'[c].at = "closed" /\ job'[c].seen = port
        /\ job'[c].name = job[c].name /\ job'[c].val = job[c].val
    BY <1>1, <1>5, JobGoes
  <2> QED
    BY <2>1, <1>0
<1>7. Types' /\ Settings'
  BY <1>1, <1>6, SaveFrame
<1>8. \A d \in Clis : job[d].at \notin Locking
  BY <1>1 DEF Locked
<1>9. Locked'
  BY <1>1, <1>6, <1>8 DEF Locked, Locking
<1>10. inode'[k] = Printed(port) /\ (\A m \in 0 .. MaxCmds \ {k} : inode'[m] = inode[m])
       /\ inode' = [m \in 0 .. MaxCmds |-> inode'[m]]
  BY <1>1, <1>2, <1>3 DEF FileTypes
<1>11. FileTypes'
  <2>1. IsLines(inode'[k]) /\ Len(inode'[k]) = N /\ N \in Nat
    BY <1>10, PrintedSeq
  <2> HIDE DEF N
  <2>2. \A m \in 0 .. MaxCmds : IsLines(inode'[m]) /\ Len(inode'[m]) <= N
    BY <1>10, <2>1 DEF FileTypes
  <2> QED
    BY <1>1, <1>10, <2>2 DEF FileTypes
<1>12. Fresh'
  BY <1>1, <1>2, <1>6 DEF Fresh
<1>13. \A d \in Clis : At(d, "closed")' <=> d = c
  BY <1>6, <1>8 DEF At, Locking
<1>14. \A m : m # k => (Opened(m)' <=> Opened(m))
  <2> HIDE DEF save_close, IInv, Files
  <2>1. \A d \in Clis \ {c} : job'[d] = job[d]
    BY <1>6
  <2>2. job[c].val = k /\ job'[c].at # "opened"
    BY <1>0, <1>6
  <2>3. \A m : Opened(m)' => Opened(m)
    BY <2>1, <2>2 DEF Opened, At
  <2>4. \A m : m # k /\ Opened(m) => Opened(m)'
    BY <2>1, <2>2 DEF Opened, At
  <2> QED
    BY <2>3, <2>4
<1>15. Written'
  BY <1>1, <1>6, <1>10, <1>13 DEF Written
<1>16. TmpWhole'
  <2>1. CASE tmp = k
    BY <2>1, <1>1, <1>6, <1>13 DEF TmpWhole
  <2>2. CASE tmp # k
    BY <2>2, <1>1, <1>8, <1>14 DEF TmpWhole, At, Locking
  <2> QED
    BY <2>1, <2>2
<1>17. ConfWhole'
  <2>1. CASE conf = k
    BY <2>1, <1>1, <1>6, <1>13 DEF ConfWhole
  <2>2. CASE conf # k
    <3>1. inode'[conf] = inode[conf]
      BY <2>2, <1>2, <1>10 DEF Fresh
    <3> QED
      BY <2>2, <3>1, <1>1, <1>8, <1>14 DEF ConfWhole, At, Locking, Printed
  <2> QED
    BY <2>1, <2>2
<1> QED
  BY <1>6, <1>7, <1>9, <1>11, <1>12, <1>15, <1>16, <1>17

(* A save that fails has spoilt its file, and leaves less than a save in   *)
(* its stream.                                                             *)
LEMMA FailsInv == ASSUME NEW c \in Clis, IInv, save_fails(c) PROVE IInv'
<1> USE ConfigAssumption DEF save_fails, IInv, Files
<1>0. PICK k : k = job[c].val
  OBVIOUS
<1>1. /\ job[c].at = "opened" /\ smeared' = smeared \cup {k}
      /\ UNCHANGED <<board, lock, word, mac, port, reg, addr, latched, tap, wanted, inode, conf,
                     tmp, saved, monitor, astray, cmds>>
  BY <1>0 DEF At, database, device, bypass
<1>2. Jobs' /\ job'[c] = Idle /\ \A d \in Clis \ {c} : job'[d] = job[d]
  BY JobStops
<1>3. job'[c].at = "idle"
  BY <1>2 DEF Idle
<1>4. PICK n \in 0 .. Len(Layout) - 1 :
        left' = [left EXCEPT ![c] = [file |-> job[c].val, lines |-> SubSeq(Printed(port), 1, n)]]
  OBVIOUS
<1>5. Types' /\ Settings'
  <2>1. lock' \in Clis \cup {NoCli}
    BY <1>1 DEF Types
  <2> QED
    BY <1>1, <1>2, <1>3, <2>1, SaveFrame
<1>6. Locked'
  BY <1>1, <1>2, <1>3, LockFrame DEF Locking
<1>7. FileTypes'
  <2> DEFINE lines == SubSeq(Printed(port), 1, n)
  <2>1. IsLines(lines) /\ Len(lines) = n
    <3>1. lines = [i \in 1 .. n |-> Printed(port)[i]]
      OBVIOUS
    <3>2. lines = [i \in 1 .. n |-> lines[i]] /\ n \in Nat
      BY <3>1, PrintedSeq DEF N
    <3> HIDE DEF lines
    <3> QED
      BY <3>2, SeqShape
  <2>2. n < N /\ k \in 0 .. MaxCmds
    BY <1>0, <1>1, PrintedSeq DEF N, Fresh, FileTypes
  <2> HIDE DEF lines, N
  <2>3. left' = [left EXCEPT ![c] = [file |-> k, lines |-> lines]]
    BY <1>0, <1>4 DEF lines
  <2>4. left' = [d \in Clis |-> left'[d]] /\ \A d \in Clis \ {c} : left'[d] = left[d]
    BY <2>3 DEF FileTypes
  <2>5. left'[c].file = k /\ left'[c].lines = lines
    BY <2>3 DEF FileTypes
  <2>6. \A d \in Clis : \/ left'[d] = Nothing
                        \/ /\ left'[d].file \in 0 .. MaxCmds
                           /\ IsLines(left'[d].lines) /\ Len(left'[d].lines) < N
    BY <2>1, <2>2, <2>4, <2>5 DEF FileTypes
  <2> QED
    BY <1>1, <2>4, <2>6 DEF FileTypes
<1>8. Fresh'
  BY <1>1, <1>2, <1>3 DEF Fresh
<1>9. \A m : Opened(m) => Opened(m)' \/ m = k
  BY <1>0, <1>2 DEF Opened, At
<1>10. \A d \in Clis : At(d, "closed")' => At(d, "closed") /\ job'[d] = job[d]
  BY <1>2, <1>3 DEF At
<1>11. Written'
  <2> SUFFICES ASSUME NEW d \in Clis, At(d, "closed")'
               PROVE  \/ job'[d].val \in smeared' \/ Opened(job[d].val)'
                      \/ inode'[job'[d].val] = Printed(job'[d].seen)
    BY DEF Written
  <2>1. At(d, "closed") /\ job'[d] = job[d]
    BY <1>10
  <2>2. PICK m : m = job[d].val
    OBVIOUS
  <2>3. m \in smeared \/ Opened(m) \/ inode[m] = Printed(job[d].seen)
    BY <2>1, <2>2 DEF Written
  <2>4. Opened(m) => Opened(m)' \/ m = k
    BY <1>9
  <2>5. Opened(m)' => Opened(job[d].val)'
    BY <2>1, <2>2 DEF Opened
  <2> QED
    BY <2>1, <2>2, <2>3, <2>4, <2>5, <1>1
<1>12. \A d \in Clis : At(d, "closed") => At(d, "closed")' /\ job'[d] = job[d]
  BY <1>1, <1>2 DEF At
<1>13. TmpWhole'
  BY <1>1, <1>9, <1>12 DEF TmpWhole
<1>14. ConfWhole'
  BY <1>1, <1>9, <1>12 DEF ConfWhole, Printed
<1> QED
  BY <1>2, <1>5, <1>6, <1>7, <1>8, <1>11, <1>13, <1>14

(* The file that gets the name is spoilt, or still to be written by        *)
(* another save, or the one this save has just written.                    *)
LEMMA RenameInv == ASSUME NEW c \in Clis, IInv, save_rename(c) PROVE IInv'
<1> USE ConfigAssumption DEF save_rename, IInv, Files
<1>1. /\ job[c].at = "closed" /\ lock' = NoCli /\ tmp' = NoFile
      /\ conf' = (IF tmp = NoFile THEN conf ELSE tmp)
      /\ saved' = (IF conf' = job[c].val THEN job[c].seen ELSE saved)
      /\ UNCHANGED <<board, word, mac, port, reg, addr, latched, tap, wanted, inode, left,
                     smeared, monitor, astray, cmds>>
  BY DEF At, database, device, bypass, counts
<1>2. Jobs' /\ job'[c] = Idle /\ \A d \in Clis \ {c} : job'[d] = job[d]
  BY JobStops
<1>3. job'[c].at = "idle"
  BY <1>2 DEF Idle
<1>4. Types' /\ Settings'
  BY <1>1, <1>2, <1>3, SaveFrame
<1>5. \A d \in Clis \ {c} : job[d].at \notin Locking
  BY <1>1 DEF Locked, Locking
<1>6. Locked'
  BY <1>1, <1>2, <1>3, <1>5 DEF Locked, Locking
<1>7. FileTypes'
  BY <1>1 DEF FileTypes
<1>8. Fresh'
  BY <1>1, <1>2, <1>3 DEF Fresh
<1>9. \A d \in Clis : ~At(d, "closed")'
  BY <1>2, <1>3, <1>5 DEF At, Locking
<1>10. Written' /\ TmpWhole'
  BY <1>1, <1>9 DEF Written, TmpWhole
<1>11. \A m : Opened(m) <=> Opened(m)'
  BY <1>1, <1>2, <1>3 DEF Opened, At
<1>12. ConfWhole'
  <2>1. \A d \in Clis : At(d, "closed") <=> d = c
    BY <1>1, <1>5 DEF At, Locking
  <2> DEFINE k == job[c].val
  <2>2. k \in smeared \/ Opened(k) \/ inode[k] = Printed(job[c].seen)
    BY <2>1 DEF Written
  <2>3. CASE conf' = k
    <3>1. conf' \in smeared' \/ Opened(conf') \/ inode'[conf'] = Printed(saved')
      BY <1>1, <2>2, <2>3
    <3>2. Opened(conf') => Opened(conf)'
      BY <1>1, <1>2, <1>3 DEF Opened, At
    <3> QED
      BY <3>1, <3>2 DEF ConfWhole, Printed
  <2>4. CASE conf' # k
    <3>1. saved' = saved
      BY <1>1, <2>4
    <3>2. Opened(conf') => Opened(conf)'
      BY <1>1, <1>2, <1>3 DEF Opened, At
    <3>3. CASE tmp = NoFile
      <4>1. conf' = conf /\ (conf \in smeared \/ Opened(conf) \/ inode[conf] = Printed(saved))
        BY <1>1, <2>1, <2>4, <3>3 DEF ConfWhole
      <4> QED
        BY <1>1, <3>1, <3>2, <4>1 DEF ConfWhole, Printed
    <3>4. CASE tmp # NoFile
      <4>1. conf' = tmp /\ (tmp \in smeared \/ Opened(tmp))
        BY <1>1, <2>1, <2>4, <3>4 DEF TmpWhole
      <4> QED
        BY <1>1, <3>2, <4>1 DEF ConfWhole
    <3> QED
      BY <3>3, <3>4
  <2> QED
    BY <2>3, <2>4
<1> QED
  BY <1>2, <1>4, <1>6, <1>7, <1>8, <1>10, <1>12

(* What a cli that exits had left is written over its file.                *)
LEMMA ExitInv == ASSUME NEW c \in Clis, IInv, exit(c) PROVE IInv'
<1> USE ConfigAssumption DEF exit, IInv, Files, Settings
<1>0. PICK k : k = left[c].file
  OBVIOUS
<1> DEFINE s == left[c].lines
           w == s \o SubSeq(inode[k], Len(s) + 1, Len(inode[k]))
<1>1. /\ left[c] # Nothing /\ inode' = [inode EXCEPT ![k] = w]
      /\ left' = [left EXCEPT ![c] = Nothing]
      /\ smeared' = smeared \cup (IF s = <<>> THEN {} ELSE {k})
      /\ UNCHANGED <<board, lock, word, mac, port, reg, addr, latched, tap, wanted, conf, tmp,
                     saved, job, monitor, astray, cmds>>
  BY <1>0 DEF database, device, bypass, counts, Flushed
<1>2. k \in 0 .. MaxCmds /\ IsLines(s) /\ Len(s) < N /\ IsLines(inode[k]) /\ Len(inode[k]) <= N
  BY <1>0, <1>1 DEF FileTypes
<1>3. IsLines(w) /\ Len(w) <= N /\ (s = <<>> => w = inode[k])
  <2> HIDE DEF w, s, N
  <2>1. IsLines(w) /\ Len(w) = (IF Len(s) < Len(inode[k]) THEN Len(inode[k]) ELSE Len(s))
        /\ (s = <<>> => w = inode[k])
    BY <1>2, OverWrite DEF w
  <2>2. Len(s) \in Nat /\ Len(inode[k]) \in Nat
    BY <1>2 DEF IsLines
  <2>3. N \in Nat
    BY PrintedSeq
  <2>4. Len(w) <= N
    BY <2>1, <2>2, <2>3, <1>2
  <2> QED
    BY <2>1, <2>4
<1> HIDE DEF w, s
<1>4. inode'[k] = w /\ (\A m \in 0 .. MaxCmds \ {k} : inode'[m] = inode[m])
      /\ inode' = [m \in 0 .. MaxCmds |-> inode'[m]]
  BY <1>1, <1>2 DEF FileTypes
<1>5. \A m \in 0 .. MaxCmds : m \in smeared' \/ (m \notin smeared /\ inode'[m] = inode[m])
  BY <1>1, <1>3, <1>4
<1>6. Types' /\ Jobs' /\ Locked'
  BY <1>1 DEF Types, Jobs, Locked
<1>7. Words' /\ Macs' /\ Taps'
  BY <1>1, WordsFrame, MacsFrame, TapsFrame
<1>8. FileTypes'
  <2>1. left' = [d \in Clis |-> left'[d]] /\ left'[c] = Nothing
        /\ \A d \in Clis \ {c} : left'[d] = left[d]
    BY <1>1 DEF FileTypes
  <2> HIDE DEF N
  <2>2. \A m \in 0 .. MaxCmds : IsLines(inode'[m]) /\ Len(inode'[m]) <= N
    BY <1>3, <1>4 DEF FileTypes
  <2> QED
    BY <1>1, <1>4, <2>1, <2>2 DEF FileTypes
<1>9. Fresh'
  BY <1>1 DEF Fresh
<1>10. cmds \in 0 .. MaxCmds /\ conf \in 0 .. MaxCmds
       /\ \A d \in Clis : At(d, "closed") => job[d].val \in 0 .. MaxCmds
  BY DEF FileTypes, Fresh, At
<1>11. /\ \A m : Opened(m) <=> Opened(m)'
       /\ \A d \in Clis : At(d, "closed")' <=> At(d, "closed")
  BY <1>1 DEF Opened, At
<1>12. Written'
  <2> SUFFICES ASSUME NEW d \in Clis, At(d, "closed")
               PROVE  \/ job[d].val \in smeared' \/ Opened(job[d].val)
                      \/ inode'[job[d].val] = Printed(job[d].seen)
    BY <1>1 DEF Written, Opened, At
  <2> QED
    BY <1>5, <1>10 DEF Written
<1>13. TmpWhole'
  BY <1>1, <1>11 DEF TmpWhole
<1>14. ConfWhole'
  BY <1>1, <1>5, <1>10, <1>11 DEF ConfWhole
<1> QED
  BY <1>6, <1>7, <1>8, <1>9, <1>12, <1>13, <1>14

(* The next database: the MAC addresses and the registers that the reset   *)
(* leaves out are given up.                                                *)
LEMMA NewDatabaseInv == IInv /\ db_init_config => IInv'
<1> SUFFICES ASSUME IInv, db_init_config PROVE IInv'
  OBVIOUS
<1> USE DEF db_init_config, IInv, Settings
<1>1. /\ \A c \in Clis : job[c].at = "idle"
      /\ UNCHANGED <<board, lock, addr, latched, tap, wanted, inode, conf, tmp, left, saved,
                     smeared, job, monitor>>
      /\ astray \subseteq astray' /\ "mac" \in astray'
  BY DEF Quiet, At, bypass, files
<1>2. Types' /\ Jobs' /\ Locked'
  BY <1>1 DEF Types, Jobs, Locked, Bit
<1>3. Macs' /\ Taps' /\ Files'
  <2>1. cmds' = cmds \/ Command
    OBVIOUS
  <2> QED
    BY <1>1, <2>1, TapsFrame, FilesFrame DEF Macs
<1>4. Words'
  <2> SUFFICES ASSUME NEW m \in (Names \cap Wired(board)) \ astray'
               PROVE  /\ \A d \in Clis : ~OnWord(d, m)' /\ ~At(d, "reset")' /\ ~At(d, "dbreset")'
                      /\ reg'[m] = word'[m]
    BY <1>1 DEF Words
  <2>1. m \in DevReset(board)
    OBVIOUS
  <2> QED
    BY <2>1, <1>1 DEF OnWord, At
<1> QED
  BY <1>2, <1>3, <1>4

-----------------------------------------------------------------------------
LEMMA StutterInv == IInv /\ UNCHANGED vars => IInv'
<1> SUFFICES ASSUME IInv, UNCHANGED vars PROVE IInv'
  OBVIOUS
<1> USE DEF IInv, Settings, vars, database, device, bypass, files, counts
<1>1. Types' /\ Jobs' /\ Locked'
  BY DEF Types, Jobs, Locked
<1>2. Words' /\ Macs' /\ Taps' /\ Files'
  BY WordsFrame, MacsFrame, TapsFrame, FilesFrame
<1> QED
  BY <1>1, <1>2

LEMMA StepInv == IInv /\ [Next]_vars => IInv'
<1> SUFFICES ASSUME IInv, [Next]_vars PROVE IInv'
  OBVIOUS
<1>1. ASSUME NEW c \in Clis, NEW v \in {0, 1},
             \/ \E n \in Names : cli_set_word(c, n, v)
             \/ \E e \in Ends : cli_set_eth_mac(c, e, v)
             \/ \E i \in Items, k \in PortNos : cli_set_oc(c, i, k, v)
      PROVE  IInv'
  BY <1>1, SetWordInv, SetMacInv, SetPortInv
<1>2. ASSUME NEW c \in Clis,
             \/ drv_set_word(c) \/ drv_set_eth_mac(c)
             \/ cli_reset_default_config(c) \/ drv_reset_global_default_config(c)
             \/ db_reset_global_default_conf(c)
      PROVE  IInv'
  BY <1>2, DrvWordInv, DrvMacInv, ResetInv, DeviceResetInv, DatabaseResetInv
<1>3. ASSUME NEW c \in Clis,
             \/ \E pbmp \in SUBSET Lines \ {{}}, normal \in BOOLEAN :
                  cli_bypass_set(c, pbmp, normal)
             \/ drv_bypass_set(c)
      PROVE  IInv'
  BY <1>3, SetTapInv, DrvTapInv
<1>4. ASSUME NEW c \in Clis,
             \/ fopen_tmp(c) \/ save_close(c) \/ save_fails(c) \/ save_rename(c) \/ exit(c)
      PROVE  IInv'
  BY <1>4, OpenInv, CloseInv, FailsInv, RenameInv, ExitInv
<1> QED
  BY <1>1, <1>2, <1>3, <1>4, MonitorInv, NewDatabaseInv, StutterInv DEF Next

(* Every reachable state keeps the inductive invariant.                    *)
THEOREM Inductive == Spec => []IInv
BY InitInv, StepInv, PTL DEF Spec

(* When nothing is under way every register holds what the commands asked  *)
(* for, unless two commands crossed on it or a reset leaves it out.        *)
THEOREM DoneAsTold == Spec => []AsTold
<1>1. IInv => AsTold
  <2> SUFFICES ASSUME IInv, Quiet PROVE
        /\ \A n \in (Names \cap Wired(board)) \ astray : reg[n] = word[n]
        /\ "mac" \in astray \/ (latched.low = mac /\ latched.high = mac)
        /\ "tap" \in astray \/ tap.lines = wanted
    BY DEF AsTold
  <2>1. \A c \in Clis : job[c].at = "idle"
    BY DEF Quiet, At
  <2>2. \A n \in (Names \cap Wired(board)) \ astray : reg[n] = word[n]
    BY <2>1 DEF IInv, Settings, Words, OnWord, At
  <2>3. "mac" \in astray \/ (latched.low = mac /\ latched.high = mac)
    BY <2>1 DEF IInv, Settings, Macs, OnMac, Changing
  <2>4. "tap" \in astray \/ tap.lines = wanted
    BY <2>1 DEF IInv, Settings, Taps, OnTap, Tapping
  <2> QED
    BY <2>2, <2>3, <2>4
<1> QED
  BY <1>1, Inductive, PTL

(* However many clis save together, when nothing is under way qnf.conf is  *)
(* the whole of one save, unless a save that failed has spoilt it.         *)
THEOREM ConfIsWhole == Spec => []FileWhole
<1>1. IInv => FileWhole
  BY DEF IInv, Files, ConfWhole, FileWhole, Quiet, Opened, At
<1> QED
  BY <1>1, Inductive, PTL

-----------------------------------------------------------------------------
(* What a restart reads back.                                              *)
(* Induction over a set of numbers, from the least number outside it.      *)
LEMMA NatInd ==
  ASSUME NEW S, 0 \in S, \A n \in Nat : n \in S => n + 1 \in S
  PROVE  Nat \subseteq S
<1> DEFINE T == {n \in Nat : n \notin S}
<1> SUFFICES ASSUME T # {} PROVE FALSE
  OBVIOUS
<1>1. IsWellFoundedOn(OpToRel(<, Nat), Nat)
  BY NatLessThanWellFounded
<1>2. PICK n \in T : \A m \in T : <<m, n>> \notin OpToRel(<, Nat)
  BY <1>1, WFMin
<1>3. \A m \in T : ~(m < n)
  BY <1>2 DEF OpToRel
<1>4. n # 0 /\ n - 1 \in Nat
  OBVIOUS
<1>5. n - 1 \notin T
  BY <1>3, <1>4
<1>6. n - 1 \in S /\ n - 1 + 1 = n
  BY <1>4, <1>5
<1> QED
  BY <1>4, <1>6

(* The parser reads one line after the other.                              *)
Unread == [value |-> [k \in PortNos |-> Junk],
           cfg |-> [i \in ToSet(Layout) |-> [k \in PortNos |-> Junk]]]
Reads(h, lines, n) ==
  /\ h = [i \in 0 .. n |-> h[i]] /\ h[0] = Unread
  /\ \A i \in 1 .. n : h[i] = ReadLine(h[i - 1], lines[i])
LEMMA ParsedReads ==
  ASSUME NEW lines, NEW n \in Nat, DOMAIN lines = 1 .. n
  PROVE  \E h : Reads(h, lines, n) /\ Parsed(lines) = h[n].cfg
<1> DEFINE Cat(g, s) == IF s = {} THEN Unread ELSE ReadLine(g[s \ {Max(s)}], lines[Max(s)])
           Body(g) == [s \in SUBSET (1 .. n) |-> Cat(g, s)]
           Solved(g, k) == \A s \in SUBSET (1 .. k) : g[s] = Cat(g, s)
           Good == {k \in Nat : k <= n => \E g : Solved(g, k)}
<1>1. Parsed(lines) = (CHOOSE x : x = Body(x))[1 .. n].cfg
  BY Zenon DEF Parsed, FoldLeft, MapThenFoldSet, Unread
<1>2. \A k \in Nat : \A s \in SUBSET (1 .. k + 1) : k + 1 \in s => Max(s) = k + 1 /\ s \ {k + 1} \in SUBSET (1 .. k)
  <2> SUFFICES ASSUME NEW k \in Nat, NEW s \in SUBSET (1 .. k + 1), k + 1 \in s
               PROVE  Max(s) = k + 1 /\ s \ {k + 1} \in SUBSET (1 .. k)
    OBVIOUS
  <2>1. \A x \in s : x \in Nat /\ x <= k + 1
    OBVIOUS
  <2>2. \A x \in s : (\A y \in s : x >= y) <=> x = k + 1
    BY <2>1
  <2>3. k + 1 \in s /\ \A y \in s : k + 1 >= y
    BY <2>1
  <2>4. Max(s) \in s /\ \A y \in s : Max(s) >= y
    BY <2>3, Zenon DEF Max
  <2>5. Max(s) = k + 1
    BY <2>2, <2>4
  <2> QED
    BY <2>5
<1>3. \A k \in Nat : \A s \in SUBSET (1 .. k + 1) : k + 1 \notin s => s \in SUBSET (1 .. k)
  OBVIOUS
<1>4. \A k \in Nat : \A s \in SUBSET (1 .. k) : s \in SUBSET (1 .. k + 1) /\ k + 1 \notin s
  OBVIOUS
<1>5. \A s \in SUBSET (1 .. 0) : s = {}
  OBVIOUS
<1>m. \A k \in Nat : \A s \in SUBSET (1 .. k) : s # {} => Max(s) \in s
  <2> DEFINE Has == {k \in Nat : \A s \in SUBSET (1 .. k) : s # {} => Max(s) \in s}
  <2>1. 0 \in Has
    BY <1>5
  <2>2. ASSUME NEW k \in Nat, k \in Has PROVE k + 1 \in Has
    <3> SUFFICES ASSUME NEW s \in SUBSET (1 .. k + 1), s # {} PROVE Max(s) \in s
      OBVIOUS
    <3>1. CASE k + 1 \in s
      BY <3>1, <1>2
    <3>2. CASE k + 1 \notin s
      <4>1. s \in SUBSET (1 .. k)
        BY <3>2, <1>3
      <4> QED
        BY <4>1, <2>2
    <3> QED
      BY <3>1, <3>2
  <2> HIDE DEF Has
  <2>3. Nat \subseteq Has
    BY <2>1, <2>2, NatInd
  <2> QED
    BY <2>3 DEF Has
<1> HIDE DEF Cat
<1>6. 0 \in Good
  <2> DEFINE g == [s \in SUBSET (1 .. 0) |-> Unread]
  <2>1. Solved(g, 0)
    BY <1>5 DEF Cat
  <2> HIDE DEF g, Solved
  <2> QED
    BY <2>1
<1>7. ASSUME NEW k \in Nat, k \in Good PROVE k + 1 \in Good
  <2> SUFFICES ASSUME k + 1 <= n PROVE \E h : Solved(h, k + 1)
    <3> HIDE DEF Solved
    <3> QED
      OBVIOUS
  <2>1. PICK g : Solved(g, k)
    <3>1. k <= n
      OBVIOUS
    <3> HIDE DEF Solved
    <3> QED
      BY <3>1, <1>7
  <2> DEFINE h == [s \in SUBSET (1 .. k + 1) |-> IF k + 1 \in s THEN Cat(g, s) ELSE g[s]]
  <2>2. \A s \in SUBSET (1 .. k) : h[s] = g[s]
    BY <1>4
  <2>3. ASSUME NEW s \in SUBSET (1 .. k + 1) PROVE h[s] = Cat(h, s)
    <3>1. CASE k + 1 \in s
      <4>1. Max(s) = k + 1 /\ s \ {k + 1} \in SUBSET (1 .. k) /\ s # {}
        BY <3>1, <1>2
      <4>2. h[s \ {Max(s)}] = g[s \ {Max(s)}] /\ h[s] = Cat(g, s)
        BY <4>1, <2>2, <3>1
      <4> HIDE DEF h
      <4> QED
        BY <4>1, <4>2, Zenon DEF Cat
    <3>2. CASE k + 1 \notin s
      <4>1. s \in SUBSET (1 .. k) /\ h[s] = g[s] /\ g[s] = Cat(g, s)
        BY <3>2, <1>3, <2>1
      <4>2. s # {} => h[s \ {Max(s)}] = g[s \ {Max(s)}]
        BY <4>1, <2>2
      <4> HIDE DEF h
      <4> QED
        BY <4>1, <4>2, Zenon DEF Cat
    <3> QED
      BY <3>1, <3>2
  <2>4. Solved(h, k + 1)
    <3> HIDE DEF h
    <3> QED
      BY <2>3
  <2> HIDE DEF h, Solved
  <2> QED
    BY <2>4
<1>8. PICK g : Solved(g, n)
  <2> HIDE DEF Solved
  <2>1. \A k \in Nat : k \in Good => k + 1 \in Good
    BY <1>7
  <2> HIDE DEF Good
  <2>2. n \in Good
    BY <1>6, <2>1, NatInd
  <2> QED
    BY <2>2 DEF Good
<1> DEFINE f == CHOOSE x : x = Body(x)
<1>9. f = Body(f)
  <2> DEFINE g2 == [s \in SUBSET (1 .. n) |-> g[s]]
  <2>1. \A s \in SUBSET (1 .. n) : Cat(g2, s) = Cat(g, s)
    <3> SUFFICES ASSUME NEW s \in SUBSET (1 .. n), s # {} PROVE g2[s \ {Max(s)}] = g[s \ {Max(s)}]
      BY Zenon DEF Cat
    <3> QED
      OBVIOUS
  <2>2. g2 = Body(g2)
    BY <2>1, <1>8
  <2> HIDE DEF Body, g2
  <2> QED
    BY <2>2
<1>10. Solved(f, n)
  <2> HIDE DEF f
  <2> QED
    BY <1>9
<1> HIDE DEF f
<1> DEFINE h == [i \in 0 .. n |-> f[1 .. i]]
<1>11. h[0] = Unread
  <2>1. 1 .. 0 = {} /\ 1 .. 0 \in SUBSET (1 .. n)
    OBVIOUS
  <2>2. h[0] = f[1 .. 0] /\ f[1 .. 0] = Cat(f, 1 .. 0)
    BY <2>1, <1>10
  <2>3. Cat(f, 1 .. 0) = Unread
    BY <2>1, Zenon DEF Cat
  <2> QED
    BY <2>2, <2>3
<1>12. ASSUME NEW i \in 1 .. n PROVE h[i] = ReadLine(h[i - 1], lines[i])
  <2>1. PICK k \in Nat : i = k + 1 /\ k \in 0 .. n
    <3>1. i - 1 \in Nat /\ i = i - 1 + 1 /\ i - 1 \in 0 .. n
      OBVIOUS
    <3> QED
      BY <3>1
  <2>2. 1 .. i \in SUBSET (1 .. k + 1) /\ 1 .. i \in SUBSET (1 .. n) /\ k + 1 \in 1 .. i
        /\ (1 .. i) \ {k + 1} = 1 .. k /\ 1 .. i # {}
    BY <2>1
  <2>3. Max(1 .. i) = i
    BY <2>1, <2>2, <1>2
  <2>4. f[1 .. i] = Cat(f, 1 .. i)
    BY <2>2, <1>10
  <2>5. h[i] = f[1 .. i] /\ h[i - 1] = f[1 .. k] /\ i - 1 = k
    BY <2>1
  <2> HIDE DEF h
  <2> QED
    BY <2>1, <2>2, <2>3, <2>4, <2>5 DEF Cat
<1>13. h[n] = f[1 .. n] /\ h = [i \in 0 .. n |-> h[i]]
  OBVIOUS
<1> HIDE DEF h
<1>14. Reads(h, lines, n)
  BY <1>11, <1>12, <1>13 DEF Reads
<1>15. Parsed(lines) = h[n].cfg
  BY <1>1, <1>13 DEF f
<1> QED
  BY <1>14, <1>15

(* Settings are a value for each port, and so is what a line holds.        *)
Pair(v) == v = [k \in PortNos |-> v[k]]
IsPort(p) == p = [i \in ToSet(Layout) |-> p[i]] /\ \A i \in ToSet(Layout) : Pair(p[i])
IsLine(l) == l.item \in ToSet(Layout) /\ Pair(l.val)

(* A line sets its own item, to a first value that is its own and to a     *)
(* second value that is its own only if the line is dense.                 *)
LEMMA LineRead ==
  ASSUME NEW acc, NEW line, IsLine(line), Pair(acc.value), IsPort(acc.cfg)
  PROVE  LET r == ReadLine(acc, line)
         IN  /\ Pair(r.value) /\ IsPort(r.cfg)
             /\ r.cfg[line.item] = r.value
             /\ r.value[0] = line.val[0]
             /\ r.value[1] = IF line.item \in Dense THEN line.val[1] ELSE acc.value[1]
             /\ \A i \in ToSet(Layout) \ {line.item} : r.cfg[i] = acc.cfg[i]
<1> DEFINE v == IF line.item \in Dense THEN line.val ELSE [line.val EXCEPT ![1] = acc.value[1]]
           r == ReadLine(acc, line)
<1>1. /\ Pair(v) /\ v[0] = line.val[0]
      /\ v[1] = IF line.item \in Dense THEN line.val[1] ELSE acc.value[1]
  <2> HIDE DEF Dense
  <2>1. CASE line.item \in Dense
    BY <2>1 DEF IsLine
  <2>2. CASE line.item \notin Dense
    <3>1. DOMAIN line.val = {0, 1} /\ v = [line.val EXCEPT ![1] = acc.value[1]]
      BY <2>2 DEF IsLine, Pair, PortNos
    <3>2. v = [k \in {0, 1} |-> IF k = 1 THEN acc.value[1] ELSE line.val[k]]
      BY <3>1
    <3> HIDE DEF v
    <3> QED
      BY <2>2, <3>2 DEF Pair, PortNos
  <2> QED
    BY <2>1, <2>2
<1>2. r.value = v /\ r.cfg = [acc.cfg EXCEPT ![line.item] = v]
  <2>1. r = [value |-> v, cfg |-> [acc.cfg EXCEPT ![line.item] = v]]
    BY DEF ReadLine
  <2> HIDE DEF r, v
  <2> QED
    BY <2>1
<1> HIDE DEF r, v
<1>3. DOMAIN acc.cfg = ToSet(Layout) /\ line.item \in ToSet(Layout)
  BY DEF IsPort, IsLine
<1>4. r.cfg = [i \in ToSet(Layout) |-> IF i = line.item THEN v ELSE acc.cfg[i]]
  BY <1>2, <1>3
<1>5. IsPort(r.cfg) /\ r.cfg[line.item] = v
      /\ \A i \in ToSet(Layout) \ {line.item} : r.cfg[i] = acc.cfg[i]
  BY <1>1, <1>3, <1>4 DEF IsPort
<1> QED
  BY <1>1, <1>2, <1>5 DEF r

(* What is read of lines, whatever they are, is settings.                  *)
LEMMA UnreadPort == Pair(Unread.value) /\ IsPort(Unread.cfg)
BY DEF Unread, Pair, IsPort

LEMMA ReadPort ==
  ASSUME NEW lines, NEW n \in Nat, \A i \in 1 .. n : IsLine(lines[i]),
         NEW h, Reads(h, lines, n)
  PROVE  \A i \in 0 .. n : Pair(h[i].value) /\ IsPort(h[i].cfg)
<1> DEFINE Good == {k \in Nat : k <= n => Pair(h[k].value) /\ IsPort(h[k].cfg)}
<1>1. 0 \in Good
  BY UnreadPort DEF Reads
<1>2. ASSUME NEW k \in Nat, k \in Good PROVE k + 1 \in Good
  <2> SUFFICES ASSUME k + 1 <= n PROVE Pair(h[k + 1].value) /\ IsPort(h[k + 1].cfg)
    OBVIOUS
  <2>1. k + 1 \in 1 .. n /\ k + 1 - 1 = k /\ k <= n
    OBVIOUS
  <2>2. h[k + 1] = ReadLine(h[k], lines[k + 1])
    <3>1. \A i \in 1 .. n : h[i] = ReadLine(h[i - 1], lines[i])
      BY DEF Reads
    <3>2. h[k + 1] = ReadLine(h[k + 1 - 1], lines[k + 1])
      BY <2>1, <3>1
    <3> QED
      BY <2>1, <3>2
  <2>3. Pair(h[k].value) /\ IsPort(h[k].cfg) /\ IsLine(lines[k + 1])
    BY <2>1, <1>2
  <2> QED
    BY <2>2, <2>3, LineRead
<1> HIDE DEF Good
<1>3. Nat \subseteq Good
  BY <1>1, <1>2, NatInd
<1> QED
  BY <1>3 DEF Good

LEMMA ParsedPort ==
  ASSUME NEW lines, IsLines(lines), \A i \in 1 .. Len(lines) : IsLine(lines[i])
  PROVE  IsPort(Parsed(lines))
<1>1. PICK n \in Nat : n = Len(lines) /\ DOMAIN lines = 1 .. n
  BY DEF IsLines
<1>2. PICK h : Reads(h, lines, n) /\ Parsed(lines) = h[n].cfg
  BY <1>1, ParsedReads
<1>3. \A i \in 0 .. n : IsPort(h[i].cfg)
  BY <1>1, <1>2, ReadPort
<1> QED
  BY <1>1, <1>2, <1>3

(* The lines of a save.                                                    *)
LEMMA LayoutLines ==
  /\ DOMAIN Layout = 1 .. 9 /\ N = 9
  /\ \A i, j \in 1 .. 9 : Layout[i] = Layout[j] => i = j
  /\ \A i \in 1 .. 9 : Layout[i] \in Dense <=> i <= 3
  /\ \A i \in 1 .. 9 : Layout[i] \in {"LINE_RATE", "SONET_MODE"} <=> i <= 2
  /\ Layout[3] = "PPP_MODE"
  /\ ToSet(Layout) = {Layout[i] : i \in 1 .. 9}
<1>1. DOMAIN Layout = 1 .. 9 /\ Len(Layout) = 9 /\ Layout[3] = "PPP_MODE"
  BY DEF Layout
<1>2. \A i \in 1 .. 9 : i = 1 \/ i = 2 \/ i = 3 \/ i = 4 \/ i = 5 \/ i = 6 \/ i = 7 \/ i = 8 \/ i = 9
  OBVIOUS
<1>3. /\ Layout[1] = "LINE_RATE" /\ Layout[2] = "SONET_MODE" /\ Layout[3] = "PPP_MODE"
      /\ Layout[4] = "SONET_SCRAMBLE" /\ Layout[5] = "PAYLOAD_SCRAMBLE" /\ Layout[6] = "CRC32_MODE"
      /\ Layout[7] = "PASS_CRC" /\ Layout[8] = "MAX_PKT_SIZE" /\ Layout[9] = "MIN_PKT_SIZE"
  BY DEF Layout
<1>4. \A i, j \in 1 .. 9 : Layout[i] = Layout[j] => i = j
  BY <1>2, <1>3
<1>5. \A i \in 1 .. 9 : Layout[i] \in Dense <=> i <= 3
  BY <1>2, <1>3 DEF Dense
<1>6. \A i \in 1 .. 9 : Layout[i] \in {"LINE_RATE", "SONET_MODE"} <=> i <= 2
  BY <1>2, <1>3
<1>7. ToSet(Layout) = {Layout[i] : i \in 1 .. 9}
  BY <1>1 DEF ToSet
<1> QED
  BY <1>1, <1>4, <1>5, <1>6, <1>7 DEF N

LEMMA PrintedLines ==
  ASSUME NEW p
  PROVE  /\ DOMAIN Printed(p) = 1 .. 9
         /\ \A i \in 1 .. 9 : Printed(p)[i].item = Layout[i] /\ Printed(p)[i].val = p[Layout[i]]
         /\ IsPort(p) => \A i \in 1 .. 9 : IsLine(Printed(p)[i])
<1>1. Printed(p) = [i \in 1 .. 9 |-> [item |-> Layout[i], val |-> p[Layout[i]]]]
  BY LayoutLines DEF Printed, N
<1>2. \A i \in 1 .. 9 : Layout[i] \in ToSet(Layout)
  BY LayoutLines
<1>3. \A i \in 1 .. 9 : Printed(p)[i].item = Layout[i] /\ Printed(p)[i].val = p[Layout[i]]
  BY <1>1
<1> QED
  BY <1>1, <1>2, <1>3 DEF IsLine, IsPort

(* What the parser makes of a save: the second value of an item behind     *)
(* PPP_MODE is that of PPP_MODE.                                           *)
Second(p, j) == IF j <= 2 THEN p[Layout[j]][1] ELSE p["PPP_MODE"][1]
LEMMA ParsedPrinted ==
  ASSUME NEW p, IsPort(p)
  PROVE  \A j \in 1 .. 9 : /\ Parsed(Printed(p))[Layout[j]][0] = p[Layout[j]][0]
                           /\ Parsed(Printed(p))[Layout[j]][1] = Second(p, j)
<1>1. /\ DOMAIN Printed(p) = 1 .. 9
      /\ \A i \in 1 .. 9 : /\ Printed(p)[i].item = Layout[i] /\ Printed(p)[i].val = p[Layout[i]]
                            /\ IsLine(Printed(p)[i])
  BY PrintedLines
<1>2. PICK lines : lines = Printed(p)
  OBVIOUS
<1>3. PICK h : Reads(h, lines, 9) /\ Parsed(lines) = h[9].cfg
  <2>1. DOMAIN lines = 1 .. 9 /\ 9 \in Nat
    BY <1>1, <1>2
  <2> QED
    BY <2>1, ParsedReads
<1>4. \A i \in 0 .. 9 : Pair(h[i].value) /\ IsPort(h[i].cfg)
  BY <1>1, <1>2, <1>3, ReadPort
<1> DEFINE Right(i) == /\ \A j \in 1 .. i : /\ h[i].cfg[Layout[j]][0] = p[Layout[j]][0]
                                            /\ h[i].cfg[Layout[j]][1] = Second(p, j)
                       /\ i # 0 => h[i].value[1] = Second(p, i)
           Good == {i \in Nat : i <= 9 => Right(i)}
<1>5. 0 \in Good
  OBVIOUS
<1>6. ASSUME NEW k \in Nat, k \in Good PROVE k + 1 \in Good
  <2> SUFFICES ASSUME k + 1 <= 9 PROVE Right(k + 1)
    <3> HIDE DEF Right
    <3> QED
      OBVIOUS
  <2>1. k + 1 \in 1 .. 9 /\ k \in 0 .. 9 /\ k + 1 - 1 = k /\ k <= 9
    OBVIOUS
  <2>2. Right(k)
    <3> HIDE DEF Right
    <3> QED
      BY <2>1, <1>6
  <2>3. h[k + 1] = ReadLine(h[k], lines[k + 1])
    BY <2>1, <1>3 DEF Reads
  <2>4. PICK line : line = lines[k + 1] /\ line.item = Layout[k + 1] /\ line.val = p[Layout[k + 1]] /\ IsLine(line)
    BY <1>1, <1>2, <2>1
  <2>5. /\ h[k + 1].cfg[line.item] = h[k + 1].value
        /\ h[k + 1].value[0] = line.val[0]
        /\ h[k + 1].value[1] = IF line.item \in Dense THEN line.val[1] ELSE h[k].value[1]
        /\ \A i \in ToSet(Layout) \ {line.item} : h[k + 1].cfg[i] = h[k].cfg[i]
    <3>1. Pair(h[k].value) /\ IsPort(h[k].cfg)
      BY <1>4, <2>1
    <3> HIDE DEF Dense
    <3> QED
      BY <3>1, <2>3, <2>4, LineRead
  <2>6. h[k + 1].value[1] = Second(p, k + 1)
    <3>1. CASE k + 1 <= 2
      BY <3>1, <2>1, <2>4, <2>5, LayoutLines DEF Second
    <3>2. CASE k + 1 = 3
      BY <3>2, <2>1, <2>4, <2>5, LayoutLines DEF Second
    <3>3. CASE k + 1 > 3
      <4>1. line.item \notin Dense
        BY <3>3, <2>1, <2>4, LayoutLines
      <4>2. h[k].value[1] = Second(p, k)
        BY <3>3, <2>2
      <4>3. Second(p, k) = Second(p, k + 1)
        BY <3>3 DEF Second
      <4> QED
        BY <4>1, <4>2, <4>3, <2>5
    <3> QED
      BY <3>1, <3>2, <3>3
  <2>7. ASSUME NEW j \in 1 .. k + 1
        PROVE  /\ h[k + 1].cfg[Layout[j]][0] = p[Layout[j]][0]
               /\ h[k + 1].cfg[Layout[j]][1] = Second(p, j)
    <3>1. CASE j = k + 1
      BY <3>1, <2>4, <2>5, <2>6
    <3>2. CASE j # k + 1
      <4>1. j \in 1 .. k /\ j \in 1 .. 9
        BY <3>2, <2>1
      <4>2. Layout[j] \in ToSet(Layout) /\ Layout[j] # line.item
        BY <4>1, <3>2, <2>1, <2>4, LayoutLines
      <4>3. h[k + 1].cfg[Layout[j]] = h[k].cfg[Layout[j]]
        BY <4>2, <2>5
      <4> QED
        BY <4>1, <4>3, <2>2
    <3> QED
      BY <3>1, <3>2
  <2> QED
    BY <2>6, <2>7
<1>7. 9 \in Good
  <2> HIDE DEF Good
  <2>1. Nat \subseteq Good
    BY <1>5, <1>6, NatInd
  <2> QED
    BY <2>1
<1> QED
  BY <1>2, <1>3, <1>7

(* The settings in the database, in the streams and in the files.          *)
Ports ==
  /\ IsPort(port) /\ IsPort(saved)
  /\ \A k \in 0 .. MaxCmds : \A i \in 1 .. Len(inode[k]) : IsLine(inode[k][i])
  /\ \A c \in Clis : \A i \in 1 .. Len(left[c].lines) : IsLine(left[c].lines[i])
  /\ \A c \in Clis : At(c, "closed") => IsPort(job[c].seen)

LEMMA InitPorts == Init => Ports
<1> SUFFICES ASSUME Init PROVE Ports
  OBVIOUS
<1>1. IsPort(Factory)
  BY DEF Factory, IsPort, Pair
<1>2. ASSUME NEW k \in 0 .. MaxCmds, NEW i \in 1 .. Len(inode[k]) PROVE IsLine(inode[k][i])
  <2>1. inode[k] = Printed(Factory) \/ inode[k] = <<>>
    BY <1>2 DEF Init
  <2>2. CASE inode[k] = Printed(Factory)
    <3>1. Len(Printed(Factory)) = 9
      BY PrintedSeq, LayoutLines
    <3> QED
      BY <2>2, <3>1, <1>1, <1>2, PrintedLines
  <2>3. CASE inode[k] = <<>>
    BY <2>3, <1>2
  <2> QED
    BY <2>1, <2>2, <2>3
<1>3. \A c \in Clis : left[c].lines = <<>> /\ ~At(c, "closed")
  BY DEF Init, Nothing, At, Idle
<1> QED
  BY <1>1, <1>2, <1>3 DEF Ports, Init

LEMMA PortsLater ==
  ASSUME IsPort(port'), IsPort(saved'),
         \A k \in 0 .. MaxCmds : \A i \in 1 .. Len(inode'[k]) : IsLine(inode'[k][i]),
         \A c \in Clis : \A i \in 1 .. Len(left'[c].lines) : IsLine(left'[c].lines[i]),
         \A c \in Clis : job'[c].at = "closed" => IsPort(job'[c].seen)
  PROVE  Ports'
<1>1. IsPort(port)' /\ IsPort(saved)'
  BY DEF IsPort, Pair
<1>2. (\A k \in 0 .. MaxCmds : \A i \in 1 .. Len(inode[k]) : IsLine(inode[k][i]))'
  BY DEF IsLine, Pair
<1>3. (\A c \in Clis : \A i \in 1 .. Len(left[c].lines) : IsLine(left[c].lines[i]))'
  BY DEF IsLine, Pair
<1>4. (\A c \in Clis : At(c, "closed") => IsPort(job[c].seen))'
  BY DEF At, IsPort, Pair
<1> QED
  BY <1>1, <1>2, <1>3, <1>4 DEF Ports

LEMMA PortsFrame ==
  ASSUME Ports, UNCHANGED <<port, saved, inode, left>>,
         \A c \in Clis : job'[c] = job[c] \/ job'[c].at # "closed"
  PROVE  Ports'
BY PortsLater DEF Ports, At

(* Lines written over lines are lines.                                     *)
LEMMA OverLines ==
  ASSUME NEW s, NEW t, IsLines(s), IsLines(t),
         \A i \in 1 .. Len(s) : IsLine(s[i]), \A i \in 1 .. Len(t) : IsLine(t[i])
  PROVE  LET w == s \o SubSeq(t, Len(s) + 1, Len(t))
         IN  \A i \in 1 .. Len(w) : IsLine(w[i])
<1> DEFINE S == {s[i] : i \in DOMAIN s} \cup {t[i] : i \in DOMAIN t}
           w == s \o SubSeq(t, Len(s) + 1, Len(t))
<1>1. s \in Seq(S) /\ t \in Seq(S)
  BY DEF IsLines
<1>2. \A x \in S : IsLine(x)
  <2>1. DOMAIN s = 1 .. Len(s) /\ DOMAIN t = 1 .. Len(t)
    BY <1>1
  <2> QED
    BY <2>1
<1> HIDE DEF S
<1>3. w \in Seq(S)
  BY <1>1
<1> QED
  BY <1>2, <1>3

LEMMA JobOf ==
  ASSUME Jobs, NEW c \in Clis, NEW j, job' = [job EXCEPT ![c] = j]
  PROVE  job'[c] = j /\ \A d \in Clis \ {c} : job'[d] = job[d]
BY DEF Jobs

LEMMA SetPortPorts ==
  ASSUME NEW c \in Clis, NEW i \in Items, NEW k \in PortNos, NEW v, IInv, Ports, cli_set_oc(c, i, k, v)
  PROVE  Ports'
<1>1. port' = [port EXCEPT ![i] = [port[i] EXCEPT ![k] = v]]
      /\ UNCHANGED <<saved, inode, left, job>>
  BY DEF cli_set_oc, files
<1>2. IsPort(port')
  <2>1. port' = [j \in ToSet(Layout) |-> IF j = i THEN [port[i] EXCEPT ![k] = v] ELSE port[j]]
    BY <1>1 DEF Ports, IsPort
  <2>2. i \in ToSet(Layout) => Pair([port[i] EXCEPT ![k] = v])
    BY DEF Ports, IsPort, Pair
  <2> QED
    BY <2>1, <2>2 DEF Ports, IsPort
<1> QED
  BY <1>1, <1>2, PortsLater DEF Ports, At

LEMMA OpenPorts == ASSUME NEW c \in Clis, IInv, Ports, fopen_tmp(c) PROVE Ports'
<1>1. PICK k : inode' = [inode EXCEPT ![k] = <<>>]
  BY DEF fopen_tmp
<1>2. UNCHANGED <<port, saved, left>>
  BY DEF fopen_tmp, database
<1>3. \A d \in Clis : job'[d] = job[d] \/ job'[d].at # "closed"
  BY JobOf DEF fopen_tmp, IInv
<1>4. \A m \in 0 .. MaxCmds : inode'[m] = inode[m] \/ inode'[m] = <<>>
  BY <1>1 DEF IInv, Files, FileTypes
<1>5. \A m \in 0 .. MaxCmds : \A i \in 1 .. Len(inode'[m]) : IsLine(inode'[m][i])
  BY <1>4 DEF Ports
<1> QED
  BY <1>2, <1>3, <1>5, PortsLater DEF Ports, At

LEMMA ClosePorts == ASSUME NEW c \in Clis, IInv, Ports, save_close(c) PROVE Ports'
<1>1. inode' = Flushed(job[c].val, Printed(port)) /\ UNCHANGED <<port, saved, left>>
  BY DEF save_close, database
<1>2. \A d \in Clis : job'[d] = job[d] \/ job'[d].seen = port
  <2>1. PICK j : j = [job[c] EXCEPT !.at = "closed", !.seen = port] /\ job' = [job EXCEPT ![c] = j]
    BY DEF save_close
  <2>2. j.seen = port
    BY <2>1 DEF IInv, Jobs, IsJob
  <2> QED
    BY <2>1, <2>2, JobOf DEF IInv
<1>3. ASSUME NEW m \in 0 .. MaxCmds PROVE \A i \in 1 .. Len(inode'[m]) : IsLine(inode'[m][i])
  <2>1. inode'[m] = inode[m]
        \/ inode'[m] = Printed(port) \o SubSeq(inode[m], Len(Printed(port)) + 1, Len(inode[m]))
    BY <1>1 DEF Flushed, IInv, Files, FileTypes
  <2>2. IsLines(Printed(port)) /\ IsLines(inode[m])
    BY PrintedSeq DEF IInv, Files, FileTypes
  <2>3. \A i \in 1 .. Len(Printed(port)) : IsLine(Printed(port)[i])
    <3>1. Len(Printed(port)) = 9
      BY PrintedSeq, LayoutLines
    <3> QED
      BY <3>1, PrintedLines DEF Ports
  <2>4. \A i \in 1 .. Len(inode[m]) : IsLine(inode[m][i])
    BY DEF Ports
  <2> QED
    BY <2>1, <2>2, <2>3, <2>4, OverLines
<1> QED
  BY <1>1, <1>2, <1>3, PortsLater DEF Ports, At

LEMMA FirstLines ==
  ASSUME NEW S, NEW s \in Seq(S), NEW n \in 0 .. Len(s)
  PROVE  SubSeq(s, 1, n) \in Seq(S)
<1>1. \A i \in 1 .. n : s[i] \in S
  OBVIOUS
<1>2. 1 \in Int /\ n \in Int
  OBVIOUS
<1> QED
  BY <1>1, <1>2, SubSeqProperties

LEMMA FailsPorts == ASSUME NEW c \in Clis, IInv, Ports, save_fails(c) PROVE Ports'
<1>1. UNCHANGED <<port, saved, inode>>
  BY DEF save_fails, database
<1>2. \A d \in Clis : job'[d] = job[d] \/ job'[d].at # "closed"
  BY JobOf DEF save_fails, IInv, Stops, Idle
<1>3. PICK n \in 0 .. Len(Layout) - 1 :
        \E l : /\ l = [file |-> job[c].val, lines |-> SubSeq(Printed(port), 1, n)]
              /\ left' = [left EXCEPT ![c] = l]
  BY DEF save_fails
<1>l. PICK l : /\ l = [file |-> job[c].val, lines |-> SubSeq(Printed(port), 1, n)]
              /\ left' = [left EXCEPT ![c] = l]
  BY <1>3
<1>4. \A i \in 1 .. Len(l.lines) : IsLine(l.lines[i])
  <2> DEFINE S == {Printed(port)[i] : i \in DOMAIN Printed(port)}
  <2>1. IsLines(Printed(port)) /\ Len(Printed(port)) = 9 /\ Len(Layout) = 9
    BY PrintedSeq, LayoutLines DEF N
  <2>2. Printed(port) \in Seq(S)
    BY <2>1 DEF IsLines
  <2>3. \A x \in S : IsLine(x)
    <3>1. DOMAIN Printed(port) = 1 .. 9 /\ \A i \in 1 .. 9 : IsLine(Printed(port)[i])
      BY PrintedLines DEF Ports
    <3>2. \A x \in S : \E i \in 1 .. 9 : x = Printed(port)[i]
      BY <3>1
    <3>3. \A i \in 1 .. 9 : IsLine(Printed(port)[i])
      BY <3>1
    <3> HIDE DEF S
    <3> SUFFICES ASSUME NEW x \in S PROVE IsLine(x)
      OBVIOUS
    <3>4. PICK i \in 1 .. 9 : x = Printed(port)[i]
      BY <3>2
    <3>5. IsLine(Printed(port)[i])
      BY <3>3
    <3> QED
      BY <3>4, <3>5 DEF IsLine
  <2> HIDE DEF S
  <2>4. SubSeq(Printed(port), 1, n) \in Seq(S)
    <3>1. n \in 0 .. Len(Printed(port))
      BY <1>3, <2>1
    <3> QED
      BY <2>2, <3>1, FirstLines
  <2> QED
    BY <1>l, <2>3, <2>4
<1>5. \A d \in Clis : left'[d] = left[d] \/ left'[d] = l
  BY <1>l DEF IInv, Files, FileTypes
<1>6. \A d \in Clis : \A i \in 1 .. Len(left'[d].lines) : IsLine(left'[d].lines[i])
  BY <1>4, <1>5 DEF Ports
<1> QED
  BY <1>1, <1>2, <1>6, PortsLater DEF Ports, At

LEMMA RenamePorts == ASSUME NEW c \in Clis, IInv, Ports, save_rename(c) PROVE Ports'
<1>1. UNCHANGED <<port, inode, left>> /\ (saved' = job[c].seen \/ saved' = saved) /\ At(c, "closed")
  BY DEF save_rename, database
<1>2. \A d \in Clis : job'[d] = job[d] \/ job'[d].at # "closed"
  BY JobOf DEF save_rename, IInv, Stops, Idle
<1> QED
  BY <1>1, <1>2, PortsLater DEF Ports, At

LEMMA ExitPorts == ASSUME NEW c \in Clis, IInv, Ports, exit(c) PROVE Ports'
<1>1. /\ inode' = Flushed(left[c].file, left[c].lines) /\ left' = [left EXCEPT ![c] = Nothing]
      /\ UNCHANGED <<port, saved, job>> /\ left[c] # Nothing
  BY DEF exit, database
<1>2. ASSUME NEW m \in 0 .. MaxCmds PROVE \A i \in 1 .. Len(inode'[m]) : IsLine(inode'[m][i])
  <2>1. PICK s : s = left[c].lines
    OBVIOUS
  <2>2. inode'[m] = inode[m] \/ inode'[m] = s \o SubSeq(inode[m], Len(s) + 1, Len(inode[m]))
    BY <1>1, <2>1 DEF Flushed, IInv, Files, FileTypes
  <2>3. IsLines(s) /\ IsLines(inode[m])
    BY <1>1, <2>1 DEF IInv, Files, FileTypes
  <2>4. (\A i \in 1 .. Len(s) : IsLine(s[i])) /\ \A i \in 1 .. Len(inode[m]) : IsLine(inode[m][i])
    BY <2>1 DEF Ports
  <2> QED
    BY <2>2, <2>3, <2>4, OverLines
<1>3. \A d \in Clis : left'[d] = left[d] \/ left'[d].lines = <<>>
  BY <1>1 DEF IInv, Files, FileTypes, Nothing
<1>4. \A d \in Clis : \A i \in 1 .. Len(left'[d].lines) : IsLine(left'[d].lines[i])
  BY <1>3 DEF Ports
<1> QED
  BY <1>1, <1>2, <1>4, PortsLater DEF Ports, At

LEMMA NewDatabasePorts == IInv /\ Ports /\ db_init_config => Ports'
<1> SUFFICES ASSUME IInv, Ports, db_init_config PROVE Ports'
  OBVIOUS
<1>1. UNCHANGED <<saved, inode, left, job>> /\ (port' = Parsed(inode[conf]) \/ port' = port)
  BY DEF db_init_config, files
<1>2. conf \in 0 .. MaxCmds
  BY ConfigAssumption DEF IInv, Files, Fresh, FileTypes
<1>3. IsPort(Parsed(inode[conf]))
  BY <1>2, ParsedPort DEF Ports, IInv, Files, FileTypes
<1> QED
  BY <1>1, <1>3, PortsLater DEF Ports, At

LEMMA PortsStep == IInv /\ Ports /\ [Next]_vars => Ports'
<1> SUFFICES ASSUME IInv, Ports, [Next]_vars PROVE Ports'
  OBVIOUS
<1>1. ASSUME NEW c \in Clis, NEW at, NEW n, NEW v, Starts(c, at, n, v), at # "closed"
      PROVE  \A d \in Clis : job'[d] = job[d] \/ job'[d].at # "closed"
  BY <1>1, JobOf DEF Starts, IInv
<1>2. ASSUME NEW c \in Clis, NEW v,
             \/ \E n \in Names : cli_set_word(c, n, v)
             \/ \E e \in Ends : cli_set_eth_mac(c, e, v)
      PROVE  Ports'
  BY <1>1, <1>2, PortsFrame DEF cli_set_word, cli_set_eth_mac, files
<1>3. ASSUME NEW c \in Clis,
             \E pbmp \in SUBSET Lines \ {{}}, normal \in BOOLEAN : cli_bypass_set(c, pbmp, normal)
      PROVE  Ports'
  <2>1. PICK pbmp, normal : cli_bypass_set(c, pbmp, normal)
    BY <1>3
  <2>2. PICK j : /\ j = [at |-> "tap", name |-> "tap", val |-> <<pbmp, normal>>, seen |-> 0]
                  /\ job' = [job EXCEPT ![c] = j]
    BY <2>1 DEF cli_bypass_set
  <2>3. j.at = "tap"
    BY <2>2
  <2> QED
    BY <2>1, <2>2, <2>3, JobOf, PortsFrame DEF cli_bypass_set, files, database, IInv
<1>4. ASSUME NEW c \in Clis, NEW at, Goes(c, at), at # "closed"
      PROVE  \A d \in Clis : job'[d] = job[d] \/ job'[d].at # "closed"
  <2>1. PICK j : j = [job[c] EXCEPT !.at = at] /\ job' = [job EXCEPT ![c] = j]
    BY <1>4 DEF Goes
  <2>2. j.at = at
    BY <2>1 DEF IInv, Jobs, IsJob
  <2> QED
    BY <2>1, <2>2, <1>4, JobOf DEF IInv
<1>5. ASSUME NEW c \in Clis, Stops(c)
      PROVE  \A d \in Clis : job'[d] = job[d] \/ job'[d].at # "closed"
  BY <1>5, JobOf DEF IInv, Stops, Idle
<1>6. ASSUME NEW c \in Clis, drv_set_word(c) PROVE Ports'
  BY <1>5, <1>6, PortsFrame DEF drv_set_word, files, database
<1>7. ASSUME NEW c \in Clis, drv_set_eth_mac(c) PROVE Ports'
  <2>1. UNCHANGED <<port, saved, inode, left>>
    BY <1>7 DEF drv_set_eth_mac, MacFrame, files, database
  <2>2. \/ job' = [job EXCEPT ![c].at = "low", ![c].seen = addr.high]
        \/ Goes(c, "high") \/ Goes(c, "latch") \/ Stops(c)
    BY <1>7, Zenon DEF drv_set_eth_mac, MacStep
  <2>3. CASE job' = [job EXCEPT ![c].at = "low", ![c].seen = addr.high]
    <3>1. PICK j : j = [job[c] EXCEPT !.at = "low", !.seen = addr.high] /\ job' = [job EXCEPT ![c] = j]
      BY <2>3
    <3>2. j.at = "low"
      BY <3>1 DEF IInv, Jobs, IsJob
    <3> QED
      BY <2>1, <3>1, <3>2, JobOf, PortsFrame DEF IInv
  <2> QED
    BY <2>1, <2>2, <2>3, <1>4, <1>5, PortsFrame
<1>8. ASSUME NEW c \in Clis, cli_reset_default_config(c) PROVE Ports'
  <2>1. PICK j : j = [Idle EXCEPT !.at = "reset"] /\ job' = [job EXCEPT ![c] = j]
    BY <1>8 DEF cli_reset_default_config
  <2>2. j.at = "reset"
    BY <2>1 DEF Idle
  <2> QED
    BY <1>8, <2>1, <2>2, JobOf, PortsFrame DEF cli_reset_default_config, files, database, IInv
<1>9. ASSUME NEW c \in Clis, drv_reset_global_default_config(c) \/ db_reset_global_default_conf(c)
      PROVE  Ports'
  BY <1>4, <1>5, <1>9, PortsFrame
     DEF drv_reset_global_default_config, db_reset_global_default_conf, files, database
<1>10. ASSUME NEW c \in Clis, drv_bypass_set(c) PROVE Ports'
  <2>1. UNCHANGED <<port, saved, inode, left>>
    BY <1>10 DEF drv_bypass_set, files, database
  <2>2. job' = [job EXCEPT ![c].at = "tapset", ![c].seen = tap] \/ Stops(c)
    BY <1>10, Zenon DEF drv_bypass_set
  <2>3. CASE job' = [job EXCEPT ![c].at = "tapset", ![c].seen = tap]
    <3>1. PICK j : j = [job[c] EXCEPT !.at = "tapset", !.seen = tap] /\ job' = [job EXCEPT ![c] = j]
      BY <2>3
    <3>2. j.at = "tapset"
      BY <3>1 DEF IInv, Jobs, IsJob
    <3> QED
      BY <2>1, <3>1, <3>2, JobOf, PortsFrame DEF IInv
  <2> QED
    BY <2>1, <2>2, <2>3, <1>5, PortsFrame
<1>11. ASSUME NEW c \in Clis,
              fopen_tmp(c) \/ save_close(c) \/ save_fails(c) \/ save_rename(c) \/ exit(c)
       PROVE  Ports'
  BY <1>11, OpenPorts, ClosePorts, FailsPorts, RenamePorts, ExitPorts
<1>12. ASSUME NEW c \in Clis, NEW v, \E i \in Items, k \in PortNos : cli_set_oc(c, i, k, v)
       PROVE  Ports'
  BY <1>12, SetPortPorts
<1>13. ASSUME bypass_monitor PROVE Ports'
  BY <1>13, PortsFrame DEF bypass_monitor, files, database
<1>14. ASSUME UNCHANGED vars PROVE Ports'
  BY <1>14, PortsFrame DEF vars, files, database
<1> QED
  BY <1>2, <1>3, <1>6, <1>7, <1>8, <1>9, <1>10, <1>11, <1>12, <1>13, <1>14, NewDatabasePorts DEF Next

(* After a restart the database has of the saved settings all those of     *)
(* port 0, and of port 1 those on the lines up to PPP_MODE; the others of  *)
(* port 1 come back as the PPP_MODE of port 1.                             *)
THEOREM RestartKeeps == Spec => []SurvivesRestart
<1>1. IInv /\ Ports => SurvivesRestart
  <2> SUFFICES ASSUME IInv, Ports, Quiet, conf \notin smeared, NEW i \in ToSet(Layout)
               PROVE  /\ Parsed(inode[conf])[i][0] = saved[i][0]
                      /\ Parsed(inode[conf])[i][1]
                           = IF i \in {"LINE_RATE", "SONET_MODE"} THEN saved[i][1] ELSE saved["PPP_MODE"][1]
    BY DEF SurvivesRestart
  <2>1. inode[conf] = Printed(saved)
    BY DEF IInv, Files, ConfWhole, Quiet, Opened, At
  <2>2. PICK j \in 1 .. 9 : i = Layout[j]
    BY LayoutLines
  <2>3. Second(saved, j) = IF i \in {"LINE_RATE", "SONET_MODE"} THEN saved[i][1] ELSE saved["PPP_MODE"][1]
    BY <2>2, LayoutLines DEF Second
  <2>4. IsPort(saved)
    BY DEF Ports
  <2> QED
    BY <2>1, <2>2, <2>3, <2>4, ParsedPrinted
<1>2. Init => IInv /\ Ports
  BY InitInv, InitPorts
<1>3. IInv /\ Ports /\ [Next]_vars => (IInv /\ Ports)'
  BY StepInv, PortsStep
<1> QED
  BY <1>1, <1>2, <1>3, PTL DEF Spec
=============================================================================
