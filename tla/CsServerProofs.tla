---------------------------- MODULE CsServerProofs ----------------------------
(***************************************************************************)
(* What holds of CsServer for every set of clients, every number of lines  *)
(* and commands, every buffer that one response fits in.                   *)
(***************************************************************************)
EXTENDS CsServer, TLAPS

LineSet == [c : Clients, n : Nat, i : 0 .. Lines]
Cells == LineSet \cup {None}
Results == [result : {-1, 0, 1}, lines : Seq(Cells)]
Inside == {"sleep", "index", "answer"}
Busy == Inside \cup {"SET", "CLOSE", "SHUTDOWN"}

Types ==
  /\ cl \in [Clients -> {"off", "idle", "wait", "closed", "dead"}]
  /\ cnt \in [Clients -> Nat]
  /\ rq \in [Clients -> {"none", "SET", "CLOSE", "SHUTDOWN"}]
  /\ rs \in [Clients -> Results]
  /\ backlog \in Seq(Clients)
  /\ cs_run \in BOOLEAN /\ late \in BOOLEAN
  /\ thr \in [Clients -> Busy \cup {"none", "read", "exit"}]
  /\ index \in [Clients -> 0 .. MaxTty - 1]
  /\ g_cs_mutex \in Clients \cup {None}
  /\ jobs \in Seq(LineSet) /\ tmpbuf \in Cells
  /\ ttybuf \in [1 .. MaxTty -> Cells] /\ ttyCount \in 0 .. MaxTty - 1

(* A line that was copied has its place in the buffer.                     *)
Room == copied \in BOOLEAN /\ (copied => tmpbuf # None /\ ttyCount + 1 < MaxTty)

(* A request of a client is in its stream, or with its thread, or answered:*)
(* in one place, and the client waits for it, or is dead.                  *)
OneRequest ==
  \A c \in Clients :
    /\ cl[c] = "off" => thr[c] = "none"
    /\ rq[c] # "none" => thr[c] \notin Busy
    /\ rq[c] # "none" \/ thr[c] \in Busy => rs[c] = NoRes /\ cl[c] \in {"wait", "dead"}
    /\ rs[c] # NoRes => cl[c] = "wait"

(* The connections to accept are those of different clients that have no   *)
(* thread yet.                                                             *)
NotServed ==
  /\ \A i \in 1 .. Len(backlog) : thr[backlog[i]] = "none" /\ cl[backlog[i]] # "off"
  /\ \A i, j \in 1 .. Len(backlog) : backlog[i] = backlog[j] => i = j

(* The thread that has the mutex is the one inside csipc_set.              *)
Mutex ==
  \A c \in Clients : thr[c] \in Inside <=> g_cs_mutex = c

-----------------------------------------------------------------------------
(* As long as every wait was long enough: between two commands the shell   *)
(* is silent and nothing is counted; while a thread waits, the lines that  *)
(* are counted are the beginning of the response to its command, and the   *)
(* one that comes next is with tty2net or is the only one to come; after   *)
(* the wait the whole response is in the buffer.                           *)
Printed(c, k) == \A i \in 1 .. k : ttybuf[i] = Line(c, cnt[c], i - 1)
Rest(c, k) == IF k <= Lines THEN <<Line(c, cnt[c], k)>> ELSE <<>>
Waiting(c) ==
  /\ ttyCount <= Lines + 1 /\ Printed(c, ttyCount)
  /\ \/ tmpbuf = None /\ ~copied /\ jobs = Rest(c, ttyCount)
     \/ /\ ttyCount <= Lines
        /\ tmpbuf = Line(c, cnt[c], ttyCount) /\ jobs = Rest(c, ttyCount + 1)
        /\ copied => ttybuf[ttyCount + 1] = tmpbuf
Collected(c) ==
  /\ AllThere /\ ~copied
  /\ Printed(c, Lines + 1) /\ index[c] = Lines + 1
  /\ ttyCount = IF thr[c] = "index" THEN Lines + 1 ELSE 0
Silent == AllThere /\ ~copied /\ ttyCount = 0
InTime ==
  ~late =>
    /\ g_cs_mutex = None => Silent
    /\ \A c \in Clients : /\ thr[c] = "sleep" => Waiting(c)
                          /\ thr[c] \in {"index", "answer"} => Collected(c)

IInv == Types /\ Room /\ OneRequest /\ NotServed /\ Mutex /\ InTime /\ PromptIsWhole

-----------------------------------------------------------------------------
LEMMA ResultTypes ==
  /\ NoRes \in Results /\ [result |-> 0, lines |-> <<>>] \in Results
  /\ \A s \in Seq(Cells) : [result |-> 1, lines |-> s] \in Results
<1>1. <<>> \in Seq(Cells)
  OBVIOUS
<1> QED
  BY <1>1 DEF NoRes, Results

LEMMA BacklogTypes == Types => \A i \in 1 .. Len(backlog) : backlog[i] \in Clients
BY DEF Types

(* The steps that do not touch the terminal and move no thread into or out *)
(* of csipc_set leave what is collected alone.                             *)
LEMMA TtyFrame ==
  ASSUME IInv, UNCHANGED <<ttyvars, index, g_cs_mutex, late>>,
         \A c \in Clients : /\ thr'[c] \in Inside \/ thr[c] \in Inside => thr'[c] = thr[c]
                            /\ thr[c] \in Inside => cnt'[c] = cnt[c]
  PROVE  Mutex' /\ InTime' /\ Room'
<1> USE DEF IInv
<1>1. Mutex'
  BY DEF Mutex, Inside
<1>2. Room'
  BY DEF Room, ttyvars
<1>3. \A c \in Clients : thr'[c] = "sleep" => (Waiting(c) => Waiting(c)')
  BY DEF Waiting, Printed, Rest, Line, Inside, ttyvars
<1>4. \A c \in Clients : thr'[c] \in {"index", "answer"} => (Collected(c) => Collected(c)')
  BY DEF Collected, Printed, AllThere, Line, Inside, ttyvars
<1>5. Silent => Silent'
  BY DEF Silent, AllThere, ttyvars
<1> QED
  BY <1>1, <1>2, <1>3, <1>4, <1>5 DEF InTime, Inside

(* The invariant of the responses, when none is sent.                      *)
LEMMA ResponseFrame ==
  ASSUME IInv, UNCHANGED late,
         \A c \in Clients : \/ rs'[c] = rs[c] /\ cnt'[c] = cnt[c]
                            \/ rs'[c] = NoRes
  PROVE  PromptIsWhole'
BY DEF IInv, PromptIsWhole, AllTheResponse, Whole, NoRes, Response, Line

LEMMA InitInv == Init => IInv
<1> SUFFICES ASSUME Init PROVE IInv
  OBVIOUS
<1> USE CsAssumption DEF Init
<1>1. Types
  <2>1. rs \in [Clients -> Results]
    BY ResultTypes
  <2>2. ttybuf \in [1 .. MaxTty -> Cells] /\ tmpbuf \in Cells
    BY DEF Cells
  <2>3. jobs \in Seq(LineSet) /\ backlog \in Seq(Clients)
    OBVIOUS
  <2>4. index \in [Clients -> 0 .. MaxTty - 1] /\ ttyCount \in 0 .. MaxTty - 1
    OBVIOUS
  <2> QED
    BY <2>1, <2>2, <2>3, <2>4 DEF Types
<1>2. Room /\ OneRequest /\ NotServed /\ Mutex
  <2>1. \A c \in Clients : thr[c] = "none" /\ rq[c] = "none" /\ rs[c] = NoRes /\ c # None
    OBVIOUS
  <2>2. Room /\ NotServed
    <3>1. Len(backlog) = 0 /\ copied = FALSE
      OBVIOUS
    <3>2. Room
      BY <3>1 DEF Room
    <3>3. NotServed
      BY <3>1 DEF NotServed
    <3> QED
      BY <3>2, <3>3
  <2>3. OneRequest
    BY <2>1 DEF OneRequest, Busy, Inside
  <2>4. Mutex
    BY <2>1 DEF Mutex, Inside
  <2> QED
    BY <2>2, <2>3, <2>4
<1>3. InTime
  BY DEF InTime, Silent, AllThere
<1>4. PromptIsWhole
  BY DEF PromptIsWhole, AllTheResponse, Whole, NoRes
<1> QED
  BY <1>1, <1>2, <1>3, <1>4 DEF IInv

-----------------------------------------------------------------------------
(* The clients.                                                            *)
LEMMA OpenInv == ASSUME NEW c \in Clients, IInv, cs_cl_open(c) PROVE IInv'
<1> USE DEF cs_cl_open, IInv
<1>1. Types'
  BY DEF Types, ttyvars
<1>2. Mutex' /\ InTime' /\ Room' /\ PromptIsWhole'
  BY TtyFrame, ResponseFrame
<1>3. OneRequest'
  BY DEF OneRequest, Types
<1>4. NotServed'
  <2>1. backlog \in Seq(Clients) /\ cl \in [Clients -> {"off", "idle", "wait", "closed", "dead"}]
    BY DEF Types
  <2>2. Len(backlog) \in Nat /\ Len(backlog') = Len(backlog) + 1
        /\ backlog'[Len(backlog) + 1] = c
        /\ \A i \in 1 .. Len(backlog) : backlog'[i] = backlog[i]
    BY <2>1
  <2>3. \A i \in 1 .. Len(backlog) : backlog[i] # c /\ cl'[backlog[i]] # "off"
    BY <2>1, BacklogTypes DEF NotServed
  <2>4. thr[c] = "none" /\ cl'[c] # "off"
    BY <2>1 DEF OneRequest
  <2> QED
    BY <2>2, <2>3, <2>4 DEF NotServed
<1> QED
  BY <1>1, <1>2, <1>3, <1>4

LEMMA RequestInv ==
  ASSUME NEW c \in Clients, IInv, cs_cl_insert_str(c) \/ cs_cl_close(c) \/ cs_cl_shutdown(c)
  PROVE  IInv'
<1>1. PICK cmd \in {"SET", "CLOSE", "SHUTDOWN"} : cs_cl_send_req(c, cmd)
  BY DEF cs_cl_insert_str, cs_cl_close, cs_cl_shutdown
<1> USE <1>1 DEF cs_cl_send_req, IInv
<1>2. cnt' \in [Clients -> Nat] /\ \A d \in Clients \ {c} : cnt'[d] = cnt[d]
  <2>1. cnt \in [Clients -> Nat] /\ (cnt' = cnt \/ cnt' = [cnt EXCEPT ![c] = cnt[c] + 1])
    BY DEF cs_cl_insert_str, cs_cl_close, cs_cl_shutdown, Types
  <2> QED
    BY <2>1
<1>3. rs[c] = NoRes /\ rq[c] = "none" /\ thr[c] \notin Busy
  BY DEF OneRequest
<1>4. Types'
  BY <1>2 DEF Types, ttyvars
<1>5. Mutex' /\ InTime' /\ Room'
  BY <1>2, <1>3, TtyFrame DEF Busy
<1>6. PromptIsWhole'
  BY <1>2, <1>3, ResponseFrame
<1>7. OneRequest'
  BY <1>3 DEF OneRequest, Types
<1>8. NotServed'
  BY BacklogTypes DEF NotServed, Types
<1> QED
  BY <1>4, <1>5, <1>6, <1>7, <1>8

LEMMA ReadResInv ==
  ASSUME NEW c \in Clients, IInv, cs_cl_read_res(c) \/ kill(c) PROVE IInv'
<1> USE DEF cs_cl_read_res, kill, IInv
<1>1. cl' \in [Clients -> {"off", "idle", "wait", "closed", "dead"}]
      /\ cl[c] # "off" /\ cl'[c] # "off" /\ \A d \in Clients \ {c} : cl'[d] = cl[d]
  BY DEF Types
<1>2. rs' \in [Clients -> Results]
  BY ResultTypes DEF Types
<1>3. Types'
  BY <1>1, <1>2 DEF Types, ttyvars
<1>4. rs'[c] = NoRes /\ \A d \in Clients \ {c} : rs'[d] = rs[d]
  BY DEF Types
<1>5. Mutex' /\ InTime' /\ Room'
  BY TtyFrame
<1>6. PromptIsWhole'
  BY <1>4, ResponseFrame
<1>7. OneRequest'
  BY <1>1, <1>4 DEF OneRequest, Types
<1>8. NotServed'
  BY <1>1, BacklogTypes DEF NotServed, Types
<1> QED
  BY <1>3, <1>5, <1>6, <1>7, <1>8

-----------------------------------------------------------------------------
(* The server.                                                             *)
LEMMA AcceptInv == IInv /\ start_console_srv => IInv'
<1> SUFFICES ASSUME IInv, start_console_srv PROVE IInv'
  OBVIOUS
<1> USE DEF IInv
<1>1. CASE while_cs_run
  <2> USE <1>1 DEF while_cs_run
  <2>1. Types' /\ OneRequest' /\ NotServed'
    BY DEF Types, OneRequest, NotServed, clvars, ttyvars
  <2> QED
    BY <2>1, TtyFrame, ResponseFrame DEF clvars
<1>2. CASE accept
  <2> USE <1>2 DEF accept
  <2>1. Len(backlog) \in Nat \ {0} /\ Head(backlog) = backlog[1]
        /\ \A i \in 1 .. Len(backlog) : backlog[i] \in Clients
    BY DEF Types
  <2>2. backlog' \in Seq(Clients) /\ Len(backlog') = Len(backlog) - 1
        /\ \A i \in 1 .. Len(backlog') : backlog'[i] = backlog[i + 1]
    BY DEF Types
  <2> DEFINE c == Head(backlog)
  <2>3. thr[c] = "none" /\ cl[c] # "off" /\ c \in Clients
        /\ \A i \in 1 .. Len(backlog') : backlog'[i] # c
    BY <2>1, <2>2 DEF NotServed
  <2>4. thr' = [thr EXCEPT ![c] = "read"] \/ thr' = thr
    OBVIOUS
  <2> HIDE DEF c
  <2>5. Types'
    BY <2>2, <2>3, <2>4 DEF Types, clvars, ttyvars
  <2>6. OneRequest'
    BY <2>3, <2>4 DEF OneRequest, Types, clvars, Busy, Inside
  <2>7. NotServed'
    BY <2>1, <2>2, <2>3, <2>4, BacklogTypes DEF NotServed, Types, clvars
  <2>8. \A d \in Clients : thr'[d] \in Inside \/ thr[d] \in Inside => thr'[d] = thr[d]
    BY <2>3, <2>4 DEF Types, Inside
  <2> QED
    BY <2>5, <2>6, <2>7, <2>8, TtyFrame, ResponseFrame DEF clvars
<1> QED
  BY <1>1, <1>2 DEF start_console_srv

LEMMA ReadRequestInv == ASSUME NEW c \in Clients, IInv, csipc_read_request(c) PROVE IInv'
<1> USE DEF csipc_read_request, IInv
<1>1. thr' = [thr EXCEPT ![c] = rq[c]] /\ rq[c] \in Busy \ Inside
  BY DEF Types, Busy, Inside
<1>2. Types'
  BY <1>1 DEF Types, clvars, ttyvars
<1>3. OneRequest'
  BY <1>1 DEF OneRequest, Types, clvars
<1>4. NotServed'
  BY <1>1, BacklogTypes DEF NotServed, Types, clvars
<1>5. \A d \in Clients : thr'[d] \in Inside \/ thr[d] \in Inside => thr'[d] = thr[d]
  BY <1>1 DEF Types, Inside
<1> QED
  BY <1>2, <1>3, <1>4, <1>5, TtyFrame, ResponseFrame DEF clvars

(* A thread that ends, with or without the answer to a CLOSE.              *)
LEMMA EndInv ==
  ASSUME NEW c \in Clients, IInv, csipc_close(c) \/ csipc_shutdown(c) PROVE IInv'
<1> USE DEF csipc_close, csipc_shutdown, IInv
<1> DEFINE closed == [result |-> 0, lines |-> <<>>]
<1>1. /\ thr[c] \in Busy \ Inside /\ thr' = [thr EXCEPT ![c] = "exit"]
      /\ UNCHANGED <<clvars, rq, backlog, index, g_cs_mutex, ttyvars, late>>
      /\ cs_run' \in BOOLEAN
  BY DEF Types, Busy, Inside
<1>2. rs' = rs \/ (cl[c] # "dead" /\ rs' = [rs EXCEPT ![c] = closed])
  BY DEF csipc_send_response
<1>3. rs' \in [Clients -> Results]
      /\ \A d \in Clients : rs'[d] = rs[d] \/ (d = c /\ cl[c] # "dead" /\ rs'[c] = closed)
  <2>1. closed \in Results
    BY ResultTypes
  <2> HIDE DEF closed
  <2> QED
    BY <1>2, <2>1 DEF Types
<1>4. Types'
  BY <1>1, <1>3 DEF Types, clvars, ttyvars
<1>5. OneRequest'
  <2>1. rq[c] = "none" /\ cl[c] \in {"wait", "dead"}
    BY <1>1 DEF OneRequest, Types
  <2>2. thr'[c] = "exit" /\ \A d \in Clients \ {c} : thr'[d] = thr[d]
    BY <1>1 DEF Types
  <2> QED
    BY <2>1, <2>2, <1>1, <1>3 DEF OneRequest, clvars, Busy, Inside
<1>6. NotServed'
  BY <1>1, BacklogTypes DEF NotServed, Types, clvars, Busy
<1>7. \A d \in Clients : thr'[d] \in Inside \/ thr[d] \in Inside => thr'[d] = thr[d]
  BY <1>1 DEF Types, Inside
<1>8. Mutex' /\ InTime' /\ Room'
  BY <1>1, <1>7, TtyFrame DEF clvars
<1>9. PromptIsWhole'
  <2>1. closed.result # 1
    OBVIOUS
  <2> HIDE DEF closed
  <2> QED
    BY <2>1, <1>1, <1>3 DEF PromptIsWhole, AllTheResponse, Whole, Response, Line, clvars
<1> QED
  BY <1>4, <1>5, <1>6, <1>8, <1>9

-----------------------------------------------------------------------------
(* A command.  A thread steps on inside csipc_set while its client waits   *)
(* or is dead.                                                             *)
LEMMA Stepping ==
  ASSUME NEW c \in Clients, IInv, NEW to, thr' = [thr EXCEPT ![c] = to],
         to \in Inside \cup {"read"}, thr[c] \in Inside \cup {"SET"},
         UNCHANGED <<clvars, rq, backlog>>
  PROVE  /\ thr' \in [Clients -> Busy \cup {"none", "read", "exit"}]
         /\ thr'[c] = to /\ \A d \in Clients \ {c} : thr'[d] = thr[d]
         /\ cl[c] \in {"wait", "dead"} /\ rs[c] = NoRes /\ rq[c] = "none"
         /\ NotServed'
<1> USE DEF IInv
<1>1. thr' \in [Clients -> Busy \cup {"none", "read", "exit"}]
      /\ thr'[c] = to /\ \A d \in Clients \ {c} : thr'[d] = thr[d]
  BY DEF Types, Busy, Inside
<1>2. cl[c] \in {"wait", "dead"} /\ rs[c] = NoRes /\ rq[c] = "none"
  BY DEF OneRequest, Busy, Types
<1>3. NotServed'
  <2>1. thr[c] # "none"
    BY DEF Inside
  <2> QED
    BY <1>1, <2>1, BacklogTypes DEF NotServed, clvars
<1> QED
  BY <1>1, <1>2, <1>3

(* The mutex is free, so the shell is silent, and the first line to come   *)
(* is the echo of this command.                                            *)
LEMMA SetInv == ASSUME NEW c \in Clients, IInv, csipc_set(c) PROVE IInv'
<1> USE CsAssumption DEF csipc_set, IInv
<1>1. thr[c] = "SET" /\ thr' = [thr EXCEPT ![c] = "sleep"] /\ g_cs_mutex' = c
      /\ jobs' = Append(jobs, Line(c, cnt[c], 0))
      /\ UNCHANGED <<clvars, rq, rs, backlog, cs_run, index, tmpbuf, copied, ttybuf, ttyCount, late>>
  BY DEF At
<1>2. /\ thr' \in [Clients -> Busy \cup {"none", "read", "exit"}]
      /\ thr'[c] = "sleep" /\ \A d \in Clients \ {c} : thr'[d] = thr[d]
      /\ cl[c] \in {"wait", "dead"} /\ rs[c] = NoRes /\ rq[c] = "none"
      /\ NotServed'
  BY <1>1, Stepping DEF Inside
<1>3. Types'
  <2>1. Line(c, cnt[c], 0) \in LineSet
    BY DEF Line, LineSet, Types
  <2>2. jobs' \in Seq(LineSet)
    BY <1>1, <2>1 DEF Types
  <2> QED
    BY <1>1, <1>2, <2>2 DEF Types, clvars
<1>4. Room' /\ OneRequest'
  BY <1>1, <1>2 DEF Room, OneRequest, clvars
<1>5. Mutex'
  BY <1>1, <1>2 DEF Mutex, Inside
<1>6. InTime'
  <2> SUFFICES ASSUME ~late PROVE Waiting(c)'
    BY <1>1, <1>2, <1>5 DEF InTime, Mutex, Inside
  <2>1. jobs = <<>> /\ tmpbuf = None /\ ~copied /\ ttyCount = 0
    BY DEF InTime, Silent, AllThere
  <2>2. jobs' = <<Line(c, cnt[c], 0)>>
    BY <1>1, <2>1
  <2>3. Rest(c, 0)' = jobs'
    <3>1. cnt' = cnt /\ 0 <= Lines
      BY <1>1 DEF clvars
    <3> QED
      BY <3>1, <2>2 DEF Rest
  <2> QED
    BY <1>1, <2>1, <2>3 DEF Waiting, Printed
<1>7. PromptIsWhole'
  BY <1>1, ResponseFrame DEF clvars
<1> QED
  BY <1>2, <1>3, <1>4, <1>5, <1>6, <1>7

(* If the wait was long enough everything is there, and it is the whole    *)
(* response: Lines + 1 lines.                                              *)
LEMMA WakeupInv == ASSUME NEW c \in Clients, IInv, wakeup(c) PROVE IInv'
<1> USE CsAssumption DEF wakeup, IInv
<1>1. thr[c] = "sleep" /\ thr' = [thr EXCEPT ![c] = "index"]
      /\ index' = [index EXCEPT ![c] = ttyCount]
      /\ late' = (late \/ ~AllThere)
      /\ UNCHANGED <<clvars, rq, rs, backlog, cs_run, g_cs_mutex, ttyvars>>
  BY DEF At
<1>2. /\ thr' \in [Clients -> Busy \cup {"none", "read", "exit"}]
      /\ thr'[c] = "index" /\ \A d \in Clients \ {c} : thr'[d] = thr[d]
      /\ cl[c] \in {"wait", "dead"} /\ rs[c] = NoRes /\ rq[c] = "none"
      /\ NotServed'
  BY <1>1, Stepping DEF Inside
<1>3. index' \in [Clients -> 0 .. MaxTty - 1] /\ index'[c] = ttyCount
  BY <1>1 DEF Types
<1>4. Types'
  BY <1>1, <1>2, <1>3 DEF Types, clvars, ttyvars
<1>5. Room' /\ OneRequest' /\ Mutex'
  BY <1>1, <1>2 DEF Room, OneRequest, Mutex, clvars, ttyvars, Inside
<1>6. InTime'
  <2> SUFFICES ASSUME ~late' PROVE Collected(c)'
    BY <1>1, <1>2, <1>5 DEF InTime, Mutex, Inside
  <2>1. ~late /\ AllThere /\ Waiting(c)
    BY <1>1 DEF InTime
  <2>2. ttyCount = Lines + 1
    <3>1. ttyCount \in Nat /\ ttyCount <= Lines + 1
      BY <2>1 DEF Waiting, Types
    <3>2. tmpbuf = None /\ jobs = <<>>
      BY <2>1 DEF AllThere
    <3>3. None # Line(c, cnt[c], ttyCount)
      BY <3>1 DEF Line, Types
    <3>4. <<>> = Rest(c, ttyCount)
      BY <2>1, <3>2, <3>3 DEF Waiting
    <3> QED
      BY <3>1, <3>4 DEF Rest
  <2>3. Printed(c, Lines + 1) /\ ~copied
    BY <2>1, <2>2 DEF Waiting, AllThere, Room
  <2> QED
    BY <1>1, <1>2, <1>3, <2>1, <2>2, <2>3
       DEF Collected, AllThere, Printed, Line, clvars, ttyvars
<1>7. PromptIsWhole'
  BY <1>1 DEF PromptIsWhole, AllTheResponse, Whole, Response, Line, clvars
<1> QED
  BY <1>2, <1>4, <1>5, <1>6, <1>7

LEMMA ResetInv == ASSUME NEW c \in Clients, IInv, reset_count(c) PROVE IInv'
<1> USE CsAssumption DEF reset_count, IInv
<1>1. thr[c] = "index" /\ thr' = [thr EXCEPT ![c] = "answer"] /\ ttyCount' = 0
      /\ UNCHANGED <<clvars, rq, rs, backlog, cs_run, index, g_cs_mutex, jobs, tmpbuf, copied,
                     ttybuf, late>>
  BY DEF At
<1>2. /\ thr' \in [Clients -> Busy \cup {"none", "read", "exit"}]
      /\ thr'[c] = "answer" /\ \A d \in Clients \ {c} : thr'[d] = thr[d]
      /\ cl[c] \in {"wait", "dead"} /\ rs[c] = NoRes /\ rq[c] = "none"
      /\ NotServed'
  BY <1>1, Stepping DEF Inside
<1>3. Types'
  BY <1>1, <1>2 DEF Types, clvars
<1>4. Room' /\ OneRequest' /\ Mutex'
  BY <1>1, <1>2 DEF Room, OneRequest, Mutex, clvars, Inside
<1>5. InTime'
  <2> SUFFICES ASSUME ~late PROVE Collected(c)'
    BY <1>1, <1>2, <1>4 DEF InTime, Mutex, Inside
  <2> QED
    BY <1>1, <1>2 DEF InTime, Collected, AllThere, Printed, Line, clvars
<1>6. PromptIsWhole'
  BY <1>1, ResponseFrame DEF clvars
<1> QED
  BY <1>2, <1>3, <1>4, <1>5, <1>6

(* Without the echo, the lines collected are the response.                 *)
LEMMA AnswerInv == ASSUME NEW c \in Clients, IInv, answer(c) PROVE IInv'
<1> USE CsAssumption DEF answer, IInv
<1> DEFINE lines == SubSeq(ttybuf, 2, index[c])
           res == [result |-> 1, lines |-> lines]
<1>1. thr[c] = "answer" /\ thr' = [thr EXCEPT ![c] = "read"]
      /\ g_cs_mutex' = None /\ index' = [index EXCEPT ![c] = 0]
      /\ rs' = (IF cl[c] = "dead" THEN rs ELSE [rs EXCEPT ![c] = res])
      /\ UNCHANGED <<clvars, rq, backlog, cs_run, ttyvars, late>>
  BY DEF At, csipc_send_response
<1>2. /\ thr' \in [Clients -> Busy \cup {"none", "read", "exit"}]
      /\ thr'[c] = "read" /\ \A d \in Clients \ {c} : thr'[d] = thr[d]
      /\ cl[c] \in {"wait", "dead"} /\ rs[c] = NoRes /\ rq[c] = "none"
      /\ NotServed'
  BY <1>1, Stepping DEF Inside
<1>3. res \in Results
  <2>1. lines \in Seq(Cells)
    <3>1. ttybuf \in [1 .. MaxTty -> Cells] /\ index[c] \in 0 .. MaxTty - 1 /\ MaxTty \in Nat
      BY DEF Types
    <3> QED
      BY <3>1
  <2> HIDE DEF lines
  <2> QED
    BY <2>1, ResultTypes
<1>4. ~late => lines = Response(c)
  <2> SUFFICES ASSUME ~late PROVE lines = Response(c)
    OBVIOUS
  <2>1. index[c] = Lines + 1 /\ Printed(c, Lines + 1)
    BY <1>1 DEF InTime, Collected
  <2>2. lines = [i \in 1 .. Lines |-> ttybuf[i + 1]]
    BY <2>1
  <2>3. \A i \in 1 .. Lines : ttybuf[i + 1] = Line(c, cnt[c], i)
    <3> SUFFICES ASSUME NEW i \in 1 .. Lines PROVE ttybuf[i + 1] = Line(c, cnt[c], i)
      OBVIOUS
    <3>1. i + 1 \in 1 .. Lines + 1 /\ (i + 1) - 1 = i
      OBVIOUS
    <3> QED
      BY <2>1, <3>1 DEF Printed
  <2> QED
    BY <2>2, <2>3 DEF Response
<1>5. \A d \in Clients : rs'[d] = rs[d] \/ (d = c /\ cl[c] = "wait" /\ rs'[c] = res)
  BY <1>1, <1>2 DEF Types
<1>6. res.result = 1 /\ res.lines = lines
  OBVIOUS
<1>7. rs' \in [Clients -> Results]
  BY <1>1, <1>3 DEF Types
<1> HIDE DEF lines, res
<1>8. Types'
  BY <1>1, <1>2, <1>7 DEF Types, clvars, ttyvars
<1>9. Room' /\ OneRequest'
  BY <1>1, <1>2, <1>5 DEF Room, OneRequest, clvars, ttyvars, Busy, Inside
<1>10. Mutex'
  BY <1>1, <1>2 DEF Mutex, Inside
<1>11. InTime'
  <2>1. \A d \in Clients : thr'[d] \notin Inside
    BY <1>1, <1>10 DEF Mutex
  <2>2. ~late => Silent'
    BY <1>1 DEF InTime, Collected, Silent, AllThere, ttyvars
  <2> QED
    BY <1>1, <2>1, <2>2 DEF InTime, Inside
<1>12. PromptIsWhole'
  <2> SUFFICES ASSUME ~late, NEW d \in Clients PROVE Whole(d)'
    BY <1>1 DEF PromptIsWhole, AllTheResponse
  <2>1. Response(d)' = Response(d)
    BY <1>1 DEF Response, clvars
  <2>2. Whole(d)
    BY DEF PromptIsWhole, AllTheResponse
  <2> QED
    BY <1>4, <1>5, <1>6, <2>1, <2>2 DEF Whole
<1> QED
  BY <1>2, <1>8, <1>9, <1>10, <1>11, <1>12

-----------------------------------------------------------------------------
(* The terminal.                                                           *)
LEMMA TerminalFrame ==
  ASSUME IInv, NEW sh, NEW tb, NEW cp, NEW buf, NEW n, Terminal(sh, tb, cp, buf, n),
         sh \in Seq(LineSet), tb \in Cells, buf \in [1 .. MaxTty -> Cells], n \in 0 .. MaxTty - 1
  PROVE  Types' /\ OneRequest' /\ NotServed' /\ Mutex' /\ PromptIsWhole'
<1> USE DEF IInv, Terminal
<1>1. Types'
  BY DEF Types, clvars
<1>2. OneRequest' /\ NotServed' /\ Mutex'
  BY DEF OneRequest, NotServed, Mutex, clvars
<1>3. PromptIsWhole'
  BY ResponseFrame DEF clvars
<1> QED
  BY <1>1, <1>2, <1>3

(* What the lines in time come down to, when no thread moves.              *)
LEMMA TerminalInTime ==
  ASSUME IInv, ~AllThere, UNCHANGED <<clvars, thr, index, g_cs_mutex, late>>,
         \A c \in Clients : Waiting(c) => Waiting(c)'
  PROVE  InTime'
<1> USE DEF IInv
<1> SUFFICES ASSUME ~late PROVE InTime'
  BY DEF InTime
<1>1. g_cs_mutex # None /\ \A c \in Clients : thr[c] \notin {"index", "answer"}
  BY DEF InTime, Silent, Collected
<1> QED
  BY <1>1 DEF InTime

LEMMA ReadInv == IInv /\ tty2net_read => IInv'
<1> SUFFICES ASSUME IInv, tty2net_read PROVE IInv'
  OBVIOUS
<1> USE CsAssumption DEF IInv
<1> DEFINE j == Head(jobs)
<1>1. tmpbuf = None /\ jobs # <<>> /\ Terminal(sdk_shell(j), j, FALSE, ttybuf, ttyCount)
  BY DEF tty2net_read
<1>2. j \in LineSet /\ Tail(jobs) \in Seq(LineSet) /\ j # None
  <2>1. j \in LineSet /\ Tail(jobs) \in Seq(LineSet)
    BY <1>1 DEF Types
  <2> HIDE DEF j
  <2> QED
    BY <2>1 DEF LineSet
<1>3. sdk_shell(j) \in Seq(LineSet)
  <2>1. CASE j.i = Lines
    BY <1>2, <2>1 DEF sdk_shell
  <2>2. CASE j.i # Lines
    <3>1. [j EXCEPT !.i = @ + 1] \in LineSet
      <4>1. j.i \in 0 .. Lines /\ j.i + 1 \in 0 .. Lines
        BY <1>2, <2>2 DEF LineSet
      <4> HIDE DEF j
      <4> QED
        BY <1>2, <4>1 DEF LineSet
    <3> QED
      BY <1>2, <2>2, <3>1 DEF sdk_shell
  <2> QED
    BY <2>1, <2>2
<1>4. Types' /\ OneRequest' /\ NotServed' /\ Mutex' /\ PromptIsWhole'
  BY <1>1, <1>2, <1>3, TerminalFrame DEF Types, Cells
<1>5. Room'
  BY <1>1 DEF Room, Terminal
<1>6. ASSUME NEW c \in Clients, Waiting(c) PROVE Waiting(c)'
  <2>1. ttyCount \in Nat /\ cnt[c] \in Nat
    BY DEF Types
  <2>2. tmpbuf # Line(c, cnt[c], ttyCount)
    BY <1>1, <2>1 DEF Line
  <2>3. jobs = Rest(c, ttyCount) /\ ttyCount <= Lines /\ Printed(c, ttyCount)
    BY <1>1, <1>6, <2>2 DEF Waiting, Rest
  <2>4. j = Line(c, cnt[c], ttyCount) /\ Tail(jobs) = <<>>
    BY <2>3 DEF Rest
  <2>5. sdk_shell(j) = Rest(c, ttyCount + 1)
    <3>1. j.i = ttyCount /\ [j EXCEPT !.i = @ + 1] = Line(c, cnt[c], ttyCount + 1)
      BY <2>4 DEF Line
    <3> HIDE DEF j
    <3> QED
      BY <2>1, <2>3, <2>4, <3>1 DEF sdk_shell, Rest
  <2>6. jobs' = sdk_shell(j) /\ tmpbuf' = j /\ ~copied' /\ ttyCount' = ttyCount
        /\ ttybuf' = ttybuf /\ cnt' = cnt
    BY <1>1 DEF Terminal, clvars
  <2> HIDE DEF j
  <2>7. Printed(c, ttyCount)' /\ Line(c, cnt[c], ttyCount)' = tmpbuf'
    BY <2>3, <2>4, <2>6 DEF Printed, Line
  <2>8. Rest(c, ttyCount + 1)' = jobs'
    BY <2>5, <2>6 DEF Rest, Line
  <2> QED
    BY <2>1, <2>3, <2>6, <2>7, <2>8 DEF Waiting
<1>7. InTime'
  BY <1>1, <1>6, TerminalInTime DEF AllThere, Terminal
<1> QED
  BY <1>4, <1>5, <1>7

LEMMA CopyInv == IInv /\ tty2net_copy => IInv'
<1> SUFFICES ASSUME IInv, tty2net_copy PROVE IInv'
  OBVIOUS
<1> USE CsAssumption DEF IInv
<1>1. tmpbuf # None /\ ~copied /\ ttyCount + 1 < MaxTty
      /\ Terminal(jobs, tmpbuf, TRUE, [ttybuf EXCEPT ![ttyCount + 1] = tmpbuf], ttyCount)
  BY DEF tty2net_copy, ReplaceAt
<1>2. ttyCount \in Nat /\ ttyCount + 1 \in 1 .. MaxTty
      /\ [ttybuf EXCEPT ![ttyCount + 1] = tmpbuf] \in [1 .. MaxTty -> Cells]
  BY <1>1 DEF Types
<1>3. Types' /\ OneRequest' /\ NotServed' /\ Mutex' /\ PromptIsWhole'
  BY <1>1, <1>2, TerminalFrame DEF Types
<1>4. Room'
  BY <1>1 DEF Room, Terminal
<1>5. ASSUME NEW c \in Clients, Waiting(c) PROVE Waiting(c)'
  <2>1. ttybuf'[ttyCount + 1] = tmpbuf /\ \A i \in 1 .. ttyCount : ttybuf'[i] = ttybuf[i]
    BY <1>1, <1>2 DEF Terminal, Types
  <2>2. UNCHANGED <<jobs, tmpbuf, ttyCount, cnt>>
    BY <1>1 DEF Terminal, clvars
  <2> QED
    BY <1>1, <1>5, <2>1, <2>2 DEF Waiting, Printed, Rest, Line
<1>6. InTime'
  BY <1>1, <1>5, TerminalInTime DEF AllThere, Terminal
<1> QED
  BY <1>3, <1>4, <1>6

LEMMA CountInv == IInv /\ tty2net_count => IInv'
<1> SUFFICES ASSUME IInv, tty2net_count PROVE IInv'
  OBVIOUS
<1> USE CsAssumption DEF IInv
<1>1. copied /\ Terminal(jobs, None, FALSE, ttybuf, ttyCount + 1)
  BY DEF tty2net_count
<1>2. tmpbuf # None /\ ttyCount \in Nat /\ ttyCount + 1 \in 0 .. MaxTty - 1
  BY <1>1 DEF Room, Types
<1>3. Types' /\ OneRequest' /\ NotServed' /\ Mutex' /\ PromptIsWhole'
  BY <1>1, <1>2, TerminalFrame DEF Types, Cells
<1>4. Room'
  BY <1>1 DEF Room, Terminal
<1>5. ASSUME NEW c \in Clients, Waiting(c) PROVE Waiting(c)'
  <2>1. ttyCount <= Lines /\ Printed(c, ttyCount) /\ jobs = Rest(c, ttyCount + 1)
        /\ ttybuf[ttyCount + 1] = Line(c, cnt[c], ttyCount)
    BY <1>1, <1>5, <1>2 DEF Waiting
  <2>2. UNCHANGED <<jobs, ttybuf, cnt>> /\ ttyCount' = ttyCount + 1 /\ tmpbuf' = None /\ ~copied'
    BY <1>1 DEF Terminal, clvars
  <2>3. Printed(c, ttyCount + 1)
    BY <1>2, <2>1 DEF Printed
  <2> QED
    BY <1>2, <2>1, <2>2, <2>3 DEF Waiting, Printed, Rest, Line
<1>6. InTime'
  BY <1>1, <1>2, <1>5, TerminalInTime DEF AllThere, Terminal
<1> QED
  BY <1>3, <1>4, <1>6

(* A line is only dropped after a wait that was too short: a whole         *)
(* response fits in the buffer.                                            *)
LEMMA DropInv == IInv /\ tty2net_drop => IInv'
<1> SUFFICES ASSUME IInv, tty2net_drop PROVE IInv'
  OBVIOUS
<1> USE CsAssumption DEF IInv
<1>1. tmpbuf # None /\ ~copied /\ ttyCount + 1 >= MaxTty
      /\ Terminal(jobs, None, FALSE, ttybuf, ttyCount)
  BY DEF tty2net_drop
<1>2. Types' /\ OneRequest' /\ NotServed' /\ Mutex' /\ PromptIsWhole'
  BY <1>1, TerminalFrame DEF Types, Cells
<1>3. Room'
  BY <1>1 DEF Room, Terminal
<1>4. ASSUME NEW c \in Clients, Waiting(c) PROVE FALSE
  BY <1>1, <1>4 DEF Waiting, Types
<1>5. InTime'
  BY <1>1, <1>4, TerminalInTime DEF AllThere, Terminal
<1> QED
  BY <1>2, <1>3, <1>5

LEMMA ExitInv == IInv /\ sdk_exit => IInv'
<1> SUFFICES ASSUME IInv, sdk_exit PROVE IInv'
  OBVIOUS
<1> USE CsAssumption DEF IInv, sdk_exit
<1>1. Types'
  <2>1. ttybuf' \in [1 .. MaxTty -> Cells] /\ tmpbuf' \in Cells /\ jobs' \in Seq(LineSet)
        /\ backlog' \in Seq(Clients)
    BY DEF Cells
  <2>2. index' \in [Clients -> 0 .. MaxTty - 1] /\ ttyCount' \in 0 .. MaxTty - 1
    OBVIOUS
  <2> QED
    BY <2>1, <2>2 DEF Types, clvars
<1>2. \A c \in Clients : thr'[c] = "none" /\ rq'[c] = "none" /\ c # None
  OBVIOUS
<1>3. OneRequest' /\ Mutex'
  BY <1>2 DEF OneRequest, Mutex, Busy, Inside, clvars
<1>4. Room' /\ NotServed'
  <2>1. Len(backlog') = 0 /\ copied' = FALSE
    OBVIOUS
  <2>2. Room'
    BY <2>1 DEF Room
  <2>3. NotServed'
    BY <2>1 DEF NotServed
  <2> QED
    BY <2>2, <2>3
<1>5. InTime'
  BY <1>2 DEF InTime, Silent, AllThere
<1>6. PromptIsWhole'
  BY ResponseFrame DEF clvars
<1> QED
  BY <1>1, <1>3, <1>4, <1>5, <1>6

-----------------------------------------------------------------------------
LEMMA StutterInv == IInv /\ UNCHANGED vars => IInv'
<1> SUFFICES ASSUME IInv, UNCHANGED vars PROVE IInv'
  OBVIOUS
<1> USE DEF IInv, vars
<1>1. Types' /\ OneRequest' /\ NotServed'
  BY DEF Types, OneRequest, NotServed
<1>2. Mutex' /\ InTime' /\ Room' /\ PromptIsWhole'
  BY TtyFrame, ResponseFrame DEF ttyvars
<1> QED
  BY <1>1, <1>2

LEMMA StepInv == IInv /\ [Next]_vars => IInv'
<1> SUFFICES ASSUME IInv, [Next]_vars PROVE IInv'
  OBVIOUS
<1>1. ASSUME NEW c \in Clients, Client(c) \/ cs_cl_read_res(c) PROVE IInv'
  BY <1>1, OpenInv, RequestInv, ReadResInv DEF Client
<1>2. ASSUME NEW c \in Clients, console_server(c) PROVE IInv'
  BY <1>2, ReadRequestInv, EndInv, SetInv, WakeupInv, ResetInv, AnswerInv DEF console_server
<1>3. CASE tty2net
  BY <1>3, ReadInv, CopyInv, CountInv, DropInv DEF tty2net
<1> QED
  BY <1>1, <1>2, <1>3, AcceptInv, ExitInv, StutterInv DEF Next

(* Every reachable state keeps the inductive invariant.                    *)
THEOREM Inductive == Spec => []IInv
BY InitInv, StepInv, PTL DEF Spec

(* As long as every wait was long enough, no two commands are in the shell *)
(* together, for any number of clients: all that was typed and is not      *)
(* answered, and all that was printed and counted (csipc_set, tty2net), is *)
(* of the command of the thread that has g_cs_mutex.                       *)
THEOREM OneCommand == Spec => []OneInShell
<1>1. IInv => OneInShell
  <2> SUFFICES ASSUME IInv, ~late
               PROVE Len(jobs) <= 1 /\ \A l \in InShell : l.c = g_cs_mutex /\ l.n = cnt[l.c]
    BY DEF OneInShell
  <2> USE CsAssumption
  <2>1. CASE g_cs_mutex = None
    <3>1. jobs = <<>> /\ tmpbuf = None /\ ttyCount = 0
      BY <2>1 DEF IInv, InTime, Silent, AllThere
    <3>2. Len(jobs) = 0 /\ InShell = {}
      BY <3>1 DEF InShell
    <3> QED
      BY <3>2
  <2>2. CASE g_cs_mutex # None
    <3> DEFINE c == g_cs_mutex
    <3>1. c \in Clients /\ thr[c] \in Inside /\ ttyCount \in 0 .. MaxTty - 1 /\ cnt[c] \in Nat
      BY <2>2 DEF IInv, Types, Mutex
    <3> HIDE DEF c
    <3> DEFINE Own(l) == \E i \in 0 .. Lines + 1 : l = Line(c, cnt[c], i)
    <3>2. \A l : Own(l) => l.c = c /\ l.n = cnt[c]
      BY DEF Line
    <3>3. \A k \in Nat : k <= Lines + 1 =>
            Len(Rest(c, k)) <= 1 /\ \A i \in 1 .. Len(Rest(c, k)) : Own(Rest(c, k)[i])
      BY DEF Rest
    <3>4. \A k \in Nat : k <= Lines + 1 /\ Printed(c, k) => \A i \in 1 .. k : Own(ttybuf[i])
      <4> SUFFICES ASSUME NEW k \in Nat, k <= Lines + 1, Printed(c, k), NEW i \in 1 .. k
                   PROVE Own(ttybuf[i])
        OBVIOUS
      <4>1. ttybuf[i] = Line(c, cnt[c], i - 1) /\ i - 1 \in 0 .. Lines + 1
        BY DEF Printed
      <4> QED
        BY <4>1
    <3>5. Len(jobs) <= 1 /\ \A l \in InShell : Own(l)
      <4>1. CASE thr[c] = "sleep"
        <5>1. Waiting(c)
          BY <3>1, <4>1 DEF IInv, InTime
        <5>2. \A i \in 1 .. ttyCount : Own(ttybuf[i])
          BY <3>1, <3>4, <5>1 DEF Waiting
        <5>3. CASE tmpbuf = None /\ jobs = Rest(c, ttyCount)
          <6>1. ttyCount \in Nat /\ ttyCount <= Lines + 1
            BY <3>1, <5>1 DEF Waiting
          <6> HIDE DEF Own
          <6>2. Len(Rest(c, ttyCount)) <= 1
                /\ \A i \in 1 .. Len(Rest(c, ttyCount)) : Own(Rest(c, ttyCount)[i])
            BY <3>3, <6>1
          <6>3. Len(jobs) <= 1 /\ \A i \in 1 .. Len(jobs) : Own(jobs[i])
            BY <5>3, <6>2
          <6> QED
            BY <5>2, <5>3, <6>3 DEF InShell
        <5>4. CASE /\ ttyCount <= Lines
                   /\ tmpbuf = Line(c, cnt[c], ttyCount) /\ jobs = Rest(c, ttyCount + 1)
          <6>1. Own(tmpbuf)
            BY <3>1, <5>4
          <6> HIDE DEF Own
          <6>2. PICK k \in Nat : k = ttyCount + 1 /\ k <= Lines + 1
            BY <3>1, <5>4
          <6>3. jobs = Rest(c, k)
            BY <5>4, <6>2
          <6>4. Len(Rest(c, k)) <= 1 /\ \A i \in 1 .. Len(Rest(c, k)) : Own(Rest(c, k)[i])
            BY <3>3, <6>2
          <6>5. Len(jobs) <= 1 /\ \A i \in 1 .. Len(jobs) : Own(jobs[i])
            BY <6>3, <6>4
          <6> QED
            BY <5>2, <6>1, <6>5 DEF InShell
        <5> QED
          BY <5>1, <5>3, <5>4 DEF Waiting
      <4>2. CASE thr[c] \in {"index", "answer"}
        <5>1. Collected(c)
          BY <3>1, <4>2 DEF IInv, InTime
        <5>2. jobs = <<>> /\ Len(jobs) = 0 /\ tmpbuf = None
          BY <5>1 DEF Collected, AllThere
        <5>3. ttyCount <= Lines + 1 /\ \A i \in 1 .. Lines + 1 : Own(ttybuf[i])
          BY <3>4, <5>1 DEF Collected
        <5>4. \A i \in 1 .. ttyCount : Own(ttybuf[i])
          BY <3>1, <5>3
        <5> HIDE DEF Own
        <5> QED
          BY <5>2, <5>4 DEF InShell
      <4> QED
        BY <3>1, <4>1, <4>2 DEF Inside
    <3> HIDE DEF Own
    <3> QED
      BY <3>2, <3>5 DEF c
  <2> QED
    BY <2>1, <2>2
<1> QED
  BY <1>1, Inductive, PTL

(* However many clients share the shell, and whoever of them dies and when:*)
(* as long as every wait was long enough, a client gets the response to    *)
(* its own command, all of it and nothing else.                            *)
THEOREM PromptWhole == Spec => []PromptIsWhole
<1>1. IInv => PromptIsWhole
  BY DEF IInv
<1> QED
  BY <1>1, Inductive, PTL

(* Neither the count of the terminal nor the index a thread has taken from *)
(* it gets past the buffer, in time or not.                                *)
THEOREM CountBounded == Spec => []CountInBuffer
<1>1. IInv => CountInBuffer
  BY CsAssumption DEF IInv, CountInBuffer, Types
<1> QED
  BY <1>1, Inductive, PTL
=============================================================================
