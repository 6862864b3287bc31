------------------------------ MODULE CsServer ------------------------------
(***************************************************************************)
(* The console server of the switch: one shell (sdk) on a pseudo terminal, *)
(* shared by all cli processes.  A client sends a command, its thread in   *)
(* cs_server types it into the terminal, waits, and answers with whatever  *)
(* the thread tty2net has collected from the terminal by then.  Sources:   *)
(* cs_server/cs_server.c and cs_client/cs_client.c.                        *)
(*                                                                         *)
(* The unit of data is a line.  The shell answers the n-th command of      *)
(* client c with the line <<c, n, 0>>, which echoes the command, and the   *)
(* lines <<c, n, 1>> .. <<c, n, Lines>>.                                   *)
(*                                                                         *)
(* It is assumed that a line fits in the 1024 bytes that tty2net collects  *)
(* it in, one by one and without looking at the end (cs_server.c:469), and *)
(* that the terminal can be read until the shell ends: when a read fails,  *)
(* tty2net closes the terminal and goes on reading it.                     *)
(***************************************************************************)
EXTENDS Integers, Sequences, SequencesExt

CONSTANTS
  Clients, None,
  Lines,      \* the lines the shell answers with, beside the echo
  MaxCmds,    \* bound on the commands of a client
  MaxTty,     \* MAX_TTY_BUF_SIZE, in lines
  Faults      \* out of "kill" (a client dies) and "exit" (the shell ends)

ASSUME CsAssumption ==
  /\ None \notin Clients /\ None \notin [c : Clients, n : Nat, i : Nat]
  /\ Lines \in Nat /\ MaxCmds \in Nat
  /\ MaxTty \in Nat /\ MaxTty > Lines + 1

VARIABLES
  cl,         \* cl[c]: off, idle, wait, closed or dead
  cnt,        \* cnt[c]: the commands that c has given
  rq, rs,     \* rq[c], rs[c]: the request and the response in the stream
  backlog,    \* the connections to accept
  acc,        \* start_console_srv: at the loop's condition, in accept or gone
  cs_run,
  srv,        \* up, or exited when the shell has ended
  thr,        \* thr[c]: where the thread console_server of c is
  index,      \* index[c]: its local copy of ttyCount
  g_cs_mutex, \* the thread that holds it, or None
  jobs,       \* what was typed and not answered in full, [c, n, next line]
  tmpbuf,     \* the line tty2net is about to add, None if it has none
  copied,     \* it is in ttybuf, but not counted yet
  ttybuf, ttyCount,
  late        \* a wait has ended before all the response was there
clvars == <<cl, cnt>>
ttyvars == <<jobs, tmpbuf, copied, ttybuf, ttyCount>>
vars == <<cl, cnt, rq, rs, backlog, acc, cs_run, srv, thr, index, g_cs_mutex,
          jobs, tmpbuf, copied, ttybuf, ttyCount, late>>

NoRes == [result |-> -1, lines |-> <<>>]
Line(c, n, i) == [c |-> c, n |-> n, i |-> i]
Response(c) == [i \in 1 .. Lines |-> Line(c, cnt[c], i)]

-----------------------------------------------------------------------------
(* The clients.                                                            *)
cs_cl_open(c) ==
  /\ cl[c] = "off" /\ srv = "up" /\ acc # "gone"
  /\ cl' = [cl EXCEPT ![c] = "idle"]
  /\ backlog' = Append(backlog, c)
  /\ UNCHANGED <<cnt, rq, rs, acc, cs_run, srv, thr, index, g_cs_mutex, ttyvars, late>>

cs_cl_send_req(c, cmd) ==
  /\ cl[c] = "idle"
  /\ cl' = [cl EXCEPT ![c] = "wait"]
  /\ rq' = [rq EXCEPT ![c] = cmd]
  /\ UNCHANGED <<rs, backlog, acc, cs_run, srv, thr, index, g_cs_mutex, ttyvars, late>>
cs_cl_insert_str(c) ==
  cnt[c] < MaxCmds /\ cs_cl_send_req(c, "SET") /\ cnt' = [cnt EXCEPT ![c] = @ + 1]
cs_cl_close(c) == cs_cl_send_req(c, "CLOSE") /\ UNCHANGED cnt
cs_cl_shutdown(c) == cs_cl_send_req(c, "SHUTDOWN") /\ UNCHANGED cnt

(* A CLOSE is answered with 0, a SET with 1.                               *)
cs_cl_read_res(c) ==
  /\ cl[c] = "wait" /\ rs[c] # NoRes
  /\ cl' = [cl EXCEPT ![c] = IF rs[c].result = 0 THEN "closed" ELSE "idle"]
  /\ rs' = [rs EXCEPT ![c] = NoRes]
  /\ UNCHANGED <<cnt, rq, backlog, acc, cs_run, srv, thr, index, g_cs_mutex, ttyvars, late>>

kill(c) ==
  /\ "kill" \in Faults
  /\ cl[c] \in {"idle", "wait"}
  /\ cl' = [cl EXCEPT ![c] = "dead"]
  /\ rs' = [rs EXCEPT ![c] = NoRes]
  /\ UNCHANGED <<cnt, rq, backlog, acc, cs_run, srv, thr, index, g_cs_mutex, ttyvars, late>>

-----------------------------------------------------------------------------
(* start_console_srv looks at cs_run before and after each accept; after a *)
(* shutdown the loop only ends with the next connection, which is never    *)
(* served.                                                                 *)
while_cs_run ==
  /\ srv = "up" /\ acc = "loop"
  /\ acc' = IF cs_run THEN "accept" ELSE "gone"
  /\ UNCHANGED <<clvars, rq, rs, backlog, cs_run, srv, thr, index, g_cs_mutex, ttyvars, late>>
accept ==
  /\ srv = "up" /\ acc = "accept" /\ backlog # <<>>
  /\ backlog' = Tail(backlog)
  /\ acc' = IF cs_run THEN "loop" ELSE "gone"
  /\ thr' = IF cs_run THEN [thr EXCEPT ![Head(backlog)] = "read"] ELSE thr
  /\ UNCHANGED <<clvars, rq, rs, cs_run, srv, index, g_cs_mutex, ttyvars, late>>
start_console_srv == while_cs_run \/ accept

(* A request is read when it is there; the end of the stream is not        *)
(* noticed, and the thread of a dead client stays in csipc_read_request.   *)
csipc_read_request(c) ==
  /\ srv = "up" /\ thr[c] = "read" /\ rq[c] # "none"
  /\ rq' = [rq EXCEPT ![c] = "none"]
  /\ thr' = [thr EXCEPT ![c] = rq[c]]
  /\ UNCHANGED <<clvars, rs, backlog, acc, cs_run, srv, index, g_cs_mutex, ttyvars, late>>

csipc_send_response(c, res) == rs' = IF cl[c] = "dead" THEN rs ELSE [rs EXCEPT ![c] = res]

csipc_close(c) ==
  /\ srv = "up" /\ thr[c] = "CLOSE"
  /\ csipc_send_response(c, [result |-> 0, lines |-> <<>>])
  /\ thr' = [thr EXCEPT ![c] = "exit"]
  /\ UNCHANGED <<clvars, rq, backlog, acc, cs_run, srv, index, g_cs_mutex, ttyvars, late>>
(* No response, and nothing that would wake the accept.                    *)
csipc_shutdown(c) ==
  /\ srv = "up" /\ thr[c] = "SHUTDOWN"
  /\ cs_run' = FALSE
  /\ thr' = [thr EXCEPT ![c] = "exit"]
  /\ UNCHANGED <<clvars, rq, rs, backlog, acc, srv, index, g_cs_mutex, ttyvars, late>>

-----------------------------------------------------------------------------
(* csipc_set: type the command, wait, take the count, set it back, answer. *)
At(c, from, to) ==
  srv = "up" /\ thr[c] = from /\ thr' = [thr EXCEPT ![c] = to]
csipc_set_nolock(c) ==
  /\ At(c, "SET", "sleep")
  /\ g_cs_mutex' = c
  /\ jobs' = Append(jobs, Line(c, cnt[c], 0))
  /\ UNCHANGED <<clvars, rq, rs, backlog, acc, cs_run, srv, index, tmpbuf, copied, ttybuf, ttyCount, late>>
csipc_set(c) ==
  /\ At(c, "SET", "sleep")
  /\ g_cs_mutex = None /\ g_cs_mutex' = c
  /\ jobs' = Append(jobs, Line(c, cnt[c], 0))
  /\ UNCHANGED <<clvars, rq, rs, backlog, acc, cs_run, srv, index, tmpbuf, copied, ttybuf, ttyCount, late>>

(* "wait for 2s to get all the response": the count is read, whether all   *)
(* of it is there or not.                                                  *)
AllThere == jobs = <<>> /\ tmpbuf = None
wakeup(c) ==
  /\ At(c, "sleep", "index")
  /\ index' = [index EXCEPT ![c] = ttyCount]
  /\ late' = (late \/ ~AllThere)
  /\ UNCHANGED <<clvars, rq, rs, backlog, acc, cs_run, srv, g_cs_mutex, ttyvars>>
reset_count_not(c) ==
  /\ At(c, "index", "answer")
  /\ UNCHANGED <<clvars, rq, rs, backlog, acc, cs_run, srv, index, g_cs_mutex, ttyvars, late>>
reset_count(c) ==
  /\ At(c, "index", "answer")
  /\ ttyCount' = 0
  /\ UNCHANGED <<clvars, rq, rs, backlog, acc, cs_run, srv, index, g_cs_mutex,
                 jobs, tmpbuf, copied, ttybuf, late>>
(* The echo is left out; SIGPIPE is ignored, so that the mutex is released *)
(* when the client is gone, too.                                           *)
answer_early(c) ==
  /\ At(c, "answer", IF cl[c] = "dead" THEN "exit" ELSE "read")
  /\ csipc_send_response(c, [result |-> 1, lines |-> SubSeq(ttybuf, 2, index[c])])
  /\ g_cs_mutex' = IF cl[c] = "dead" THEN g_cs_mutex ELSE None
  /\ index' = [index EXCEPT ![c] = 0]
  /\ UNCHANGED <<clvars, rq, backlog, acc, cs_run, srv, ttyvars, late>>
answer(c) ==
  /\ At(c, "answer", "read")
  /\ csipc_send_response(c, [result |-> 1, lines |-> SubSeq(ttybuf, 2, index[c])])
  /\ g_cs_mutex' = None
  /\ index' = [index EXCEPT ![c] = 0]
  /\ UNCHANGED <<clvars, rq, backlog, acc, cs_run, srv, ttyvars, late>>

-----------------------------------------------------------------------------
(* The shell prints a line and tty2net reads it, copies it behind the      *)
(* lines it has counted, without a mutex, and counts it; when the buffer   *)
(* is full it drops it.                                                    *)
Terminal(sh, tb, cp, buf, n) ==
  /\ srv = "up"
  /\ jobs' = sh /\ tmpbuf' = tb /\ copied' = cp
  /\ ttybuf' = buf /\ ttyCount' = n
  /\ UNCHANGED <<clvars, rq, rs, backlog, acc, cs_run, srv, thr, index, g_cs_mutex, late>>
sdk_shell(j) == (IF j.i = Lines THEN <<>> ELSE <<[j EXCEPT !.i = @ + 1]>>) \o Tail(jobs)
tty2net_read ==
  /\ tmpbuf = None /\ jobs # <<>>
  /\ Terminal(sdk_shell(Head(jobs)), Head(jobs), FALSE, ttybuf, ttyCount)
tty2net_copy_all ==
  /\ tmpbuf # None /\ ~copied
  /\ Terminal(jobs, tmpbuf, TRUE, ReplaceAt(ttybuf, ttyCount + 1, tmpbuf), ttyCount)
tty2net_copy ==
  /\ tmpbuf # None /\ ~copied /\ ttyCount + 1 < MaxTty
  /\ Terminal(jobs, tmpbuf, TRUE, ReplaceAt(ttybuf, ttyCount + 1, tmpbuf), ttyCount)
tty2net_count ==
  /\ copied
  /\ Terminal(jobs, None, FALSE, ttybuf, ttyCount + 1)
tty2net_drop ==
  /\ tmpbuf # None /\ ~copied /\ ttyCount + 1 >= MaxTty
  /\ Terminal(jobs, None, FALSE, ttybuf, ttyCount)

(* When the shell ends, main returns from waitpid, and with the process go *)
(* its threads, the mutex, the terminal and the open connections.          *)
sdk_exit ==
  /\ "exit" \in Faults /\ srv = "up"
  /\ srv' = "exited" /\ acc' = "gone" /\ cs_run' = FALSE
  /\ rq' = [c \in Clients |-> "none"] /\ backlog' = <<>>
  /\ thr' = [c \in Clients |-> "none"] /\ index' = [c \in Clients |-> 0]
  /\ g_cs_mutex' = None
  /\ jobs' = <<>> /\ tmpbuf' = None /\ copied' = FALSE
  /\ ttybuf' = [i \in 1 .. MaxTty |-> None] /\ ttyCount' = 0
  /\ UNCHANGED <<clvars, rs, late>>

Init ==
  /\ cl = [c \in Clients |-> "off"] /\ cnt = [c \in Clients |-> 0]
  /\ rq = [c \in Clients |-> "none"] /\ rs = [c \in Clients |-> NoRes]
  /\ backlog = <<>> /\ acc = "loop" /\ cs_run = TRUE /\ srv = "up"
  /\ thr = [c \in Clients |-> "none"] /\ index = [c \in Clients |-> 0]
  /\ g_cs_mutex = None
  /\ jobs = <<>> /\ tmpbuf = None /\ copied = FALSE
  /\ ttybuf = [i \in 1 .. MaxTty |-> None] /\ ttyCount = 0
  /\ late = FALSE

Client(c) ==
  \/ cs_cl_open(c) \/ cs_cl_insert_str(c) \/ cs_cl_close(c) \/ cs_cl_shutdown(c) \/ kill(c)
console_server(c) ==
  \/ csipc_read_request(c) \/ csipc_close(c) \/ csipc_shutdown(c)
  \/ csipc_set(c) \/ wakeup(c) \/ reset_count(c) \/ answer(c)
tty2net == tty2net_read \/ tty2net_copy \/ tty2net_count \/ tty2net_drop
Next ==
  \/ \E c \in Clients : Client(c) \/ cs_cl_read_res(c) \/ console_server(c)
  \/ start_console_srv \/ tty2net \/ sdk_exit

(* Threads that can run do run, and the mutex lets each waiting thread in. *)
Spec ==
  /\ Init /\ [][Next]_vars
  /\ \A c \in Clients : WF_vars(console_server(c)) /\ SF_vars(csipc_set(c)) /\ WF_vars(cs_cl_read_res(c))
  /\ WF_vars(start_console_srv) /\ WF_vars(tty2net)

-----------------------------------------------------------------------------
(* "wait for 2s to get all the response": what a client gets is what the   *)
(* shell answered to its command, all of it and nothing else.              *)
Whole(c) == rs[c].result = 1 => rs[c].lines = Response(c)
AllTheResponse == \A c \in Clients : Whole(c)

(* As long as every wait has been long enough, this is so, whichever       *)
(* clients share the shell and die in the middle of a command.             *)
PromptIsWhole == ~late => AllTheResponse

(* As long as every wait has been long enough, one command is in the shell *)
(* at a time: what was typed and is not answered, what tty2net holds and   *)
(* what it has counted is of the command whose thread has the mutex.  One  *)
(* wait that was too short, and the next command is typed behind the rest  *)
(* of this one.                                                            *)
InShell ==
  ({jobs[i] : i \in 1 .. Len(jobs)} \cup {tmpbuf} \cup {ttybuf[i] : i \in 1 .. ttyCount}) \ {None}
OneInShell ==
  ~late =>
    /\ Len(jobs) <= 1
    /\ \A l \in InShell : l.c = g_cs_mutex /\ l.n = cnt[l.c]

(* A shell that was slow once spoils responses, but the clients still get  *)
(* one each: no client that is served waits for ever, whoever died before  *)
(* it, unless the shell ends.                                              *)
Answered ==
  \A c \in Clients :
    cl[c] = "wait" /\ thr[c] = "SET" ~> cl[c] # "wait" \/ srv # "up"

(* The count never exceeds the buffer, and a response is cut out of the    *)
(* lines that were counted.                                                *)
CountInBuffer == ttyCount < MaxTty /\ \A c \in Clients : index[c] < MaxTty
=============================================================================
