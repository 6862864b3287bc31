------------------------------ MODULE DbServer ------------------------------
(***************************************************************************)
(* The configuration database: the db_server process (monitor loop, one     *)
(* detached thread per connection, recursive mutex g_db_mutex, hash table)  *)
(* and the client library db_client that every cli process and "bootsetup   *)
(* stop" link.  Each process opens one connection in its life.              *)
(*                                                                          *)
(* A message is one unit of a TCP stream.  A client is synchronous, so the  *)
(* stream towards the server holds at most one request, plus the CLOSE that *)
(* the signal handler of a cli queues behind it.                            *)
(***************************************************************************)
EXTENDS Integers, FiniteSets

CONSTANTS Clients,     \* cli processes
          Stoppers,    \* "bootsetup stop" processes
          Keys, Vals,  \* database keys and values
          None,        \* absent value, key or owner
          ListenQ,     \* DB_SRV_LISTEN_Q_SIZE
          MaxDepth,    \* bound on nested LOCKs of one client
          MaxOps,      \* bound on the requests of one critical section
          Faults       \* subset of {"kill", "signal", "nomem"}

ASSUME DbAssumption ==
    /\ Clients \cap Stoppers = {}
    /\ None \notin Clients \cup Stoppers \cup Keys \cup Vals
    /\ ListenQ \in Nat \ {0}
    /\ MaxDepth \in Nat \ {0}
    /\ MaxOps \in Nat \ {0}

VARIABLES
    cl,      \* control state of each client process
    held,    \* LOCKs a client believes it holds
    ops,     \* requests sent in the client's current critical section
    pend,    \* the request in a client's reqbuf
    rq, cq,  \* stream to the server: a request, then the handler's CLOSE
    rs,      \* stream to the client: the first unread response
    cEnd,    \* the client's end of the connection, as the server sees it
    sEnd,    \* the server's end of the connection, as the client sees it
    backlog, \* connections waiting in the listen queue
    mon,     \* control state of db_server_monitor
    conn,    \* the connection accept returned
    thr,     \* control state of the db_server thread of each connection
    buf,     \* the request in each thread's buffer
    ans,     \* the response in each thread's buffer
    owner,   \* owner of g_db_mutex
    depth,   \* recursion count of g_db_mutex
    table,   \* contents of g_db_srv_hash
    open,    \* g_db_srv_hash is allocated
    run,     \* g_run
    srv      \* the db_server process

clientVars == <<cl, held, ops, pend>>
streamVars == <<rq, cq, rs, cEnd, sEnd>>
monVars    == <<backlog, mon, conn>>
mutexVars  == <<owner, depth>>
hashVars   == <<table, open>>
vars == <<clientVars, streamVars, monVars, thr, buf, ans, mutexVars, hashVars,
          run, srv>>

Procs == Clients \cup Stoppers

(***************************************************************************)
(* Messages: struct dbipcrec, its cmd, key and data on the way in, its cmd, *)
(* result and data on the way out.                                          *)
(***************************************************************************)
HashCmds == {"GETKEY", "ADDKEY", "DELKEY", "KEYEXISTS"}
Cmds     == HashCmds \cup {"CLOSE", "LOCK", "UNLOCK", "SHUTDOWN"}
Request  == [cmd : Cmds \cup {"NONE"}, key : Keys \cup {None}, val : Vals \cup {None}]
Response == [cmd : Cmds \cup {"NONE"}, result : {0, -1}, val : Vals \cup {None}]

Req(cmd)     == [cmd |-> cmd, key |-> None, val |-> None]
Res(r, n, v) == [cmd |-> r.cmd, result |-> n, val |-> v]
NoReq        == Req("NONE")
NoRes        == [cmd |-> "NONE", result |-> -1, val |-> None]

\* A key and value for each command that carries one.
HashRequest ==
    {r \in Request : /\ r.cmd \in HashCmds
                     /\ r.key # None
                     /\ (r.cmd = "ADDKEY") <=> (r.val # None)}

(***************************************************************************)
(* The kernel's view of one end of a connection: "open"; "fin", closed in   *)
(* order; "rst", closed with unread input; "finrst", closed in order and    *)
(* written to since.  At the end of its input, read() returns 0 for "fin"   *)
(* and "finrst" and an error for "rst".  write() succeeds on "fin", fails   *)
(* on "rst" and raises SIGPIPE on "finrst".                                 *)
(***************************************************************************)
Ends == {"open", "fin", "rst", "finrst"}

CloseEnd(end, unread) ==
    IF end # "open" THEN end ELSE IF unread THEN "rst" ELSE "fin"

AfterWrite(end) == IF end = "fin" THEN "finrst" ELSE end

\* The server's end of p's connection, once the server closed it.
ServerClosed(p) == CloseEnd(sEnd[p], rq[p] # NoReq \/ cq[p])

\* The server's ends of all connections, once the process is gone.  The kernel
\* resets a connection that was never accepted.
AllServerClosed ==
    [p \in Procs |->
        IF cl[p] = "off" THEN sEnd[p]
        ELSE IF <<p, "session">> \in backlog THEN CloseEnd(sEnd[p], TRUE)
        ELSE ServerClosed(p)]

\* The client's end, once its process closed the socket or died.
ClientClosed(p) == [cEnd EXCEPT ![p] = CloseEnd(@, rs[p] # NoRes)]

-----------------------------------------------------------------------------
(***************************************************************************)
(* Client library and the processes that use it.                            *)
(*                                                                          *)
(* cl[p]: "off"; "idle", connected; "wait", reading a response; "closing",  *)
(* the same inside the signal handler; "poke", shutdown acknowledged, wake- *)
(* up connection to make; "failed", a call returned an error and the socket *)
(* is unusable; "done", "dead", "slain" (killed inside the handler).        *)
(***************************************************************************)
ClientStates == {"off", "idle", "wait", "closing", "poke", "failed", "done",
                 "dead", "slain"}

db_cl_open(p) ==
    /\ cl[p] = "off"
    /\ srv = "up"
    /\ Cardinality(backlog) < ListenQ
    /\ cl' = [cl EXCEPT ![p] = "idle"]
    /\ backlog' = backlog \cup {<<p, "session">>}
    /\ UNCHANGED <<held, ops, pend, streamVars, mon, conn, thr, buf, ans,
                   mutexVars, hashVars, run, srv>>

\* No memory, no socket, or connection refused.  The model ends the client
\* here.  cli.c:110 and 163 ignore the result and go on to their first lock,
\* with a request buffer that db_client.c:119 has freed: what that does is
\* undefined, but without a connection none of it reaches db_server.
db_cl_open_fails(p) ==
    /\ cl[p] = "off"
    /\ srv # "up" \/ "nomem" \in Faults
    /\ cl' = [cl EXCEPT ![p] = "done"]
    /\ UNCHANGED <<held, ops, pend, streamVars, monVars, thr, buf, ans,
                   mutexVars, hashVars, run, srv>>

\* Fill reqbuf, write it and start to read the response.
db_cl_send_req(p, r) ==
    /\ cl[p] = "idle"
    /\ IF sEnd[p] = "rst"
       THEN /\ cl' = [cl EXCEPT ![p] = "failed"]
            /\ UNCHANGED <<pend, rq, sEnd>>
       ELSE /\ cl' = [cl EXCEPT ![p] = "wait"]
            /\ pend' = [pend EXCEPT ![p] = r]
            /\ rq' = [rq EXCEPT ![p] = IF sEnd[p] = "open" THEN r ELSE @]
            /\ sEnd' = [sEnd EXCEPT ![p] = AfterWrite(@)]
    /\ UNCHANGED <<held, cq, rs, cEnd, monVars, thr, buf, ans, mutexVars,
                   hashVars, run, srv>>

db_cl_lock(p) ==
    /\ p \in Clients
    /\ held[p] < MaxDepth
    /\ held[p] > 0 => ops[p] < MaxOps
    /\ ops' = [ops EXCEPT ![p] = IF held[p] = 0 THEN 0 ELSE @ + 1]
    /\ db_cl_send_req(p, Req("LOCK"))

db_cl_unlock(p) ==
    /\ p \in Clients
    /\ held[p] > 0
    /\ UNCHANGED ops
    /\ db_cl_send_req(p, Req("UNLOCK"))

\* Mutant: a command that forgot cli_db_lock.
db_cl_data_unlocked(p, r) ==
    /\ p \in Clients
    /\ ops[p] < MaxOps
    /\ ops' = [ops EXCEPT ![p] = @ + 1]
    /\ db_cl_send_req(p, r)

\* The cli reads and writes keys only between cli_db_lock and cli_db_unlock.
db_cl_data(p, r) ==
    /\ p \in Clients
    /\ held[p] > 0
    /\ ops[p] < MaxOps
    /\ ops' = [ops EXCEPT ![p] = @ + 1]
    /\ db_cl_send_req(p, r)

\* Mutant: the cli ends with the database locked.
db_cl_close_locked(p) ==
    /\ p \in Clients
    /\ UNCHANGED ops
    /\ db_cl_send_req(p, Req("CLOSE"))

db_cl_close(p) ==
    /\ p \in Clients
    /\ held[p] = 0
    /\ UNCHANGED ops
    /\ db_cl_send_req(p, Req("CLOSE"))

db_cl_shutdown(p) ==
    /\ p \in Stoppers
    /\ UNCHANGED ops
    /\ db_cl_send_req(p, Req("SHUTDOWN"))

\* Mutant: UNLOCK counted like LOCK.
LockDelta_same(cmd, result) ==
    IF result # 0 THEN 0
    ELSE IF cmd \in {"LOCK", "UNLOCK"} THEN 1 ELSE 0

\* What a command that returned result did to the caller's lock count.
LockDelta(cmd, result) ==
    IF result # 0 THEN 0
    ELSE IF cmd = "LOCK" THEN 1
    ELSE IF cmd = "UNLOCK" THEN -1
    ELSE 0

\* What a call does with its response.
db_cl_read_res(p) ==
    /\ cl[p] = "wait"
    /\ rs[p] # NoRes
    /\ rs' = [rs EXCEPT ![p] = NoRes]
    /\ pend' = [pend EXCEPT ![p] = NoReq]
    /\ held' = [held EXCEPT ![p] = @ + LockDelta(pend[p].cmd, rs[p].result)]
    /\ cl' = [cl EXCEPT ![p] = IF pend[p].cmd = "CLOSE" THEN "done"
                               ELSE IF pend[p].cmd = "SHUTDOWN" THEN "poke"
                               ELSE "idle"]
    /\ cEnd' = [cEnd EXCEPT ![p] = IF pend[p].cmd \in {"CLOSE", "SHUTDOWN"}
                                   THEN CloseEnd(@, FALSE) ELSE @]
    /\ UNCHANGED <<ops, rq, cq, sEnd, monVars, thr, buf, ans, mutexVars,
                   hashVars, run, srv>>

\* read() fails.  When it returns 0 instead, the loop in db_cl_read_res asks
\* again for ever: the client stays in "wait" and has no step.
db_cl_read_res_fails(p) ==
    /\ cl[p] = "wait"
    /\ rs[p] = NoRes
    /\ sEnd[p] = "rst"
    /\ cl' = [cl EXCEPT ![p] = "failed"]
    /\ pend' = [pend EXCEPT ![p] = NoReq]
    /\ UNCHANGED <<held, ops, streamVars, monVars, thr, buf, ans, mutexVars,
                   hashVars, run, srv>>

\* The next write on an unusable socket raises SIGPIPE in the client.
db_cl_broken(p) ==
    /\ cl[p] = "failed"
    /\ cl' = [cl EXCEPT ![p] = "dead"]
    /\ cEnd' = ClientClosed(p)
    /\ UNCHANGED <<held, ops, pend, rq, cq, rs, sEnd, monVars, thr, buf, ans,
                   mutexVars, hashVars, run, srv>>

\* Mutant: no wake-up connection.
db_cl_poke_skipped(p) ==
    /\ cl[p] = "poke"
    /\ cl' = [cl EXCEPT ![p] = "done"]
    /\ UNCHANGED <<held, ops, pend, streamVars, monVars, thr, buf, ans,
                   mutexVars, hashVars, run, srv>>

\* The tail of db_cl_shutdown: connect once more, so that accept returns.
db_cl_poke(p) ==
    /\ cl[p] = "poke"
    /\ IF srv = "up"
       THEN /\ Cardinality(backlog) < ListenQ
            /\ backlog' = backlog \cup {<<p, "poke">>}
       ELSE UNCHANGED backlog
    /\ cl' = [cl EXCEPT ![p] = "done"]
    /\ UNCHANGED <<held, ops, pend, streamVars, mon, conn, thr, buf, ans,
                   mutexVars, hashVars, run, srv>>

(***************************************************************************)
(* The handler of SIGINT, SIGTERM and SIGALRM runs at any point of a        *)
(* command: it sends CLOSE on the same socket, takes whatever response      *)
(* comes first for the answer, and exits.                                   *)
(***************************************************************************)
cleanup(p) ==
    /\ p \in Clients
    /\ "signal" \in Faults
    /\ cl[p] \in {"idle", "wait"}
    /\ IF sEnd[p] = "rst"
       THEN /\ cl' = [cl EXCEPT ![p] = "dead"]
            /\ cEnd' = ClientClosed(p)
            /\ UNCHANGED <<cq, sEnd>>
       ELSE /\ cl' = [cl EXCEPT ![p] = "closing"]
            /\ cq' = [cq EXCEPT ![p] = sEnd[p] = "open"]
            /\ sEnd' = [sEnd EXCEPT ![p] = AfterWrite(@)]
            /\ UNCHANGED cEnd
    /\ UNCHANGED <<held, ops, pend, rq, rs, monVars, thr, buf, ans, mutexVars,
                   hashVars, run, srv>>

\* Mutant: the handler returns to the call it interrupted.
cleanup_exit_resumes(p) ==
    /\ cl[p] = "closing"
    /\ rs[p] # NoRes \/ sEnd[p] = "rst"
    /\ cl' = [cl EXCEPT ![p] = "wait"]
    /\ rs' = [rs EXCEPT ![p] = NoRes]
    /\ UNCHANGED <<held, ops, pend, rq, cq, cEnd, sEnd, monVars, thr, buf, ans,
                   mutexVars, hashVars, run, srv>>

cleanup_exit(p) ==
    /\ cl[p] = "closing"
    /\ rs[p] # NoRes \/ sEnd[p] = "rst"
    /\ cl' = [cl EXCEPT ![p] = "dead"]
    /\ rs' = [rs EXCEPT ![p] = NoRes]
    /\ cEnd' = [cEnd EXCEPT ![p] = CloseEnd(@, FALSE)]
    /\ UNCHANGED <<held, ops, pend, rq, cq, sEnd, monVars, thr, buf, ans,
                   mutexVars, hashVars, run, srv>>

\* The process is killed: the kernel closes its socket.
Killed(p) ==
    /\ "kill" \in Faults
    /\ cl[p] \in {"idle", "wait", "closing", "poke"}
    /\ cl' = [cl EXCEPT ![p] = IF @ = "closing" THEN "slain" ELSE "dead"]
    /\ cEnd' = ClientClosed(p)
    /\ UNCHANGED <<held, ops, pend, rq, cq, rs, sEnd, monVars, thr, buf, ans,
                   mutexVars, hashVars, run, srv>>

-----------------------------------------------------------------------------
(***************************************************************************)
(* db_server_monitor.  The order of the listen queue is left open.          *)
(***************************************************************************)
NoConn == <<None, "none">>

MonLoop ==
    /\ srv = "up"
    /\ mon = "loop"
    /\ mon' = IF run THEN "accept" ELSE "done"
    /\ UNCHANGED <<clientVars, streamVars, backlog, conn, thr, buf, ans,
                   mutexVars, hashVars, run, srv>>

MonAccept ==
    /\ srv = "up"
    /\ mon = "accept"
    /\ \E x \in backlog : conn' = x /\ backlog' = backlog \ {x}
    /\ mon' = "check"
    /\ UNCHANGED <<clientVars, streamVars, thr, buf, ans, mutexVars, hashVars,
                   run, srv>>

\* Start a thread for the connection.  pthread_create or the thread's malloc
\* may fail: the connection is then closed.
MonSpawn ==
    /\ srv = "up"
    /\ mon = "check"
    /\ run
    /\ conn[2] = "session"
    /\ mon' = "loop"
    /\ conn' = NoConn
    /\ \/ /\ thr' = [thr EXCEPT ![conn[1]] = "read"]
          /\ UNCHANGED sEnd
       \/ /\ "nomem" \in Faults
          /\ thr' = [thr EXCEPT ![conn[1]] = "exit"]
          /\ sEnd' = [sEnd EXCEPT ![conn[1]] = ServerClosed(conn[1])]
    /\ UNCHANGED <<clientVars, rq, cq, rs, cEnd, backlog, buf, ans, mutexVars,
                   hashVars, run, srv>>

MonBreak ==
    /\ srv = "up"
    /\ mon = "check"
    /\ ~run
    /\ mon' = "done"
    /\ UNCHANGED <<clientVars, streamVars, backlog, conn, thr, buf, ans,
                   mutexVars, hashVars, run, srv>>

\* main returns: the process and all its threads are gone.
MonExit ==
    /\ srv = "up"
    /\ mon = "done"
    /\ srv' = "exited"
    /\ sEnd' = AllServerClosed
    /\ UNCHANGED <<clientVars, rq, cq, rs, cEnd, monVars, thr, buf, ans,
                   mutexVars, hashVars, run>>

-----------------------------------------------------------------------------
(***************************************************************************)
(* The db_server thread of connection p.  thr[p]: "none"; "read", in        *)
(* dbipc_read_request; "exec", request read; "hash", inside the hash table; *)
(* "reply"; "stop", about to run stop_db_srv; "exit".                       *)
(***************************************************************************)
ThreadStates == {"none", "read", "exec", "hash", "reply", "stop", "exit"}

Running(p, state) == srv = "up" /\ thr[p] = state

\* Mutant: the end of the stream is taken for a CLOSE.
dbipc_read_request_eof(p) ==
    /\ Running(p, "read")
    /\ rq[p] # NoReq \/ cq[p] \/ cEnd[p] \in {"fin", "finrst"}
    /\ buf' = [buf EXCEPT ![p] = IF rq[p] # NoReq THEN rq[p] ELSE Req("CLOSE")]
    /\ rq' = [rq EXCEPT ![p] = NoReq]
    /\ cq' = [cq EXCEPT ![p] = @ /\ rq[p] # NoReq]
    /\ thr' = [thr EXCEPT ![p] = "exec"]
    /\ UNCHANGED <<clientVars, rs, cEnd, sEnd, monVars, ans, mutexVars,
                   hashVars, run, srv>>

\* When the stream is empty and its end "fin" or "finrst", read() returns 0 and
\* dbipc_read_request asks again for ever: the thread has no step.
dbipc_read_request(p) ==
    /\ Running(p, "read")
    /\ rq[p] # NoReq \/ cq[p]
    /\ buf' = [buf EXCEPT ![p] = IF rq[p] # NoReq THEN rq[p] ELSE Req("CLOSE")]
    /\ rq' = [rq EXCEPT ![p] = NoReq]
    /\ cq' = [cq EXCEPT ![p] = @ /\ rq[p] # NoReq]
    /\ thr' = [thr EXCEPT ![p] = "exec"]
    /\ UNCHANGED <<clientVars, rs, cEnd, sEnd, monVars, ans, mutexVars,
                   hashVars, run, srv>>

\* read() fails: the thread closes its socket and ends.
dbipc_read_request_fails(p) ==
    /\ Running(p, "read")
    /\ rq[p] = NoReq /\ ~cq[p]
    /\ cEnd[p] = "rst"
    /\ thr' = [thr EXCEPT ![p] = "exit"]
    /\ sEnd' = [sEnd EXCEPT ![p] = ServerClosed(p)]
    /\ UNCHANGED <<clientVars, rq, cq, rs, cEnd, monVars, buf, ans, mutexVars,
                   hashVars, run, srv>>

\* The handler of a command left its result in the buffer.
Answer(p, result, val) ==
    /\ thr' = [thr EXCEPT ![p] = "reply"]
    /\ ans' = [ans EXCEPT ![p] = Res(buf[p], result, val)]
    /\ UNCHANGED <<clientVars, streamVars, monVars, buf, srv>>

dbipc_close(p) ==
    /\ Running(p, "exec")
    /\ buf[p].cmd = "CLOSE"
    /\ Answer(p, 0, None)
    /\ UNCHANGED <<mutexVars, hashVars, run>>

\* Mutant: the lock call does not wait for the owner.
dbipc_lock_trylock(p) ==
    /\ Running(p, "exec")
    /\ buf[p].cmd = "LOCK"
    /\ owner' = p
    /\ depth' = depth + 1
    /\ Answer(p, 0, None)
    /\ UNCHANGED <<hashVars, run>>

\* Mutant: a mutex that does not count its owner's locks.
dbipc_lock_flat(p) ==
    /\ Running(p, "exec")
    /\ buf[p].cmd = "LOCK"
    /\ owner \in {None, p}
    /\ owner' = p
    /\ depth' = 1
    /\ Answer(p, 0, None)
    /\ UNCHANGED <<hashVars, run>>

\* pthread_mutex_lock on a recursive mutex: blocks while another thread owns it.
dbipc_lock(p) ==
    /\ Running(p, "exec")
    /\ buf[p].cmd = "LOCK"
    /\ owner \in {None, p}
    /\ owner' = p
    /\ depth' = depth + 1
    /\ Answer(p, 0, None)
    /\ UNCHANGED <<hashVars, run>>

\* Mutant: the last UNLOCK does not free the mutex.
dbipc_unlock_keeps(p) ==
    /\ Running(p, "exec")
    /\ buf[p].cmd = "UNLOCK"
    /\ depth' = IF depth > 1 THEN depth - 1 ELSE depth
    /\ Answer(p, 0, None)
    /\ UNCHANGED <<owner, hashVars, run>>

\* pthread_mutex_unlock refuses a thread that is not the owner.
dbipc_unlock(p) ==
    /\ Running(p, "exec")
    /\ buf[p].cmd = "UNLOCK"
    /\ IF owner = p
       THEN /\ depth' = depth - 1
            /\ owner' = IF depth = 1 THEN None ELSE p
            /\ Answer(p, 0, None)
       ELSE /\ Answer(p, -1, None)
            /\ UNCHANGED mutexVars
    /\ UNCHANGED <<hashVars, run>>

HashEnter(p) ==
    /\ Running(p, "exec")
    /\ buf[p].cmd \in HashCmds
    /\ thr' = [thr EXCEPT ![p] = "hash"]
    /\ UNCHANGED <<clientVars, streamVars, monVars, buf, ans, mutexVars,
                   hashVars, run, srv>>

InHash(p, cmd) == Running(p, "hash") /\ open /\ buf[p].cmd = cmd

\* hash_getkey returns a copy, or NULL when there is no entry or no memory.
dbipc_getkey(p) ==
    LET v == table[buf[p].key] IN
    /\ InHash(p, "GETKEY")
    /\ \/ v # None /\ Answer(p, 0, v)
       \/ /\ v = None \/ "nomem" \in Faults
          /\ Answer(p, -1, None)
    /\ UNCHANGED <<mutexVars, hashVars, run>>

\* hash_insert unlinks the old entry before it allocates the new one.
dbipc_addkey(p) ==
    /\ InHash(p, "ADDKEY")
    /\ \/ /\ table' = [table EXCEPT ![buf[p].key] = buf[p].val]
          /\ Answer(p, 0, None)
       \/ /\ "nomem" \in Faults
          /\ table' = [table EXCEPT ![buf[p].key] = None]
          /\ Answer(p, -1, None)
    /\ UNCHANGED <<mutexVars, open, run>>

dbipc_delkey(p) ==
    /\ InHash(p, "DELKEY")
    /\ table' = [table EXCEPT ![buf[p].key] = None]
    /\ Answer(p, IF table[buf[p].key] = None THEN -1 ELSE 0, None)
    /\ UNCHANGED <<mutexVars, open, run>>

\* hash_key_exists returns -1 for a key that exists.
dbipc_keyexists(p) ==
    /\ InHash(p, "KEYEXISTS")
    /\ Answer(p, IF table[buf[p].key] = None THEN 0 ELSE -1, None)
    /\ UNCHANGED <<mutexVars, hashVars, run>>

\* The table was freed while the thread was inside it: any result, or a crash.
HashFreed(p) ==
    /\ Running(p, "hash")
    /\ ~open
    /\ \/ \E n \in {0, -1}, v \in Vals \cup {None} : Answer(p, n, v)
       \/ /\ srv' = "crashed"
          /\ sEnd' = AllServerClosed
          /\ UNCHANGED <<clientVars, rq, cq, rs, cEnd, monVars, thr, buf, ans>>
    /\ UNCHANGED <<mutexVars, hashVars, run>>

dbipc_shutdown(p) ==
    /\ Running(p, "exec")
    /\ buf[p].cmd = "SHUTDOWN"
    /\ run' = FALSE
    /\ Answer(p, 0, None)
    /\ UNCHANGED <<mutexVars, hashVars>>

\* Write the response; after CLOSE and SHUTDOWN free the buffer and close.
\* The mutex is not released.  db_server does not ignore SIGPIPE.
dbipc_send_response(p) ==
    /\ Running(p, "reply")
    /\ IF cEnd[p] = "finrst"
       THEN /\ srv' = "sigpipe"
            /\ sEnd' = AllServerClosed
            /\ UNCHANGED <<thr, buf, ans, rs, cEnd>>
       ELSE /\ rs' = [rs EXCEPT ![p] = IF cEnd[p] = "open" /\ @ = NoRes
                                       THEN ans[p] ELSE @]
            /\ cEnd' = [cEnd EXCEPT ![p] = AfterWrite(@)]
            /\ sEnd' = [sEnd EXCEPT ![p] = IF buf[p].cmd \in {"CLOSE", "SHUTDOWN"}
                                           THEN ServerClosed(p) ELSE @]
            /\ thr' = [thr EXCEPT ![p] = IF buf[p].cmd = "CLOSE" THEN "exit"
                                         ELSE IF buf[p].cmd = "SHUTDOWN" THEN "stop"
                                         ELSE "read"]
            /\ buf' = [buf EXCEPT ![p] = NoReq]
            /\ ans' = [ans EXCEPT ![p] = NoRes]
            /\ UNCHANGED srv
    /\ UNCHANGED <<clientVars, rq, cq, monVars, mutexVars, hashVars, run>>

\* hash_close, without g_db_mutex.  A second SHUTDOWN frees the table again.
stop_db_srv(p) ==
    /\ Running(p, "stop")
    /\ run' = FALSE
    /\ open' = FALSE
    /\ \/ /\ thr' = [thr EXCEPT ![p] = "exit"]
          /\ UNCHANGED <<sEnd, srv>>
       \/ /\ ~open
          /\ srv' = "crashed"
          /\ sEnd' = AllServerClosed
          /\ UNCHANGED thr
    /\ UNCHANGED <<clientVars, rq, cq, rs, cEnd, monVars, buf, ans, mutexVars,
                   table>>

-----------------------------------------------------------------------------
Init ==
    /\ cl = [p \in Procs |-> "off"]
    /\ held = [p \in Procs |-> 0]
    /\ ops = [p \in Procs |-> 0]
    /\ pend = [p \in Procs |-> NoReq]
    /\ rq = [p \in Procs |-> NoReq]
    /\ cq = [p \in Procs |-> FALSE]
    /\ rs = [p \in Procs |-> NoRes]
    /\ cEnd = [p \in Procs |-> "open"]
    /\ sEnd = [p \in Procs |-> "open"]
    /\ backlog = {}
    /\ mon = "loop"
    /\ conn = NoConn
    /\ thr = [p \in Procs |-> "none"]
    /\ buf = [p \in Procs |-> NoReq]
    /\ ans = [p \in Procs |-> NoRes]
    /\ owner = None
    /\ depth = 0
    /\ table = [k \in Keys |-> None]
    /\ open = TRUE
    /\ run = TRUE
    /\ srv = "up"

\* Steps inside a command: the user is not waited for.
InCommand(p) ==
    \/ db_cl_read_res(p)
    \/ db_cl_read_res_fails(p)
    \/ db_cl_poke(p)
    \/ cleanup_exit(p)
    \/ held[p] > 0 /\ db_cl_lock(p)
    \/ db_cl_unlock(p)
    \/ \E r \in HashRequest : db_cl_data(p, r)

\* Steps that begin a command, open or close.
Command(p) ==
    \/ db_cl_open(p)
    \/ db_cl_open_fails(p)
    \/ held[p] = 0 /\ db_cl_lock(p)
    \/ db_cl_close(p)
    \/ db_cl_shutdown(p)
    \/ db_cl_broken(p)

Fault(p) == cleanup(p) \/ Killed(p)

Monitor == MonLoop \/ MonAccept \/ MonSpawn \/ MonBreak \/ MonExit

Thread(p) ==
    \/ dbipc_read_request(p)
    \/ dbipc_read_request_fails(p)
    \/ dbipc_close(p)
    \/ dbipc_lock(p)
    \/ dbipc_unlock(p)
    \/ HashEnter(p)
    \/ dbipc_getkey(p)
    \/ dbipc_addkey(p)
    \/ dbipc_delkey(p)
    \/ dbipc_keyexists(p)
    \/ HashFreed(p)
    \/ dbipc_shutdown(p)
    \/ dbipc_send_response(p)
    \/ stop_db_srv(p)

Next ==
    \/ Monitor
    \/ \E p \in Procs : InCommand(p) \/ Command(p) \/ Fault(p) \/ Thread(p)

Spec == Init /\ [][Next]_vars

\* The kernel runs every thread that can run; a cli inside a command does not
\* wait for its user.
Fairness ==
    /\ WF_vars(Monitor)
    /\ \A p \in Procs : WF_vars(InCommand(p)) /\ WF_vars(Thread(p))

FairSpec == Spec /\ Fairness

-----------------------------------------------------------------------------
TypeOK ==
    /\ cl \in [Procs -> ClientStates]
    /\ held \in [Procs -> 0..MaxDepth]
    /\ ops \in [Procs -> 0..MaxOps]
    /\ pend \in [Procs -> Request]
    /\ rq \in [Procs -> Request]
    /\ cq \in [Procs -> BOOLEAN]
    /\ rs \in [Procs -> Response]
    /\ cEnd \in [Procs -> Ends]
    /\ sEnd \in [Procs -> Ends]
    /\ backlog \in SUBSET (Procs \X {"session", "poke"})
    /\ mon \in {"loop", "accept", "check", "done"}
    /\ conn \in (Procs \X {"session", "poke"}) \cup {NoConn}
    /\ thr \in [Procs -> ThreadStates]
    /\ buf \in [Procs -> Request]
    /\ ans \in [Procs -> Response]
    /\ owner \in Procs \cup {None}
    /\ depth \in 0..MaxDepth
    /\ table \in [Keys -> Vals \cup {None}]
    /\ open \in BOOLEAN
    /\ run \in BOOLEAN
    /\ srv \in {"up", "exited", "sigpipe", "crashed"}

-----------------------------------------------------------------------------
(***************************************************************************)
(* Safety.                                                                  *)
(***************************************************************************)

\* hash.c has no lock of its own: two threads are never inside it together.
\* The advisory LOCK of the clients is all that keeps them apart, also when
\* clients die at any point of a command.
HashExclusive ==
    \A p, q \in Procs : thr[p] = "hash" /\ thr[q] = "hash" => p = q

\* How deep p owns g_db_mutex.
Depth(p) == IF owner = p THEN depth ELSE 0

\* What a client believes of its lock is what g_db_mutex says: between two
\* requests, a client that holds n LOCKs owns the mutex n deep.
LockAgreement ==
    \A p \in Clients : cl[p] = "idle" => Depth(p) = held[p]

\* The response a call of db_client takes from the stream answers the request
\* it sent, although a request and its response carry no sequence number.
ResponseMatches ==
    \A p \in Procs :
        /\ cl[p] = "wait" /\ rs[p] # NoRes => rs[p].cmd = pend[p].cmd
        /\ cl[p] = "idle" => rs[p] = NoRes

\* While a client that holds the lock has not consumed its response, what the
\* response says of the entry is still true: no other client got in between.
AnswerStillTrue ==
    \A p \in Clients :
        cl[p] = "wait" /\ rs[p] # NoRes /\ open =>
            LET entry == table[pend[p].key] IN
            CASE pend[p].cmd = "GETKEY"    -> rs[p].result = 0 => entry = rs[p].val
              [] pend[p].cmd = "ADDKEY"    -> rs[p].result = 0 <=> entry = pend[p].val
              [] pend[p].cmd = "DELKEY"    -> entry = None
              [] pend[p].cmd = "KEYEXISTS" -> rs[p].result = 0 <=> entry = None
              [] OTHER -> TRUE

\* A client that left in order (db_cl_close) left the mutex free: only a client
\* that died can strand it.
OrderlyCloseFreesLock ==
    \A p \in Procs : cl[p] = "done" => owner # p

\* Writing to one dead client kills db_server, and the database with it, only
\* when the client died inside its signal handler, with a request and a CLOSE
\* unanswered.
SigpipeNeedsTwoAnswers ==
    srv = "sigpipe" => \E p \in Clients : cl[p] = "slain"

\* An entry changes only under the hand of the mutex owner's thread.
OnlyOwnerWrites ==
    [][table' # table => owner # None /\ thr[owner] = "hash"]_vars


(***************************************************************************)
(* The inductive invariant behind the lock properties.  A client's view and *)
(* the mutex differ by at most the effect of its one request in flight.     *)
(***************************************************************************)

\* p's thread waits for a request, did not start yet or ended.
Parked(p) == thr[p] \in {"none", "read", "exit"}

\* The stages of a request on its way through stream, thread and stream.
InFlight(p) ==
    /\ rq[p] # NoReq => rq[p] = pend[p] /\ Depth(p) = held[p]
    /\ thr[p] \in {"exec", "hash"} => buf[p] = pend[p] /\ Depth(p) = held[p]
    /\ thr[p] = "reply" =>
          /\ buf[p] = pend[p]
          /\ ans[p].cmd = pend[p].cmd
          /\ Depth(p) = held[p] + LockDelta(pend[p].cmd, ans[p].result)
    /\ thr[p] = "stop" => pend[p].cmd = "SHUTDOWN"
    /\ rs[p] # NoRes =>
          /\ thr[p] \in {"read", "exit", "stop"}
          /\ rs[p].cmd = pend[p].cmd
          /\ rq[p] = NoReq
          /\ Depth(p) = held[p] + LockDelta(pend[p].cmd, rs[p].result)

ClientInv(p) ==
    /\ cl[p] = "off" => thr[p] = "none" /\ held[p] = 0 /\ owner # p
    /\ cl[p] \in {"off", "idle"} => Parked(p) /\ rq[p] = NoReq /\ rs[p] = NoRes
    /\ cl[p] \in {"off", "idle", "wait", "poke", "done"} => ~cq[p]
    /\ cl[p] = "idle" => Depth(p) = held[p]
    /\ cl[p] = "wait" => InFlight(p)
    /\ cl[p] = "wait" /\ pend[p].cmd \in {"CLOSE", "SHUTDOWN"} => held[p] = 0
    /\ cl[p] \in {"poke", "done"} =>
          owner # p /\ rq[p] = NoReq /\ (Parked(p) \/ thr[p] = "stop")

\* What survives the client: a request in flight was sent under the lock.
ThreadInv(p) ==
    /\ rq[p] # NoReq => Parked(p)
    /\ rq[p].cmd \in HashCmds => owner = p
    /\ rq[p].cmd = "LOCK" => Depth(p) < MaxDepth
    /\ thr[p] = "exec" /\ buf[p].cmd \in HashCmds => owner = p
    /\ thr[p] = "exec" /\ buf[p].cmd = "LOCK" => Depth(p) < MaxDepth
    /\ thr[p] = "hash" => owner = p /\ buf[p].cmd \in HashCmds
    /\ rq[p].cmd \in HashCmds => rq[p].key \in Keys
    /\ buf[p].cmd \in HashCmds => buf[p].key \in Keys

\* A connection is accepted once.
AcceptInv(p) ==
    LET x == <<p, "session">> IN
    /\ x \in backlog \/ conn = x => thr[p] = "none" /\ cl[p] # "off"
    /\ x \in backlog => conn # x

StopperInv(p) ==
    held[p] = 0 /\ (cl[p] = "wait" => pend[p].cmd = "SHUTDOWN")

LockInv ==
    /\ owner = None <=> depth = 0
    /\ \A p \in Procs : ClientInv(p) /\ ThreadInv(p) /\ AcceptInv(p)
    /\ \A p \in Stoppers : StopperInv(p)

(***************************************************************************)
(* Liveness.                                                                *)
(***************************************************************************)

\* A client that owns the mutex lets go of it, unless db_server ends first.
CriticalSectionEnds ==
    \A p \in Clients : owner = p ~> owner # p \/ srv # "up"

\* Once SHUTDOWN was executed, db_server_monitor leaves its blocking accept
\* and the process ends.
ShutdownCompletes == ~run ~> srv # "up"
=============================================================================
