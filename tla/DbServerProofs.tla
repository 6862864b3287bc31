--------------------------- MODULE DbServerProofs ---------------------------
(***************************************************************************)
(* Theorems about DbServer: type correctness, the lock properties, and what *)
(* may be said of answers and of dead clients, for any number of clients,   *)
(* keys and values and under all faults.  The inductive invariant is        *)
(* TypeOK /\ LockInv, with PipeInv or AnswerInv of every client on top.     *)
(***************************************************************************)
EXTENDS DbServer, TLAPS

\* Closing and writing keep an end of a connection inside Ends.
LEMMA EndsType ==
    /\ \A e \in Ends : AfterWrite(e) \in Ends
    /\ \A e \in Ends : CloseEnd(e, TRUE) \in Ends /\ CloseEnd(e, FALSE) \in Ends
    /\ \A e \in Ends, b \in BOOLEAN : CloseEnd(e, b) \in Ends
BY DEF Ends, AfterWrite, CloseEnd

\* When db_server ends, every server end of a connection is still in Ends.
LEMMA AllClosedType ==
    ASSUME sEnd \in [Procs -> Ends], rq \in [Procs -> Request], cq \in [Procs -> BOOLEAN]
    PROVE  AllServerClosed \in [Procs -> Ends]
<1>1. ASSUME NEW p \in Procs
      PROVE  /\ ServerClosed(p) \in Ends
             /\ CloseEnd(sEnd[p], TRUE) \in Ends
             /\ sEnd[p] \in Ends
      BY DEF ServerClosed, CloseEnd, Ends
<1>2. QED
      BY <1>1 DEF AllServerClosed

\* Requests and responses that the code builds are well formed.
LEMMA MessageType ==
    /\ \A c \in Cmds : Req(c) \in Request
    /\ NoReq \in Request
    /\ NoRes \in Response
    /\ \A r \in Request, n \in {0, -1}, v \in Vals \cup {None} : Res(r, n, v) \in Response
    /\ HashRequest \subseteq Request
BY DEF Req, NoReq, NoRes, Res, Request, Response, HashRequest

\* A request of any command differs from the empty one.
LEMMA RequestNotEmpty ==
    /\ NoReq.cmd = "NONE"
    /\ \A c : Req(c).cmd = c
    /\ \A r \in HashRequest : r # NoReq /\ r.cmd \in HashCmds
    /\ \A c \in Cmds : Req(c) # NoReq
    /\ \A r : \A n, v : Res(r, n, v).cmd = r.cmd /\ Res(r, n, v).result = n
BY DEF Req, NoReq, Res, HashRequest, Request, HashCmds, Cmds

-----------------------------------------------------------------------------
(***************************************************************************)
(* Type correctness.                                                        *)
(***************************************************************************)

\* A lock count never leaves its bounds when a response is consumed: the mutex
\* depth bounds it from above, and is not negative.
LEMMA HeldBound ==
    ASSUME TypeOK, LockInv, NEW p \in Procs, db_cl_read_res(p)
    PROVE  held[p] + LockDelta(pend[p].cmd, rs[p].result) \in 0..MaxDepth
<1>1. Depth(p) = held[p] + LockDelta(pend[p].cmd, rs[p].result)
      BY DEF LockInv, ClientInv, InFlight, db_cl_read_res
<1>2. Depth(p) \in 0..MaxDepth
      BY DbAssumption DEF TypeOK, Depth
<1>3. QED
      BY <1>1, <1>2

\* Every step keeps every variable in its type.
LEMMA TypeStep ==
    ASSUME TypeOK, LockInv, [Next]_vars
    PROVE  TypeOK'
<1> USE DbAssumption
<1>w. \A p \in Procs : AfterWrite(sEnd[p]) \in Ends /\ AfterWrite(cEnd[p]) \in Ends
      BY EndsType DEF TypeOK
<1>f. \A p \in Procs : CloseEnd(cEnd[p], FALSE) \in Ends
      BY EndsType DEF TypeOK
<1>m. NoReq \in Request /\ NoRes \in Response
      BY MessageType
<1>0. AllServerClosed \in [Procs -> Ends]
      BY AllClosedType DEF TypeOK
<1>s. \A p \in Procs : ServerClosed(p) \in Ends
      BY DEF TypeOK, ServerClosed, CloseEnd, Ends
<1>c. \A p \in Procs : ClientClosed(p) \in [Procs -> Ends]
      BY DEF TypeOK, ClientClosed, CloseEnd, Ends
<1>1. CASE UNCHANGED vars
      BY <1>1 DEF TypeOK, vars, clientVars, streamVars, monVars, mutexVars, hashVars
<1>2. CASE Monitor
  <2>1. CASE MonLoop
        BY <2>1 DEF MonLoop, TypeOK, clientVars, streamVars, mutexVars, hashVars
  <2>2. CASE MonAccept
        BY <2>2 DEF MonAccept, TypeOK, clientVars, streamVars, mutexVars, hashVars
  <2>3. CASE MonSpawn
    <3>1. conn[1] \in Procs
          BY <2>3 DEF MonSpawn, TypeOK, NoConn
    <3>2. thr' \in [Procs -> ThreadStates] /\ sEnd' \in [Procs -> Ends]
          BY <2>3, <3>1, <1>s DEF MonSpawn, TypeOK, ThreadStates
    <3>3. QED
          BY <2>3, <3>2 DEF MonSpawn, TypeOK, NoConn, clientVars, mutexVars, hashVars
  <2>4. CASE MonBreak
        BY <2>4 DEF MonBreak, TypeOK, clientVars, streamVars, mutexVars, hashVars
  <2>5. CASE MonExit
        BY <2>5, <1>0 DEF MonExit, TypeOK, clientVars, monVars, mutexVars, hashVars
  <2>6. QED
        BY <1>2, <2>1, <2>2, <2>3, <2>4, <2>5 DEF Monitor
<1>3. ASSUME NEW p \in Procs, InCommand(p) \/ Command(p) \/ Fault(p)
      PROVE  TypeOK'
  <2>1. ASSUME NEW r \in Request, db_cl_send_req(p, r), ops' \in [Procs -> 0..MaxOps]
        PROVE  TypeOK'
    <3>1. cl' \in [Procs -> ClientStates] /\ pend' \in [Procs -> Request]
          BY <2>1 DEF db_cl_send_req, TypeOK, ClientStates
    <3>2. rq' \in [Procs -> Request]
          BY <2>1 DEF db_cl_send_req, TypeOK
    <3>3. sEnd' \in [Procs -> Ends]
          BY <2>1, <1>w DEF db_cl_send_req, TypeOK
    <3>4. QED
          BY <2>1, <3>1, <3>2, <3>3 DEF db_cl_send_req, TypeOK, monVars, mutexVars, hashVars
  <2>2. CASE db_cl_lock(p)
    <3>1. Req("LOCK") \in Request
          BY MessageType DEF Cmds
    <3>2. ops' \in [Procs -> 0..MaxOps]
          BY <2>2 DEF db_cl_lock, TypeOK
    <3>3. QED
          BY <2>1, <2>2, <3>1, <3>2 DEF db_cl_lock
  <2>3. CASE db_cl_unlock(p) \/ db_cl_close(p) \/ db_cl_shutdown(p)
    <3>1. \A c \in {"UNLOCK", "CLOSE", "SHUTDOWN"} : Req(c) \in Request
          BY MessageType DEF Cmds
    <3>2. QED
          BY <2>1, <2>3, <3>1 DEF db_cl_unlock, db_cl_close, db_cl_shutdown, TypeOK
  <2>4. ASSUME NEW r \in HashRequest, db_cl_data(p, r) PROVE TypeOK'
    <3>1. ops' \in [Procs -> 0..MaxOps]
          BY <2>4 DEF db_cl_data, TypeOK
    <3>2. QED
          BY <2>1, <2>4, <3>1, MessageType DEF db_cl_data
  <2>5. CASE db_cl_read_res(p)
    <3>1. held' \in [Procs -> 0..MaxDepth]
          BY <2>5, HeldBound DEF db_cl_read_res, TypeOK
    <3>2. QED
          BY <2>5, <3>1, <1>f, <1>m DEF db_cl_read_res, TypeOK, ClientStates, monVars, mutexVars, hashVars
  <2>6. CASE db_cl_read_res_fails(p)
        BY <2>6, <1>m DEF db_cl_read_res_fails, TypeOK, ClientStates, streamVars, monVars, mutexVars, hashVars
  <2>7. CASE db_cl_poke(p)
        BY <2>7 DEF db_cl_poke, TypeOK, ClientStates, streamVars, mutexVars, hashVars
  <2>8. CASE cleanup_exit(p)
        BY <2>8, <1>f, <1>m DEF cleanup_exit, TypeOK, ClientStates, monVars, mutexVars, hashVars
  <2>9. CASE db_cl_open(p)
        BY <2>9 DEF db_cl_open, TypeOK, ClientStates, streamVars, mutexVars, hashVars
  <2>10. CASE db_cl_open_fails(p)
        BY <2>10 DEF db_cl_open_fails, TypeOK, ClientStates, streamVars, monVars, mutexVars, hashVars
  <2>11. CASE db_cl_broken(p)
        BY <2>11, <1>c DEF db_cl_broken, TypeOK, ClientStates, monVars, mutexVars, hashVars
  <2>12. CASE cleanup(p)
    <3>1. cl' \in [Procs -> ClientStates] /\ cEnd' \in [Procs -> Ends]
          BY <2>12, <1>c DEF cleanup, TypeOK, ClientStates
    <3>2. sEnd' \in [Procs -> Ends]
          BY <2>12, <1>w DEF cleanup, TypeOK
    <3>3. cq' \in [Procs -> BOOLEAN]
          BY <2>12 DEF cleanup, TypeOK
    <3>4. QED
          BY <2>12, <3>1, <3>2, <3>3 DEF cleanup, TypeOK, monVars, mutexVars, hashVars
  <2>13. CASE Killed(p)
        BY <2>13, <1>c DEF Killed, TypeOK, ClientStates, monVars, mutexVars, hashVars
  <2>14. QED
        BY <1>3, <2>2, <2>3, <2>4, <2>5, <2>6, <2>7, <2>8, <2>9, <2>10, <2>11, <2>12, <2>13
        DEF InCommand, Command, Fault
<1>4. ASSUME NEW p \in Procs, Thread(p)
      PROVE  TypeOK'
  <2>1. ASSUME NEW n \in {0, -1}, NEW v \in Vals \cup {None}, Answer(p, n, v),
               owner' \in Procs \cup {None}, depth' \in 0..MaxDepth,
               table' \in [Keys -> Vals \cup {None}], open' \in BOOLEAN, run' \in BOOLEAN
        PROVE  TypeOK'
    <3>1. Res(buf[p], n, v) \in Response
          BY MessageType DEF TypeOK
    <3>2. QED
          BY <2>1, <3>1 DEF Answer, TypeOK, ThreadStates, clientVars, streamVars, monVars
  <2>2. CASE dbipc_read_request(p)
    <3>1. Req("CLOSE") \in Request
          BY MessageType DEF Cmds
    <3>2. QED
          BY <2>2, <3>1, <1>m DEF dbipc_read_request, TypeOK, ThreadStates, clientVars, monVars, mutexVars, hashVars
  <2>3. CASE dbipc_read_request_fails(p)
        BY <2>3, <1>s DEF dbipc_read_request_fails, TypeOK, ThreadStates, clientVars, monVars, mutexVars, hashVars
  <2>4. CASE dbipc_close(p) \/ dbipc_shutdown(p)
        BY <2>1, <2>4 DEF dbipc_close, dbipc_shutdown, TypeOK, mutexVars, hashVars
  <2>5. CASE dbipc_lock(p)
    <3>1. depth < MaxDepth
          BY <2>5 DEF dbipc_lock, Running, LockInv, ThreadInv, Depth, TypeOK
    <3>2. owner' \in Procs \cup {None} /\ depth' \in 0..MaxDepth
          BY <2>5, <3>1 DEF dbipc_lock, TypeOK
    <3>3. QED
          BY <2>1, <2>5, <3>2 DEF dbipc_lock, TypeOK, hashVars
  <2>6. CASE dbipc_unlock(p)
    <3>1. owner' \in Procs \cup {None} /\ depth' \in 0..MaxDepth
          BY <2>6 DEF dbipc_unlock, LockInv, TypeOK, mutexVars, Procs
    <3>2. QED
          BY <2>1, <2>6, <3>1 DEF dbipc_unlock, TypeOK, hashVars
  <2>7. CASE HashEnter(p)
        BY <2>7 DEF HashEnter, TypeOK, ThreadStates, clientVars, streamVars, monVars, mutexVars, hashVars
  <2>8. CASE dbipc_getkey(p)
    <3>1. table[buf[p].key] \in Vals \cup {None}
          BY <2>8 DEF dbipc_getkey, InHash, Running, HashCmds, LockInv, ThreadInv, TypeOK
    <3>2. None \in Vals \cup {None} /\ 0 \in {0, -1} /\ -1 \in {0, -1}
          OBVIOUS
    <3>3. /\ owner' \in Procs \cup {None}
          /\ depth' \in 0..MaxDepth
          /\ table' \in [Keys -> Vals \cup {None}]
          /\ open' \in BOOLEAN
          /\ run' \in BOOLEAN
          BY <2>8 DEF dbipc_getkey, TypeOK, mutexVars, hashVars
    <3>4. Answer(p, 0, table[buf[p].key]) \/ Answer(p, -1, None)
          BY <2>8 DEF dbipc_getkey
    <3>5. QED
          BY <2>1, <3>1, <3>2, <3>3, <3>4
  <2>9. CASE dbipc_addkey(p)
    <3>1. buf[p].val \in Vals \cup {None}
          BY DEF TypeOK, Request
    <3>2. table' \in [Keys -> Vals \cup {None}]
          BY <2>9, <3>1 DEF dbipc_addkey, TypeOK
    <3>3. QED
          BY <2>1, <2>9, <3>2 DEF dbipc_addkey, TypeOK, mutexVars
  <2>10. CASE dbipc_delkey(p)
        BY <2>1, <2>10 DEF dbipc_delkey, TypeOK, mutexVars
  <2>11. CASE dbipc_keyexists(p)
        BY <2>1, <2>11 DEF dbipc_keyexists, TypeOK, mutexVars, hashVars
  <2>12. CASE HashFreed(p)
        BY <1>0, <2>1, <2>12 DEF HashFreed, TypeOK, clientVars, monVars, mutexVars, hashVars
  <2>13. CASE dbipc_send_response(p)
    <3>1. rs' \in [Procs -> Response] /\ cEnd' \in [Procs -> Ends]
          BY <2>13, <1>w DEF dbipc_send_response, TypeOK
    <3>2. sEnd' \in [Procs -> Ends] /\ thr' \in [Procs -> ThreadStates]
          BY <2>13, <1>0, <1>s DEF dbipc_send_response, TypeOK, ThreadStates
    <3>3. buf' \in [Procs -> Request] /\ ans' \in [Procs -> Response]
          BY <2>13, <1>m DEF dbipc_send_response, TypeOK
    <3>4. QED
          BY <2>13, <3>1, <3>2, <3>3 DEF dbipc_send_response, TypeOK, clientVars, monVars, mutexVars, hashVars
  <2>14. CASE stop_db_srv(p)
        BY <2>14, <1>0 DEF stop_db_srv, TypeOK, ThreadStates, clientVars, monVars, mutexVars
  <2>15. QED
        BY <1>4, <2>2, <2>3, <2>4, <2>5, <2>6, <2>7, <2>8, <2>9, <2>10, <2>11, <2>12, <2>13, <2>14 DEF Thread
<1>5. QED
      BY <1>1, <1>2, <1>3, <1>4 DEF Next

-----------------------------------------------------------------------------
(***************************************************************************)
(* The lock invariant.                                                      *)
(***************************************************************************)

\* A step that touches nothing of p, nor its share of the mutex, keeps what the
\* invariant says of p.
LEMMA Frame ==
    ASSUME NEW p \in Procs, ClientInv(p), ThreadInv(p),
           cl'[p] = cl[p], held'[p] = held[p], pend'[p] = pend[p], rq'[p] = rq[p],
           cq'[p] = cq[p], rs'[p] = rs[p], thr'[p] = thr[p], buf'[p] = buf[p],
           ans'[p] = ans[p], owner' = p <=> owner = p, owner = p => depth' = depth
    PROVE  ClientInv(p)' /\ ThreadInv(p)'
<1>1. Depth(p)' = Depth(p)
      BY DEF Depth
<1>2. Parked(p)' = Parked(p)
      BY DEF Parked
<1>3. InFlight(p) => InFlight(p)'
      BY <1>1 DEF InFlight, LockDelta, NoReq, NoRes
<1>4. ClientInv(p)'
      BY <1>1, <1>2, <1>3 DEF ClientInv, NoReq, NoRes
<1>5. ThreadInv(p)'
      BY <1>1, <1>2 DEF ThreadInv, NoReq, HashCmds
<1>6. QED
      BY <1>4, <1>5

\* A step that accepts nothing keeps AcceptInv when it does not reset p.
LEMMA AcceptFrame ==
    ASSUME NEW p \in Procs, AcceptInv(p), UNCHANGED <<backlog, conn>>,
           thr[p] = "none" => thr'[p] = "none",
           cl[p] # "off" => cl'[p] # "off"
    PROVE  AcceptInv(p)'
BY DEF AcceptInv

\* A step of process p that leaves the listen queue alone keeps LockInv when it
\* keeps what LockInv says of p and the mutex.
LEMMA OneProcess ==
    ASSUME TypeOK, LockInv, NEW p \in Procs,
           \A q \in Procs \ {p} :
               /\ cl'[q] = cl[q] /\ held'[q] = held[q] /\ pend'[q] = pend[q]
               /\ rq'[q] = rq[q] /\ cq'[q] = cq[q] /\ rs'[q] = rs[q]
               /\ thr'[q] = thr[q] /\ buf'[q] = buf[q] /\ ans'[q] = ans[q]
               /\ owner' = q <=> owner = q
               /\ owner = q => depth' = depth,
           \A q \in Procs : AcceptInv(q)',
           owner' = None <=> depth' = 0,
           ClientInv(p)', ThreadInv(p)',
           p \in Stoppers => StopperInv(p)'
    PROVE  LockInv'
<1>1. \A q \in Procs \ {p} : ClientInv(q)' /\ ThreadInv(q)'
  <2>1. SUFFICES ASSUME NEW q \in Procs \ {p} PROVE ClientInv(q)' /\ ThreadInv(q)'
        OBVIOUS
  <2>2. ClientInv(q) /\ ThreadInv(q)
        BY DEF LockInv
  <2>3. QED
        BY <2>2, Frame
<1>2. \A q \in Stoppers : StopperInv(q)'
      BY DEF LockInv, StopperInv, Procs
<1>3. QED
      BY <1>1, <1>2 DEF LockInv

\* Sending request r from "idle" keeps LockInv, when r was allowed: a hash
\* request or an UNLOCK needs the lock, a LOCK needs room, a CLOSE or SHUTDOWN
\* needs the lock given back.
LEMMA SendStep ==
    ASSUME TypeOK, TypeOK', LockInv, NEW p \in Procs, NEW r \in Request,
           db_cl_send_req(p, r), r # NoReq,
           r.cmd \in HashCmds => held[p] > 0 /\ r.key \in Keys,
           r.cmd = "LOCK" => held[p] < MaxDepth,
           r.cmd \in {"CLOSE", "SHUTDOWN"} => held[p] = 0,
           p \in Stoppers => r.cmd = "SHUTDOWN"
    PROVE  LockInv'
<1>1. /\ cl[p] = "idle" /\ ClientInv(p) /\ ThreadInv(p)
      /\ owner = None <=> depth = 0
      /\ p \in Stoppers => StopperInv(p)
      BY DEF db_cl_send_req, LockInv
<1>2. /\ UNCHANGED <<owner, depth, held, cq, rs, thr, buf, ans, backlog, conn>>
      /\ \A q \in Procs \ {p} : cl'[q] = cl[q] /\ pend'[q] = pend[q] /\ rq'[q] = rq[q]
      /\ \/ cl'[p] = "failed" /\ pend'[p] = pend[p] /\ rq'[p] = rq[p]
         \/ cl'[p] = "wait" /\ pend'[p] = r /\ rq'[p] \in {r, rq[p]}
      BY DEF db_cl_send_req, TypeOK, monVars, mutexVars
<1>3. Depth(p) = held[p] /\ Parked(p) /\ rq[p] = NoReq /\ rs[p] = NoRes /\ ~cq[p]
      BY <1>1 DEF ClientInv
<1>4. ClientInv(p)'
      BY <1>1, <1>2, <1>3 DEF ClientInv, InFlight, Parked, Depth
<1>5. ThreadInv(p)'
  <2>1. rq'[p] = NoReq \/ (rq'[p] = r /\ Depth(p) = held[p])
        BY <1>2, <1>3
  <2>2. held[p] > 0 => owner = p
        BY <1>3 DEF Depth, TypeOK
  <2>3. NoReq.cmd = "NONE"
        BY DEF NoReq, Req
  <2>4. QED
        BY <1>1, <1>2, <1>3, <2>1, <2>2, <2>3 DEF ThreadInv, Parked, Depth, HashCmds
<1>6. \A q \in Procs : AcceptInv(q)'
      BY <1>1, <1>2, AcceptFrame DEF LockInv
<1>7. p \in Stoppers => StopperInv(p)'
      BY <1>1, <1>2 DEF StopperInv
<1>8. QED
      BY <1>1, <1>2, <1>4, <1>5, <1>6, <1>7, OneProcess

\* The other steps of a client keep LockInv.
LEMMA ClientStep ==
    ASSUME TypeOK, TypeOK', LockInv, NEW p \in Procs,
           InCommand(p) \/ Command(p) \/ Fault(p)
    PROVE  LockInv'
<1> DEFINE Others == \A q \in Procs \ {p} :
               /\ cl'[q] = cl[q] /\ held'[q] = held[q] /\ pend'[q] = pend[q]
               /\ rq'[q] = rq[q] /\ cq'[q] = cq[q] /\ rs'[q] = rs[q]
               /\ thr'[q] = thr[q] /\ buf'[q] = buf[q] /\ ans'[q] = ans[q]
<1>1. /\ ClientInv(p) /\ ThreadInv(p)
      /\ owner = None <=> depth = 0
      /\ p \in Stoppers => StopperInv(p)
      BY DEF LockInv
<1>2. ASSUME Others, UNCHANGED <<owner, depth>>, \A q \in Procs : AcceptInv(q)',
             ClientInv(p)', ThreadInv(p)', p \in Stoppers => StopperInv(p)'
      PROVE  LockInv'
      BY <1>1, <1>2, OneProcess
<1>3. CASE db_cl_lock(p)
  <2>1. Req("LOCK") \in Request /\ Req("LOCK") # NoReq /\ Req("LOCK").cmd = "LOCK"
        BY MessageType, RequestNotEmpty DEF Cmds
  <2>2. QED
        BY <1>3, <2>1, SendStep, DbAssumption DEF db_cl_lock, HashCmds
<1>4. CASE db_cl_unlock(p)
  <2>1. Req("UNLOCK") \in Request /\ Req("UNLOCK") # NoReq /\ Req("UNLOCK").cmd = "UNLOCK"
        BY MessageType, RequestNotEmpty DEF Cmds
  <2>2. QED
        BY <1>4, <2>1, SendStep, DbAssumption DEF db_cl_unlock, HashCmds
<1>5. ASSUME NEW r \in HashRequest, db_cl_data(p, r) PROVE LockInv'
  <2>1. r \in Request /\ r # NoReq /\ r.cmd \in HashCmds /\ r.key \in Keys
        BY RequestNotEmpty DEF HashRequest, Request
  <2>2. QED
        BY <1>5, <2>1, SendStep, DbAssumption DEF db_cl_data, HashCmds
<1>6. CASE db_cl_close(p)
  <2>1. Req("CLOSE") \in Request /\ Req("CLOSE") # NoReq /\ Req("CLOSE").cmd = "CLOSE"
        BY MessageType, RequestNotEmpty DEF Cmds
  <2>2. QED
        BY <1>6, <2>1, SendStep, DbAssumption DEF db_cl_close, HashCmds
<1>7. CASE db_cl_shutdown(p)
  <2>1. Req("SHUTDOWN") \in Request /\ Req("SHUTDOWN") # NoReq /\ Req("SHUTDOWN").cmd = "SHUTDOWN"
        BY MessageType, RequestNotEmpty DEF Cmds
  <2>2. QED
        BY <1>1, <1>7, <2>1, SendStep DEF db_cl_shutdown, HashCmds, StopperInv
<1>8. CASE db_cl_open(p)
  <2>1. /\ cl[p] = "off" /\ cl'[p] = "idle" /\ backlog' = backlog \cup {<<p, "session">>}
        /\ UNCHANGED <<held, pend, rq, cq, rs, thr, buf, ans, owner, depth, conn>>
        /\ \A q \in Procs \ {p} : cl'[q] = cl[q]
        BY <1>8 DEF db_cl_open, TypeOK, streamVars, mutexVars
  <2>2. ClientInv(p)' /\ ThreadInv(p)'
        BY <1>1, <2>1 DEF ClientInv, ThreadInv, Parked, Depth
  <2>3. ASSUME NEW q \in Procs PROVE AcceptInv(q)'
        BY <1>1, <2>1, <2>3 DEF LockInv, AcceptInv, ClientInv
  <2>4. QED
        BY <1>1, <1>2, <2>1, <2>2, <2>3 DEF StopperInv
<1>9. CASE db_cl_open_fails(p)
  <2>1. /\ cl[p] = "off" /\ cl'[p] = "done"
        /\ UNCHANGED <<held, pend, rq, cq, rs, thr, buf, ans, owner, depth, backlog, conn>>
        /\ \A q \in Procs \ {p} : cl'[q] = cl[q]
        BY <1>9 DEF db_cl_open_fails, TypeOK, streamVars, mutexVars, monVars
  <2>2. ClientInv(p)' /\ ThreadInv(p)'
        BY <1>1, <2>1 DEF ClientInv, ThreadInv, Parked, Depth
  <2>3. \A q \in Procs : AcceptInv(q)'
        BY <2>1, AcceptFrame DEF LockInv
  <2>4. QED
        BY <1>1, <1>2, <2>1, <2>2, <2>3 DEF StopperInv
<1>10. CASE db_cl_read_res(p)
  <2>1. /\ cl[p] = "wait" /\ rs[p] # NoRes /\ rs'[p] = NoRes
        /\ held'[p] = held[p] + LockDelta(pend[p].cmd, rs[p].result)
        /\ cl'[p] = IF pend[p].cmd = "CLOSE" THEN "done"
                    ELSE IF pend[p].cmd = "SHUTDOWN" THEN "poke" ELSE "idle"
        /\ UNCHANGED <<rq, cq, thr, buf, ans, owner, depth, backlog, conn>>
        /\ Others
        BY <1>10 DEF db_cl_read_res, TypeOK, monVars, mutexVars
  <2>2. /\ thr[p] \in {"read", "exit", "stop"} /\ rq[p] = NoReq /\ ~cq[p]
        /\ thr[p] = "stop" => pend[p].cmd = "SHUTDOWN"
        /\ Depth(p) = held'[p]
        /\ pend[p].cmd \in {"CLOSE", "SHUTDOWN"} => held[p] = 0 /\ held'[p] = 0
        BY <1>1, <2>1 DEF ClientInv, InFlight, LockDelta
  <2>3. Depth(p) = 0 => owner # p
        BY <1>1, DbAssumption DEF Depth, Procs
  <2>4. ClientInv(p)'
        BY <2>1, <2>2, <2>3 DEF ClientInv, Parked, Depth
  <2>5. ThreadInv(p)'
        BY <1>1, <2>1 DEF ThreadInv, Parked, Depth
  <2>6. \A q \in Procs : AcceptInv(q)'
        BY <2>1, AcceptFrame DEF LockInv
  <2>7. p \in Stoppers => StopperInv(p)'
        BY <1>1, <2>1, <2>2 DEF StopperInv
  <2>8. QED
        BY <1>2, <2>1, <2>4, <2>5, <2>6, <2>7
<1>11. CASE db_cl_read_res_fails(p) \/ db_cl_broken(p) \/ db_cl_poke(p) \/ Killed(p)
            \/ cleanup_exit(p) \/ cleanup(p)
  <2>1. /\ cl[p] # "off" /\ UNCHANGED <<held, rq, thr, buf, ans, owner, depth, conn>>
        /\ Others
        /\ \/ cl'[p] \in {"failed", "dead", "slain", "closing"}
           \/ cl[p] = "poke" /\ cl'[p] = "done" /\ cq' = cq
    <3>1. cl[p] # "off" /\ UNCHANGED <<held, rq, thr, buf, ans, owner, depth, conn>>
          BY <1>11 DEF db_cl_read_res_fails, db_cl_broken, db_cl_poke, Killed, cleanup_exit, cleanup,
             streamVars, monVars, mutexVars
    <3>2. Others
      <4>1. CASE db_cl_read_res_fails(p) \/ db_cl_broken(p) \/ db_cl_poke(p)
            BY <4>1 DEF db_cl_read_res_fails, db_cl_broken, db_cl_poke, TypeOK, streamVars
      <4>2. CASE Killed(p)
            BY <4>2 DEF Killed, TypeOK
      <4>3. CASE cleanup_exit(p)
            BY <4>3 DEF cleanup_exit, TypeOK
      <4>4. CASE cleanup(p)
            BY <4>4 DEF cleanup, TypeOK
      <4>5. QED
            BY <1>11, <4>1, <4>2, <4>3, <4>4
    <3>3. \/ cl'[p] \in {"failed", "dead", "slain", "closing"}
          \/ cl[p] = "poke" /\ cl'[p] = "done" /\ cq' = cq
          BY <1>11 DEF db_cl_read_res_fails, db_cl_broken, db_cl_poke, Killed, cleanup_exit, cleanup,
             TypeOK, streamVars
    <3>4. QED
          BY <3>1, <3>2, <3>3
  <2>2. backlog' = backlog \/ backlog' = backlog \cup {<<p, "poke">>}
        BY <1>11 DEF db_cl_read_res_fails, db_cl_broken, db_cl_poke, Killed, cleanup_exit, cleanup, monVars
  <2>3. ClientInv(p)'
        BY <1>1, <2>1 DEF ClientInv, Parked
  <2>4. ThreadInv(p)'
        BY <1>1, <2>1 DEF ThreadInv, Parked, Depth
  <2>5. ASSUME NEW q \in Procs PROVE AcceptInv(q)'
        BY <2>1, <2>2 DEF LockInv, AcceptInv
  <2>6. QED
        BY <1>1, <1>2, <2>1, <2>3, <2>4, <2>5 DEF StopperInv
<1>12. QED
       BY <1>3, <1>4, <1>5, <1>6, <1>7, <1>8, <1>9, <1>10, <1>11 DEF InCommand, Command, Fault

\* The steps of db_server_monitor keep LockInv.
LEMMA MonitorStep ==
    ASSUME TypeOK, TypeOK', LockInv, Monitor
    PROVE  LockInv'
<1>1. UNCHANGED <<cl, held, pend, rq, cq, rs, buf, ans, owner, depth>>
      BY DEF Monitor, MonLoop, MonAccept, MonSpawn, MonBreak, MonExit, clientVars, streamVars, mutexVars
<1>2. ASSUME UNCHANGED thr, \A q \in Procs : AcceptInv(q)' PROVE LockInv'
  <2>1. ASSUME NEW q \in Procs PROVE ClientInv(q)' /\ ThreadInv(q)'
    <3>1. ClientInv(q) /\ ThreadInv(q)
          BY DEF LockInv
    <3>2. QED
          BY <1>1, <1>2, <3>1, Frame
  <2>2. QED
        BY <1>1, <1>2, <2>1 DEF LockInv, StopperInv
<1>3. CASE MonLoop \/ MonBreak \/ MonExit
  <2>1. UNCHANGED <<thr, backlog, conn>>
        BY <1>3 DEF MonLoop, MonBreak, MonExit, monVars
  <2>2. QED
        BY <1>1, <1>2, <2>1, AcceptFrame DEF LockInv
<1>4. CASE MonAccept
  <2>1. UNCHANGED thr /\ conn' \in backlog /\ backlog' = backlog \ {conn'}
        BY <1>4 DEF MonAccept
  <2>2. ASSUME NEW q \in Procs PROVE AcceptInv(q)'
        BY <1>1, <2>1 DEF LockInv, AcceptInv
  <2>3. QED
        BY <1>2, <2>1, <2>2
<1>5. CASE MonSpawn
  <2>0. PICK p \in Procs : conn = <<p, "session">>
        BY <1>5 DEF MonSpawn, TypeOK, NoConn
  <2>1. conn' = NoConn /\ UNCHANGED backlog /\ conn[1] = p
        BY <1>5, <2>0 DEF MonSpawn
  <2>2. thr[p] = "none" /\ cl[p] # "off" /\ <<p, "session">> \notin backlog
        BY <2>0 DEF LockInv, AcceptInv
  <2>3. thr'[p] \in {"read", "exit"} /\ \A q \in Procs \ {p} : thr'[q] = thr[q]
        BY <1>5, <2>1 DEF MonSpawn, TypeOK
  <2>4. ClientInv(p) /\ ThreadInv(p)
        BY DEF LockInv
  <2>5. ClientInv(p)' /\ ThreadInv(p)'
    <3>1. NoReq.cmd = "NONE"
          BY DEF NoReq, Req
    <3>2. InFlight(p) => InFlight(p)'
          BY <1>1, <2>2, <2>3 DEF InFlight, Depth, NoReq, NoRes, LockDelta
    <3>3. QED
          BY <1>1, <2>2, <2>3, <2>4, <3>1, <3>2 DEF ClientInv, ThreadInv, Parked, Depth, HashCmds
  <2>6. ASSUME NEW q \in Procs PROVE AcceptInv(q)'
        BY <1>1, <2>0, <2>1, <2>2, <2>3 DEF LockInv, AcceptInv, NoConn
  <2>7. owner' = None <=> depth' = 0
        BY <1>1 DEF LockInv
  <2>8. p \in Stoppers => StopperInv(p)'
        BY <1>1 DEF LockInv, StopperInv
  <2>9. QED
        BY <1>1, <2>1, <2>3, <2>5, <2>6, <2>7, <2>8, OneProcess
<1>6. QED
      BY <1>3, <1>4, <1>5 DEF Monitor

\* The steps of the thread of a connection keep LockInv.
LEMMA ThreadStep ==
    ASSUME TypeOK, TypeOK', LockInv, NEW p \in Procs, Thread(p)
    PROVE  LockInv'
<1>1. /\ ClientInv(p) /\ ThreadInv(p)
      /\ owner = None <=> depth = 0
      /\ p # None
      BY DbAssumption DEF LockInv, Procs
<1>2. /\ UNCHANGED <<cl, held, pend, backlog, conn>>
      /\ thr[p] # "none"
      BY DEF Thread, dbipc_read_request, dbipc_read_request_fails, dbipc_close, dbipc_lock,
             dbipc_unlock, HashEnter, dbipc_getkey, dbipc_addkey, dbipc_delkey, dbipc_keyexists,
             HashFreed, dbipc_shutdown, dbipc_send_response, stop_db_srv, Answer, InHash, Running,
             clientVars, monVars
<1>3. ASSUME \A q \in Procs \ {p} :
               /\ rq'[q] = rq[q] /\ cq'[q] = cq[q] /\ rs'[q] = rs[q]
               /\ thr'[q] = thr[q] /\ buf'[q] = buf[q] /\ ans'[q] = ans[q]
               /\ owner' = q <=> owner = q
               /\ owner = q => depth' = depth,
             owner' = None <=> depth' = 0,
             ClientInv(p)', ThreadInv(p)'
      PROVE  LockInv'
  <2>1. \A q \in Procs : AcceptInv(q)'
        BY <1>2, <1>3, AcceptFrame DEF LockInv
  <2>2. p \in Stoppers => StopperInv(p)'
        BY <1>2 DEF LockInv, StopperInv
  <2>3. QED
        BY <1>2, <1>3, <2>1, <2>2, OneProcess
<1>4. NoReq.cmd = "NONE" /\ Req("CLOSE").cmd = "CLOSE"
      BY RequestNotEmpty
<1>5. CASE dbipc_read_request(p)
  <2>1. /\ thr[p] = "read" /\ thr'[p] = "exec" /\ rq'[p] = NoReq
        /\ \/ rq[p] # NoReq /\ buf'[p] = rq[p] /\ cq'[p] = cq[p]
           \/ rq[p] = NoReq /\ cq[p] /\ buf'[p] = Req("CLOSE") /\ ~cq'[p]
        /\ UNCHANGED <<rs, ans, owner, depth>>
    <3>1. thr[p] = "read" /\ UNCHANGED <<rs, ans, owner, depth>> /\ (rq[p] # NoReq \/ cq[p])
          BY <1>5 DEF dbipc_read_request, Running, mutexVars
    <3>2. thr'[p] = "exec" /\ rq'[p] = NoReq
          BY <1>5 DEF dbipc_read_request, TypeOK
    <3>3. /\ buf'[p] = IF rq[p] # NoReq THEN rq[p] ELSE Req("CLOSE")
          /\ cq'[p] = (cq[p] /\ rq[p] # NoReq)
          BY <1>5 DEF dbipc_read_request, TypeOK
    <3>4. cq[p] \in BOOLEAN
          BY DEF TypeOK
    <3>5. QED
          BY <3>1, <3>2, <3>3, <3>4
  <2>2. \A q \in Procs \ {p} : rq'[q] = rq[q] /\ cq'[q] = cq[q] /\ thr'[q] = thr[q] /\ buf'[q] = buf[q]
        BY <1>5 DEF dbipc_read_request, TypeOK
  <2>3. ClientInv(p)'
        BY <1>1, <1>2, <2>1 DEF ClientInv, InFlight, Parked, Depth
  <2>4. ThreadInv(p)'
        BY <1>1, <1>4, <2>1 DEF ThreadInv, Parked, Depth, HashCmds
  <2>5. QED
        BY <1>1, <1>3, <2>1, <2>2, <2>3, <2>4
<1>6. CASE dbipc_read_request_fails(p)
  <2>1. /\ thr[p] = "read" /\ thr'[p] = "exit"
        /\ UNCHANGED <<rq, cq, rs, buf, ans, owner, depth>>
        /\ \A q \in Procs \ {p} : thr'[q] = thr[q]
        BY <1>6 DEF dbipc_read_request_fails, Running, TypeOK, mutexVars
  <2>2. ClientInv(p)'
        BY <1>1, <1>2, <2>1 DEF ClientInv, InFlight, Parked, Depth
  <2>3. ThreadInv(p)'
        BY <1>1, <2>1 DEF ThreadInv, Parked, Depth
  <2>4. QED
        BY <1>1, <1>3, <2>1, <2>2, <2>3
<1>7. ASSUME NEW n \in {0, -1}, NEW v \in Vals \cup {None}, Answer(p, n, v),
             thr[p] \in {"exec", "hash"},
             \A q \in Procs \ {p} : (owner' = q <=> owner = q) /\ (owner = q => depth' = depth),
             owner' = None <=> depth' = 0,
             Depth(p)' = Depth(p) + LockDelta(buf[p].cmd, n)
      PROVE  LockInv'
  <2>1. /\ thr'[p] = "reply" /\ ans'[p].cmd = buf[p].cmd /\ ans'[p].result = n
        /\ UNCHANGED <<rq, cq, rs, buf>>
        /\ \A q \in Procs \ {p} : thr'[q] = thr[q] /\ ans'[q] = ans[q]
        BY <1>7 DEF Answer, TypeOK, Res, streamVars
  <2>2. rq[p] = NoReq
        BY <1>1, <1>7 DEF ThreadInv, Parked
  <2>3. cl[p] = "wait" => InFlight(p)'
    <3>1. SUFFICES ASSUME cl[p] = "wait" PROVE InFlight(p)'
          OBVIOUS
    <3>2. buf[p] = pend[p] /\ Depth(p) = held[p] /\ rs[p] = NoRes
          BY <1>1, <1>7, <3>1 DEF ClientInv, InFlight
    <3>3. QED
          BY <1>2, <1>7, <2>1, <2>2, <3>2 DEF InFlight
  <2>4. ClientInv(p)'
        BY <1>1, <1>2, <1>7, <2>1, <2>3 DEF ClientInv, Parked
  <2>5. ThreadInv(p)'
        BY <1>1, <1>4, <2>1, <2>2 DEF ThreadInv, Parked, HashCmds
  <2>6. QED
        BY <1>3, <1>7, <2>1, <2>4, <2>5
<1>8. CASE dbipc_lock(p)
  <2>1. /\ thr[p] = "exec" /\ buf[p].cmd = "LOCK" /\ owner \in {None, p}
        /\ owner' = p /\ depth' = depth + 1 /\ Answer(p, 0, None)
        BY <1>8 DEF dbipc_lock, Running
  <2>2. Depth(p)' = Depth(p) + LockDelta(buf[p].cmd, 0)
        BY <1>1, <2>1 DEF Depth, LockDelta
  <2>3. owner' = None <=> depth' = 0
        BY <1>1, <2>1 DEF TypeOK
  <2>4. \A q \in Procs \ {p} : (owner' = q <=> owner = q) /\ (owner = q => depth' = depth)
        BY <2>1, DbAssumption DEF Procs
  <2>5. QED
        BY <1>7, <2>1, <2>2, <2>3, <2>4
<1>9. CASE dbipc_unlock(p)
  <2>1. thr[p] = "exec" /\ buf[p].cmd = "UNLOCK"
        BY <1>9 DEF dbipc_unlock, Running
  <2>2. CASE owner = p
    <3>1. /\ depth' = depth - 1 /\ owner' = IF depth = 1 THEN None ELSE p
          /\ Answer(p, 0, None)
          BY <1>9, <2>2 DEF dbipc_unlock
    <3>2. Depth(p)' = Depth(p) + LockDelta(buf[p].cmd, 0)
          BY <1>1, <2>1, <2>2, <3>1 DEF Depth, LockDelta, TypeOK
    <3>3. owner' = None <=> depth' = 0
          BY <1>1, <2>2, <3>1 DEF TypeOK
    <3>4. \A q \in Procs \ {p} : (owner' = q <=> owner = q) /\ (owner = q => depth' = depth)
          BY <2>2, <3>1, DbAssumption DEF Procs
    <3>5. QED
          BY <1>7, <2>1, <3>1, <3>2, <3>3, <3>4
  <2>3. CASE owner # p
    <3>1. UNCHANGED <<owner, depth>> /\ Answer(p, -1, None)
          BY <1>9, <2>3 DEF dbipc_unlock, mutexVars
    <3>2. Depth(p)' = Depth(p) + LockDelta(buf[p].cmd, -1)
          BY <2>3, <3>1 DEF Depth, LockDelta
    <3>3. QED
          BY <1>1, <1>7, <2>1, <3>1, <3>2
  <2>4. QED
        BY <2>2, <2>3
<1>10. CASE dbipc_close(p) \/ dbipc_shutdown(p) \/ dbipc_getkey(p) \/ dbipc_addkey(p)
            \/ dbipc_delkey(p) \/ dbipc_keyexists(p)
            \/ \E n \in {0, -1}, v \in Vals \cup {None} : HashFreed(p) /\ Answer(p, n, v)
  <2>1. UNCHANGED <<owner, depth>> /\ thr[p] \in {"exec", "hash"}
        BY <1>10 DEF dbipc_close, dbipc_shutdown, dbipc_getkey, dbipc_addkey, dbipc_delkey,
             dbipc_keyexists, HashFreed, InHash, Running, mutexVars
  <2>2. buf[p].cmd \notin {"LOCK", "UNLOCK"}
        BY <1>1, <1>10 DEF dbipc_close, dbipc_shutdown, dbipc_getkey, dbipc_addkey, dbipc_delkey,
             dbipc_keyexists, HashFreed, InHash, Running, ThreadInv, HashCmds
  <2>3. \E n \in {0, -1}, v \in Vals \cup {None} : Answer(p, n, v)
    <3>1. dbipc_getkey(p) => table[buf[p].key] \in Vals \cup {None}
          BY <1>1 DEF dbipc_getkey, InHash, HashCmds, ThreadInv, TypeOK
    <3>2. QED
          BY <1>10, <3>1 DEF dbipc_close, dbipc_shutdown, dbipc_getkey, dbipc_addkey, dbipc_delkey,
             dbipc_keyexists, HashFreed
  <2>4. \A n \in {0, -1} : Depth(p)' = Depth(p) + LockDelta(buf[p].cmd, n)
        BY <2>1, <2>2 DEF Depth, LockDelta, TypeOK
  <2>5. QED
        BY <1>1, <1>7, <2>1, <2>3, <2>4
<1>11. CASE HashEnter(p)
  <2>1. /\ thr[p] = "exec" /\ thr'[p] = "hash" /\ buf[p].cmd \in HashCmds
        /\ UNCHANGED <<rq, cq, rs, buf, ans, owner, depth>>
        /\ \A q \in Procs \ {p} : thr'[q] = thr[q]
        BY <1>11 DEF HashEnter, Running, TypeOK, mutexVars, streamVars
  <2>2. ClientInv(p)'
        BY <1>1, <1>2, <2>1 DEF ClientInv, InFlight, Parked, Depth
  <2>3. ThreadInv(p)'
        BY <1>1, <2>1 DEF ThreadInv, Parked, Depth
  <2>4. QED
        BY <1>1, <1>3, <2>1, <2>2, <2>3
<1>12. CASE dbipc_send_response(p)
  <2>1. UNCHANGED <<rq, cq, owner, depth>> /\ thr[p] = "reply"
        BY <1>12 DEF dbipc_send_response, Running, mutexVars
  <2>2. \A q \in Procs \ {p} : rs'[q] = rs[q] /\ thr'[q] = thr[q] /\ buf'[q] = buf[q] /\ ans'[q] = ans[q]
        BY <1>12 DEF dbipc_send_response, TypeOK
  <2>3. \/ UNCHANGED <<thr, buf, ans, rs>>
        \/ /\ rs'[p] \in {ans[p], rs[p]}
           /\ thr'[p] \in {"exit", "stop", "read"}
           /\ thr'[p] = "stop" => buf[p].cmd = "SHUTDOWN"
           /\ buf'[p] = NoReq
        BY <1>12 DEF dbipc_send_response, TypeOK
  <2>4. rq[p] = NoReq
        BY <1>1, <2>1 DEF ThreadInv, Parked
  <2>5. cl[p] = "wait" => InFlight(p)'
        BY <1>1, <1>2, <2>1, <2>3, <2>4 DEF ClientInv, InFlight, Depth
  <2>6. ClientInv(p)'
        BY <1>1, <1>2, <2>1, <2>3, <2>4, <2>5 DEF ClientInv, Parked, Depth
  <2>7. ThreadInv(p)'
        BY <1>1, <1>4, <2>1, <2>3, <2>4 DEF ThreadInv, Parked, Depth, HashCmds
  <2>8. QED
        BY <1>1, <1>3, <2>1, <2>2, <2>6, <2>7
<1>13. CASE stop_db_srv(p)
  <2>1. /\ UNCHANGED <<rq, cq, rs, buf, ans, owner, depth>>
        /\ thr[p] = "stop" /\ thr'[p] \in {"stop", "exit"}
        /\ \A q \in Procs \ {p} : thr'[q] = thr[q]
        BY <1>13 DEF stop_db_srv, Running, TypeOK, mutexVars
  <2>2. ClientInv(p)'
        BY <1>1, <1>2, <2>1 DEF ClientInv, InFlight, Parked, Depth
  <2>3. ThreadInv(p)'
        BY <1>1, <2>1 DEF ThreadInv, Parked, Depth
  <2>4. QED
        BY <1>1, <1>3, <2>1, <2>2, <2>3
<1>14. CASE HashFreed(p) /\ UNCHANGED <<clientVars, rq, cq, rs, cEnd, monVars, thr, buf, ans>>
  <2>1. UNCHANGED <<rq, cq, rs, thr, buf, ans, owner, depth>>
        BY <1>14 DEF HashFreed, mutexVars
  <2>2. ClientInv(p)' /\ ThreadInv(p)'
        BY <1>1, <1>2, <2>1, Frame DEF clientVars
  <2>3. QED
        BY <1>1, <1>3, <2>1, <2>2
<1>15. QED
  <2>1. HashFreed(p) =>
          \/ \E n \in {0, -1}, v \in Vals \cup {None} : HashFreed(p) /\ Answer(p, n, v)
          \/ HashFreed(p) /\ UNCHANGED <<clientVars, rq, cq, rs, cEnd, monVars, thr, buf, ans>>
        BY DEF HashFreed
  <2>2. QED
        BY <1>5, <1>6, <1>8, <1>9, <1>10, <1>11, <1>12, <1>13, <1>14, <2>1 DEF Thread

-----------------------------------------------------------------------------
(***************************************************************************)
(* SIGPIPE.  A client that has gone is written to at most once more, unless *)
(* it was killed inside its signal handler: at most one request of it is    *)
(* unanswered when it goes, and the first answer it does not read leaves    *)
(* nothing to answer.                                                       *)
(***************************************************************************)

\* The thread of p's connection can still read from it and write to it.
Served(p) == srv = "up" /\ thr[p] \notin {"exit", "stop"}

\* A request of p is unanswered.
Asked(p) == rq[p] # NoReq \/ thr[p] \in {"exec", "hash", "reply"}

\* How many answers p's connection still expects, against how often it may be
\* written to.
PipeInv(p) ==
    /\ cl[p] \in {"closing", "slain"} => p \in Clients
    /\ cl[p] \in {"off", "idle", "wait", "closing", "failed"} => cEnd[p] = "open"
    /\ Served(p) =>
          /\ sEnd[p] = "open"
          /\ cl[p] # "failed"
          /\ \/ cl[p] = "closing" /\ rs[p] # NoRes
             \/ cl[p] = "dead" /\ cEnd[p] = "fin"
             => ~(Asked(p) /\ cq[p])
          /\ cl[p] = "dead" /\ cEnd[p] = "finrst" => ~Asked(p) /\ ~cq[p]

\* A step that asks nothing more on a connection and leaves its client alone.
LEMMA PipeKept ==
    ASSUME NEW q \in Procs, PipeInv(q),
           cl'[q] = cl[q], rs'[q] = rs[q], cEnd'[q] = cEnd[q],
           Served(q)' => /\ Served(q) /\ sEnd'[q] = sEnd[q]
                         /\ Asked(q)' => Asked(q)
                         /\ cq'[q] => cq[q]
    PROVE  PipeInv(q)'
BY DEF PipeInv

\* The steps of a client keep PipeInv.
LEMMA ClientPipe ==
    ASSUME TypeOK, LockInv, \A q \in Procs : PipeInv(q),
           NEW p \in Procs, InCommand(p) \/ Command(p) \/ Fault(p)
    PROVE  \A q \in Procs : PipeInv(q)'
<1>1. UNCHANGED <<srv, thr>>
  <2>1. ASSUME NEW r, db_cl_send_req(p, r) PROVE UNCHANGED <<srv, thr>>
        BY <2>1 DEF db_cl_send_req
  <2>2. QED
        BY <2>1 DEF InCommand, Command, Fault, db_cl_read_res, db_cl_read_res_fails, db_cl_poke,
           cleanup_exit, db_cl_lock, db_cl_unlock, db_cl_data, db_cl_open, db_cl_open_fails,
           db_cl_close, db_cl_shutdown, db_cl_broken, cleanup, Killed
<1>2. ASSUME NEW q \in Procs \ {p},
             cl'[q] = cl[q], rq'[q] = rq[q], cq'[q] = cq[q], rs'[q] = rs[q],
             cEnd'[q] = cEnd[q], sEnd'[q] = sEnd[q]
      PROVE  PipeInv(q)'
      BY <1>1, <1>2, PipeKept DEF Served, Asked
<1>3. PipeInv(p) /\ ClientInv(p)
      BY DEF LockInv
<1>4. ASSUME NEW r, db_cl_send_req(p, r) PROVE \A q \in Procs : PipeInv(q)'
  <2>1. \A q \in Procs \ {p} : /\ cl'[q] = cl[q] /\ rq'[q] = rq[q] /\ cq'[q] = cq[q]
                               /\ rs'[q] = rs[q] /\ cEnd'[q] = cEnd[q] /\ sEnd'[q] = sEnd[q]
        BY <1>4 DEF db_cl_send_req, TypeOK
  <2>2. /\ cl[p] = "idle" /\ cl'[p] \in {"wait", "failed"} /\ cEnd'[p] = cEnd[p]
        /\ sEnd[p] = "open" => cl'[p] = "wait" /\ sEnd'[p] = "open"
        BY <1>4 DEF db_cl_send_req, TypeOK, AfterWrite
  <2>3. PipeInv(p)'
        BY <1>1, <1>3, <2>2 DEF PipeInv, Served
  <2>4. QED
        BY <1>2, <2>1, <2>3
<1>5. ASSUME db_cl_read_res(p) \/ db_cl_read_res_fails(p) \/ db_cl_poke(p) \/ cleanup_exit(p)
             \/ db_cl_open(p) \/ db_cl_open_fails(p) \/ db_cl_broken(p) \/ cleanup(p) \/ Killed(p)
      PROVE  \A q \in Procs : PipeInv(q)'
  <2>1. \A q \in Procs \ {p} : /\ cl'[q] = cl[q] /\ rq'[q] = rq[q] /\ cq'[q] = cq[q]
                               /\ rs'[q] = rs[q] /\ cEnd'[q] = cEnd[q] /\ sEnd'[q] = sEnd[q]
        BY <1>5 DEF db_cl_read_res, db_cl_read_res_fails, db_cl_poke, cleanup_exit, db_cl_open,
           db_cl_open_fails, db_cl_broken, cleanup, Killed, ClientClosed, TypeOK, streamVars
  <2>2. rq' = rq
        BY <1>5 DEF db_cl_read_res, db_cl_read_res_fails, db_cl_poke, cleanup_exit, db_cl_open,
           db_cl_open_fails, db_cl_broken, cleanup, Killed, streamVars
  <2>3. UNCHANGED <<srv, thr, rq>>
        BY <1>1, <2>2
  <2>4. ASSUME db_cl_read_res(p) PROVE PipeInv(p)'
    <3>1. /\ cl[p] = "wait" /\ cl'[p] \in {"done", "poke", "idle"} /\ sEnd'[p] = sEnd[p]
          /\ cl'[p] = "idle" => cEnd'[p] = cEnd[p]
          BY <2>4 DEF db_cl_read_res, TypeOK
    <3>2. QED
          BY <1>3, <2>3, <3>1 DEF PipeInv, Served, Asked
  <2>5. ASSUME db_cl_read_res_fails(p) \/ db_cl_poke(p) \/ db_cl_open(p) \/ db_cl_open_fails(p) PROVE PipeInv(p)'
    <3>1. /\ cEnd'[p] = cEnd[p] /\ sEnd'[p] = sEnd[p]
          /\ \/ cl[p] = "wait" /\ cl'[p] = "failed" /\ sEnd[p] = "rst"
             \/ cl'[p] = "done"
             \/ cl[p] = "off" /\ cl'[p] = "idle"
          BY <2>5 DEF db_cl_read_res_fails, db_cl_poke, db_cl_open, db_cl_open_fails, TypeOK, streamVars
    <3>2. QED
          BY <1>3, <2>3, <3>1 DEF PipeInv, Served, Asked
  <2>6. ASSUME db_cl_broken(p) PROVE PipeInv(p)'
    <3>1. cl[p] = "failed" /\ cl'[p] = "dead"
          BY <2>6 DEF db_cl_broken, TypeOK
    <3>2. QED
          BY <1>3, <2>3, <3>1 DEF PipeInv, Served, Asked
  <2>7. ASSUME cleanup(p) PROVE PipeInv(p)'
    <3>1. /\ p \in Clients /\ cl[p] \in {"idle", "wait"}
          /\ \/ sEnd[p] = "rst" /\ cl'[p] = "dead"
             \/ cl'[p] = "closing" /\ UNCHANGED <<cEnd, rs>> /\ sEnd'[p] = AfterWrite(sEnd[p])
          BY <2>7 DEF cleanup, TypeOK
    <3>2. rs[p] # NoRes => ~Asked(p)
          BY <1>3, <3>1 DEF ClientInv, InFlight, Asked
    <3>3. QED
          BY <1>3, <2>3, <3>1, <3>2 DEF PipeInv, Served, Asked, AfterWrite
  <2>8. ASSUME cleanup_exit(p) PROVE PipeInv(p)'
    <3>1. /\ cl[p] = "closing" /\ cl'[p] = "dead" /\ UNCHANGED <<cq, sEnd>>
          /\ rs[p] # NoRes \/ sEnd[p] = "rst"
          /\ cEnd'[p] = CloseEnd(cEnd[p], FALSE)
          BY <2>8 DEF cleanup_exit, TypeOK
    <3>2. cEnd'[p] = "fin"
          BY <1>3, <3>1 DEF PipeInv, CloseEnd
    <3>3. QED
          BY <1>3, <2>3, <3>1, <3>2 DEF PipeInv, Served, Asked
  <2>9. ASSUME Killed(p) PROVE PipeInv(p)'
    <3>1. /\ cl[p] \in {"idle", "wait", "closing", "poke"} /\ UNCHANGED <<cq, sEnd>>
          /\ cl'[p] = IF cl[p] = "closing" THEN "slain" ELSE "dead"
          /\ cEnd'[p] = CloseEnd(cEnd[p], rs[p] # NoRes)
          BY <2>9 DEF Killed, ClientClosed, TypeOK
    <3>2. CASE cl[p] = "closing"
          BY <1>3, <2>3, <3>1, <3>2 DEF PipeInv, Served, Asked
    <3>3. CASE cl[p] \in {"idle", "wait"}
      <4>1. ~cq[p] /\ cEnd'[p] # "finrst" /\ cl'[p] = "dead"
            BY <1>3, <3>1, <3>3 DEF ClientInv, PipeInv, CloseEnd
      <4>2. QED
            BY <1>3, <2>3, <3>1, <4>1 DEF PipeInv, Served, Asked
    <3>4. CASE cl[p] = "poke"
      <4>1. ~cq[p] /\ ~Asked(p) /\ cl'[p] = "dead"
            BY <1>3, <3>1, <3>4 DEF ClientInv, Parked, Asked
      <4>2. QED
            BY <1>3, <2>3, <3>1, <4>1 DEF PipeInv, Served, Asked
    <3>5. QED
          BY <3>1, <3>2, <3>3, <3>4
  <2>10. PipeInv(p)'
         BY <1>5, <2>4, <2>5, <2>6, <2>7, <2>8, <2>9
  <2>11. QED
         BY <1>2, <2>1, <2>10
<1>6. QED
      BY <1>4, <1>5 DEF InCommand, Command, Fault, db_cl_lock, db_cl_unlock, db_cl_data,
         db_cl_close, db_cl_shutdown

\* The steps of db_server_monitor keep PipeInv.
LEMMA MonitorPipe ==
    ASSUME TypeOK, LockInv, Monitor, NEW q \in Procs, PipeInv(q)
    PROVE  PipeInv(q)'
<1>1. UNCHANGED <<cl, rq, cq, rs, cEnd>>
      BY DEF Monitor, MonLoop, MonAccept, MonSpawn, MonBreak, MonExit, clientVars, streamVars
<1>2. Served(q)' => Served(q) /\ sEnd'[q] = sEnd[q] /\ (Asked(q)' => Asked(q))
  <2>1. CASE MonLoop \/ MonAccept \/ MonBreak
        BY <1>1, <2>1 DEF MonLoop, MonAccept, MonBreak, Served, Asked, streamVars
  <2>2. CASE MonExit
        BY <2>2 DEF MonExit, Served
  <2>3. CASE MonSpawn
    <3>1. PICK p \in Procs : conn = <<p, "session">>
          BY <2>3 DEF MonSpawn, TypeOK, NoConn
    <3>2. thr[p] = "none"
          BY <3>1 DEF LockInv, AcceptInv
    <3>3. conn[1] = p /\ srv' = srv
          BY <2>3, <3>1 DEF MonSpawn
    <3>4. \/ thr' = [thr EXCEPT ![p] = "read"] /\ sEnd' = sEnd
          \/ thr' = [thr EXCEPT ![p] = "exit"] /\ sEnd' = [sEnd EXCEPT ![p] = ServerClosed(p)]
          BY <2>3, <3>3 DEF MonSpawn
    <3>5. QED
          BY <1>1, <3>2, <3>3, <3>4 DEF Served, Asked, TypeOK
  <2>4. QED
        BY <2>1, <2>2, <2>3 DEF Monitor
<1>3. QED
      BY <1>1, <1>2, PipeKept

\* The steps of the thread of a connection keep PipeInv, and it gets a SIGPIPE
\* only from a client that was killed inside its handler.
LEMMA ThreadPipe ==
    ASSUME TypeOK, LockInv, \A q \in Procs : PipeInv(q), NEW p \in Procs, Thread(p)
    PROVE  /\ \A q \in Procs : PipeInv(q)'
           /\ srv' = "sigpipe" => p \in Clients /\ cl[p] = "slain"
<1>1. cl' = cl /\ srv = "up" /\ thr[p] # "none"
      BY DEF Thread, dbipc_read_request, dbipc_read_request_fails, dbipc_close, dbipc_lock,
             dbipc_unlock, HashEnter, dbipc_getkey, dbipc_addkey, dbipc_delkey, dbipc_keyexists,
             HashFreed, dbipc_shutdown, dbipc_send_response, stop_db_srv, Answer, InHash, Running,
             clientVars
<1>2. PipeInv(p) /\ ClientInv(p) /\ ThreadInv(p)
      BY DEF LockInv
<1>3. ASSUME srv' \notin {"up", "sigpipe"}, UNCHANGED <<rs, cEnd>>
      PROVE  /\ \A q \in Procs : PipeInv(q)'
             /\ srv' = "sigpipe" => p \in Clients /\ cl[p] = "slain"
      BY <1>1, <1>3, PipeKept DEF Served
<1>4. ASSUME srv' = srv,
             \A q \in Procs \ {p} : /\ rq'[q] = rq[q] /\ cq'[q] = cq[q] /\ rs'[q] = rs[q]
                                    /\ cEnd'[q] = cEnd[q] /\ sEnd'[q] = sEnd[q] /\ thr'[q] = thr[q],
             PipeInv(p)'
      PROVE  /\ \A q \in Procs : PipeInv(q)'
             /\ srv' = "sigpipe" => p \in Clients /\ cl[p] = "slain"
  <2>1. ASSUME NEW q \in Procs \ {p} PROVE PipeInv(q)'
    <3>1. Served(q)' => Served(q) /\ (Asked(q)' => Asked(q))
          BY <1>4 DEF Served, Asked
    <3>2. QED
          BY <1>1, <1>4, <3>1, PipeKept
  <2>2. QED
        BY <1>1, <1>4, <2>1
<1>5. CASE dbipc_read_request(p)
  <2>1. /\ thr[p] = "read" /\ thr'[p] = "exec" /\ UNCHANGED <<rs, cEnd, sEnd, srv>>
        /\ \/ rq[p] # NoReq /\ cq'[p] = cq[p]
           \/ rq[p] = NoReq /\ cq[p] /\ ~cq'[p]
        /\ \A q \in Procs \ {p} : rq'[q] = rq[q] /\ cq'[q] = cq[q] /\ thr'[q] = thr[q]
        BY <1>5 DEF dbipc_read_request, Running, TypeOK
  <2>2. PipeInv(p)'
        BY <1>1, <1>2, <2>1 DEF PipeInv, Served, Asked
  <2>3. QED
        BY <1>4, <2>1, <2>2
<1>6. CASE dbipc_read_request_fails(p)
  <2>1. /\ thr'[p] = "exit" /\ UNCHANGED <<rq, cq, rs, cEnd, srv>>
        /\ \A q \in Procs \ {p} : sEnd'[q] = sEnd[q] /\ thr'[q] = thr[q]
        BY <1>6 DEF dbipc_read_request_fails, TypeOK
  <2>2. PipeInv(p)'
        BY <1>1, <1>2, <2>1 DEF PipeInv, Served
  <2>3. QED
        BY <1>4, <2>1, <2>2
<1>7. ASSUME thr[p] \in {"exec", "hash"}, UNCHANGED <<streamVars, srv>>,
             \/ thr' = [thr EXCEPT ![p] = "reply"]
             \/ thr' = [thr EXCEPT ![p] = "hash"]
      PROVE  /\ \A q \in Procs : PipeInv(q)'
             /\ srv' = "sigpipe" => p \in Clients /\ cl[p] = "slain"
  <2>1. PipeInv(p)'
        BY <1>1, <1>2, <1>7 DEF PipeInv, Served, Asked, streamVars, TypeOK
  <2>2. QED
        BY <1>4, <1>7, <2>1 DEF streamVars, TypeOK
<1>8. CASE dbipc_close(p) \/ dbipc_lock(p) \/ dbipc_unlock(p) \/ HashEnter(p) \/ dbipc_getkey(p)
           \/ dbipc_addkey(p) \/ dbipc_delkey(p) \/ dbipc_keyexists(p) \/ dbipc_shutdown(p)
      BY <1>7, <1>8 DEF dbipc_close, dbipc_lock, dbipc_unlock, HashEnter, dbipc_getkey,
         dbipc_addkey, dbipc_delkey, dbipc_keyexists, dbipc_shutdown, InHash, Running, Answer
<1>9. CASE HashFreed(p)
  <2>1. CASE \E n \in {0, -1}, v \in Vals \cup {None} : Answer(p, n, v)
        BY <1>7, <1>9, <2>1 DEF HashFreed, Running, Answer
  <2>2. CASE srv' = "crashed" /\ UNCHANGED <<rs, cEnd>>
        BY <1>3, <2>2
  <2>3. QED
        BY <1>9, <2>1, <2>2 DEF HashFreed
<1>10. CASE dbipc_send_response(p)
  <2>0. thr[p] = "reply" /\ rq[p] = NoReq /\ UNCHANGED <<rq, cq>>
        BY <1>2, <1>10 DEF dbipc_send_response, Running, ThreadInv, Parked
  <2>1. cl[p] \in {"wait", "closing", "failed", "dead", "slain"} /\ Served(p) /\ Asked(p)
        BY <1>1, <1>2, <2>0 DEF ClientInv, Parked, Served, Asked, TypeOK, ClientStates
  <2>2. CASE cEnd[p] = "finrst"
    <3>1. p \in Clients /\ cl[p] = "slain"
          BY <1>2, <2>1, <2>2 DEF PipeInv
    <3>2. srv' # "up" /\ UNCHANGED <<rs, cEnd>>
          BY <1>10, <2>2 DEF dbipc_send_response
    <3>3. QED
          BY <1>1, <3>1, <3>2, PipeKept DEF Served
  <2>3. CASE cEnd[p] # "finrst"
    <3>1. /\ srv' = srv
          /\ rs' = [rs EXCEPT ![p] = IF cEnd[p] = "open" /\ @ = NoRes THEN ans[p] ELSE @]
          /\ cEnd' = [cEnd EXCEPT ![p] = AfterWrite(@)]
          /\ sEnd' = [sEnd EXCEPT ![p] = IF buf[p].cmd \in {"CLOSE", "SHUTDOWN"}
                                         THEN ServerClosed(p) ELSE @]
          /\ thr' = [thr EXCEPT ![p] = IF buf[p].cmd = "CLOSE" THEN "exit"
                                       ELSE IF buf[p].cmd = "SHUTDOWN" THEN "stop"
                                       ELSE "read"]
          BY <1>10, <2>3 DEF dbipc_send_response
    <3>2. /\ cEnd'[p] = AfterWrite(cEnd[p])
          /\ \/ thr'[p] \in {"exit", "stop"}
             \/ thr'[p] = "read" /\ sEnd'[p] = sEnd[p]
      <4>1. cEnd'[p] = AfterWrite(cEnd[p])
            BY <3>1 DEF TypeOK
      <4>2. CASE buf[p].cmd \in {"CLOSE", "SHUTDOWN"}
            BY <3>1, <4>1, <4>2 DEF TypeOK
      <4>3. CASE buf[p].cmd \notin {"CLOSE", "SHUTDOWN"}
        <5>1. sEnd'[p] = sEnd[p]
              BY <3>1, <4>3 DEF TypeOK
        <5>2. thr'[p] = "read"
              BY <3>1, <4>3 DEF TypeOK
        <5>3. QED
              BY <4>1, <5>1, <5>2
      <4>4. QED
            BY <4>2, <4>3
    <3>3. Served(p)' => thr'[p] = "read" /\ sEnd'[p] = sEnd[p] /\ ~Asked(p)'
          BY <2>0, <3>2 DEF Served, Asked
    <3>4. PipeInv(p)'
          BY <1>1, <1>2, <2>0, <2>1, <3>2, <3>3 DEF PipeInv, AfterWrite
    <3>5. QED
          BY <1>4, <2>0, <3>1, <3>4 DEF TypeOK
  <2>4. QED
        BY <2>2, <2>3
<1>11. CASE stop_db_srv(p)
  <2>1. UNCHANGED <<rq, cq, rs, cEnd>> /\ thr[p] = "stop"
        BY <1>11 DEF stop_db_srv, Running
  <2>2. CASE srv' = "crashed"
        BY <1>3, <2>1, <2>2
  <2>3. CASE thr' = [thr EXCEPT ![p] = "exit"] /\ UNCHANGED <<sEnd, srv>>
    <3>1. PipeInv(p)'
          BY <1>1, <1>2, <2>1, <2>3 DEF PipeInv, Served, TypeOK
    <3>2. QED
          BY <1>4, <2>1, <2>3, <3>1 DEF TypeOK
  <2>4. QED
        BY <1>11, <2>2, <2>3 DEF stop_db_srv
<1>12. QED
       BY <1>5, <1>6, <1>8, <1>9, <1>10, <1>11 DEF Thread

\* A client that is dead stays dead, and no client ends db_server.
LEMMA SlainStays ==
    ASSUME TypeOK, NEW p \in Procs, InCommand(p) \/ Command(p) \/ Fault(p)
    PROVE  srv' = srv /\ \A q \in Procs : cl[q] = "slain" => cl'[q] = "slain"
<1>1. ASSUME NEW r, db_cl_send_req(p, r)
      PROVE  srv' = srv /\ \A q \in Procs : cl[q] = "slain" => cl'[q] = "slain"
      BY <1>1 DEF db_cl_send_req, TypeOK
<1>2. QED
      BY <1>1 DEF InCommand, Command, Fault, db_cl_read_res, db_cl_read_res_fails, db_cl_poke,
         cleanup_exit, db_cl_lock, db_cl_unlock, db_cl_data, db_cl_open, db_cl_open_fails,
         db_cl_close, db_cl_shutdown, db_cl_broken, cleanup, Killed, TypeOK

-----------------------------------------------------------------------------
(***************************************************************************)
(* Answers.  From the moment a thread has the answer of a data command, it  *)
(* is true of the table until its client has read it: the client owns the   *)
(* mutex all along, so no other thread is inside the table.                 *)
(***************************************************************************)

\* What the answer a to p's pending request says of the entry.
Says(p, a) ==
    LET entry == table[pend[p].key] IN
    CASE pend[p].cmd = "GETKEY"    -> a.result = 0 => entry = a.val
      [] pend[p].cmd = "ADDKEY"    -> a.result = 0 <=> entry = pend[p].val
      [] pend[p].cmd = "DELKEY"    -> entry = None
      [] pend[p].cmd = "KEYEXISTS" -> a.result = 0 <=> entry = None
      [] OTHER -> TRUE

\* A data request is sent under the lock; its answer is true from the moment
\* the thread has it.
AnswerInv(p) ==
    cl[p] = "wait" =>
        /\ pend[p].cmd \in HashCmds => held[p] > 0 /\ pend[p] \in HashRequest
        /\ open /\ thr[p] = "reply" => Says(p, ans[p])
        /\ open /\ rs[p] # NoRes => Says(p, rs[p])

\* Who has an answer coming owns the mutex.
LEMMA AnswerHolds ==
    ASSUME TypeOK, LockInv, NEW p \in Clients, AnswerInv(p), cl[p] = "wait",
           pend[p].cmd \in HashCmds, thr[p] \in {"hash", "reply"} \/ rs[p] # NoRes
    PROVE  owner = p
<1>1. p \in Procs /\ held[p] > 0 /\ held[p] \in Nat
      BY DbAssumption DEF AnswerInv, TypeOK, Procs
<1>2. ClientInv(p)
      BY <1>1 DEF LockInv
<1>3. Depth(p) = held[p]
  <2>1. \A n : LockDelta(pend[p].cmd, n) = 0
        BY DEF LockDelta, HashCmds
  <2>2. QED
        BY <1>1, <1>2, <2>1 DEF ClientInv, InFlight
<1>4. QED
      BY <1>1, <1>3 DEF Depth

\* Where the client, its request, its answer and its entry stay, an answer
\* stays true.
LEMMA AnswerKept ==
    ASSUME NEW p \in Clients, AnswerInv(p),
           cl'[p] = cl[p], held'[p] = held[p], pend'[p] = pend[p], ans'[p] = ans[p],
           rs'[p] = rs[p], open' => open, thr'[p] = "reply" => thr[p] = "reply",
           \/ table' = table
           \/ cl[p] = "wait" /\ pend[p].cmd \in HashCmds => thr'[p] # "reply" /\ rs[p] = NoRes
    PROVE  AnswerInv(p)'
<1>1. CASE table' = table
      BY <1>1 DEF AnswerInv, Says
<1>2. CASE cl[p] = "wait" /\ pend[p].cmd \in HashCmds => thr'[p] # "reply" /\ rs[p] = NoRes
      BY <1>2 DEF AnswerInv, Says, HashCmds
<1>3. QED
      BY <1>1, <1>2

\* The steps of a client keep AnswerInv.
LEMMA ClientAnswer ==
    ASSUME TypeOK, LockInv, \A q \in Clients : AnswerInv(q),
           NEW p \in Procs, InCommand(p) \/ Command(p) \/ Fault(p)
    PROVE  \A q \in Clients : AnswerInv(q)'
<1>1. ClientInv(p) /\ Clients \subseteq Procs /\ Clients \cap Stoppers = {}
      BY DbAssumption DEF LockInv, Procs
<1>2. ASSUME UNCHANGED <<table, open, thr, ans>>,
             \A q \in Procs \ {p} : /\ cl'[q] = cl[q] /\ held'[q] = held[q]
                                    /\ pend'[q] = pend[q] /\ rs'[q] = rs[q],
             p \in Clients => AnswerInv(p)'
      PROVE  \A q \in Clients : AnswerInv(q)'
      BY <1>1, <1>2, AnswerKept
<1>3. ASSUME NEW r, db_cl_send_req(p, r), r.cmd \in HashCmds => held[p] > 0 /\ r \in HashRequest
      PROVE  \A q \in Clients : AnswerInv(q)'
  <2>1. /\ UNCHANGED <<table, open, thr, ans, held, rs>> /\ cl[p] = "idle"
        /\ cl'[p] = "wait" => pend'[p] = r
        /\ \A q \in Procs \ {p} : cl'[q] = cl[q] /\ pend'[q] = pend[q]
        BY <1>3 DEF db_cl_send_req, TypeOK, hashVars
  <2>2. rs[p] = NoRes /\ thr[p] # "reply"
        BY <1>1, <2>1 DEF ClientInv, Parked
  <2>3. AnswerInv(p)'
        BY <1>3, <2>1, <2>2 DEF AnswerInv
  <2>4. QED
        BY <1>2, <2>1, <2>3
<1>4. ASSUME db_cl_read_res(p) \/ db_cl_read_res_fails(p) \/ db_cl_poke(p) \/ cleanup_exit(p)
             \/ db_cl_open(p) \/ db_cl_open_fails(p) \/ db_cl_broken(p) \/ cleanup(p) \/ Killed(p)
      PROVE  \A q \in Clients : AnswerInv(q)'
  <2>1. /\ UNCHANGED <<table, open, thr, ans>>
        /\ cl'[p] # "wait"
        BY <1>4 DEF db_cl_read_res, db_cl_read_res_fails, db_cl_poke, cleanup_exit, db_cl_open,
           db_cl_open_fails, db_cl_broken, cleanup, Killed, TypeOK, hashVars
  <2>2. \A q \in Procs \ {p} : /\ cl'[q] = cl[q] /\ held'[q] = held[q]
                               /\ pend'[q] = pend[q] /\ rs'[q] = rs[q]
    <3>1. \A q \in Procs \ {p} : cl'[q] = cl[q]
      <4>1. cl \in [Procs -> ClientStates]
            BY DEF TypeOK
      <4>2. CASE db_cl_read_res(p) \/ db_cl_read_res_fails(p) \/ db_cl_poke(p) \/ cleanup_exit(p)
            BY <4>1, <4>2 DEF db_cl_read_res, db_cl_read_res_fails, db_cl_poke, cleanup_exit
      <4>3. CASE db_cl_open(p) \/ db_cl_open_fails(p) \/ db_cl_broken(p)
            BY <4>1, <4>3 DEF db_cl_open, db_cl_open_fails, db_cl_broken
      <4>4. CASE cleanup(p) \/ Killed(p)
            BY <4>1, <4>4 DEF cleanup, Killed
      <4>5. QED
            BY <1>4, <4>2, <4>3, <4>4
    <3>2. \A q \in Procs \ {p} : held'[q] = held[q] /\ pend'[q] = pend[q]
      <4>1. CASE db_cl_read_res(p)
            BY <4>1 DEF db_cl_read_res, TypeOK
      <4>2. CASE db_cl_read_res_fails(p)
            BY <4>2 DEF db_cl_read_res_fails, TypeOK
      <4>3. CASE db_cl_poke(p) \/ cleanup_exit(p) \/ db_cl_open(p) \/ db_cl_open_fails(p)
                 \/ db_cl_broken(p) \/ cleanup(p) \/ Killed(p)
            BY <4>3 DEF db_cl_poke, cleanup_exit, db_cl_open, db_cl_open_fails, db_cl_broken,
               cleanup, Killed
      <4>4. QED
            BY <1>4, <4>1, <4>2, <4>3
    <3>3. \A q \in Procs \ {p} : rs'[q] = rs[q]
          BY <1>4 DEF db_cl_read_res, db_cl_read_res_fails, db_cl_poke, cleanup_exit, db_cl_open,
             db_cl_open_fails, db_cl_broken, cleanup, Killed, TypeOK, streamVars
    <3>4. QED
          BY <3>1, <3>2, <3>3
  <2>3. AnswerInv(p)'
        BY <2>1 DEF AnswerInv
  <2>4. QED
        BY <1>2, <2>1, <2>2, <2>3
<1>5. \A c \in {"LOCK", "UNLOCK", "CLOSE", "SHUTDOWN"} : Req(c).cmd \notin HashCmds
      BY DEF Req, HashCmds
<1>6. CASE \/ \E r \in HashRequest : db_cl_data(p, r)
           \/ db_cl_lock(p) \/ db_cl_unlock(p) \/ db_cl_close(p) \/ db_cl_shutdown(p)
      BY <1>3, <1>5, <1>6 DEF db_cl_data, db_cl_lock, db_cl_unlock, db_cl_close, db_cl_shutdown
<1>7. QED
      BY <1>4, <1>6 DEF InCommand, Command, Fault

\* What the four data commands leave as their answer is what it says.
LEMMA AnswerIsTrue ==
    ASSUME TypeOK, NEW p \in Clients, p \in Procs, pend[p] \in HashRequest, buf[p] = pend[p],
           dbipc_getkey(p) \/ dbipc_addkey(p) \/ dbipc_delkey(p) \/ dbipc_keyexists(p)
    PROVE  thr'[p] = "reply" /\ pend' = pend /\ rs' = rs /\ Says(p, ans[p])'
<1>1. pend[p].key \in Keys
      BY DEF HashRequest, Request
<1>2. pend[p].cmd = "ADDKEY" => pend[p].val # None
      BY DEF HashRequest
<1>3. ASSUME NEW n, NEW v, Answer(p, n, v)
      PROVE  /\ thr'[p] = "reply" /\ pend' = pend /\ rs' = rs
             /\ ans'[p].result = n /\ ans'[p].val = v
      BY <1>3 DEF Answer, TypeOK, Res, clientVars, streamVars
<1>4. CASE dbipc_getkey(p)
  <2>1. table' = table /\ pend[p].cmd = "GETKEY"
        BY <1>4 DEF dbipc_getkey, InHash, hashVars
  <2>2. \/ Answer(p, 0, table[pend[p].key])
        \/ Answer(p, -1, None)
        BY <1>4 DEF dbipc_getkey
  <2>3. QED
        BY <1>3, <2>1, <2>2 DEF Says
<1>5. CASE dbipc_addkey(p)
  <2>1. pend[p].cmd = "ADDKEY"
        BY <1>5 DEF dbipc_addkey, InHash
  <2>2. \/ Answer(p, 0, None) /\ table'[pend[p].key] = pend[p].val
        \/ Answer(p, -1, None) /\ table'[pend[p].key] = None
        BY <1>1, <1>5 DEF dbipc_addkey, TypeOK
  <2>3. QED
        BY <1>2, <1>3, <2>1, <2>2 DEF Says
<1>6. CASE dbipc_delkey(p)
  <2>1. pend[p].cmd = "DELKEY" /\ table'[pend[p].key] = None
        BY <1>1, <1>6 DEF dbipc_delkey, InHash, TypeOK
  <2>2. Answer(p, 0, None) \/ Answer(p, -1, None)
        BY <1>6 DEF dbipc_delkey
  <2>3. QED
        BY <1>3, <2>1, <2>2 DEF Says
<1>7. CASE dbipc_keyexists(p)
  <2>1. table' = table /\ pend[p].cmd = "KEYEXISTS"
        BY <1>7 DEF dbipc_keyexists, InHash, hashVars
  <2>2. \/ Answer(p, 0, None) /\ table[pend[p].key] = None
        \/ Answer(p, -1, None) /\ table[pend[p].key] # None
        BY <1>7 DEF dbipc_keyexists
  <2>3. QED
        BY <1>3, <2>1, <2>2 DEF Says
<1>8. QED
      BY <1>4, <1>5, <1>6, <1>7

\* The steps of the thread of a connection keep AnswerInv.
LEMMA ThreadAnswer ==
    ASSUME TypeOK, LockInv, \A q \in Clients : AnswerInv(q), NEW p \in Procs, Thread(p)
    PROVE  \A q \in Clients : AnswerInv(q)'
<1>1. /\ UNCHANGED <<cl, held, pend>> /\ (open' => open)
      /\ \A q \in Procs \ {p} : ans'[q] = ans[q] /\ rs'[q] = rs[q] /\ thr'[q] = thr[q]
      BY DEF Thread, dbipc_read_request, dbipc_read_request_fails, dbipc_close, dbipc_lock,
             dbipc_unlock, HashEnter, dbipc_getkey, dbipc_addkey, dbipc_delkey, dbipc_keyexists,
             HashFreed, dbipc_shutdown, dbipc_send_response, stop_db_srv, Answer, InHash,
             clientVars, streamVars, hashVars, TypeOK
<1>2. ClientInv(p) /\ ThreadInv(p) /\ Clients \subseteq Procs
      BY DEF LockInv, Procs
<1>3. table' # table => owner = p
  <2>1. table' # table => dbipc_addkey(p) \/ dbipc_delkey(p)
        BY DEF Thread, dbipc_read_request, dbipc_read_request_fails, dbipc_close,
           dbipc_lock, dbipc_unlock, HashEnter, dbipc_getkey, dbipc_keyexists, HashFreed,
           dbipc_shutdown, dbipc_send_response, stop_db_srv, hashVars
  <2>2. QED
        BY <1>2, <2>1 DEF dbipc_addkey, dbipc_delkey, InHash, Running, ThreadInv
<1>4. ASSUME NEW q \in Clients \ {p} PROVE AnswerInv(q)'
  <2>1. CASE table' = table
        BY <1>1, <1>2, <2>1, AnswerKept
  <2>2. CASE table' # table
    <3>1. cl[q] = "wait" /\ pend[q].cmd \in HashCmds => thr[q] # "reply" /\ rs[q] = NoRes
          BY <1>3, <2>2, AnswerHolds
    <3>2. QED
          BY <1>1, <1>2, <3>1, AnswerKept
  <2>3. QED
        BY <2>1, <2>2
<1>5. ASSUME p \in Clients PROVE AnswerInv(p)'
  <2>1. SUFFICES ASSUME cl[p] = "wait"
                 PROVE  /\ open' /\ thr'[p] = "reply" => Says(p, ans[p])'
                        /\ open' /\ rs'[p] # NoRes => Says(p, rs[p])'
        BY <1>1, <1>5 DEF AnswerInv
  <2>2. AnswerInv(p) /\ InFlight(p)
        BY <1>2, <1>5, <2>1 DEF ClientInv
  <2>3. CASE dbipc_getkey(p) \/ dbipc_addkey(p) \/ dbipc_delkey(p) \/ dbipc_keyexists(p)
    <3>1. thr[p] = "hash" /\ buf[p] = pend[p] /\ rs[p] = NoRes /\ pend[p] \in HashRequest
          BY <2>1, <2>2, <2>3 DEF dbipc_getkey, dbipc_addkey, dbipc_delkey, dbipc_keyexists,
             InHash, Running, InFlight, HashCmds, AnswerInv
    <3>2. QED
          BY <1>5, <2>3, <3>1, AnswerIsTrue
  <2>4. CASE dbipc_close(p) \/ dbipc_lock(p) \/ dbipc_unlock(p) \/ dbipc_shutdown(p)
    <3>1. buf[p].cmd \notin HashCmds /\ thr[p] = "exec"
          BY <2>4 DEF dbipc_close, dbipc_lock, dbipc_unlock, dbipc_shutdown, Running, HashCmds
    <3>2. pend'[p].cmd \notin HashCmds
          BY <1>1, <2>2, <3>1 DEF InFlight
    <3>3. QED
          BY <3>2 DEF Says, HashCmds
  <2>5. CASE HashFreed(p)
        BY <2>5 DEF HashFreed, hashVars
  <2>6. CASE dbipc_send_response(p)
    <3>1. table' = table /\ open' = open /\ thr[p] = "reply"
          BY <2>6 DEF dbipc_send_response, Running, hashVars
    <3>2. rs[p] = NoRes
          BY <2>2, <3>1 DEF InFlight
    <3>3. \/ UNCHANGED <<thr, ans, rs>>
          \/ thr'[p] # "reply" /\ rs'[p] \in {ans[p], rs[p]}
          BY <2>6 DEF dbipc_send_response, TypeOK
    <3>4. open => Says(p, ans[p])
          BY <2>1, <2>2, <3>1 DEF AnswerInv
    <3>5. QED
          BY <1>1, <3>1, <3>2, <3>3, <3>4 DEF Says
  <2>7. CASE dbipc_read_request(p) \/ dbipc_read_request_fails(p) \/ HashEnter(p) \/ stop_db_srv(p)
    <3>1. /\ UNCHANGED <<table, ans, rs>> /\ thr[p] # "reply"
          /\ thr'[p] # "reply"
          BY <2>7 DEF dbipc_read_request, dbipc_read_request_fails, HashEnter, stop_db_srv,
             Running, streamVars, hashVars, TypeOK
    <3>2. QED
          BY <1>1, <2>1, <2>2, <3>1 DEF AnswerInv, Says
  <2>8. QED
        BY <2>3, <2>4, <2>5, <2>6, <2>7 DEF Thread
<1>6. QED
      BY <1>4, <1>5

-----------------------------------------------------------------------------
(***************************************************************************)
(* Theorems.                                                                *)
(***************************************************************************)

\* Init establishes and every step preserves TypeOK and LockInv together.
THEOREM Inductive == Spec => [](TypeOK /\ LockInv)
<1>1. Init => TypeOK
  <2>1. NoReq \in Request /\ NoRes \in Response
        BY MessageType
  <2>2. QED
        BY <2>1, DbAssumption DEF Init, TypeOK, ClientStates, ThreadStates, Ends, NoConn
<1>2. Init => LockInv
  <2>1. NoReq.cmd = "NONE"
        BY RequestNotEmpty
  <2>2. SUFFICES ASSUME Init PROVE LockInv
        OBVIOUS
  <2>3. ASSUME NEW p \in Procs PROVE ClientInv(p) /\ ThreadInv(p) /\ AcceptInv(p)
    <3>1. p # None
          BY DbAssumption DEF Procs
    <3>2. QED
          BY <2>1, <2>2, <3>1 DEF Init, ClientInv, ThreadInv, AcceptInv, Parked, NoConn, HashCmds
  <2>4. QED
        BY <2>2, <2>3 DEF Init, LockInv, StopperInv, Procs
<1>3. TypeOK /\ LockInv /\ [Next]_vars => TypeOK' /\ LockInv'
  <2>1. SUFFICES ASSUME TypeOK, LockInv, [Next]_vars PROVE TypeOK' /\ LockInv'
        OBVIOUS
  <2>2. TypeOK'
        BY <2>1, TypeStep
  <2>3. CASE UNCHANGED vars
    <3>1. ASSUME NEW p \in Procs PROVE ClientInv(p)' /\ ThreadInv(p)' /\ AcceptInv(p)'
      <4>1. ClientInv(p) /\ ThreadInv(p) /\ AcceptInv(p)
            BY <2>1 DEF LockInv
      <4>2. QED
            BY <2>3, <4>1, Frame, AcceptFrame
            DEF vars, clientVars, streamVars, monVars, mutexVars
    <3>2. QED
          BY <2>1, <2>2, <2>3, <3>1 DEF LockInv, StopperInv, vars, clientVars, mutexVars
  <2>4. QED
        BY <2>1, <2>2, <2>3, MonitorStep, ClientStep, ThreadStep DEF Next
<1>4. QED
      BY <1>1, <1>2, <1>3, PTL DEF Spec

\* Every variable keeps its type; lock counts stay within their bound.
THEOREM TypeCorrect == Spec => []TypeOK
BY Inductive, PTL

\* No two threads of db_server are ever inside the hash table together.
THEOREM HashIsExclusive == Spec => []HashExclusive
<1>1. LockInv => HashExclusive
      BY DEF LockInv, ThreadInv, HashExclusive
<1>2. QED
      BY <1>1, Inductive, PTL

\* Between two requests a client's lock count is the depth of its hold on
\* g_db_mutex.
THEOREM LockAgrees == Spec => []LockAgreement
<1>1. LockInv => LockAgreement
      BY DEF LockInv, ClientInv, LockAgreement, Procs
<1>2. QED
      BY <1>1, Inductive, PTL

\* A client never takes the response of another request for its own.
THEOREM ResponsesMatch == Spec => []ResponseMatches
<1>1. LockInv => ResponseMatches
      BY DEF LockInv, ClientInv, InFlight, ResponseMatches
<1>2. QED
      BY <1>1, Inductive, PTL

\* A client that closed in order does not own the mutex.
THEOREM OrderlyCloseFrees == Spec => []OrderlyCloseFreesLock
<1>1. LockInv => OrderlyCloseFreesLock
      BY DEF LockInv, ClientInv, OrderlyCloseFreesLock
<1>2. QED
      BY <1>1, Inductive, PTL

\* The table changes only under the hand of the mutex owner's thread.
THEOREM OwnerWrites == Spec => OnlyOwnerWrites
<1>1. TypeOK /\ LockInv /\ [Next]_vars
        => [table' # table => owner # None /\ thr[owner] = "hash"]_vars
  <2>1. SUFFICES ASSUME TypeOK, LockInv, [Next]_vars, table' # table
                 PROVE  owner # None /\ thr[owner] = "hash"
        OBVIOUS
  <2>2. PICK p \in Procs : dbipc_addkey(p) \/ dbipc_delkey(p)
    <3>1. ~Monitor
          BY <2>1 DEF Monitor, MonLoop, MonAccept, MonSpawn, MonBreak, MonExit, hashVars
    <3>2. ASSUME NEW p \in Procs, InCommand(p) \/ Command(p) \/ Fault(p) PROVE FALSE
      <4>1. ASSUME NEW r, db_cl_send_req(p, r) PROVE FALSE
            BY <2>1, <4>1 DEF db_cl_send_req, hashVars
      <4>2. QED
            BY <2>1, <3>2, <4>1 DEF InCommand, Command, Fault, db_cl_read_res,
               db_cl_read_res_fails, db_cl_poke, cleanup_exit, db_cl_lock, db_cl_unlock,
               db_cl_data, db_cl_open, db_cl_open_fails, db_cl_close, db_cl_shutdown,
               db_cl_broken, cleanup, Killed, hashVars
    <3>3. ASSUME NEW p \in Procs, Thread(p) PROVE dbipc_addkey(p) \/ dbipc_delkey(p)
          BY <2>1, <3>3 DEF Thread, dbipc_read_request, dbipc_read_request_fails, dbipc_close,
             dbipc_lock, dbipc_unlock, HashEnter, dbipc_getkey, dbipc_keyexists, HashFreed,
             dbipc_shutdown, dbipc_send_response, stop_db_srv, hashVars
    <3>4. UNCHANGED vars => table' = table
          BY DEF vars, hashVars
    <3>5. QED
          BY <2>1, <3>1, <3>2, <3>3, <3>4 DEF Next
  <2>3. thr[p] = "hash"
        BY <2>2 DEF dbipc_addkey, dbipc_delkey, InHash, Running
  <2>4. owner = p /\ p # None
        BY <2>1, <2>3, DbAssumption DEF LockInv, ThreadInv, Procs
  <2>5. QED
        BY <2>3, <2>4
<1>2. QED
      BY <1>1, Inductive, PTL DEF Spec, OnlyOwnerWrites

\* db_server is killed by SIGPIPE only through a client that died inside its
\* signal handler.
THEOREM SigpipeNeedsTwo == Spec => []SigpipeNeedsTwoAnswers
<1> DEFINE Pipes == \A p \in Procs : PipeInv(p)
<1>1. Init => Pipes
      BY DEF Init, PipeInv, Asked
<1>2. Init => SigpipeNeedsTwoAnswers
      BY DEF Init, SigpipeNeedsTwoAnswers
<1>3. TypeOK /\ LockInv /\ Pipes /\ SigpipeNeedsTwoAnswers /\ [Next]_vars
        => Pipes' /\ SigpipeNeedsTwoAnswers'
  <2>1. SUFFICES ASSUME TypeOK, LockInv, Pipes, SigpipeNeedsTwoAnswers, [Next]_vars
                 PROVE  (\A p \in Procs : PipeInv(p)') /\ SigpipeNeedsTwoAnswers'
        OBVIOUS
  <2>2. CASE UNCHANGED vars
    <3>1. ASSUME NEW p \in Procs PROVE PipeInv(p)'
          BY <2>1, <2>2, PipeKept DEF vars, clientVars, streamVars, Served, Asked
    <3>2. QED
          BY <2>1, <2>2, <3>1 DEF vars, clientVars, SigpipeNeedsTwoAnswers
  <2>3. CASE Monitor
    <3>1. \A p \in Procs : PipeInv(p)'
          BY <2>1, <2>3, MonitorPipe
    <3>2. srv' # "sigpipe"
          BY <2>3 DEF Monitor, MonLoop, MonAccept, MonSpawn, MonBreak, MonExit
    <3>3. QED
          BY <3>1, <3>2 DEF SigpipeNeedsTwoAnswers
  <2>4. ASSUME NEW p \in Procs, InCommand(p) \/ Command(p) \/ Fault(p)
        PROVE  (\A q \in Procs : PipeInv(q)') /\ SigpipeNeedsTwoAnswers'
    <3>1. \A q \in Procs : PipeInv(q)'
          BY <2>1, <2>4, ClientPipe
    <3>2. srv' = srv /\ \A q \in Procs : cl[q] = "slain" => cl'[q] = "slain"
          BY <2>1, <2>4, SlainStays
    <3>3. QED
          BY <2>1, <3>1, <3>2 DEF SigpipeNeedsTwoAnswers, Procs
  <2>5. ASSUME NEW p \in Procs, Thread(p)
        PROVE  (\A q \in Procs : PipeInv(q)') /\ SigpipeNeedsTwoAnswers'
    <3>1. cl' = cl
          BY <2>5 DEF Thread, dbipc_read_request, dbipc_read_request_fails, dbipc_close, dbipc_lock,
             dbipc_unlock, HashEnter, dbipc_getkey, dbipc_addkey, dbipc_delkey, dbipc_keyexists,
             HashFreed, dbipc_shutdown, dbipc_send_response, stop_db_srv, Answer, InHash, clientVars
    <3>2. QED
          BY <2>1, <2>5, <3>1, ThreadPipe DEF SigpipeNeedsTwoAnswers
  <2>6. QED
        BY <2>1, <2>2, <2>3, <2>4, <2>5 DEF Next
<1>4. QED
      BY <1>1, <1>2, <1>3, Inductive, PTL DEF Spec

\* What an unread response says of its entry is true until it is read.
THEOREM AnswersStayTrue == Spec => []AnswerStillTrue
<1> DEFINE Answers == \A p \in Clients : AnswerInv(p)
<1>1. Init => Answers
      BY DEF Init, AnswerInv, Procs
<1>2. TypeOK /\ LockInv /\ Answers /\ [Next]_vars => Answers'
  <2>1. SUFFICES ASSUME TypeOK, LockInv, Answers, [Next]_vars
                 PROVE  \A p \in Clients : AnswerInv(p)'
        OBVIOUS
  <2>2. CASE UNCHANGED vars
        BY <2>1, <2>2, AnswerKept DEF vars, clientVars, streamVars, hashVars
  <2>3. CASE Monitor
    <3>1. UNCHANGED <<cl, held, pend, ans, rs, open, table>>
          BY <2>3 DEF Monitor, MonLoop, MonAccept, MonSpawn, MonBreak, MonExit, clientVars,
             streamVars, hashVars
    <3>2. \A p \in Procs : thr'[p] = "reply" => thr[p] = "reply"
          BY <2>1, <2>3 DEF Monitor, MonLoop, MonAccept, MonSpawn, MonBreak, MonExit, TypeOK
    <3>3. QED
          BY <2>1, <3>1, <3>2, AnswerKept DEF Procs
  <2>4. QED
        BY <2>1, <2>2, <2>3, ClientAnswer, ThreadAnswer DEF Next
<1>3. Answers => AnswerStillTrue
      BY DEF AnswerInv, AnswerStillTrue, Says
<1>4. QED
      BY <1>1, <1>2, <1>3, Inductive, PTL DEF Spec
=============================================================================
