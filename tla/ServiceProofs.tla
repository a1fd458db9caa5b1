--------------------------- MODULE ServiceProofs ----------------------------
(***************************************************************************)
(* Theorems about the services and libraries above the kernel, for every   *)
(* value of their constants.                                               *)
(*                                                                         *)
(* WebSocket: a receiver of a socket is woken, and no socket is forgotten  *)
(* half made.  Cluster: a remote request is answered once, by its peer,    *)
(* its timer or the end of its connection.  TLS: a call is answered once,  *)
(* no socket, handshake or end of a connection is lost.  HTTP server: what *)
(* is pipelined is served, every connection has somebody who ends it.      *)
(***************************************************************************)
EXTENDS WebSocket, Cluster, Tls, HttpServer, FiniteSetTheorems, WellFoundedInduction,
        NaturalsInduction, TLAPS

(***************************************************************************)
(* WebSocket.  The records, and what holds between a socket, its entry     *)
(* with the client or the server, its handshake and the handlers under way.*)
(***************************************************************************)
WsOpens == {"none", "connecting", "greeting", "waiting", "woken", "upgrading", "driving",
            "done", "failed", "refused"}
WsSocket ==
  [there : BOOLEAN, server : BOOLEAN, entry : BOOLEAN, msgs : Nat, tail : Nat,
   waker : BOOLEAN, ended : BOOLEAN, err : BOOLEAN, paused : BOOLEAN, lost : BOOLEAN,
   pend : {"none", "empty", "ok", "failed"}, shake : BOOLEAN, waiter : BOOLEAN,
   timer : BOOLEAN]
WsFields == {"there", "server", "entry", "msgs", "tail", "waker", "ended", "err", "paused",
             "lost", "pend", "shake", "waiter", "timer"}
WsAwaits == [open : WsOpens, recv : {"idle", "waiting", "woken", "resuming", "done"},
             close : {"none", "sending", "polling", "done"}, active : BOOLEAN]
WsHandler == [at : {"none", "send", "pause"}, pause : BOOLEAN, wake : BOOLEAN, shut : BOOLEAN]
WsJobsTyped == wsJobs \in [0 .. WsMaxData -> WsHandler]
WsNetTyped == wsNet \in [st : {"none", "up", "closing", "gone"}, data : Nat]
WsTyped == ws \in WsSocket /\ wsOp \in WsAwaits /\ WsJobsTyped /\ WsNetTyped

\* Socket v differs from w in the fields fs at most.
WsOnly(v, w, fs) == v \in WsSocket /\ \A f \in WsFields \ fs : v[f] = w[f]

\* A handler has a place of its own: one for each Data event so far, and one for the
\* upgrade while it is driven.
WsHandlers ==
  /\ \A n \in 0 .. WsMaxData : wsJobs[n].at = "none" => wsJobs[n] = WsNoJob
  /\ \A n \in 1 .. WsMaxData : n > wsNet.data => wsJobs[n].at = "none"
  /\ wsJobs[0].at # "none" => wsOp.open = "driving"

\* A socket is made once, by the handshake or by the upgrade, and has its entry only
\* while the transport delivers.
WsMade ==
  /\ ws.entry => ws.there /\ wsNet.st \in {"up", "closing"}
  /\ ~ws.there => ~ws.ended /\ ~wsOp.active /\ wsOp.close = "none" /\ ws.pend # "ok"
  /\ wsOp.open \in {"none", "connecting"} =>
       ~ws.there /\ ~ws.shake /\ ws.pend = "none" /\ wsNet.st = "none"
  /\ wsOp.open \in {"upgrading", "driving"} => ws.there
  /\ ws.shake => ~ws.there
  /\ ws.server => ~ws.shake /\ ws.pend = "none" /\ ws.there

\* The result of a handshake, and the frames behind a server's request.
WsHeld ==
  /\ ws.pend = "ok" /\ wsNet.st = "up" => ws.entry
  /\ ws.waiter => wsOp.open = "waiting"
  /\ ws.server /\ ws.tail > 0 => wsOp.open \in {"upgrading", "failed"} \/ ws.ended

WsInv == WsTyped /\ WsHandlers /\ WsMade /\ WsHeld /\ WsReceiverWoken /\ WsBooks

(* What the operators on a socket and on the awaiting service change.      *)
LEMMA NewIs ==
  ASSUME NEW w \in WsSocket, NEW tail \in Nat
  PROVE  LET v == WsNew(w, tail)
         IN  v.there /\ v.entry /\ v.tail = tail /\ WsOnly(v, w, {"there", "entry", "tail"})
  BY DEF WsNew, WsSocket, WsOnly, WsFields

LEMMA ResultIs ==
  ASSUME NEW w \in WsSocket, NEW result \in {"ok", "failed"}
  PROVE  LET v == WsResult(w, result)
         IN  /\ v.pend = (IF w.pend = "none" THEN "none" ELSE result)
             /\ v.waiter => w.pend = "none" /\ w.waiter
             /\ WsOnly(v, w, {"pend", "waiter"})
<1>1. CASE w.pend = "none"
  BY <1>1 DEF WsResult, WsOnly
<1>2. CASE w.pend # "none"
  <2> DEFINE v == [w EXCEPT !.pend = result, !.waiter = FALSE]
  <2>1. v \in WsSocket /\ v.pend = result /\ v.waiter = FALSE
    BY DEF WsSocket
  <2>2. \A f \in WsFields \ {"pend", "waiter"} : v[f] = w[f]
    BY DEF WsSocket, WsFields
  <2> HIDE DEF v
  <2>3. v = WsResult(w, result)
    BY <1>2 DEF WsResult, v
  <2> QED  BY <1>2, <2>1, <2>2, <2>3 DEF WsOnly
<1> QED  BY <1>1, <1>2

LEMMA ClosedIs ==
  ASSUME NEW w \in WsSocket, NEW op, NEW failed \in BOOLEAN, WsOnClosed(w, op, failed)
  PROVE  /\ ws'.ended /\ ~ws'.waker /\ ~ws'.entry
         /\ WsOnly(ws', w, {"ended", "err", "waker", "entry"})
         /\ wsOp' = WsWoken(op, w.waker)
<1> DEFINE v == [w EXCEPT !.ended = TRUE, !.err = @ \/ failed, !.waker = FALSE]
<1>1. v.ended /\ ~v.waker /\ WsOnly(v, w, {"ended", "err", "waker"})
  BY DEF WsSocket, WsOnly, WsFields
<1>2. ws' = [v EXCEPT !.entry = FALSE] /\ wsOp' = WsWoken(op, w.waker)
  BY DEF WsOnClosed, WsCleanup
<1> HIDE DEF v
<1> QED  BY <1>1, <1>2 DEF WsOnly, WsSocket, WsFields

LEMMA WokenIs ==
  ASSUME NEW op \in WsAwaits, NEW wake \in BOOLEAN
  PROVE  LET o == WsWoken(op, wake)
         IN  /\ o \in WsAwaits
             /\ o.recv = (IF wake /\ op.recv = "waiting" THEN "woken" ELSE op.recv)
             /\ o.open = op.open /\ o.close = op.close /\ o.active = op.active
  BY DEF WsWoken, WsAwaits, WsOpens

LEMMA DrivenIs ==
  ASSUME NEW op \in WsAwaits, NEW n \in Nat, NEW ok \in BOOLEAN
  PROVE  LET o == WsDriven(n, op, ok)
         IN  /\ o \in WsAwaits /\ o.recv = op.recv /\ o.close = op.close
             /\ n # 0 => o = op
             /\ n = 0 => o.open = (IF ok THEN "done" ELSE "failed") /\ o.active = ok
  BY DEF WsDriven, WsAwaits, WsOpens

LEMMA WakeConnectIs ==
  ASSUME NEW op \in WsAwaits, NEW w \in WsSocket
  PROVE  LET o == WsWakeConnect(w, op)
         IN  /\ o \in WsAwaits /\ o.recv = op.recv /\ o.close = op.close /\ o.active = op.active
             /\ o.open = (IF w.pend # "none" /\ w.waiter THEN "woken" ELSE op.open)
  BY DEF WsWakeConnect, WsAwaits, WsOpens, WsSocket

LEMMA ShutdownIs ==
  ASSUME WsNetTyped, WsShutdown
  PROVE  WsNetTyped' /\ wsNet'.data = wsNet.data
         /\ wsNet'.st = (IF wsNet.st = "up" THEN "closing" ELSE wsNet.st)
  BY DEF WsShutdown, WsNetTyped

\* on_data over what was read: nothing is left behind, and who waited is in the job.
LEMMA FeedIs ==
  ASSUME NEW w \in WsSocket, NEW tok
  PROVE  LET v == WsPause(WsReadIn(w, tok))
         IN  /\ v.tail = 0 /\ ~v.waker
             /\ v.ended <=> tok \in {"close", "bad"}
             /\ WsOnly(v, w, {"msgs", "tail", "ended", "err", "waker", "paused"})
<1> DEFINE r == WsReadIn(w, tok)
           m == w.msgs + w.tail + IF tok \in {"msg", "ping", "close"} THEN 1 ELSE 0
           e == tok \in {"close", "bad"}
           b == tok = "bad"
<1>1. /\ r.tail = 0 /\ ~r.waker /\ (r.ended <=> tok \in {"close", "bad"})
      /\ WsOnly(r, w, {"msgs", "tail", "ended", "err", "waker"})
  <2>1. m \in Nat /\ e \in BOOLEAN /\ b \in BOOLEAN
    BY DEF WsSocket
  <2>2. r = [w EXCEPT !.msgs = m, !.tail = 0, !.ended = e, !.err = b, !.waker = FALSE]
    BY DEF WsReadIn, WsSocket
  <2>3. e <=> tok \in {"close", "bad"}
    OBVIOUS
  <2> HIDE DEF r, m, e, b
  <2>4. r \in WsSocket
    BY <2>1, <2>2 DEF WsSocket
  <2>5. r.tail = 0 /\ ~r.waker /\ r.ended = e
    BY <2>1, <2>2 DEF WsSocket
  <2>6. \A f \in WsFields \ {"msgs", "tail", "ended", "err", "waker"} : r[f] = w[f]
    BY <2>2 DEF WsSocket, WsFields
  <2> QED  BY <2>3, <2>4, <2>5, <2>6 DEF WsOnly
<1> HIDE DEF r, m, e, b
<1>2. WsPause(r).paused \in BOOLEAN /\ WsOnly(WsPause(r), r, {"paused"})
  <2>1. CASE ~r.paused /\ r.msgs >= WsHigh
    <3>1. WsPause(r) = [r EXCEPT !.paused = TRUE]
      BY <2>1 DEF WsPause
    <3> QED  BY <1>1, <3>1 DEF WsOnly, WsSocket, WsFields
  <2>2. CASE ~(~r.paused /\ r.msgs >= WsHigh)
    <3>1. WsPause(r) = r
      BY <2>2 DEF WsPause
    <3> QED  BY <1>1, <3>1 DEF WsOnly, WsSocket, WsFields
  <2> QED  BY <2>1, <2>2
<1> QED  BY <1>1, <1>2 DEF WsOnly, WsSocket, WsFields, r

(* upgrade_websocket: a new socket with what came behind the request.       *)
LEMMA WsUpgradeKeeps ==
  ASSUME WsAssumption, WsInv, NEW tail \in 0 .. 1, WsUpgrade(tail)
  PROVE  WsInv'
<1> DEFINE n == WsNew(ws, tail)
<1>1. n.there /\ n.entry /\ n.tail = tail /\ WsOnly(n, ws, {"there", "entry", "tail"})
  BY NewIs DEF WsInv, WsTyped
<1>2. ws' = [n EXCEPT !.server = TRUE]
  BY DEF WsUpgrade
<1> HIDE DEF n
<1>3. /\ ws'.there /\ ws'.entry /\ ws'.tail = tail /\ ws'.server
      /\ WsOnly(ws', ws, {"there", "entry", "tail", "server"})
  BY <1>1, <1>2 DEF WsSocket, WsOnly, WsFields
<1>4. /\ wsOp.open = "none" /\ wsOp' = [wsOp EXCEPT !.open = "upgrading"]
      /\ wsNet' = [wsNet EXCEPT !.st = "up"] /\ wsJobs' = wsJobs
  BY DEF WsUpgrade
<1>5. WsTyped'
  BY <1>3, <1>4 DEF WsOnly, WsSocket, WsInv, WsTyped, WsAwaits, WsOpens, WsJobsTyped,
         WsNetTyped, WsHandler
<1>6. WsHandlers'
  BY <1>3, <1>4 DEF WsOnly, WsFields, WsInv, WsTyped, WsAwaits, WsJobsTyped, WsNetTyped,
         WsHandlers, WsNoJob, WsHeld, WsMade
<1>7. WsMade'
  BY <1>3, <1>4 DEF WsOnly, WsFields, WsSocket, WsInv, WsTyped, WsAwaits, WsNetTyped,
         WsMade, WsHeld
<1>8. WsHeld'
  BY <1>3, <1>4 DEF WsOnly, WsFields, WsSocket, WsInv, WsTyped, WsAwaits, WsNetTyped,
         WsHeld, WsMade
<1>9. WsReceiverWoken'
  BY <1>3, <1>4, SMTT(30) DEF WsOnly, WsFields, WsSocket, WsInv, WsTyped, WsAwaits, WsJobsTyped,
         WsNetTyped, WsReceiverWoken
<1>10. WsBooks'
  BY <1>3, <1>4 DEF WsOnly, WsFields, WsSocket, WsInv, WsTyped, WsAwaits, WsJobsTyped,
         WsNetTyped, WsBooks, WsMade, WsHeld
<1> QED  BY <1>5, <1>6, <1>7, <1>8, <1>9, <1>10 DEF WsInv

(* connect of the client, up to the connection of its transport.            *)
LEMMA WsConnectKeeps ==
  ASSUME WsAssumption, WsInv, WsConnect
  PROVE  WsInv'
<1>1. WsTyped'
  BY DEF WsConnect, WsOnly, WsSocket, WsInv, WsTyped, WsAwaits, WsOpens, WsJobsTyped,
         WsNetTyped, WsHandler
<1>2. WsHandlers'
  BY DEF WsConnect, WsOnly, WsFields, WsInv, WsTyped, WsAwaits, WsJobsTyped, WsNetTyped,
         WsHandlers, WsNoJob, WsHeld, WsMade
<1>3. WsMade'
  BY DEF WsConnect, WsOnly, WsFields, WsSocket, WsInv, WsTyped, WsAwaits, WsNetTyped,
         WsMade, WsHeld
<1>4. WsHeld'
  BY DEF WsConnect, WsOnly, WsFields, WsSocket, WsInv, WsTyped, WsAwaits, WsNetTyped,
         WsHeld, WsMade
<1>5. WsReceiverWoken'
  BY DEF WsConnect, WsOnly, WsFields, WsSocket, WsInv, WsTyped, WsAwaits, WsJobsTyped,
         WsNetTyped, WsReceiverWoken
<1>6. WsBooks'
  BY DEF WsConnect, WsOnly, WsFields, WsSocket, WsInv, WsTyped, WsAwaits, WsJobsTyped,
         WsNetTyped, WsBooks, WsMade, WsHeld
<1> QED  BY <1>1, <1>2, <1>3, <1>4, <1>5, <1>6 DEF WsInv

(* connect with its transport: the handshake is registered.                 *)
LEMMA WsConnectedKeeps ==
  ASSUME WsAssumption, WsInv, NEW ok \in BOOLEAN, WsConnected(ok)
  PROVE  WsInv'
<1>1. CASE ok
  <2>1. /\ ws'.pend = "empty" /\ ws'.shake /\ WsOnly(ws', ws, {"pend", "shake"})
        /\ wsOp.open = "connecting" /\ wsOp' = [wsOp EXCEPT !.open = "greeting"]
        /\ wsNet' = [wsNet EXCEPT !.st = "up"] /\ wsJobs' = wsJobs
    BY <1>1 DEF WsConnected, WsInv, WsTyped, WsOnly, WsSocket, WsFields
  <2>2. WsTyped'
    BY <1>1, <2>1 DEF WsOnly, WsSocket, WsInv, WsTyped, WsAwaits, WsOpens, WsJobsTyped,
           WsNetTyped, WsHandler
  <2>3. WsHandlers'
    BY <1>1, <2>1 DEF WsOnly, WsFields, WsInv, WsTyped, WsAwaits, WsJobsTyped, WsNetTyped,
           WsHandlers, WsNoJob, WsHeld, WsMade
  <2>4. WsMade'
    BY <1>1, <2>1 DEF WsOnly, WsFields, WsSocket, WsInv, WsTyped, WsAwaits, WsNetTyped,
           WsMade, WsHeld
  <2>5. WsHeld'
    BY <1>1, <2>1 DEF WsOnly, WsFields, WsSocket, WsInv, WsTyped, WsAwaits, WsNetTyped,
           WsHeld, WsMade
  <2>6. WsReceiverWoken'
    BY <1>1, <2>1 DEF WsOnly, WsFields, WsSocket, WsInv, WsTyped, WsAwaits, WsJobsTyped,
           WsNetTyped, WsReceiverWoken
  <2>7. WsBooks'
    BY <1>1, <2>1 DEF WsOnly, WsFields, WsSocket, WsInv, WsTyped, WsAwaits, WsJobsTyped,
           WsNetTyped, WsBooks, WsMade, WsHeld
  <2> QED  BY <2>2, <2>3, <2>4, <2>5, <2>6, <2>7 DEF WsInv
<1>2. CASE ~ok
  <2>1. /\ wsOp.open = "connecting" /\ wsOp' = [wsOp EXCEPT !.open = "failed"]
        /\ ws' = ws /\ wsNet' = wsNet /\ wsJobs' = wsJobs
    BY <1>2 DEF WsConnected
  <2>2. WsTyped'
    BY <1>2, <2>1 DEF WsInv, WsTyped, WsAwaits, WsOpens, WsJobsTyped, WsNetTyped
  <2>3. WsHandlers'
    BY <1>2, <2>1 DEF WsInv, WsTyped, WsAwaits, WsJobsTyped, WsNetTyped, WsHandlers,
           WsNoJob, WsHeld, WsMade
  <2>4. WsMade'
    BY <1>2, <2>1 DEF WsSocket, WsInv, WsTyped, WsAwaits, WsNetTyped, WsMade, WsHeld
  <2>5. WsHeld'
    BY <1>2, <2>1 DEF WsSocket, WsInv, WsTyped, WsAwaits, WsNetTyped, WsHeld, WsMade
  <2>6. WsReceiverWoken'
    BY <1>2, <2>1 DEF WsSocket, WsInv, WsTyped, WsAwaits, WsJobsTyped, WsNetTyped,
           WsReceiverWoken
  <2>7. WsBooks'
    BY <1>2, <2>1 DEF WsSocket, WsInv, WsTyped, WsAwaits, WsJobsTyped, WsNetTyped, WsBooks,
           WsMade, WsHeld
  <2> QED  BY <2>2, <2>3, <2>4, <2>5, <2>6, <2>7 DEF WsInv
<1> QED  BY <1>1, <1>2

(* connect with a request that is refused: its transport stays open.        *)
LEMMA WsConnectRefusedKeeps ==
  ASSUME WsAssumption, WsInv, WsConnectRefused
  PROVE  WsInv'
<1>1. /\ wsOp.open = "connecting" /\ wsOp' = [wsOp EXCEPT !.open = "refused"]
      /\ wsNet' = [wsNet EXCEPT !.st = "up"] /\ ws' = ws /\ wsJobs' = wsJobs
  BY DEF WsConnectRefused
<1>2. WsTyped'
  BY <1>1 DEF WsInv, WsTyped, WsAwaits, WsOpens, WsJobsTyped, WsNetTyped
<1>3. WsHandlers'
  BY <1>1 DEF WsInv, WsTyped, WsAwaits, WsJobsTyped, WsNetTyped, WsHandlers, WsNoJob
<1>4. WsMade'
  BY <1>1 DEF WsSocket, WsInv, WsTyped, WsAwaits, WsNetTyped, WsMade
<1>5. WsHeld'
  BY <1>1 DEF WsSocket, WsInv, WsTyped, WsAwaits, WsNetTyped, WsHeld, WsMade
<1>6. WsReceiverWoken'
  BY <1>1 DEF WsInv, WsTyped, WsAwaits, WsReceiverWoken
<1>7. WsBooks'
  BY <1>1 DEF WsSocket, WsInv, WsTyped, WsAwaits, WsNetTyped, WsBooks, WsMade
<1> QED  BY <1>2, <1>3, <1>4, <1>5, <1>6, <1>7 DEF WsInv

(* connect once its request is sent: the timer is armed, the result polled. *)
LEMMA WsGreetedKeeps ==
  ASSUME WsAssumption, WsInv, NEW ok \in BOOLEAN, WsGreeted(ok)
  PROVE  WsInv'
<1> DEFINE w == [ws EXCEPT !.timer = TRUE]
<1>1. wsOp.open = "greeting" /\ wsJobs' = wsJobs /\ (ok => wsNet.st # "gone")
  BY DEF WsGreeted, WsMaySend
<1>2. w.timer /\ WsOnly(w, ws, {"timer"})
  BY DEF WsInv, WsTyped, WsOnly, WsSocket, WsFields
<1>3. ok => WsPollConnect(w)
  BY DEF WsGreeted
<1> HIDE DEF w
<1>6. CASE ~ok
  <2>1. /\ ws'.pend = "none" /\ ~ws'.shake /\ WsOnly(ws', ws, {"pend", "shake"})
        /\ wsOp' = [wsOp EXCEPT !.open = "failed"]
    BY <1>6 DEF WsGreeted, WsInv, WsTyped, WsOnly, WsSocket, WsFields
  <2>2. WsNetTyped' /\ wsNet'.data = wsNet.data
        /\ wsNet'.st = (IF wsNet.st = "up" THEN "closing" ELSE wsNet.st)
    BY <1>6, ShutdownIs DEF WsGreeted, WsInv, WsTyped
  <2>3. WsTyped'
    BY <1>6, <1>1, <2>1, <2>2 DEF WsOnly, WsSocket, WsInv, WsTyped, WsAwaits, WsOpens,
           WsJobsTyped, WsNetTyped, WsHandler
  <2>4. WsHandlers'
    BY <1>6, <1>1, <2>1, <2>2 DEF WsOnly, WsFields, WsInv, WsTyped, WsAwaits, WsJobsTyped,
           WsNetTyped, WsHandlers, WsNoJob, WsHeld, WsMade
  <2>5. WsMade'
    BY <1>6, <1>1, <2>1, <2>2 DEF WsOnly, WsFields, WsSocket, WsInv, WsTyped, WsAwaits,
           WsNetTyped, WsMade, WsHeld
  <2>6. WsHeld'
    BY <1>6, <1>1, <2>1, <2>2 DEF WsOnly, WsFields, WsSocket, WsInv, WsTyped, WsAwaits,
           WsNetTyped, WsHeld, WsMade
  <2>7. WsReceiverWoken'
    <3>1. /\ ws'.lost = ws.lost /\ ws'.waker = ws.waker /\ ws'.msgs = ws.msgs
          /\ ws'.err = ws.err /\ ws'.ended = ws.ended
      BY <2>1 DEF WsOnly, WsFields
    <3>2. wsOp'.recv = wsOp.recv
      BY <2>1 DEF WsInv, WsTyped, WsAwaits
    <3> QED  BY <1>1, <3>1, <3>2 DEF WsInv, WsReceiverWoken
  <2>8. WsBooks'
    BY <1>6, <1>1, <2>1, <2>2 DEF WsOnly, WsFields, WsSocket, WsInv, WsTyped, WsAwaits,
           WsJobsTyped, WsNetTyped, WsBooks, WsMade, WsHeld
  <2> QED  BY <2>3, <2>4, <2>5, <2>6, <2>7, <2>8 DEF WsInv
<1>7. CASE ok /\ w.pend = "empty"
  <2>1. /\ ws' = [w EXCEPT !.waiter = TRUE] /\ wsOp' = [wsOp EXCEPT !.open = "waiting"]
        /\ wsNet' = wsNet
    BY <1>7, <1>3 DEF WsPollConnect, WsTakeResult
  <2>2. ws'.pend = "empty" /\ ws'.waiter /\ ws'.timer /\ WsOnly(ws', ws, {"timer", "waiter"})
    BY <1>7, <1>2, <2>1 DEF WsOnly, WsSocket, WsFields
  <2>3. WsTyped'
    BY <1>7, <1>1, <2>1, <2>2 DEF WsOnly, WsSocket, WsInv, WsTyped, WsAwaits, WsOpens,
           WsJobsTyped, WsNetTyped, WsHandler
  <2>4. WsHandlers'
    BY <1>7, <1>1, <2>1, <2>2 DEF WsOnly, WsFields, WsInv, WsTyped, WsAwaits, WsJobsTyped,
           WsNetTyped, WsHandlers, WsNoJob, WsHeld, WsMade
  <2>5. WsMade'
    BY <1>7, <1>1, <2>1, <2>2 DEF WsOnly, WsFields, WsSocket, WsInv, WsTyped, WsAwaits,
           WsNetTyped, WsMade, WsHeld
  <2>6. WsHeld'
    BY <1>7, <1>1, <2>1, <2>2 DEF WsOnly, WsFields, WsSocket, WsInv, WsTyped, WsAwaits,
           WsNetTyped, WsHeld, WsMade
  <2>7. WsReceiverWoken'
    BY <1>7, <1>1, <2>1, <2>2 DEF WsOnly, WsFields, WsSocket, WsInv, WsTyped, WsAwaits,
           WsJobsTyped, WsNetTyped, WsReceiverWoken
  <2>8. WsBooks'
    BY <1>7, <1>1, <2>1, <2>2 DEF WsOnly, WsFields, WsSocket, WsInv, WsTyped, WsAwaits,
           WsJobsTyped, WsNetTyped, WsBooks, WsMade, WsHeld
  <2> QED  BY <2>3, <2>4, <2>5, <2>6, <2>7, <2>8 DEF WsInv
<1>8. CASE ok /\ w.pend = "ok"
  <2>1. /\ ws' = [w EXCEPT !.pend = "none"] /\ wsNet' = wsNet
        /\ wsOp' = [wsOp EXCEPT !.open = "done", !.active = TRUE]
    BY <1>8, <1>3 DEF WsPollConnect, WsTakeResult
  <2>2. /\ ws'.pend = "none" /\ ws.pend = "ok" /\ ws'.timer
        /\ WsOnly(ws', ws, {"timer", "pend"})
    BY <1>8, <1>2, <2>1 DEF WsOnly, WsSocket, WsFields
  <2>3. WsTyped'
    BY <1>8, <1>1, <2>1, <2>2 DEF WsOnly, WsSocket, WsInv, WsTyped, WsAwaits, WsOpens,
           WsJobsTyped, WsNetTyped, WsHandler
  <2>4. WsHandlers'
    BY <1>8, <1>1, <2>1, <2>2 DEF WsOnly, WsFields, WsInv, WsTyped, WsAwaits, WsJobsTyped,
           WsNetTyped, WsHandlers, WsNoJob, WsHeld, WsMade
  <2>5. WsMade'
    BY <1>8, <1>1, <2>1, <2>2 DEF WsOnly, WsFields, WsSocket, WsInv, WsTyped, WsAwaits,
           WsNetTyped, WsMade, WsHeld
  <2>6. WsHeld'
    BY <1>8, <1>1, <2>1, <2>2 DEF WsOnly, WsFields, WsSocket, WsInv, WsTyped, WsAwaits,
           WsNetTyped, WsHeld, WsMade
  <2>7. WsReceiverWoken'
    BY <1>8, <1>1, <2>1, <2>2 DEF WsOnly, WsFields, WsSocket, WsInv, WsTyped, WsAwaits,
           WsJobsTyped, WsNetTyped, WsReceiverWoken
  <2>8. WsBooks'
    BY <1>8, <1>1, <2>1, <2>2 DEF WsOnly, WsFields, WsSocket, WsInv, WsTyped, WsAwaits,
           WsJobsTyped, WsNetTyped, WsBooks, WsMade, WsHeld
  <2> QED  BY <2>3, <2>4, <2>5, <2>6, <2>7, <2>8 DEF WsInv
<1>9. CASE ok /\ w.pend = "failed"
  <2>1. /\ ws' = [w EXCEPT !.pend = "none"] /\ wsOp' = [wsOp EXCEPT !.open = "failed"]
        /\ WsShutdown
    BY <1>9, <1>3 DEF WsPollConnect, WsTakeResult
  <2>2. /\ ws'.pend = "none" /\ ws.pend = "failed" /\ ws'.timer
        /\ WsOnly(ws', ws, {"timer", "pend"})
    BY <1>9, <1>2, <2>1 DEF WsOnly, WsSocket, WsFields
  <2>3. WsNetTyped' /\ wsNet'.data = wsNet.data
        /\ wsNet'.st = (IF wsNet.st = "up" THEN "closing" ELSE wsNet.st)
    BY <2>1, ShutdownIs DEF WsInv, WsTyped
  <2>4. WsTyped'
    BY <1>9, <1>1, <2>1, <2>2, <2>3 DEF WsOnly, WsSocket, WsInv, WsTyped, WsAwaits, WsOpens,
           WsJobsTyped, WsNetTyped, WsHandler
  <2>5. WsHandlers'
    BY <1>9, <1>1, <2>1, <2>2, <2>3 DEF WsOnly, WsFields, WsInv, WsTyped, WsAwaits,
           WsJobsTyped, WsNetTyped, WsHandlers, WsNoJob, WsHeld, WsMade
  <2>6. WsMade'
    BY <1>9, <1>1, <2>1, <2>2, <2>3 DEF WsOnly, WsFields, WsSocket, WsInv, WsTyped,
           WsAwaits, WsNetTyped, WsMade, WsHeld
  <2>7. WsHeld'
    BY <1>9, <1>1, <2>1, <2>2, <2>3 DEF WsOnly, WsFields, WsSocket, WsInv, WsTyped,
           WsAwaits, WsNetTyped, WsHeld, WsMade
  <2>8. WsReceiverWoken'
    BY <1>9, <1>1, <2>1, <2>2, <2>3 DEF WsOnly, WsFields, WsSocket, WsInv, WsTyped,
           WsAwaits, WsJobsTyped, WsNetTyped, WsReceiverWoken
  <2>9. WsBooks'
    BY <1>9, <1>1, <2>1, <2>2, <2>3 DEF WsOnly, WsFields, WsSocket, WsInv, WsTyped,
           WsAwaits, WsJobsTyped, WsNetTyped, WsBooks, WsMade, WsHeld
  <2> QED  BY <2>4, <2>5, <2>6, <2>7, <2>8, <2>9 DEF WsInv
<1> QED  BY <1>6, <1>7, <1>8, <1>9, <1>3 DEF WsPollConnect, WsTakeResult

(* connect woken with its result.                                           *)
LEMMA WsConnectWokenKeeps ==
  ASSUME WsAssumption, WsInv, WsConnectWoken
  PROVE  WsInv'
<1>1. wsOp.open = "woken" /\ WsTakeResult(ws) /\ wsJobs' = wsJobs
  BY DEF WsConnectWoken
<1>2. CASE ws.pend = "ok"
  <2>1. /\ ws' = [ws EXCEPT !.pend = "none"] /\ wsNet' = wsNet
        /\ wsOp' = [wsOp EXCEPT !.open = "done", !.active = TRUE]
    BY <1>2, <1>1 DEF WsTakeResult
  <2>2. ws'.pend = "none" /\ WsOnly(ws', ws, {"pend"})
    BY <2>1 DEF WsInv, WsTyped, WsOnly, WsSocket, WsFields
  <2>3. WsTyped'
    BY <1>2, <1>1, <2>1, <2>2 DEF WsOnly, WsSocket, WsInv, WsTyped, WsAwaits, WsOpens,
           WsJobsTyped, WsNetTyped, WsHandler
  <2>4. WsHandlers'
    BY <1>2, <1>1, <2>1, <2>2 DEF WsOnly, WsFields, WsInv, WsTyped, WsAwaits, WsJobsTyped,
           WsNetTyped, WsHandlers, WsNoJob, WsHeld, WsMade
  <2>5. WsMade'
    BY <1>2, <1>1, <2>1, <2>2 DEF WsOnly, WsFields, WsSocket, WsInv, WsTyped, WsAwaits,
           WsNetTyped, WsMade, WsHeld
  <2>6. WsHeld'
    BY <1>2, <1>1, <2>1, <2>2 DEF WsOnly, WsFields, WsSocket, WsInv, WsTyped, WsAwaits,
           WsNetTyped, WsHeld, WsMade
  <2>7. WsReceiverWoken'
    BY <1>2, <1>1, <2>1, <2>2 DEF WsOnly, WsFields, WsSocket, WsInv, WsTyped, WsAwaits,
           WsJobsTyped, WsNetTyped, WsReceiverWoken
  <2>8. WsBooks'
    BY <1>2, <1>1, <2>1, <2>2 DEF WsOnly, WsFields, WsSocket, WsInv, WsTyped, WsAwaits,
           WsJobsTyped, WsNetTyped, WsBooks, WsMade, WsHeld
  <2> QED  BY <2>3, <2>4, <2>5, <2>6, <2>7, <2>8 DEF WsInv
<1>3. CASE ws.pend = "failed"
  <2>1. /\ ws' = [ws EXCEPT !.pend = "none"] /\ wsOp' = [wsOp EXCEPT !.open = "failed"]
        /\ WsShutdown
    BY <1>3, <1>1 DEF WsTakeResult
  <2>2. ws'.pend = "none" /\ WsOnly(ws', ws, {"pend"})
    BY <2>1 DEF WsInv, WsTyped, WsOnly, WsSocket, WsFields
  <2>3. WsNetTyped' /\ wsNet'.data = wsNet.data
        /\ wsNet'.st = (IF wsNet.st = "up" THEN "closing" ELSE wsNet.st)
    BY <2>1, ShutdownIs DEF WsInv, WsTyped
  <2>4. WsTyped'
    BY <1>3, <1>1, <2>1, <2>2, <2>3 DEF WsOnly, WsSocket, WsInv, WsTyped, WsAwaits, WsOpens,
           WsJobsTyped, WsNetTyped, WsHandler
  <2>5. WsHandlers'
    BY <1>3, <1>1, <2>1, <2>2, <2>3 DEF WsOnly, WsFields, WsInv, WsTyped, WsAwaits,
           WsJobsTyped, WsNetTyped, WsHandlers, WsNoJob, WsHeld, WsMade
  <2>6. WsMade'
    BY <1>3, <1>1, <2>1, <2>2, <2>3 DEF WsOnly, WsFields, WsSocket, WsInv, WsTyped,
           WsAwaits, WsNetTyped, WsMade, WsHeld
  <2>7. WsHeld'
    BY <1>3, <1>1, <2>1, <2>2, <2>3 DEF WsOnly, WsFields, WsSocket, WsInv, WsTyped,
           WsAwaits, WsNetTyped, WsHeld, WsMade
  <2>8. WsReceiverWoken'
    BY <1>3, <1>1, <2>1, <2>2, <2>3 DEF WsOnly, WsFields, WsSocket, WsInv, WsTyped,
           WsAwaits, WsJobsTyped, WsNetTyped, WsReceiverWoken
  <2>9. WsBooks'
    BY <1>3, <1>1, <2>1, <2>2, <2>3 DEF WsOnly, WsFields, WsSocket, WsInv, WsTyped,
           WsAwaits, WsJobsTyped, WsNetTyped, WsBooks, WsMade, WsHeld
  <2> QED  BY <2>4, <2>5, <2>6, <2>7, <2>8, <2>9 DEF WsInv
<1> QED  BY <1>2, <1>3, <1>1 DEF WsTakeResult

(* Data during the handshake: more to read, a refusal, or a socket.         *)
LEMMA WsHandshakeKeeps ==
  ASSUME WsAssumption, WsInv, NEW n \in 1 .. WsMaxData, NEW tok \in {"more", "accept", "accept1", "refuse"}, WsHandshake(n, tok)
  PROVE  WsInv'
<1>1. /\ ws.pend # "none" /\ ~ws.entry /\ wsNet.st \in {"up", "closing"}
      /\ n = wsNet.data + 1 /\ wsNet' = [wsNet EXCEPT !.data = n] /\ wsJobs' = wsJobs
  BY DEF WsHandshake, WsDelivers
<1>2. CASE ~ws.shake \/ tok = "more"
  <2>1. ws' = ws /\ wsOp' = wsOp
    BY <1>2 DEF WsHandshake
  <2>2. WsTyped'
    BY <1>2, <1>1, <2>1 DEF WsInv, WsTyped, WsAwaits, WsOpens, WsJobsTyped, WsNetTyped
  <2>3. WsHandlers'
    BY <1>2, <1>1, <2>1 DEF WsInv, WsTyped, WsAwaits, WsJobsTyped, WsNetTyped, WsHandlers,
           WsNoJob, WsHeld, WsMade
  <2>4. WsMade'
    BY <1>2, <1>1, <2>1 DEF WsSocket, WsInv, WsTyped, WsAwaits, WsNetTyped, WsMade, WsHeld
  <2>5. WsHeld'
    BY <1>2, <1>1, <2>1 DEF WsSocket, WsInv, WsTyped, WsAwaits, WsNetTyped, WsHeld, WsMade
  <2>6. WsReceiverWoken'
    BY <1>2, <1>1, <2>1 DEF WsSocket, WsInv, WsTyped, WsAwaits, WsJobsTyped, WsNetTyped,
           WsReceiverWoken
  <2>7. WsBooks'
    BY <1>2, <1>1, <2>1 DEF WsSocket, WsInv, WsTyped, WsAwaits, WsJobsTyped, WsNetTyped,
           WsBooks, WsMade, WsHeld
  <2> QED  BY <2>2, <2>3, <2>4, <2>5, <2>6, <2>7 DEF WsInv
<1>3. CASE ws.shake /\ tok = "refuse"
  <2> DEFINE w == [ws EXCEPT !.shake = FALSE]
  <2>1. ws' = WsResult(w, "failed") /\ wsOp' = WsWakeConnect(ws, wsOp)
    BY <1>3 DEF WsHandshake
  <2>2. ~w.shake /\ WsOnly(w, ws, {"shake"})
    BY DEF WsInv, WsTyped, WsOnly, WsSocket, WsFields
  <2> HIDE DEF w
  <2>3. /\ ws'.pend = (IF w.pend = "none" THEN "none" ELSE "failed")
        /\ (ws'.waiter => w.pend = "none" /\ w.waiter) /\ WsOnly(ws', w, {"pend", "waiter"})
    BY <2>1, <2>2, ResultIs DEF WsOnly
  <2>4. /\ ws'.pend = "failed" /\ ~ws'.waiter /\ ~ws'.shake
        /\ WsOnly(ws', ws, {"pend", "waiter", "shake"})
    BY <1>1, <2>2, <2>3 DEF WsOnly, WsSocket, WsFields
  <2>5. /\ wsOp' \in WsAwaits /\ wsOp'.recv = wsOp.recv /\ wsOp'.close = wsOp.close
        /\ wsOp'.active = wsOp.active
        /\ wsOp'.open = (IF ws.pend # "none" /\ ws.waiter THEN "woken" ELSE wsOp.open)
    BY <2>1, WakeConnectIs DEF WsInv, WsTyped
  <2>6. wsOp'.open # "waiting" /\ (wsOp'.open \in {"done", "connecting"} => wsOp'.open = wsOp.open)
    BY <1>1, <2>5 DEF WsInv, WsBooks
  <2>7. /\ ws'.entry = ws.entry /\ ws'.ended = ws.ended /\ ws'.server = ws.server
        /\ ws'.tail = ws.tail /\ wsNet'.st = wsNet.st
    BY <1>1, <2>4 DEF WsOnly, WsFields, WsInv, WsTyped, WsNetTyped
  <2>8. WsTyped'
    BY <1>3, <1>1, <2>4, <2>5, <2>6, <2>7 DEF WsOnly, WsSocket, WsInv, WsTyped, WsAwaits,
           WsOpens, WsJobsTyped, WsNetTyped, WsHandler
  <2>9. WsHandlers'
    BY <1>3, <1>1, <2>4, <2>5, <2>6, <2>7 DEF WsOnly, WsFields, WsInv, WsTyped, WsAwaits,
           WsJobsTyped, WsNetTyped, WsHandlers, WsNoJob, WsHeld, WsMade
  <2>10. WsMade'
    BY <1>3, <1>1, <2>4, <2>5, <2>6, <2>7 DEF WsOnly, WsFields, WsSocket, WsInv, WsTyped,
           WsAwaits, WsNetTyped, WsMade, WsHeld
  <2>11. WsHeld'
    BY <1>3, <1>1, <2>4, <2>5, <2>6, <2>7 DEF WsOnly, WsFields, WsSocket, WsInv, WsTyped,
           WsAwaits, WsNetTyped, WsHeld, WsMade
  <2>12. WsReceiverWoken'
    BY <1>3, <1>1, <2>4, <2>5, <2>6, <2>7 DEF WsOnly, WsFields, WsSocket, WsInv, WsTyped,
           WsAwaits, WsJobsTyped, WsNetTyped, WsReceiverWoken
  <2>13. WsBooks'
    BY <1>3, <1>1, <2>4, <2>5, <2>6, <2>7 DEF WsOnly, WsFields, WsSocket, WsInv, WsTyped,
           WsAwaits, WsJobsTyped, WsNetTyped, WsBooks, WsMade, WsHeld
  <2> QED  BY <2>8, <2>9, <2>10, <2>11, <2>12, <2>13 DEF WsInv
<1>4. CASE ws.shake /\ tok \in {"accept", "accept1"}
  <2> DEFINE w == [ws EXCEPT !.shake = FALSE]
             tail == IF tok = "accept" THEN 0 ELSE 1
             v == WsNew(w, tail)
  <2>1. ws' = WsResult(v, "ok") /\ wsOp' = WsWakeConnect(ws, wsOp)
    BY <1>4 DEF WsHandshake
  <2>2. ~w.shake /\ WsOnly(w, ws, {"shake"})
    BY DEF WsInv, WsTyped, WsOnly, WsSocket, WsFields
  <2>3. tail \in Nat
    OBVIOUS
  <2> HIDE DEF w, tail
  <2>4. v.there /\ v.entry /\ v.tail = tail /\ WsOnly(v, w, {"there", "entry", "tail"})
    BY <2>2, <2>3, NewIs DEF WsOnly
  <2> HIDE DEF v
  <2>5. /\ ws'.pend = (IF v.pend = "none" THEN "none" ELSE "ok")
        /\ (ws'.waiter => v.pend = "none" /\ v.waiter) /\ WsOnly(ws', v, {"pend", "waiter"})
    BY <2>1, <2>4, ResultIs DEF WsOnly
  <2>6. WsOnly(v, ws, {"shake", "there", "entry", "tail"}) /\ ~v.shake
    BY <2>2, <2>4 DEF WsOnly, WsSocket, WsFields
  <2>7. /\ ws'.pend = "ok" /\ ~ws'.waiter /\ ~ws'.shake /\ ws'.there /\ ws'.entry
        /\ WsOnly(ws', ws, {"pend", "waiter", "shake", "there", "entry", "tail"})
    BY <1>1, <2>4, <2>5, <2>6 DEF WsOnly, WsSocket, WsFields
  <2>8. /\ wsOp' \in WsAwaits /\ wsOp'.recv = wsOp.recv /\ wsOp'.close = wsOp.close
        /\ wsOp'.active = wsOp.active
        /\ wsOp'.open = (IF ws.pend # "none" /\ ws.waiter THEN "woken" ELSE wsOp.open)
    BY <2>1, WakeConnectIs DEF WsInv, WsTyped
  <2>9. /\ ws'.msgs = ws.msgs /\ ws'.err = ws.err /\ ws'.ended = ws.ended
        /\ ws'.waker = ws.waker /\ ws'.lost = ws.lost
    BY <2>7 DEF WsOnly, WsFields
  <2>10. WsTyped'
    BY <1>1, <2>7, <2>8 DEF WsOnly, WsInv, WsTyped, WsJobsTyped, WsNetTyped
  <2>11. WsHandlers'
    BY <1>4, <1>1, <2>7, <2>8, <2>9 DEF WsOnly, WsFields, WsInv, WsTyped, WsAwaits,
           WsJobsTyped, WsNetTyped, WsHandlers, WsNoJob, WsHeld, WsMade
  <2>12. WsMade'
    BY <1>4, <1>1, <2>7, <2>8, <2>9 DEF WsOnly, WsFields, WsSocket, WsInv, WsTyped,
           WsAwaits, WsNetTyped, WsMade, WsHeld
  <2>13. WsHeld'
    BY <1>4, <1>1, <2>7, <2>8, <2>9 DEF WsOnly, WsFields, WsSocket, WsInv, WsTyped,
           WsAwaits, WsNetTyped, WsHeld, WsMade
  <2>14. WsReceiverWoken'
    BY <1>4, <1>1, <2>7, <2>8, <2>9 DEF WsOnly, WsFields, WsSocket, WsInv, WsTyped,
           WsAwaits, WsJobsTyped, WsNetTyped, WsReceiverWoken
  <2>15. WsBooks'
    <3>1. ws'.server = ws.server /\ ~ws.server /\ ~ws.ended
      BY <1>4, <2>7 DEF WsOnly, WsFields, WsInv, WsMade
    <3>2. wsOp'.open # "waiting"
      BY <2>8 DEF WsInv, WsBooks
    <3> QED BY <2>7, <2>9, <3>1, <3>2 DEF WsBooks
  <2> QED  BY <2>10, <2>11, <2>12, <2>13, <2>14, <2>15 DEF WsInv
<1> QED  BY <1>2, <1>3, <1>4

(* The timer of the handshake.                                              *)
LEMMA WsHandshakeTimeoutKeeps ==
  ASSUME WsAssumption, WsInv, WsHandshakeTimeout
  PROVE  WsInv'
<1>1. ws.timer /\ wsJobs' = wsJobs
  BY DEF WsHandshakeTimeout
<1>2. CASE ws.pend = "empty"
  <2> DEFINE w == [ws EXCEPT !.timer = FALSE]
  <2>1. ws' = WsResult(w, "failed") /\ wsOp' = WsWakeConnect(ws, wsOp) /\ WsShutdown
    BY <1>2 DEF WsHandshakeTimeout
  <2>2. ~w.timer /\ WsOnly(w, ws, {"timer"})
    BY DEF WsInv, WsTyped, WsOnly, WsSocket, WsFields
  <2> HIDE DEF w
  <2>3. /\ ws'.pend = (IF w.pend = "none" THEN "none" ELSE "failed")
        /\ (ws'.waiter => w.pend = "none" /\ w.waiter) /\ WsOnly(ws', w, {"pend", "waiter"})
    BY <2>1, <2>2, ResultIs DEF WsOnly
  <2>4. /\ ws'.pend = "failed" /\ ~ws'.waiter
        /\ WsOnly(ws', ws, {"pend", "waiter", "timer"})
    BY <1>2, <2>2, <2>3 DEF WsOnly, WsSocket, WsFields
  <2>5. /\ wsOp' \in WsAwaits /\ wsOp'.recv = wsOp.recv /\ wsOp'.close = wsOp.close
        /\ wsOp'.active = wsOp.active
        /\ wsOp'.open = (IF ws.pend # "none" /\ ws.waiter THEN "woken" ELSE wsOp.open)
    BY <2>1, WakeConnectIs DEF WsInv, WsTyped
  <2>6. WsNetTyped' /\ wsNet'.data = wsNet.data
        /\ wsNet'.st = (IF wsNet.st = "up" THEN "closing" ELSE wsNet.st)
    BY <2>1, ShutdownIs DEF WsInv, WsTyped
  <2>7. WsTyped'
    BY <1>2, <1>1, <2>4, <2>5, <2>6 DEF WsOnly, WsSocket, WsInv, WsTyped, WsAwaits, WsOpens,
           WsJobsTyped, WsNetTyped, WsHandler
  <2>8. WsHandlers'
    BY <1>2, <1>1, <2>4, <2>5, <2>6 DEF WsOnly, WsFields, WsInv, WsTyped, WsAwaits,
           WsJobsTyped, WsNetTyped, WsHandlers, WsNoJob, WsHeld, WsMade
  <2>9. WsMade'
    BY <1>2, <1>1, <2>4, <2>5, <2>6 DEF WsOnly, WsFields, WsSocket, WsInv, WsTyped,
           WsAwaits, WsNetTyped, WsMade, WsHeld
  <2>10. WsHeld'
    BY <1>2, <1>1, <2>4, <2>5, <2>6 DEF WsOnly, WsFields, WsSocket, WsInv, WsTyped,
           WsAwaits, WsNetTyped, WsHeld, WsMade
  <2>11. WsReceiverWoken'
    BY <1>2, <1>1, <2>4, <2>5, <2>6 DEF WsOnly, WsFields, WsSocket, WsInv, WsTyped,
           WsAwaits, WsJobsTyped, WsNetTyped, WsReceiverWoken
  <2>12. WsBooks'
    BY <1>2, <1>1, <2>4, <2>5, <2>6 DEF WsOnly, WsFields, WsSocket, WsInv, WsTyped,
           WsAwaits, WsJobsTyped, WsNetTyped, WsBooks, WsMade, WsHeld
  <2> QED  BY <2>7, <2>8, <2>9, <2>10, <2>11, <2>12 DEF WsInv
<1>3. CASE ws.pend # "empty"
  <2>1. WsOnly(ws', ws, {"timer"}) /\ wsOp' = wsOp /\ wsNet' = wsNet
    BY <1>3 DEF WsHandshakeTimeout, WsInv, WsTyped, WsOnly, WsSocket, WsFields
  <2>2. WsTyped'
    BY <1>3, <1>1, <2>1 DEF WsOnly, WsSocket, WsInv, WsTyped, WsAwaits, WsOpens,
           WsJobsTyped, WsNetTyped, WsHandler
  <2>3. WsHandlers'
    BY <1>3, <1>1, <2>1 DEF WsOnly, WsFields, WsInv, WsTyped, WsAwaits, WsJobsTyped,
           WsNetTyped, WsHandlers, WsNoJob, WsHeld, WsMade
  <2>4. WsMade'
    BY <1>3, <1>1, <2>1 DEF WsOnly, WsFields, WsSocket, WsInv, WsTyped, WsAwaits,
           WsNetTyped, WsMade, WsHeld
  <2>5. WsHeld'
    BY <1>3, <1>1, <2>1 DEF WsOnly, WsFields, WsSocket, WsInv, WsTyped, WsAwaits,
           WsNetTyped, WsHeld, WsMade
  <2>6. WsReceiverWoken'
    BY <1>3, <1>1, <2>1 DEF WsOnly, WsFields, WsSocket, WsInv, WsTyped, WsAwaits,
           WsJobsTyped, WsNetTyped, WsReceiverWoken
  <2>7. WsBooks'
    BY <1>3, <1>1, <2>1 DEF WsOnly, WsFields, WsSocket, WsInv, WsTyped, WsAwaits,
           WsJobsTyped, WsNetTyped, WsBooks, WsMade, WsHeld
  <2> QED  BY <2>2, <2>3, <2>4, <2>5, <2>6, <2>7 DEF WsInv
<1> QED  BY <1>2, <1>3

(* Close or Error of the transport.                                         *)
LEMMA WsTransportEndsKeeps ==
  ASSUME WsAssumption, WsInv, NEW ok \in BOOLEAN, WsTransportEnds(ok)
  PROVE  WsInv'
<1> DEFINE w == WsResult(ws, "failed")
           op == WsWakeConnect(ws, wsOp)
<1>1. /\ wsNet.st \in {"up", "closing"} /\ wsNet' = [wsNet EXCEPT !.st = "gone"]
      /\ wsJobs' = wsJobs
  BY DEF WsTransportEnds, WsDelivers
<1>2. /\ w.pend = (IF ws.pend = "none" THEN "none" ELSE "failed")
      /\ (w.waiter => ws.pend = "none" /\ ws.waiter) /\ WsOnly(w, ws, {"pend", "waiter"})
  BY ResultIs DEF WsInv, WsTyped
<1>3. /\ op \in WsAwaits /\ op.recv = wsOp.recv /\ op.close = wsOp.close
      /\ op.active = wsOp.active
      /\ op.open = (IF ws.pend # "none" /\ ws.waiter THEN "woken" ELSE wsOp.open)
  BY WakeConnectIs DEF WsInv, WsTyped
<1>4. IF ws.entry THEN WsOnClosed(w, op, ok) ELSE ws' = w /\ wsOp' = op
  BY DEF WsTransportEnds
<1> HIDE DEF w, op
<1>7. CASE ws.entry
  <2>1. /\ ws'.ended /\ ~ws'.waker /\ ~ws'.entry
        /\ WsOnly(ws', w, {"ended", "err", "waker", "entry"}) /\ wsOp' = WsWoken(op, w.waker)
    BY <1>7, <1>2, <1>4, ClosedIs DEF WsOnly
  <2>2. w.waker = ws.waker /\ ws.waker \in BOOLEAN
    BY <1>2 DEF WsOnly, WsFields, WsInv, WsTyped, WsSocket
  <2>3. /\ wsOp' \in WsAwaits /\ wsOp'.open = op.open /\ wsOp'.close = op.close
        /\ wsOp'.active = op.active
        /\ wsOp'.recv = (IF ws.waker /\ op.recv = "waiting" THEN "woken" ELSE op.recv)
    BY <1>3, <2>1, <2>2, WokenIs
  <2>4. /\ ws'.pend = w.pend /\ ws'.waiter = w.waiter
        /\ WsOnly(ws', ws, {"pend", "waiter", "ended", "err", "waker", "entry"})
    BY <1>2, <2>1 DEF WsOnly, WsSocket, WsFields
  <2>5. WsTyped'
    BY <1>7, <1>1, <1>2, <1>3, <2>1, <2>3, <2>4 DEF WsOnly, WsSocket, WsInv, WsTyped,
           WsAwaits, WsOpens, WsJobsTyped, WsNetTyped, WsHandler
  <2>6. WsHandlers'
    BY <1>7, <1>1, <1>2, <1>3, <2>1, <2>3, <2>4 DEF WsOnly, WsFields, WsInv, WsTyped,
           WsAwaits, WsJobsTyped, WsNetTyped, WsHandlers, WsNoJob, WsHeld, WsMade
  <2>7. WsMade'
    BY <1>7, <1>1, <1>2, <1>3, <2>1, <2>3, <2>4 DEF WsOnly, WsFields, WsSocket, WsInv,
           WsTyped, WsAwaits, WsNetTyped, WsMade, WsHeld
  <2>8. WsHeld'
    BY <1>7, <1>1, <1>2, <1>3, <2>1, <2>3, <2>4 DEF WsOnly, WsFields, WsSocket, WsInv,
           WsTyped, WsAwaits, WsNetTyped, WsHeld, WsMade
  <2>9. WsReceiverWoken'
    <3>1. ws'.lost = ws.lost
      BY <2>4 DEF WsOnly, WsFields
    <3>2. wsOp'.recv = "waiting" => wsOp.recv = "waiting" /\ ~ws.waker
      BY <1>3, <2>3
    <3> QED  BY <1>1, <3>1, <3>2 DEF WsInv, WsReceiverWoken
  <2>10. WsBooks'
    BY <1>7, <1>1, <1>2, <1>3, <2>1, <2>3, <2>4 DEF WsOnly, WsFields, WsSocket, WsInv,
           WsTyped, WsAwaits, WsJobsTyped, WsNetTyped, WsBooks, WsMade, WsHeld
  <2> QED  BY <2>5, <2>6, <2>7, <2>8, <2>9, <2>10 DEF WsInv
<1>8. CASE ~ws.entry
  <2>1. ws' = w /\ wsOp' = op
    BY <1>8, <1>4
  <2>2. WsTyped'
    BY <1>8, <1>1, <1>2, <1>3, <2>1 DEF WsOnly, WsSocket, WsInv, WsTyped, WsAwaits, WsOpens,
           WsJobsTyped, WsNetTyped, WsHandler
  <2>3. WsHandlers'
    BY <1>8, <1>1, <1>2, <1>3, <2>1 DEF WsOnly, WsFields, WsInv, WsTyped, WsAwaits,
           WsJobsTyped, WsNetTyped, WsHandlers, WsNoJob, WsHeld, WsMade
  <2>4. WsMade'
    BY <1>8, <1>1, <1>2, <1>3, <2>1 DEF WsOnly, WsFields, WsSocket, WsInv, WsTyped,
           WsAwaits, WsNetTyped, WsMade, WsHeld
  <2>5. WsHeld'
    BY <1>8, <1>1, <1>2, <1>3, <2>1 DEF WsOnly, WsFields, WsSocket, WsInv, WsTyped,
           WsAwaits, WsNetTyped, WsHeld, WsMade
  <2>6. WsReceiverWoken'
    BY <1>8, <1>1, <1>2, <1>3, <2>1 DEF WsOnly, WsFields, WsSocket, WsInv, WsTyped,
           WsAwaits, WsJobsTyped, WsNetTyped, WsReceiverWoken
  <2>7. WsBooks'
    BY <1>8, <1>1, <1>2, <1>3, <2>1, ZenonT(40) DEF WsOnly, WsFields, WsSocket, WsInv, WsTyped,
           WsAwaits, WsJobsTyped, WsNetTyped, WsBooks, WsMade, WsHeld
  <2> QED  BY <2>2, <2>3, <2>4, <2>5, <2>6, <2>7 DEF WsInv
<1> QED  BY <1>7, <1>8

(* recv: a message, the error, the end, or its waker is left.               *)
LEMMA WsRecvKeeps ==
  ASSUME WsAssumption, WsInv, WsRecv
  PROVE  WsInv'
<1>1. /\ wsOp.active /\ wsOp.recv \in {"idle", "woken"}
      /\ wsJobs' = wsJobs /\ wsNet' = wsNet
  BY DEF WsRecv
<1>2. CASE ws.msgs > 0
  <2> DEFINE p == ws.paused /\ ws.msgs - 1 > WsLow
             r == IF ws.paused /\ ~ws'.paused THEN "resuming" ELSE "idle"
  <2>1. ws' = [ws EXCEPT !.msgs = @ - 1, !.paused = p] /\ wsOp' = [wsOp EXCEPT !.recv = r]
    BY <1>2 DEF WsRecv, WsInv, WsTyped, WsSocket
  <2>2. p \in BOOLEAN /\ r \in {"resuming", "idle"} /\ ws.msgs - 1 \in Nat
    BY <1>2 DEF WsInv, WsTyped, WsSocket
  <2> HIDE DEF p, r
  <2>3. WsOnly(ws', ws, {"msgs", "paused"})
    BY <2>1, <2>2 DEF WsInv, WsTyped, WsOnly, WsSocket, WsFields
  <2>4. WsTyped'
    BY <1>2, <1>1, <2>1, <2>2, <2>3 DEF WsOnly, WsSocket, WsInv, WsTyped, WsAwaits, WsOpens,
           WsJobsTyped, WsNetTyped, WsHandler
  <2>5. WsHandlers'
    BY <1>2, <1>1, <2>1, <2>2, <2>3 DEF WsOnly, WsFields, WsInv, WsTyped, WsAwaits,
           WsJobsTyped, WsNetTyped, WsHandlers, WsNoJob, WsHeld, WsMade
  <2>6. WsMade'
    BY <1>2, <1>1, <2>1, <2>2, <2>3 DEF WsOnly, WsFields, WsSocket, WsInv, WsTyped,
           WsAwaits, WsNetTyped, WsMade, WsHeld
  <2>7. WsHeld'
    BY <1>2, <1>1, <2>1, <2>2, <2>3 DEF WsOnly, WsFields, WsSocket, WsInv, WsTyped,
           WsAwaits, WsNetTyped, WsHeld, WsMade
  <2>8. WsReceiverWoken'
    BY <1>2, <1>1, <2>1, <2>2, <2>3 DEF WsOnly, WsFields, WsSocket, WsInv, WsTyped,
           WsAwaits, WsJobsTyped, WsNetTyped, WsReceiverWoken
  <2>9. WsBooks'
    BY <1>2, <1>1, <2>1, <2>2, <2>3 DEF WsOnly, WsFields, WsSocket, WsInv, WsTyped,
           WsAwaits, WsJobsTyped, WsNetTyped, WsBooks, WsMade, WsHeld
  <2> QED  BY <2>4, <2>5, <2>6, <2>7, <2>8, <2>9 DEF WsInv
<1>3. CASE ws.msgs = 0 /\ ws.err
  <2>1. ws' = [ws EXCEPT !.err = FALSE] /\ wsOp' = [wsOp EXCEPT !.recv = "idle"]
    BY <1>3 DEF WsRecv
  <2>2. WsOnly(ws', ws, {"err"})
    BY <2>1 DEF WsInv, WsTyped, WsOnly, WsSocket, WsFields
  <2>3. WsTyped'
    BY <1>3, <1>1, <2>1, <2>2 DEF WsOnly, WsSocket, WsInv, WsTyped, WsAwaits, WsOpens,
           WsJobsTyped, WsNetTyped, WsHandler
  <2>4. WsHandlers'
    BY <1>3, <1>1, <2>1, <2>2 DEF WsOnly, WsFields, WsInv, WsTyped, WsAwaits, WsJobsTyped,
           WsNetTyped, WsHandlers, WsNoJob, WsHeld, WsMade
  <2>5. WsMade'
    BY <1>3, <1>1, <2>1, <2>2 DEF WsOnly, WsFields, WsSocket, WsInv, WsTyped, WsAwaits,
           WsNetTyped, WsMade, WsHeld
  <2>6. WsHeld'
    BY <1>3, <1>1, <2>1, <2>2 DEF WsOnly, WsFields, WsSocket, WsInv, WsTyped, WsAwaits,
           WsNetTyped, WsHeld, WsMade
  <2>7. WsReceiverWoken'
    BY <1>3, <1>1, <2>1, <2>2 DEF WsOnly, WsFields, WsSocket, WsInv, WsTyped, WsAwaits,
           WsJobsTyped, WsNetTyped, WsReceiverWoken
  <2>8. WsBooks'
    BY <1>3, <1>1, <2>1, <2>2 DEF WsOnly, WsFields, WsSocket, WsInv, WsTyped, WsAwaits,
           WsJobsTyped, WsNetTyped, WsBooks, WsMade, WsHeld
  <2> QED  BY <2>3, <2>4, <2>5, <2>6, <2>7, <2>8 DEF WsInv
<1>4. CASE ws.msgs = 0 /\ ~ws.err /\ ws.ended
  <2>1. ws' = ws /\ wsOp' = [wsOp EXCEPT !.recv = "done", !.active = FALSE]
    BY <1>4 DEF WsRecv
  <2>2. WsTyped'
    BY <1>4, <1>1, <2>1 DEF WsInv, WsTyped, WsAwaits, WsOpens, WsJobsTyped, WsNetTyped
  <2>3. WsHandlers'
    BY <1>4, <1>1, <2>1 DEF WsInv, WsTyped, WsAwaits, WsJobsTyped, WsNetTyped, WsHandlers,
           WsNoJob, WsHeld, WsMade
  <2>4. WsMade'
    BY <1>4, <1>1, <2>1 DEF WsSocket, WsInv, WsTyped, WsAwaits, WsNetTyped, WsMade, WsHeld
  <2>5. WsHeld'
    BY <1>4, <1>1, <2>1 DEF WsSocket, WsInv, WsTyped, WsAwaits, WsNetTyped, WsHeld, WsMade
  <2>6. WsReceiverWoken'
    BY <1>4, <1>1, <2>1 DEF WsSocket, WsInv, WsTyped, WsAwaits, WsJobsTyped, WsNetTyped,
           WsReceiverWoken
  <2>7. WsBooks'
    BY <1>4, <1>1, <2>1 DEF WsSocket, WsInv, WsTyped, WsAwaits, WsJobsTyped, WsNetTyped,
           WsBooks, WsMade, WsHeld
  <2> QED  BY <2>2, <2>3, <2>4, <2>5, <2>6, <2>7 DEF WsInv
<1>5. CASE ws.msgs = 0 /\ ~ws.err /\ ~ws.ended
  <2>1. ws' = [ws EXCEPT !.waker = TRUE] /\ wsOp' = [wsOp EXCEPT !.recv = "waiting"]
    BY <1>5 DEF WsRecv
  <2>2. ws'.waker /\ WsOnly(ws', ws, {"waker"})
    BY <2>1 DEF WsInv, WsTyped, WsOnly, WsSocket, WsFields
  <2>3. WsTyped'
    BY <1>5, <1>1, <2>1, <2>2 DEF WsOnly, WsSocket, WsInv, WsTyped, WsAwaits, WsOpens,
           WsJobsTyped, WsNetTyped, WsHandler
  <2>4. WsHandlers'
    BY <1>5, <1>1, <2>1, <2>2 DEF WsOnly, WsFields, WsInv, WsTyped, WsAwaits, WsJobsTyped,
           WsNetTyped, WsHandlers, WsNoJob, WsHeld, WsMade
  <2>5. WsMade'
    BY <1>5, <1>1, <2>1, <2>2 DEF WsOnly, WsFields, WsSocket, WsInv, WsTyped, WsAwaits,
           WsNetTyped, WsMade, WsHeld
  <2>6. WsHeld'
    BY <1>5, <1>1, <2>1, <2>2 DEF WsOnly, WsFields, WsSocket, WsInv, WsTyped, WsAwaits,
           WsNetTyped, WsHeld, WsMade
  <2>7. WsReceiverWoken'
    BY <1>5, <1>1, <2>1, <2>2 DEF WsOnly, WsFields, WsSocket, WsInv, WsTyped, WsAwaits,
           WsJobsTyped, WsNetTyped, WsReceiverWoken
  <2>8. WsBooks'
    BY <1>5, <1>1, <2>1, <2>2 DEF WsOnly, WsFields, WsSocket, WsInv, WsTyped, WsAwaits,
           WsJobsTyped, WsNetTyped, WsBooks, WsMade, WsHeld
  <2> QED  BY <2>3, <2>4, <2>5, <2>6, <2>7, <2>8 DEF WsInv
<1> QED  BY <1>2, <1>3, <1>4, <1>5 DEF WsInv, WsTyped, WsSocket

(* recv after resume.                                                       *)
LEMMA WsRecvResumedKeeps ==
  ASSUME WsAssumption, WsInv, NEW ok \in BOOLEAN, WsRecvResumed(ok)
  PROVE  WsInv'
<1>1. WsTyped'
  BY DEF WsRecvResumed, WsMaySend, WsFailed, WsShutdown, WsOnly, WsSocket, WsInv, WsTyped,
         WsAwaits, WsOpens, WsJobsTyped, WsNetTyped, WsHandler
<1>2. WsHandlers'
  BY DEF WsRecvResumed, WsMaySend, WsFailed, WsShutdown, WsOnly, WsFields, WsInv, WsTyped,
         WsAwaits, WsJobsTyped, WsNetTyped, WsHandlers, WsNoJob, WsHeld, WsMade
<1>3. WsMade'
  BY DEF WsRecvResumed, WsMaySend, WsFailed, WsShutdown, WsOnly, WsFields, WsSocket, WsInv,
         WsTyped, WsAwaits, WsNetTyped, WsMade, WsHeld
<1>4. WsHeld'
  BY DEF WsRecvResumed, WsMaySend, WsFailed, WsShutdown, WsOnly, WsFields, WsSocket, WsInv,
         WsTyped, WsAwaits, WsNetTyped, WsHeld, WsMade
<1>5. WsReceiverWoken'
  BY DEF WsRecvResumed, WsMaySend, WsFailed, WsShutdown, WsOnly, WsFields, WsSocket, WsInv,
         WsTyped, WsAwaits, WsJobsTyped, WsNetTyped, WsReceiverWoken
<1>6. WsBooks'
  BY DEF WsRecvResumed, WsMaySend, WsFailed, WsShutdown, WsOnly, WsFields, WsSocket, WsInv,
         WsTyped, WsAwaits, WsJobsTyped, WsNetTyped, WsBooks, WsMade, WsHeld
<1> QED  BY <1>1, <1>2, <1>3, <1>4, <1>5, <1>6 DEF WsInv

(* close, up to its frame.                                                  *)
LEMMA WsCloseKeeps ==
  ASSUME WsAssumption, WsInv, WsClose
  PROVE  WsInv'
<1>1. WsTyped'
  BY DEF WsClose, WsOnly, WsSocket, WsInv, WsTyped, WsAwaits, WsOpens, WsJobsTyped,
         WsNetTyped, WsHandler
<1>2. WsHandlers'
  BY DEF WsClose, WsOnly, WsFields, WsInv, WsTyped, WsAwaits, WsJobsTyped, WsNetTyped,
         WsHandlers, WsNoJob, WsHeld, WsMade
<1>3. WsMade'
  BY DEF WsClose, WsOnly, WsFields, WsSocket, WsInv, WsTyped, WsAwaits, WsNetTyped, WsMade,
         WsHeld
<1>4. WsHeld'
  BY DEF WsClose, WsOnly, WsFields, WsSocket, WsInv, WsTyped, WsAwaits, WsNetTyped, WsHeld,
         WsMade
<1>5. WsReceiverWoken'
  BY DEF WsClose, WsOnly, WsFields, WsSocket, WsInv, WsTyped, WsAwaits, WsJobsTyped,
         WsNetTyped, WsReceiverWoken
<1>6. WsBooks'
  BY DEF WsClose, WsOnly, WsFields, WsSocket, WsInv, WsTyped, WsAwaits, WsJobsTyped,
         WsNetTyped, WsBooks, WsMade, WsHeld
<1> QED  BY <1>1, <1>2, <1>3, <1>4, <1>5, <1>6 DEF WsInv

(* close once its frame is sent.                                            *)
LEMMA WsCloseSentKeeps ==
  ASSUME WsAssumption, WsInv, NEW ok \in BOOLEAN, WsCloseSent(ok)
  PROVE  WsInv'
<1>1. WsTyped'
  <2>1. wsOp' \in WsAwaits
    BY DEF WsCloseSent, WsInv, WsTyped, WsAwaits
  <2>2. ws' = ws /\ wsJobs' = wsJobs
    BY DEF WsCloseSent
  <2>3. WsNetTyped'
    BY ShutdownIs DEF WsCloseSent, WsFailed, WsInv, WsTyped, WsNetTyped
  <2> QED BY <2>1, <2>2, <2>3 DEF WsInv, WsTyped, WsJobsTyped
<1>2. WsHandlers'
  BY DEF WsCloseSent, WsMaySend, WsFailed, WsShutdown, WsOnly, WsFields, WsInv, WsTyped,
         WsAwaits, WsJobsTyped, WsNetTyped, WsHandlers, WsNoJob, WsHeld, WsMade
<1>3. WsMade'
  BY DEF WsCloseSent, WsMaySend, WsFailed, WsShutdown, WsOnly, WsFields, WsSocket, WsInv,
         WsTyped, WsAwaits, WsNetTyped, WsMade, WsHeld
<1>4. WsHeld'
  BY DEF WsCloseSent, WsMaySend, WsFailed, WsShutdown, WsOnly, WsFields, WsSocket, WsInv,
         WsTyped, WsAwaits, WsNetTyped, WsHeld, WsMade
<1>5. WsReceiverWoken'
  BY DEF WsCloseSent, WsMaySend, WsFailed, WsShutdown, WsOnly, WsFields, WsSocket, WsInv,
         WsTyped, WsAwaits, WsJobsTyped, WsNetTyped, WsReceiverWoken
<1>6. WsBooks'
  BY DEF WsCloseSent, WsMaySend, WsFailed, WsShutdown, WsOnly, WsFields, WsSocket, WsInv,
         WsTyped, WsAwaits, WsJobsTyped, WsNetTyped, WsBooks, WsMade, WsHeld
<1> QED  BY <1>1, <1>2, <1>3, <1>4, <1>5, <1>6 DEF WsInv

(* close sees the end.                                                      *)
LEMMA WsCloseSeesEndKeeps ==
  ASSUME WsAssumption, WsInv, WsCloseSeesEnd
  PROVE  WsInv'
<1>1. WsTyped'
  <2>1. wsOp' \in WsAwaits
    BY DEF WsCloseSeesEnd, WsInv, WsTyped, WsAwaits
  <2>2. ws' = ws /\ wsJobs' = wsJobs /\ wsNet' = wsNet
    BY DEF WsCloseSeesEnd
  <2> QED BY <2>1, <2>2 DEF WsInv, WsTyped, WsJobsTyped, WsNetTyped
<1>2. WsHandlers'
  BY DEF WsCloseSeesEnd, WsOnly, WsFields, WsInv, WsTyped, WsAwaits, WsJobsTyped,
         WsNetTyped, WsHandlers, WsNoJob, WsHeld, WsMade
<1>3. WsMade'
  BY DEF WsCloseSeesEnd, WsOnly, WsFields, WsSocket, WsInv, WsTyped, WsAwaits, WsNetTyped,
         WsMade, WsHeld
<1>4. WsHeld'
  BY DEF WsCloseSeesEnd, WsOnly, WsFields, WsSocket, WsInv, WsTyped, WsAwaits, WsNetTyped,
         WsHeld, WsMade
<1>5. WsReceiverWoken'
  BY DEF WsCloseSeesEnd, WsOnly, WsFields, WsSocket, WsInv, WsTyped, WsAwaits, WsJobsTyped,
         WsNetTyped, WsReceiverWoken
<1>6. WsBooks'
  BY DEF WsCloseSeesEnd, WsOnly, WsFields, WsSocket, WsInv, WsTyped, WsAwaits, WsJobsTyped,
         WsNetTyped, WsBooks, WsMade, WsHeld
<1> QED  BY <1>1, <1>2, <1>3, <1>4, <1>5, <1>6 DEF WsInv

(* close gives up waiting.                                                  *)
LEMMA WsCloseTimeoutKeeps ==
  ASSUME WsAssumption, WsInv, WsCloseTimeout
  PROVE  WsInv'
<1> DEFINE op == [wsOp EXCEPT !.close = "done"]
<1>1. WsOnClosed(ws, op, FALSE) /\ WsShutdown
  BY DEF WsCloseTimeout
<1>2. /\ op \in WsAwaits /\ ws.waker \in BOOLEAN /\ op.open = wsOp.open /\ op.recv = wsOp.recv
      /\ op.close = "done" /\ op.active = wsOp.active
  BY DEF WsInv, WsTyped, WsAwaits, WsSocket
<1> HIDE DEF op
<1>3. /\ ws'.ended /\ ~ws'.waker /\ ~ws'.entry
      /\ WsOnly(ws', ws, {"ended", "err", "waker", "entry"}) /\ wsOp' = WsWoken(op, ws.waker)
  BY <1>1, ClosedIs DEF WsInv, WsTyped
<1>4. /\ wsOp' \in WsAwaits /\ wsOp'.open = op.open /\ wsOp'.close = op.close
      /\ wsOp'.active = op.active
      /\ wsOp'.recv = (IF ws.waker /\ op.recv = "waiting" THEN "woken" ELSE op.recv)
  BY <1>2, <1>3, WokenIs
<1>5. WsNetTyped' /\ wsNet'.data = wsNet.data
      /\ wsNet'.st = (IF wsNet.st = "up" THEN "closing" ELSE wsNet.st)
  BY <1>1, ShutdownIs DEF WsInv, WsTyped
<1>6. wsOp.close = "polling" /\ wsJobs' = wsJobs
  BY DEF WsCloseTimeout
<1>7. WsTyped'
  BY <1>2, <1>3, <1>4, <1>5, <1>6 DEF WsOnly, WsSocket, WsInv, WsTyped, WsAwaits, WsOpens,
         WsJobsTyped, WsNetTyped, WsHandler
<1>8. WsHandlers'
  BY <1>2, <1>3, <1>4, <1>5, <1>6 DEF WsOnly, WsFields, WsInv, WsTyped, WsAwaits,
         WsJobsTyped, WsNetTyped, WsHandlers, WsNoJob, WsHeld, WsMade
<1>9. WsMade'
  BY <1>2, <1>3, <1>4, <1>5, <1>6 DEF WsOnly, WsFields, WsSocket, WsInv, WsTyped, WsAwaits,
         WsNetTyped, WsMade, WsHeld
<1>10. WsHeld'
  BY <1>2, <1>3, <1>4, <1>5, <1>6 DEF WsOnly, WsFields, WsSocket, WsInv, WsTyped, WsAwaits,
         WsNetTyped, WsHeld, WsMade
<1>11. WsReceiverWoken'
  BY <1>2, <1>3, <1>4, <1>5, <1>6 DEF WsOnly, WsFields, WsSocket, WsInv, WsTyped, WsAwaits,
         WsJobsTyped, WsNetTyped, WsReceiverWoken
<1>12. WsBooks'
  BY <1>2, <1>3, <1>4, <1>5, <1>6 DEF WsOnly, WsFields, WsSocket, WsInv, WsTyped, WsAwaits,
         WsJobsTyped, WsNetTyped, WsBooks, WsMade, WsHeld
<1> QED  BY <1>7, <1>8, <1>9, <1>10, <1>11, <1>12 DEF WsInv

(* Drop of the WebSocket.                                                   *)
LEMMA WsDropKeeps ==
  ASSUME WsAssumption, WsInv, WsDrop
  PROVE  WsInv'
<1>1. wsOp.active /\ wsOp.recv = "idle" /\ wsJobs' = wsJobs
  BY DEF WsDrop
<1>2. CASE wsOp' = [wsOp EXCEPT !.active = FALSE] /\ ws' = ws /\ wsNet' = wsNet
  <2>1. WsTyped'
    BY <1>2, <1>1 DEF WsInv, WsTyped, WsAwaits, WsOpens, WsJobsTyped, WsNetTyped
  <2>2. WsHandlers'
    BY <1>2, <1>1 DEF WsInv, WsTyped, WsAwaits, WsJobsTyped, WsNetTyped, WsHandlers,
           WsNoJob, WsHeld, WsMade
  <2>3. WsMade'
    BY <1>2, <1>1 DEF WsSocket, WsInv, WsTyped, WsAwaits, WsNetTyped, WsMade, WsHeld
  <2>4. WsHeld'
    BY <1>2, <1>1 DEF WsSocket, WsInv, WsTyped, WsAwaits, WsNetTyped, WsHeld, WsMade
  <2>5. WsReceiverWoken'
    BY <1>2, <1>1 DEF WsSocket, WsInv, WsTyped, WsAwaits, WsJobsTyped, WsNetTyped,
           WsReceiverWoken
  <2>6. WsBooks'
    BY <1>2, <1>1 DEF WsSocket, WsInv, WsTyped, WsAwaits, WsJobsTyped, WsNetTyped, WsBooks,
           WsMade, WsHeld
  <2> QED  BY <2>1, <2>2, <2>3, <2>4, <2>5, <2>6 DEF WsInv
<1>3. CASE WsOnClosed(ws, [wsOp EXCEPT !.active = FALSE], FALSE) /\ WsShutdown
  <2> DEFINE op == [wsOp EXCEPT !.active = FALSE]
  <2>1. WsOnClosed(ws, op, FALSE) /\ WsShutdown
    BY <1>3
  <2>2. /\ op \in WsAwaits /\ ws.waker \in BOOLEAN /\ op.open = wsOp.open /\ op.recv = wsOp.recv
        /\ op.close = wsOp.close /\ ~op.active
    BY DEF WsInv, WsTyped, WsAwaits, WsSocket
  <2> HIDE DEF op
  <2>3. /\ ws'.ended /\ ~ws'.waker /\ ~ws'.entry
        /\ WsOnly(ws', ws, {"ended", "err", "waker", "entry"}) /\ wsOp' = WsWoken(op, ws.waker)
    BY <2>1, ClosedIs DEF WsInv, WsTyped
  <2>4. /\ wsOp' \in WsAwaits /\ wsOp'.open = op.open /\ wsOp'.close = op.close
        /\ wsOp'.active = op.active
        /\ wsOp'.recv = (IF ws.waker /\ op.recv = "waiting" THEN "woken" ELSE op.recv)
    BY <2>2, <2>3, WokenIs
  <2>5. WsNetTyped' /\ wsNet'.data = wsNet.data
        /\ wsNet'.st = (IF wsNet.st = "up" THEN "closing" ELSE wsNet.st)
    BY <2>1, ShutdownIs DEF WsInv, WsTyped
  <2>6. WsTyped'
    BY <1>3, <1>1, <2>2, <2>3, <2>4, <2>5 DEF WsOnly, WsSocket, WsInv, WsTyped, WsAwaits,
           WsOpens, WsJobsTyped, WsNetTyped, WsHandler
  <2>7. WsHandlers'
    BY <1>3, <1>1, <2>2, <2>3, <2>4, <2>5 DEF WsOnly, WsFields, WsInv, WsTyped, WsAwaits,
           WsJobsTyped, WsNetTyped, WsHandlers, WsNoJob, WsHeld, WsMade
  <2>8. WsMade'
    BY <1>3, <1>1, <2>2, <2>3, <2>4, <2>5 DEF WsOnly, WsFields, WsSocket, WsInv, WsTyped,
           WsAwaits, WsNetTyped, WsMade, WsHeld
  <2>9. WsHeld'
    BY <1>3, <1>1, <2>2, <2>3, <2>4, <2>5 DEF WsOnly, WsFields, WsSocket, WsInv, WsTyped,
           WsAwaits, WsNetTyped, WsHeld, WsMade
  <2>10. WsReceiverWoken'
    BY <1>3, <1>1, <2>2, <2>3, <2>4, <2>5 DEF WsOnly, WsFields, WsSocket, WsInv, WsTyped,
           WsAwaits, WsJobsTyped, WsNetTyped, WsReceiverWoken
  <2>11. WsBooks'
    BY <1>3, <1>1, <2>2, <2>3, <2>4, <2>5 DEF WsOnly, WsFields, WsSocket, WsInv, WsTyped,
           WsAwaits, WsJobsTyped, WsNetTyped, WsBooks, WsMade, WsHeld
  <2> QED  BY <2>6, <2>7, <2>8, <2>9, <2>10, <2>11 DEF WsInv
<1> QED  BY <1>2, <1>3 DEF WsDrop

(* on_data with a frame: what it read is in the socket, and who waited in  *)
(* recv is in the job or was woken.                                        *)
LEMMA WsFeedKeeps ==
  ASSUME WsAssumption, WsInv, NEW n \in 0 .. WsMaxData, NEW tok \in {"none", "msg", "ping", "close", "bad"},
         NEW op \in WsAwaits, op.recv = wsOp.recv, op.close = wsOp.close, op.active = wsOp.active,
         NEW net, WsFeed(n, tok, op, net), WsNetTyped', net.st = wsNet.st, net.data >= wsNet.data,
         ws.there, ~ws.ended,
         n = 0 => wsOp.open = "upgrading" /\ op.open = "driving",
         n # 0 => op = wsOp /\ ws.entry /\ net.data >= n /\ n > wsNet.data
  PROVE  WsInv'
<1> DEFINE v == WsPause(WsReadIn(ws, tok))
           j == WsJob(ws, v, tok)
<1>1. /\ v.tail = 0 /\ ~v.waker /\ (v.ended <=> tok \in {"close", "bad"})
      /\ WsOnly(v, ws, {"msgs", "tail", "ended", "err", "waker", "paused"})
  BY FeedIs DEF WsInv, WsTyped
<1>2. /\ ws' = v /\ wsNet' = net
      /\ \/ /\ j.at = "send" \/ j.pause
            /\ wsJobs' = [wsJobs EXCEPT ![n] = j] /\ wsOp' = op
         \/ /\ j.at # "send" /\ ~j.pause
            /\ wsOp' = WsDriven(n, WsWoken(op, j.wake), TRUE) /\ wsJobs' = wsJobs
  BY DEF WsFeed
<1> HIDE DEF v
<1>3. /\ j \in WsHandler /\ j.at # "none" /\ j.wake = ws.waker /\ j.shut = v.ended
      /\ (tok \in {"close", "bad"} => j.at = "send")
  BY <1>1 DEF WsJob, WsHandler, WsOnly, WsInv, WsTyped, WsSocket
<1> HIDE DEF j
<1>4. wsJobs[n].at = "none" /\ wsJobs[n] = WsNoJob
  BY DEF WsInv, WsHandlers, WsTyped, WsNetTyped, WsAssumption
<1>5. /\ ws'.there /\ ws'.entry = ws.entry /\ ws'.server = ws.server /\ ws'.lost = ws.lost
      /\ ws'.pend = ws.pend /\ ws'.shake = ws.shake /\ ws'.waiter = ws.waiter
      /\ ws'.timer = ws.timer /\ ws'.tail = 0 /\ ~ws'.waker
      /\ (ws'.ended <=> tok \in {"close", "bad"}) /\ ws' \in WsSocket
  BY <1>1, <1>2 DEF WsOnly, WsFields
<1>6. CASE /\ j.at = "send" \/ j.pause
           /\ wsJobs' = [wsJobs EXCEPT ![n] = j] /\ wsOp' = op
  <2>1. /\ \A m \in 0 .. WsMaxData : m # n => wsJobs'[m] = wsJobs[m]
        /\ wsJobs'[n] = j /\ WsJobsTyped'
    BY <1>3, <1>6 DEF WsInv, WsTyped, WsJobsTyped
  <2>2. WsTyped'
    BY <1>5, <1>6, <2>1 DEF WsTyped
  <2>3. WsHandlers'
    BY <1>2, <1>3, <1>6, <2>1 DEF WsAssumption, WsInv, WsTyped, WsNetTyped, WsHandlers
  <2>4. WsMade'
    BY <1>2, <1>5, <1>6 DEF WsInv, WsMade
  <2>5. WsHeld'
    BY <1>2, <1>5, <1>6 DEF WsInv, WsHeld
  <2>6. WsReceiverWoken'
    <3>1. CASE ws.waker
      BY <1>3, <2>1, <3>1 DEF WsReceiverWoken, WsJobsTyped
    <3>2. CASE ~ws.waker /\ wsOp'.recv = "waiting" /\ ~ws'.lost
      <4>1. PICK m \in DOMAIN wsJobs : wsJobs[m].wake
        BY <1>5, <1>6, <3>2 DEF WsInv, WsReceiverWoken
      <4>2. m # n /\ m \in 0 .. WsMaxData
        BY <1>4, <4>1 DEF WsNoJob, WsInv, WsTyped, WsJobsTyped
      <4> QED  BY <2>1, <4>1, <4>2 DEF WsReceiverWoken, WsJobsTyped
    <3> QED  BY <3>1, <3>2, <1>5 DEF WsReceiverWoken, WsInv, WsTyped, WsSocket
  <2>7. WsBooks'
    <3>1. wsOp'.open # "waiting" \/ wsOp' = wsOp
      BY <1>6
    <3>2. wsJobs'[n].shut = ws'.ended /\ n \in DOMAIN wsJobs'
      BY <1>2, <1>3, <2>1 DEF WsJobsTyped
    <3>3. wsNet'.st = wsNet.st
      BY <1>2
    <3> QED  BY <1>5, <1>6, <3>1, <3>2, <3>3 DEF WsInv, WsBooks
  <2> QED  BY <2>2, <2>3, <2>4, <2>5, <2>6, <2>7 DEF WsInv
<1>7. CASE /\ j.at # "send" /\ ~j.pause
           /\ wsOp' = WsDriven(n, WsWoken(op, j.wake), TRUE) /\ wsJobs' = wsJobs
  <2> DEFINE o == WsWoken(op, j.wake)
  <2>1. /\ o \in WsAwaits /\ o.open = op.open /\ o.close = op.close /\ o.active = op.active
        /\ o.recv = (IF ws.waker /\ op.recv = "waiting" THEN "woken" ELSE op.recv)
    <3>1. j.wake \in BOOLEAN /\ j.wake = ws.waker
      BY <1>3 DEF WsHandler
    <3> QED  BY <3>1, WokenIs
  <2>0. wsOp' = WsDriven(n, o, TRUE) /\ n \in Nat
    BY <1>7
  <2> HIDE DEF o
  <2>2. /\ wsOp' \in WsAwaits /\ wsOp'.recv = o.recv /\ wsOp'.close = o.close
        /\ n # 0 => wsOp' = o
        /\ n = 0 => wsOp'.open = "done" /\ wsOp'.active
    BY <2>0, <2>1, DrivenIs
  <2>3. ~ws'.ended
    BY <1>3, <1>5, <1>7
  <2>4. WsTyped'
    BY <1>5, <1>7, <2>2 DEF WsInv, WsTyped, WsJobsTyped
  <2>5. WsHandlers'
    <3>1. wsJobs'[0].at # "none" => wsOp'.open = "driving"
      BY <1>4, <1>7, <2>1, <2>2 DEF WsInv, WsHandlers
    <3>2. wsNet'.data >= wsNet.data /\ wsNet'.data \in Nat /\ wsNet.data \in Nat
      BY <1>2 DEF WsInv, WsTyped, WsNetTyped
    <3>3. wsJobs' = wsJobs /\ WsMaxData \in Nat
      BY <1>7 DEF WsAssumption
    <3>4. \A m \in 1 .. WsMaxData : m > wsNet'.data => wsJobs'[m].at = "none"
      BY <3>2, <3>3 DEF WsInv, WsHandlers
    <3> QED  BY <3>1, <3>3, <3>4 DEF WsInv, WsHandlers
  <2>6. WsMade'
    BY <1>2, <1>5, <2>1, <2>2, <2>3 DEF WsInv, WsMade
  <2>7. WsHeld'
    BY <1>2, <1>5, <2>1, <2>2 DEF WsInv, WsHeld
  <2>8. WsReceiverWoken'
    BY <1>5, <1>7, <2>1, <2>2 DEF WsInv, WsReceiverWoken
  <2>9. WsBooks'
    <3>1. wsOp'.open = "waiting" => wsOp.open = "waiting"
      BY <2>1, <2>2
    <3>2. wsOp.open # "connecting" /\ wsNet'.st = wsNet.st
      BY <1>2 DEF WsInv, WsMade
    <3> QED  BY <1>5, <2>3, <3>1, <3>2 DEF WsInv, WsBooks
  <2> QED  BY <2>4, <2>5, <2>6, <2>7, <2>8, <2>9 DEF WsInv
<1> QED  BY <1>2, <1>6, <1>7

(* Data for an open socket.                                                *)
LEMMA WsDataKeeps ==
  ASSUME WsAssumption, WsInv, NEW n \in 1 .. WsMaxData, NEW tok \in {"msg", "ping", "close", "bad"},
         WsData(n, tok)
  PROVE  WsInv'
<1>1. ws.entry /\ n = wsNet.data + 1
  BY DEF WsData
<1>2. CASE ws.ended
  <2>1. wsNet' = [wsNet EXCEPT !.data = n] /\ ws' = ws /\ wsOp' = wsOp /\ wsJobs' = wsJobs
    BY <1>2 DEF WsData
  <2>2. WsTyped'
    BY <1>1, <1>2, <2>1, SMTT(30) DEF WsInv, WsTyped, WsAwaits, WsOpens, WsJobsTyped, WsNetTyped
  <2>3. WsHandlers'
    BY <1>1, <1>2, <2>1 DEF WsInv, WsTyped, WsAwaits, WsJobsTyped, WsNetTyped, WsHandlers,
           WsNoJob, WsHeld, WsMade
  <2>4. WsMade'
    BY <1>1, <1>2, <2>1 DEF WsSocket, WsInv, WsTyped, WsAwaits, WsNetTyped, WsMade, WsHeld
  <2>5. WsHeld'
    BY <1>1, <1>2, <2>1 DEF WsSocket, WsInv, WsTyped, WsAwaits, WsNetTyped, WsHeld, WsMade
  <2>6. WsReceiverWoken'
    BY <1>1, <1>2, <2>1 DEF WsSocket, WsInv, WsTyped, WsAwaits, WsJobsTyped, WsNetTyped,
           WsReceiverWoken
  <2>7. WsBooks'
    BY <1>1, <1>2, <2>1 DEF WsSocket, WsInv, WsTyped, WsAwaits, WsJobsTyped, WsNetTyped,
           WsBooks, WsMade, WsHeld
  <2> QED  BY <2>2, <2>3, <2>4, <2>5, <2>6, <2>7 DEF WsInv
<1>3. CASE ~ws.ended
  <2> DEFINE net == [wsNet EXCEPT !.data = n]
  <2>1. WsFeed(n, tok, wsOp, net)
    BY <1>3 DEF WsData
  <2>2. wsNet' = net
    BY <2>1 DEF WsFeed
  <2>3. WsNetTyped' /\ net.st = wsNet.st /\ net.data = n /\ wsNet.data \in Nat
    BY <2>2 DEF WsInv, WsTyped, WsNetTyped
  <2> HIDE DEF net
  <2> QED  BY <1>1, <1>3, <2>1, <2>3, WsFeedKeeps DEF WsInv, WsTyped, WsMade
<1> QED  BY <1>2, <1>3 DEF WsInv, WsTyped, WsSocket

(* The server's socket once 101 is sent: it is driven once.                *)
LEMMA WsUpgradedKeeps ==
  ASSUME WsAssumption, WsInv, NEW ok \in BOOLEAN, NEW tok \in {"none", "ping"}, WsUpgraded(ok, tok)
  PROVE  WsInv'
<1>1. wsOp.open = "upgrading" /\ ws.there
  BY DEF WsUpgraded, WsInv, WsMade
<1>2. CASE /\ ~ok
           /\ WsOnClosed(ws, [wsOp EXCEPT !.open = "failed"], FALSE) /\ WsShutdown /\ wsJobs' = wsJobs
  <2> DEFINE op == [wsOp EXCEPT !.open = "failed"]
  <2>1. WsOnClosed(ws, op, FALSE) /\ WsShutdown
    BY <1>2
  <2>2. /\ op \in WsAwaits /\ ws.waker \in BOOLEAN /\ op.open = "failed" /\ op.recv = wsOp.recv
        /\ op.close = wsOp.close /\ op.active = wsOp.active
    BY DEF WsInv, WsTyped, WsAwaits, WsOpens, WsSocket
  <2> HIDE DEF op
  <2>3. /\ ws'.ended /\ ~ws'.waker /\ ~ws'.entry
        /\ WsOnly(ws', ws, {"ended", "err", "waker", "entry"}) /\ wsOp' = WsWoken(op, ws.waker)
    BY <2>1, ClosedIs DEF WsInv, WsTyped
  <2>4. /\ wsOp' \in WsAwaits /\ wsOp'.open = op.open /\ wsOp'.close = op.close
        /\ wsOp'.active = op.active
        /\ wsOp'.recv = (IF ws.waker /\ op.recv = "waiting" THEN "woken" ELSE op.recv)
    BY <2>2, <2>3, WokenIs
  <2>5. WsNetTyped' /\ wsNet'.data = wsNet.data
        /\ wsNet'.st = (IF wsNet.st = "up" THEN "closing" ELSE wsNet.st)
    BY <2>1, ShutdownIs DEF WsInv, WsTyped
  <2>6. WsTyped'
    BY <1>1, <1>2, <2>2, <2>3, <2>4, <2>5 DEF WsOnly, WsSocket, WsInv, WsTyped, WsAwaits,
           WsOpens, WsJobsTyped, WsNetTyped, WsHandler
  <2>7. WsHandlers'
    BY <1>1, <1>2, <2>2, <2>3, <2>4, <2>5 DEF WsOnly, WsFields, WsInv, WsTyped, WsAwaits,
           WsJobsTyped, WsNetTyped, WsHandlers, WsNoJob, WsHeld, WsMade
  <2>8. WsMade'
    BY <1>1, <1>2, <2>2, <2>3, <2>4, <2>5 DEF WsOnly, WsFields, WsSocket, WsInv, WsTyped,
           WsAwaits, WsNetTyped, WsMade, WsHeld
  <2>9. WsHeld'
    BY <1>1, <1>2, <2>2, <2>3, <2>4, <2>5 DEF WsOnly, WsFields, WsSocket, WsInv, WsTyped,
           WsAwaits, WsNetTyped, WsHeld, WsMade
  <2>10. WsReceiverWoken'
    BY <1>1, <1>2, <2>2, <2>3, <2>4, <2>5 DEF WsOnly, WsFields, WsSocket, WsInv, WsTyped,
           WsAwaits, WsJobsTyped, WsNetTyped, WsReceiverWoken
  <2>11. WsBooks'
    BY <1>1, <1>2, <2>2, <2>3, <2>4, <2>5 DEF WsOnly, WsFields, WsSocket, WsInv, WsTyped,
           WsAwaits, WsJobsTyped, WsNetTyped, WsBooks, WsMade, WsHeld
  <2> QED  BY <2>6, <2>7, <2>8, <2>9, <2>10, <2>11 DEF WsInv
<1>3. CASE ok /\ ws.ended /\ wsOp' = WsDriven(0, wsOp, TRUE) /\ UNCHANGED <<ws, wsJobs, wsNet>>
  <2>1. /\ wsOp' \in WsAwaits /\ wsOp'.recv = wsOp.recv /\ wsOp'.close = wsOp.close
        /\ wsOp'.open = "done" /\ wsOp'.active
    BY <1>3, DrivenIs DEF WsInv, WsTyped
  <2>2. ws' = ws /\ wsNet' = wsNet /\ wsJobs' = wsJobs
    BY <1>3
  <2>3. WsTyped'
    BY <1>1, <1>3, <2>1, <2>2 DEF WsInv, WsTyped, WsAwaits, WsOpens, WsJobsTyped, WsNetTyped
  <2>4. WsHandlers'
    BY <1>1, <1>3, <2>1, <2>2, ZenonT(40) DEF WsInv, WsTyped, WsAwaits, WsJobsTyped, WsNetTyped,
           WsHandlers, WsNoJob, WsHeld, WsMade
  <2>5. WsMade'
    BY <1>1, <1>3, <2>1, <2>2 DEF WsSocket, WsInv, WsTyped, WsAwaits, WsNetTyped, WsMade,
           WsHeld
  <2>6. WsHeld'
    BY <1>1, <1>3, <2>1, <2>2 DEF WsSocket, WsInv, WsTyped, WsAwaits, WsNetTyped, WsHeld,
           WsMade
  <2>7. WsReceiverWoken'
    BY <1>1, <1>3, <2>1, <2>2 DEF WsSocket, WsInv, WsTyped, WsAwaits, WsJobsTyped,
           WsNetTyped, WsReceiverWoken
  <2>8. WsBooks'
    BY <1>1, <1>3, <2>1, <2>2 DEF WsSocket, WsInv, WsTyped, WsAwaits, WsJobsTyped,
           WsNetTyped, WsBooks, WsMade, WsHeld
  <2> QED  BY <2>3, <2>4, <2>5, <2>6, <2>7, <2>8 DEF WsInv
<1>4. CASE ~ws.ended /\ WsFeed(0, tok, [wsOp EXCEPT !.open = "driving"], wsNet)
  <2> DEFINE op == [wsOp EXCEPT !.open = "driving"]
  <2>1. /\ op \in WsAwaits /\ op.open = "driving" /\ op.recv = wsOp.recv
        /\ op.close = wsOp.close /\ op.active = wsOp.active
    BY DEF WsInv, WsTyped, WsAwaits, WsOpens
  <2>2. WsNetTyped' /\ wsNet.data \in Nat
    BY <1>4 DEF WsFeed, WsInv, WsTyped, WsNetTyped
  <2>3. 0 \in 0 .. WsMaxData /\ wsNet.data >= wsNet.data
    BY <2>2 DEF WsAssumption
  <2>4. WsFeed(0, tok, op, wsNet)
    BY <1>4
  <2> HIDE DEF op
  <2> QED  BY <1>1, <1>4, <2>1, <2>2, <2>3, <2>4, WsFeedKeeps
<1> QED  BY <1>2, <1>3, <1>4 DEF WsUpgraded

(* on_data after send_wait or pause.                                       *)
LEMMA WsJobStepKeeps ==
  ASSUME WsAssumption, WsInv, NEW n \in 0 .. WsMaxData, NEW ok \in BOOLEAN, WsJobStep(n, ok)
  PROVE  WsInv'
<1> DEFINE j == wsJobs[n]
<1>1. j \in WsHandler /\ j.at \in {"send", "pause"} /\ (n = 0 => wsOp.open = "driving")
  BY DEF WsJobStep, WsInv, WsTyped, WsJobsTyped, WsHandlers
<1>2. WsNoJob \in WsHandler /\ WsNoJob.at = "none" /\ ~WsNoJob.wake /\ ~WsNoJob.shut
  BY DEF WsNoJob, WsHandler
<1>3. n \in Nat /\ j.wake \in BOOLEAN /\ j.shut \in BOOLEAN
  BY <1>1 DEF WsHandler
<1>4. ASSUME NEW k \in WsHandler, wsJobs' = [wsJobs EXCEPT ![n] = k]
      PROVE  /\ wsJobs'[n] = k /\ WsJobsTyped' /\ DOMAIN wsJobs' = DOMAIN wsJobs
             /\ \A m \in DOMAIN wsJobs : m # n => wsJobs'[m] = wsJobs[m]
             /\ DOMAIN wsJobs = 0 .. WsMaxData
  BY <1>4 DEF WsInv, WsTyped, WsJobsTyped
<1>5. CASE ~ok
  <2>1. /\ wsJobs' = [wsJobs EXCEPT ![n] = WsNoJob]
        /\ ws' = [ws EXCEPT !.lost = @ \/ j.wake]
        /\ wsOp' = WsDriven(n, wsOp, FALSE) /\ WsShutdown
    BY <1>5 DEF WsJobStep, WsFailed
  <2>2. /\ (ws'.lost <=> ws.lost \/ j.wake) /\ WsOnly(ws', ws, {"lost"})
    BY <1>3, <2>1 DEF WsInv, WsTyped, WsOnly, WsSocket, WsFields
  <2>3. /\ wsOp' \in WsAwaits /\ wsOp'.recv = wsOp.recv /\ wsOp'.close = wsOp.close
        /\ n # 0 => wsOp' = wsOp
        /\ n = 0 => wsOp'.open = "failed" /\ ~wsOp'.active
    BY <1>3, <2>1, DrivenIs DEF WsInv, WsTyped
  <2>4. WsNetTyped' /\ wsNet'.data = wsNet.data
        /\ wsNet'.st = (IF wsNet.st = "up" THEN "closing" ELSE wsNet.st)
    BY <2>1, ShutdownIs DEF WsInv, WsTyped
  <2>5. /\ wsJobs'[n] = WsNoJob /\ WsJobsTyped' /\ DOMAIN wsJobs' = DOMAIN wsJobs
        /\ \A m \in DOMAIN wsJobs : m # n => wsJobs'[m] = wsJobs[m]
        /\ DOMAIN wsJobs = 0 .. WsMaxData
    BY <1>2, <1>4, <2>1
  <2> HIDE DEF j
  <2>6. WsTyped'
    BY <2>2, <2>3, <2>4, <2>5 DEF WsTyped, WsOnly
  <2>7. WsHandlers'
    BY <1>1, <1>2, <2>3, <2>4, <2>5 DEF WsAssumption, WsInv, WsHandlers
  <2>8. WsMade'
    BY <1>1, <2>2, <2>3, <2>4 DEF WsInv, WsMade, WsOnly, WsFields, WsTyped, WsNetTyped
  <2>9. WsHeld'
    BY <1>1, <2>2, <2>3, <2>4 DEF WsInv, WsHeld, WsOnly, WsFields, WsTyped, WsNetTyped
  <2>10. WsReceiverWoken'
    BY <2>2, <2>3, <2>5 DEF WsInv, WsReceiverWoken, WsOnly, WsFields, j
  <2>11. WsBooks'
    <3>1. wsOp'.open = "waiting" => wsOp.open = "waiting"
      BY <2>3
    <3>2. ws'.entry => wsNet'.st = "closing"
      BY <2>2, <2>4 DEF WsInv, WsMade, WsOnly, WsFields
    <3>3. wsOp'.open = "done" => wsOp.open = "done"
      BY <2>3
    <3>4. wsNet'.st # "up" /\ (wsNet.st = "closing" => wsNet'.st = "closing")
      BY <2>4
    <3> QED  BY <2>2, <3>1, <3>2, <3>3, <3>4 DEF WsInv, WsBooks, WsOnly, WsFields
  <2> QED  BY <2>6, <2>7, <2>8, <2>9, <2>10, <2>11 DEF WsInv
<1>6. CASE ok /\ j.at = "send" /\ j.pause
  <2> DEFINE k == [j EXCEPT !.at = "pause"]
  <2>1. wsJobs' = [wsJobs EXCEPT ![n] = k] /\ ws' = ws /\ wsOp' = wsOp /\ wsNet' = wsNet
    BY <1>6 DEF WsJobStep
  <2>2. k \in WsHandler /\ k.at = "pause" /\ k.wake = j.wake /\ k.shut = j.shut
    BY <1>1 DEF WsHandler
  <2> HIDE DEF k
  <2>3. /\ wsJobs'[n] = k /\ WsJobsTyped' /\ DOMAIN wsJobs' = DOMAIN wsJobs
        /\ \A m \in DOMAIN wsJobs : m # n => wsJobs'[m] = wsJobs[m]
        /\ DOMAIN wsJobs = 0 .. WsMaxData
    BY <1>4, <2>1, <2>2
  <2>4. WsTyped' /\ WsMade' /\ WsHeld'
    BY <2>1, <2>3 DEF WsInv, WsTyped, WsNetTyped, WsMade, WsHeld
  <2>5. WsHandlers'
    BY <1>1, <2>1, <2>2, <2>3 DEF WsAssumption, WsInv, WsHandlers, j
  <2>6. WsReceiverWoken' /\ WsBooks'
    BY <2>1, <2>2, <2>3 DEF WsInv, WsReceiverWoken, WsBooks, j
  <2> QED  BY <2>4, <2>5, <2>6 DEF WsInv
<1>7. CASE ok /\ ~(j.at = "send" /\ j.pause)
  <2> DEFINE o == WsWoken(wsOp, j.wake)
  <2>1. /\ wsJobs' = [wsJobs EXCEPT ![n] = WsNoJob]
        /\ ws' = IF j.shut THEN WsCleanup(ws) ELSE ws
        /\ wsOp' = WsDriven(n, o, TRUE)
        /\ IF j.shut THEN WsShutdown ELSE wsNet' = wsNet
    BY <1>7 DEF WsJobStep
  <2>2. WsOnly(ws', ws, {"entry"}) /\ (j.shut => ~ws'.entry) /\ (~j.shut => ws' = ws)
    BY <1>3, <2>1 DEF WsCleanup, WsInv, WsTyped, WsOnly, WsSocket, WsFields
  <2>3. /\ o \in WsAwaits /\ o.open = wsOp.open /\ o.close = wsOp.close
        /\ o.active = wsOp.active
        /\ o.recv = (IF j.wake /\ wsOp.recv = "waiting" THEN "woken" ELSE wsOp.recv)
    BY <1>3, WokenIs DEF WsInv, WsTyped
  <2> HIDE DEF o
  <2>4. /\ wsOp' \in WsAwaits /\ wsOp'.recv = o.recv /\ wsOp'.close = o.close
        /\ n # 0 => wsOp' = o
        /\ n = 0 => wsOp'.open = "done" /\ wsOp'.active
    <3>1. wsOp' = WsDriven(n, o, TRUE)
      BY <2>1
    <3>2. n \in Nat /\ o \in WsAwaits
      BY <1>3, <2>3
    <3> QED  BY <3>1, <3>2, DrivenIs
  <2>5. /\ WsNetTyped' /\ wsNet'.data = wsNet.data
        /\ wsNet'.st = (IF j.shut /\ wsNet.st = "up" THEN "closing" ELSE wsNet.st)
    BY <2>1, ShutdownIs DEF WsInv, WsTyped, WsNetTyped
  <2>6. /\ wsJobs'[n] = WsNoJob /\ WsJobsTyped' /\ DOMAIN wsJobs' = DOMAIN wsJobs
        /\ \A m \in DOMAIN wsJobs : m # n => wsJobs'[m] = wsJobs[m]
        /\ DOMAIN wsJobs = 0 .. WsMaxData
    BY <1>2, <1>4, <2>1
  <2> HIDE DEF j
  <2>7. WsTyped'
    BY <2>2, <2>4, <2>5, <2>6 DEF WsTyped, WsOnly
  <2>8. WsHandlers'
    BY <1>1, <1>2, <2>3, <2>4, <2>5, <2>6 DEF WsAssumption, WsInv, WsHandlers
  <2>9. WsMade'
    BY <1>1, <1>3, <2>2, <2>3, <2>4, <2>5 DEF WsInv, WsMade, WsOnly, WsFields, WsTyped, WsNetTyped
  <2>10. WsHeld'
    BY <1>1, <1>3, <2>2, <2>3, <2>4, <2>5 DEF WsInv, WsHeld, WsOnly, WsFields, WsTyped, WsNetTyped
  <2>11. WsReceiverWoken'
    BY <2>2, <2>3, <2>4, <2>6 DEF WsInv, WsReceiverWoken, WsOnly, WsFields, j
  <2>12. WsBooks'
    <3>1. wsOp'.open = "waiting" => wsOp.open = "waiting"
      BY <2>3, <2>4
    <3>2. wsOp.open \in {"connecting", "refused"} => wsOp'.open = wsOp.open
      BY <1>1, <2>3, <2>4
    <3>3. CASE j.shut
      BY <1>1, <2>2, <2>3, <2>4, <2>5, <3>1, <3>2, <3>3
         DEF WsInv, WsBooks, WsHeld, WsOnly, WsFields
    <3>4. CASE ~j.shut
      <4>1. ws' = ws /\ wsNet'.st = wsNet.st
        BY <2>2, <2>5, <3>4
      <4>2. \A m \in DOMAIN wsJobs : wsJobs[m].shut => m # n /\ wsJobs'[m].shut
        BY <2>6, <3>4 DEF j
      <4>3. ws.server /\ ws.tail > 0 /\ wsOp'.open = "done" => ws.ended
        BY <1>1, <2>3, <2>4 DEF WsInv, WsBooks, WsHeld
      <4> QED  BY <2>6, <3>1, <3>2, <4>1, <4>2, <4>3 DEF WsInv, WsBooks
    <3> QED  BY <1>3, <3>3, <3>4
  <2> QED  BY <2>7, <2>8, <2>9, <2>10, <2>11, <2>12 DEF WsInv
<1> QED  BY <1>5, <1>6, <1>7

(* Every step of a WebSocket, its client or server and its transport.      *)
LEMMA WsStep ==
  ASSUME WsAssumption, WsInv, [WsNext]_wsVars
  PROVE  WsInv'
<1>1. CASE WsNext
  BY <1>1, WsUpgradeKeeps, WsConnectKeeps, WsConnectRefusedKeeps, WsConnectWokenKeeps,
     WsHandshakeTimeoutKeeps, WsRecvKeeps,
     WsCloseKeeps, WsCloseSeesEndKeeps, WsCloseTimeoutKeeps, WsDropKeeps, WsConnectedKeeps,
     WsGreetedKeeps, WsRecvResumedKeeps, WsCloseSentKeeps, WsTransportEndsKeeps, WsUpgradedKeeps,
     WsJobStepKeeps, WsDataKeeps, WsHandshakeKeeps
     DEF WsNext
<1>2. CASE UNCHANGED wsVars
  BY <1>2 DEF wsVars, WsInv, WsTyped, WsJobsTyped, WsNetTyped, WsHandlers, WsMade, WsHeld,
     WsReceiverWoken, WsBooks
<1> QED  BY <1>1, <1>2

LEMMA WsStart ==
  ASSUME WsAssumption, WsInit
  PROVE  WsInv
<1>1. WsTyped
  BY DEF WsAssumption, WsInit, WsTyped, WsSocket, WsAwaits, WsOpens, WsJobsTyped, WsHandler,
     WsNoJob, WsNetTyped
<1>2. WsHandlers /\ WsReceiverWoken /\ WsMade /\ WsHeld /\ WsBooks
  BY DEF WsAssumption, WsInit, WsHandlers, WsReceiverWoken, WsMade, WsHeld, WsBooks, WsNoJob
<1> QED  BY <1>1, <1>2 DEF WsInv

(* The books of a WebSocket, its handshake and its handlers are inductive  *)
(* (websocket.rs: connect, upgrade_websocket, on_data, on_closed, recv).   *)
THEOREM WsInductive == WsSpec => []WsInv
<1>1. WsInit => WsInv
  BY WsStart, WsAssumption
<1>2. WsInv /\ [WsNext]_wsVars => WsInv'
  BY WsStep, WsAssumption
<1> QED  BY <1>1, <1>2, PTL DEF WsSpec

(* A receiver of a WebSocket is woken and no half-made socket is forgotten *)
(* (websocket.rs: on_data, on_closed, connect, upgrade_websocket).         *)
THEOREM WsAlways == WsSpec => []WsSafe
<1>1. WsInv => WsSafe
  BY DEF WsInv, WsSafe
<1> QED  BY <1>1, WsInductive, PTL

(***************************************************************************)
(* Cluster.  The frames, the connections, the services and their tasks.    *)
(***************************************************************************)
ClFrames == [kind : {"accept", "hello", "close"}] \cup
            [kind : {"request", "send", "ok", "failed"}, id : Nat, epoch : Nat]
ClLink == [by : 0 .. 2, open : [ClNodes -> BOOLEAN], q : [ClNodes -> Seq(ClFrames)]]
ClLinks == [1 .. ClConns -> ClLink]
ClPeer == [there : BOOLEAN, out : BOOLEAN, claimed : BOOLEAN]
ClService ==
  [active : 0 .. ClConns, peers : [1 .. ClConns -> ClPeer], next : Nat, ops : Nat,
   pending : SUBSET ClIds, timers : SUBSET ClIds, dial : Int, retried : BOOLEAN, epoch : Nat]
ClTask == [kind : {"dial", "start", "request", "send"}, n : ClNodes, c : 1 .. ClConns,
           id : Nat, epoch : Nat]
ClAnswers == {"ok", "failed"}
ClTyped ==
  /\ clMenu \in ClMenus /\ clNode \in [ClNodes -> ClService] /\ clConn \in ClLinks
  /\ clTasks \subseteq ClTask /\ clCalls \in [ClNodes -> [ClIds -> Seq(ClAnswers)]]

\* An answer on its way is for the life its addressee is in; a request on its way
\* is of the life its sender is in, as long as the connection can carry the answer.
ClBoth(k) == k.open[1] /\ k.open[2]
ClFits(f, n, both, node) ==
  /\ f.kind \in {"ok", "failed"} => f.epoch = node[n].epoch
  /\ f.kind = "request" /\ both => f.epoch = node[ClOther(n)].epoch
ClLine(k, node) ==
  \A n \in ClNodes : \A i \in 1 .. Len(k.q[n]) : ClFits(k.q[n][i], n, ClBoth(k), node)
ClServes(t, conn, node) ==
  t.kind = "request" /\ ClBoth(conn[t.c]) => t.epoch = node[ClOther(t.n)].epoch
ClCarried(conn, tasks, node) ==
  /\ \A c \in 1 .. ClConns : ClLine(conn[c], node)
  /\ \A t \in tasks : ClServes(t, conn, node)

\* The numbers of requests: what is pending was asked and has a timer, and nothing
\* was answered that was not asked.
ClBook(v, calls, most) ==
  /\ v.next <= v.ops /\ v.ops <= most
  /\ v.pending \subseteq 1 .. v.next
  /\ \A id \in v.pending : id \in v.timers /\ calls[id] = <<>>
  /\ \A id \in ClIds : id > v.next => calls[id] = <<>>
  /\ \A id \in 1 .. v.next : id \notin v.pending => Len(calls[id]) = 1
ClBooked == \A n \in ClNodes : ClBook(clNode[n], clCalls[n], clMenu.ops[n])

ClInv == ClTyped /\ ClBooked /\ ClCarried(clConn, clTasks, clNode)


(* The places of a sequence and of what is put behind it.                  *)
LEMMA PlacesAppended ==
  ASSUME NEW S, NEW s \in Seq(S), NEW e \in S
  PROVE  /\ Append(s, e) \in Seq(S)
         /\ \A i \in 1 .. Len(Append(s, e)) :
              Append(s, e)[i] = e \/ (i \in 1 .. Len(s) /\ Append(s, e)[i] = s[i])
<1>1. Append(s, e) \in Seq(S) /\ Len(Append(s, e)) = Len(s) + 1 /\ Len(s) \in Nat
  OBVIOUS
<1>2. Append(s, e)[Len(s) + 1] = e /\ \A i \in 1 .. Len(s) : Append(s, e)[i] = s[i]
  OBVIOUS
<1>3. \A i \in 1 .. Len(s) + 1 : i = Len(s) + 1 \/ i \in 1 .. Len(s)
  BY <1>1
<1> QED  BY <1>1, <1>2, <1>3

(* What the operators on a connection keep.                                *)
LEMMA PopLine ==
  ASSUME NEW node, NEW k \in ClLink, NEW n \in ClNodes, k.q[n] # <<>>, ClLine(k, node)
  PROVE  LET v == [k EXCEPT !.q[n] = Tail(@)]
         IN  v \in ClLink /\ v.open = k.open /\ ClLine(v, node)
<1> DEFINE v == [k EXCEPT !.q[n] = Tail(@)]
<1>1. k.q \in [ClNodes -> Seq(ClFrames)] /\ k.q[n] \in Seq(ClFrames)
  BY DEF ClLink
<1>2. /\ Tail(k.q[n]) \in Seq(ClFrames)
      /\ \A i \in 1 .. Len(Tail(k.q[n])) :
           i + 1 \in 1 .. Len(k.q[n]) /\ Tail(k.q[n])[i] = k.q[n][i + 1]
  BY <1>1
<1>3. /\ v \in ClLink /\ v.open = k.open
      /\ \A m \in ClNodes : v.q[m] = IF m = n THEN Tail(k.q[n]) ELSE k.q[m]
  BY <1>1, <1>2 DEF ClLink
<1> HIDE DEF v
<1>4. ClLine(v, node)
  BY <1>2, <1>3, ZenonT(40) DEF ClLine, ClBoth
<1> QED  BY <1>3, <1>4 DEF v

LEMMA SentLine ==
  ASSUME NEW node, NEW k \in ClLink, NEW n \in ClNodes, NEW f \in ClFrames,
         ClFits(f, n, ClBoth(k), node), ClLine(k, node)
  PROVE  LET v == [k EXCEPT !.q[n] = Append(@, f)]
         IN  v \in ClLink /\ v.open = k.open /\ ClLine(v, node)
<1> DEFINE v == [k EXCEPT !.q[n] = Append(@, f)]
           s == Append(k.q[n], f)
<1>1. k.q \in [ClNodes -> Seq(ClFrames)] /\ k.q[n] \in Seq(ClFrames)
  BY DEF ClLink
<1>2. /\ s \in Seq(ClFrames)
      /\ \A i \in 1 .. Len(s) : s[i] = f \/ (i \in 1 .. Len(k.q[n]) /\ s[i] = k.q[n][i])
  BY <1>1, PlacesAppended
<1>3. /\ v \in ClLink /\ v.open = k.open
      /\ \A m \in ClNodes : v.q[m] = IF m = n THEN s ELSE k.q[m]
  BY <1>1, <1>2 DEF ClLink
<1> HIDE DEF v, s
<1>4. ClLine(v, node)
  BY <1>2, <1>3 DEF ClLine, ClBoth
<1> QED  BY <1>3, <1>4 DEF v

\* A connection that ends carries no answer any more.
ClEndedLink(k, keep) ==
  [by |-> k.by, open |-> [n \in ClNodes |-> FALSE],
   q |-> [n \in ClNodes |-> IF ~k.open[n] THEN k.q[n]
                            ELSE Append(IF n \in keep THEN k.q[n] ELSE <<>>, [kind |-> "close"])]]

LEMMA EndedLine ==
  ASSUME NEW node, NEW k \in ClLink, NEW keep, ClLine(k, node)
  PROVE  LET v == ClEndedLink(k, keep)
         IN  v \in ClLink /\ ~v.open[1] /\ ~v.open[2] /\ ~ClBoth(v) /\ ClLine(v, node)
<1> DEFINE v == ClEndedLink(k, keep)
           e == [kind |-> "close"]
           s(n) == IF n \in keep THEN k.q[n] ELSE <<>>
<1>1. k.q \in [ClNodes -> Seq(ClFrames)] /\ k.by \in 0 .. 2
  BY DEF ClLink
<1>2. e \in ClFrames /\ e.kind = "close"
  BY DEF ClFrames
<1>3. v.by = k.by /\ v.open = [n \in ClNodes |-> FALSE]
  BY DEF ClEndedLink
<1>4. \A n \in ClNodes : v.q[n] = IF ~k.open[n] THEN k.q[n] ELSE Append(s(n), e)
  BY DEF ClEndedLink
<1>5. ~v.open[1] /\ ~v.open[2] /\ ~ClBoth(v)
  BY <1>3 DEF ClNodes, ClBoth
<1> HIDE DEF e
<1>6. \A n \in ClNodes : s(n) \in Seq(ClFrames) /\ (s(n) = k.q[n] \/ s(n) = <<>>)
  BY <1>1
<1> HIDE DEF s
<1>7. \A n \in ClNodes : v.q[n] \in Seq(ClFrames)
  <2> SUFFICES ASSUME NEW n \in ClNodes
               PROVE  v.q[n] \in Seq(ClFrames)
    OBVIOUS
  <2>1. Append(s(n), e) \in Seq(ClFrames) /\ k.q[n] \in Seq(ClFrames)
    BY <1>1, <1>2, <1>6, PlacesAppended
  <2> QED  BY <1>4, <2>1
<1>8. v \in ClLink
  <2>1. v = [by |-> v.by, open |-> v.open, q |-> v.q] /\ v.q = [n \in ClNodes |-> v.q[n]]
    BY DEF ClEndedLink
  <2>2. v.by \in 0 .. 2 /\ v.open \in [ClNodes -> BOOLEAN] /\ v.q \in [ClNodes -> Seq(ClFrames)]
    BY <1>1, <1>3, <1>7, <2>1
  <2> HIDE DEF v
  <2> QED  BY <2>1, <2>2 DEF ClLink
<1> HIDE DEF v
<1>9. \A n \in ClNodes : \A i \in 1 .. Len(v.q[n]) :
        v.q[n][i] = e \/ (i \in 1 .. Len(k.q[n]) /\ v.q[n][i] = k.q[n][i])
  <2> SUFFICES ASSUME NEW n \in ClNodes, NEW i \in 1 .. Len(v.q[n])
               PROVE  v.q[n][i] = e \/ (i \in 1 .. Len(k.q[n]) /\ v.q[n][i] = k.q[n][i])
    OBVIOUS
  <2>1. CASE ~k.open[n]
    BY <1>4, <2>1
  <2>2. CASE k.open[n]
    <3>1. v.q[n] = Append(s(n), e) /\ s(n) \in Seq(ClFrames)
      BY <1>4, <1>6, <2>2
    <3>2. v.q[n][i] = e \/ (i \in 1 .. Len(s(n)) /\ v.q[n][i] = s(n)[i])
      BY <1>2, <3>1, PlacesAppended
    <3>3. CASE s(n) = k.q[n]
      BY <3>2, <3>3
    <3>4. CASE s(n) = <<>>
      <4>1. Len(s(n)) = 0
        BY <3>4
      <4>2. i \notin 1 .. Len(s(n))
        BY <4>1
      <4> QED  BY <3>2, <4>2
    <3> QED  BY <1>6, <3>3, <3>4
  <2> QED  BY <2>1, <2>2
<1>10. ClLine(v, node)
  BY <1>2, <1>5, <1>9 DEF ClLine, ClFits
<1> QED  BY <1>5, <1>8, <1>10 DEF v

(* A step of one connection, as the others and the tasks see it.           *)
LEMMA LinkStep ==
  ASSUME NEW node, NEW tasks \in SUBSET ClTask, NEW conn \in ClLinks, NEW c \in 1 .. ClConns,
         NEW v \in ClLink, ClCarried(conn, tasks, node), ClLine(v, node),
         ClBoth(v) => ClBoth(conn[c])
  PROVE  [conn EXCEPT ![c] = v] \in ClLinks /\ ClCarried([conn EXCEPT ![c] = v], tasks, node)
<1> DEFINE d == [conn EXCEPT ![c] = v]
<1>1. d \in ClLinks /\ \A b \in 1 .. ClConns : d[b] = IF b = c THEN v ELSE conn[b]
  BY DEF ClLinks
<1> HIDE DEF d
<1>2. \A b \in 1 .. ClConns : ClLine(d[b], node)
  BY <1>1 DEF ClCarried
<1>3. \A t \in tasks : ClServes(t, d, node)
  BY <1>1 DEF ClCarried, ClServes, ClTask
<1> QED  BY <1>1, <1>2, <1>3 DEF ClCarried, d

LEMMA PopKeeps ==
  ASSUME NEW node, NEW tasks \in SUBSET ClTask, NEW conn \in ClLinks, NEW c \in 1 .. ClConns,
         NEW n \in ClNodes, conn[c].q[n] # <<>>, ClCarried(conn, tasks, node)
  PROVE  LET d == [conn EXCEPT ![c].q[n] = Tail(@)]
         IN  d \in ClLinks /\ ClCarried(d, tasks, node)
<1> DEFINE v == [conn[c] EXCEPT !.q[n] = Tail(@)]
<1>1. conn[c] \in ClLink /\ ClLine(conn[c], node)
  BY DEF ClLinks, ClCarried
<1>2. v \in ClLink /\ v.open = conn[c].open /\ ClLine(v, node)
  BY <1>1, PopLine
<1>3. [conn EXCEPT ![c].q[n] = Tail(@)] = [conn EXCEPT ![c] = v]
  OBVIOUS
<1> HIDE DEF v
<1>4. ClBoth(v) => ClBoth(conn[c])
  BY <1>2 DEF ClBoth
<1> QED  BY <1>2, <1>3, <1>4, LinkStep

LEMMA SentKeeps ==
  ASSUME NEW node, NEW tasks \in SUBSET ClTask, NEW conn \in ClLinks, NEW c \in 1 .. ClConns,
         NEW n \in ClNodes, NEW f \in ClFrames, ClCarried(conn, tasks, node),
         ClBoth(conn[c]) => ClFits(f, ClOther(n), ClBoth(conn[c]), node)
  PROVE  ClSent(conn, n, c, f) \in ClLinks /\ ClCarried(ClSent(conn, n, c, f), tasks, node)
<1>1. CASE ~(conn[c].open[n] /\ conn[c].open[ClOther(n)])
  BY <1>1 DEF ClSent
<1>2. CASE conn[c].open[n] /\ conn[c].open[ClOther(n)]
  <2> DEFINE m == ClOther(n)
             v == [conn[c] EXCEPT !.q[m] = Append(@, f)]
  <2>1. m \in ClNodes /\ ClBoth(conn[c])
    BY <1>2 DEF ClNodes, ClOther, ClBoth
  <2>2. conn[c] \in ClLink /\ ClLine(conn[c], node)
    BY DEF ClLinks, ClCarried
  <2>3. v \in ClLink /\ ClLine(v, node)
    BY <2>1, <2>2, SentLine
  <2>4. ClSent(conn, n, c, f) = [conn EXCEPT ![c] = v]
    BY <1>2 DEF ClSent
  <2> HIDE DEF v, m
  <2>5. [conn EXCEPT ![c] = v] \in ClLinks /\ ClCarried([conn EXCEPT ![c] = v], tasks, node)
    BY <2>1, <2>3, LinkStep
  <2> QED  BY <2>4, <2>5
<1> QED  BY <1>1, <1>2

LEMMA EndedKeeps ==
  ASSUME NEW node, NEW tasks \in SUBSET ClTask, NEW conn \in ClLinks, NEW c \in 1 .. ClConns,
         NEW keep, ClCarried(conn, tasks, node)
  PROVE  /\ ClEnded(conn, c, keep) \in ClLinks /\ ClCarried(ClEnded(conn, c, keep), tasks, node)
         /\ ~ClEnded(conn, c, keep)[c].open[1] /\ ~ClEnded(conn, c, keep)[c].open[2]
<1> DEFINE v == ClEndedLink(conn[c], keep)
<1>1. conn[c] \in ClLink /\ ClLine(conn[c], node)
  BY DEF ClLinks, ClCarried
<1>2. v \in ClLink /\ ~v.open[1] /\ ~v.open[2] /\ ~ClBoth(v) /\ ClLine(v, node)
  BY <1>1, EndedLine
<1>3. ClEnded(conn, c, keep) = [conn EXCEPT ![c] = v]
  BY DEF ClEnded, ClEndedLink
<1> HIDE DEF v
<1>4. [conn EXCEPT ![c] = v][c] = v
  BY DEF ClLinks
<1>5. [conn EXCEPT ![c] = v] \in ClLinks /\ ClCarried([conn EXCEPT ![c] = v], tasks, node)
  BY <1>2, LinkStep
<1> QED  BY <1>2, <1>3, <1>4, <1>5

LEMMA ShutKeeps ==
  ASSUME NEW node, NEW tasks \in SUBSET ClTask, NEW conn \in ClLinks, NEW c \in 1 .. ClConns,
         NEW keep, ClCarried(conn, tasks, node)
  PROVE  /\ ClShut(conn, c, keep) \in ClLinks /\ ClCarried(ClShut(conn, c, keep), tasks, node)
         /\ ~ClShut(conn, c, keep)[c].open[1] /\ ~ClShut(conn, c, keep)[c].open[2]
<1>1. CASE \E n \in ClNodes : conn[c].open[n]
  BY <1>1, EndedKeeps DEF ClShut
<1>2. CASE ~\E n \in ClNodes : conn[c].open[n]
  <2>1. ~conn[c].open[1] /\ ~conn[c].open[2]
    BY <1>2 DEF ClNodes
  <2>2. ClShut(conn, c, keep) = conn
    BY <1>2 DEF ClShut
  <2> QED  BY <2>1, <2>2
<1> QED  BY <1>1, <1>2


(* Tasks that are done, tasks without an answer to give, and services that *)
(* stay in their lives.                                                    *)
LEMMA CarriedLess ==
  ASSUME NEW conn, NEW tasks, NEW node, NEW less \in SUBSET tasks, ClCarried(conn, tasks, node)
  PROVE  ClCarried(conn, less, node)
  BY DEF ClCarried
LEMMA CarriedMore ==
  ASSUME NEW conn, NEW tasks, NEW node, NEW t, t.kind # "request", ClCarried(conn, tasks, node)
  PROVE  ClCarried(conn, tasks \cup {t}, node)
  BY DEF ClCarried, ClServes
LEMMA CarriedStays ==
  ASSUME NEW conn, NEW tasks \in SUBSET ClTask, NEW node, NEW after, ClCarried(conn, tasks, node),
         \A n \in ClNodes : after[n].epoch = node[n].epoch
  PROVE  ClCarried(conn, tasks, after)
<1>1. \A n \in ClNodes : ClOther(n) \in ClNodes
  BY DEF ClNodes, ClOther
<1>2. \A c \in 1 .. ClConns : ClLine(conn[c], after)
  BY <1>1 DEF ClCarried, ClLine, ClFits
<1>3. \A t \in tasks : ClServes(t, conn, after)
  BY <1>1 DEF ClCarried, ClServes, ClTask
<1> QED  BY <1>2, <1>3 DEF ClCarried

\* Service v has the books of w, and is in the same life.
ClSame(v, w) ==
  /\ v \in ClService /\ v.next = w.next /\ v.ops = w.ops /\ v.pending = w.pending
  /\ v.timers = w.timers /\ v.epoch = w.epoch

(* A step that asks nothing and answers nothing.                           *)
LEMMA ClQuietKeeps ==
  ASSUME ClInv, clMenu' = clMenu, clCalls' = clCalls, clNode' \in [ClNodes -> ClService],
         \A n \in ClNodes : ClSame(clNode'[n], clNode[n]),
         clConn' \in ClLinks, clTasks' \in SUBSET ClTask, ClCarried(clConn', clTasks', clNode)
  PROVE  ClInv'
<1>1. ClTyped'
  BY DEF ClInv, ClTyped
<1>2. ClBooked'
  BY DEF ClInv, ClBooked, ClBook, ClSame
<1>3. ClCarried(clConn', clTasks', clNode')
  BY CarriedStays DEF ClSame
<1> QED  BY <1>1, <1>2, <1>3 DEF ClInv

(* A step of one service that changes its books.                           *)
LEMMA ClBookKeeps ==
  ASSUME ClInv, NEW n \in ClNodes, NEW v \in ClService, NEW calls \in [ClIds -> Seq(ClAnswers)],
         clMenu' = clMenu, clNode' = [clNode EXCEPT ![n] = v], v.epoch = clNode[n].epoch,
         clCalls' = [clCalls EXCEPT ![n] = calls], ClBook(v, calls, clMenu.ops[n]),
         clConn' \in ClLinks, clTasks' \in SUBSET ClTask, ClCarried(clConn', clTasks', clNode)
  PROVE  ClInv'
<1>1. /\ clNode \in [ClNodes -> ClService] /\ clCalls \in [ClNodes -> [ClIds -> Seq(ClAnswers)]]
      /\ clMenu \in ClMenus
  BY DEF ClInv, ClTyped
<1>2. ClTyped'
  BY <1>1 DEF ClTyped
<1>3. \A m \in ClNodes : clNode'[m] = (IF m = n THEN v ELSE clNode[m])
                         /\ clCalls'[m] = (IF m = n THEN calls ELSE clCalls[m])
  BY <1>1
<1>4. ClBooked'
  BY <1>3 DEF ClInv, ClBooked
<1>5. ClCarried(clConn', clTasks', clNode')
  <2>1. \A m \in ClNodes : clNode'[m].epoch = clNode[m].epoch
    BY <1>3
  <2> QED  BY <2>1, CarriedStays
<1> QED  BY <1>2, <1>4, <1>5 DEF ClInv

\* The answers to the requests of a service, with one more for some of them.
ClAfter(calls, ids, answer) ==
  [i \in ClIds |-> IF i \in ids THEN Append(calls[i], answer) ELSE calls[i]]

(* Requests that were pending get their one answer.                        *)
LEMMA AnsweredBook ==
  ASSUME ClAssumption, NEW v \in ClService, NEW w \in ClService, NEW calls \in [ClIds -> Seq(ClAnswers)],
         NEW most \in 0 .. ClMaxOps, NEW ids \in SUBSET v.pending, NEW answer \in ClAnswers, ClBook(v, calls, most),
         w.next = v.next, w.ops = v.ops, w.pending = v.pending \ ids, w.pending \subseteq w.timers
  PROVE  /\ ClAfter(calls, ids, answer) \in [ClIds -> Seq(ClAnswers)]
         /\ ClBook(w, ClAfter(calls, ids, answer), most)
<1> DEFINE after == ClAfter(calls, ids, answer)
<1>1. \A i \in ClIds : Append(calls[i], answer) \in Seq(ClAnswers)
  BY PlacesAppended
<1>2. after \in [ClIds -> Seq(ClAnswers)]
  BY <1>1 DEF ClAfter
<1>3. /\ v.pending \subseteq ClIds /\ v.next \in Nat /\ v.pending \subseteq 1 .. v.next
      /\ \A i \in ids : calls[i] = <<>>
  BY DEF ClBook, ClService
<1>4. /\ \A i \in ids : Len(after[i]) = 1
      /\ \A i \in ClIds \ ids : after[i] = calls[i]
  BY <1>3 DEF ClAfter
<1>5. \A i \in 1 .. v.next : i \in ClIds
  BY DEF ClBook, ClService, ClIds, ClAssumption
<1> HIDE DEF after
<1>6. \A i \in ClIds : i > w.next => after[i] = <<>>
  <2> SUFFICES ASSUME NEW i \in ClIds, i > w.next
               PROVE  after[i] = <<>>
    OBVIOUS
  <2>1. i \notin ids
    BY <1>3 DEF ClIds
  <2> QED  BY <1>4, <2>1 DEF ClBook
<1>7. \A i \in w.pending : i \in w.timers /\ after[i] = <<>>
  BY <1>3, <1>4 DEF ClBook
<1>8. \A i \in 1 .. w.next : i \notin w.pending => Len(after[i]) = 1
  BY <1>3, <1>4, <1>5 DEF ClBook
<1>9. w.next <= w.ops /\ w.ops <= most /\ w.pending \subseteq 1 .. w.next
  BY DEF ClBook
<1> QED  BY <1>2, <1>6, <1>7, <1>8, <1>9 DEF ClBook, after


LEMMA ClParts ==
  ASSUME ClAssumption, ClInv
  PROVE  /\ clNode \in [ClNodes -> ClService] /\ clConn \in ClLinks /\ clTasks \in SUBSET ClTask
         /\ clCalls \in [ClNodes -> [ClIds -> Seq(ClAnswers)]]
         /\ ClCarried(clConn, clTasks, clNode)
         /\ \A n \in ClNodes : /\ clMenu.ops[n] \in 0 .. ClMaxOps
                               /\ ClBook(clNode[n], clCalls[n], clMenu.ops[n])
  BY DEF ClInv, ClTyped, ClBooked, ClAssumption

(* What leaves the books of a service as they are.                         *)
LEMMA SameBooks ==
  ASSUME NEW v \in ClService
  PROVE  /\ ClSame(v, v)
         /\ \A d \in Int : ClSame([v EXCEPT !.dial = d], v)
         /\ \A c \in 1 .. ClConns : \A p \in ClPeer : ClSame([v EXCEPT !.peers[c] = p], v)
         /\ \A c \in 0 .. ClConns : ClSame([v EXCEPT !.active = c], v)
<1>1. ClSame(v, v) /\ \A d \in Int : ClSame([v EXCEPT !.dial = d], v)
  BY DEF ClSame, ClService
<1>2. \A c \in 0 .. ClConns : ClSame([v EXCEPT !.active = c], v)
  BY DEF ClSame, ClService
<1>3. ASSUME NEW c \in 1 .. ClConns, NEW p \in ClPeer
      PROVE  ClSame([v EXCEPT !.peers[c] = p], v)
  <2>1. [v.peers EXCEPT ![c] = p] \in [1 .. ClConns -> ClPeer]
    BY DEF ClService
  <2>2. [v EXCEPT !.peers[c] = p] = [v EXCEPT !.peers = [v.peers EXCEPT ![c] = p]]
    OBVIOUS
  <2> DEFINE ps == [v.peers EXCEPT ![c] = p]
  <2> HIDE DEF ps
  <2>3. ps \in [1 .. ClConns -> ClPeer] => ClSame([v EXCEPT !.peers = ps], v)
    BY DEF ClSame, ClService
  <2> QED  BY <2>1, <2>2, <2>3 DEF ps
<1> QED  BY <1>1, <1>2, <1>3

(* Node n moves to v, which has the same books; the others stay.           *)
LEMMA NodeSame ==
  ASSUME clNode \in [ClNodes -> ClService], NEW n \in ClNodes, NEW v, ClSame(v, clNode[n]),
         clNode' = [clNode EXCEPT ![n] = v]
  PROVE  clNode' \in [ClNodes -> ClService] /\ \A m \in ClNodes : ClSame(clNode'[m], clNode[m])
<1>1. v \in ClService
  BY DEF ClSame
<1>2. \A m \in ClNodes : clNode'[m] = IF m = n THEN v ELSE clNode[m]
  OBVIOUS
<1>3. \A m \in ClNodes : ClSame(clNode[m], clNode[m])
  BY SameBooks
<1>4. clNode' \in [ClNodes -> ClService]
  BY <1>1
<1> QED  BY <1>2, <1>3, <1>4
LEMMA NodesSame ==
  ASSUME clNode \in [ClNodes -> ClService], clNode' = clNode
  PROVE  clNode' \in [ClNodes -> ClService] /\ \A m \in ClNodes : ClSame(clNode'[m], clNode[m])
  BY SameBooks

(* Connections that end, whoever ends them.                                *)
LEMMA ClEndKeeps ==
  ASSUME ClAssumption, ClInv, NEW c \in 1 .. ClConns, NEW keep,
         ClCut(c, keep) \/ \E n \in ClNodes : ClBadFrame(n, c, keep)
  PROVE  ClInv'
<1>1. clConn' = ClEnded(clConn, c, keep) /\ UNCHANGED <<clMenu, clNode, clTasks, clCalls>>
  BY DEF ClCut, ClBadFrame
<1>2. clConn' \in ClLinks /\ ClCarried(clConn', clTasks', clNode)
  BY <1>1, ClParts, EndedKeeps
<1> QED  BY <1>1, <1>2, ClParts, NodesSame, ClQuietKeeps

(* net::connect is asked for, on a connection that nobody refers to.       *)
LEMMA ClConnectKeeps ==
  ASSUME ClAssumption, ClInv, NEW n \in ClNodes, NEW c \in 1 .. ClConns, ClConnect(n, c)
  PROVE  ClInv'
<1>1. clMenu' = clMenu /\ clCalls' = clCalls /\ clNode' = [clNode EXCEPT ![n].dial = @ - 1]
  BY DEF ClConnect
<1>2. clNode' \in [ClNodes -> ClService] /\ \A m \in ClNodes : ClSame(clNode'[m], clNode[m])
  <2> DEFINE v == [clNode[n] EXCEPT !.dial = @ - 1]
  <2>1. clNode' = [clNode EXCEPT ![n] = v]
    BY <1>1
  <2>2. ClSame(v, clNode[n])
    <3>1. clNode[n] \in ClService /\ clNode[n].dial - 1 \in Int
      BY ClParts DEF ClService
    <3>2. v = [clNode[n] EXCEPT !.dial = clNode[n].dial - 1]
      OBVIOUS
    <3> QED  BY <3>1, <3>2, SameBooks
  <2> HIDE DEF v
  <2> QED  BY <2>1, <2>2, ClParts, NodeSame
<1>3. CASE UNCHANGED <<clConn, clTasks>>
  BY <1>1, <1>2, <1>3, ClParts, ClQuietKeeps
<1>4. CASE ~UNCHANGED <<clConn, clTasks>>
  <2> DEFINE a == [kind |-> "accept"]
             k == [by |-> n, open |-> [m \in ClNodes |-> TRUE],
                   q |-> [m \in ClNodes |-> IF m = n THEN <<>> ELSE <<a>>]]
             t == [kind |-> "dial", n |-> n, c |-> c, id |-> 0, epoch |-> 0]
  <2>1. /\ clConn' = [clConn EXCEPT ![c] = k] /\ clTasks' = clTasks \cup {t}
        /\ \A u \in clTasks : u.c # c
    BY <1>4 DEF ClConnect, ClUnused
  <2>2. a \in ClFrames /\ a.kind = "accept" /\ t \in ClTask /\ t.kind = "dial" /\ t.c = c
    BY DEF ClFrames, ClTask
  <2>3. k \in ClLink
    <3>1. n \in 0 .. 2 /\ k.open \in [ClNodes -> BOOLEAN]
      BY DEF ClNodes
    <3> HIDE DEF a
    <3>2. <<>> \in Seq(ClFrames) /\ <<a>> \in Seq(ClFrames)
      BY <2>2
    <3>3. k.q \in [ClNodes -> Seq(ClFrames)]
      BY <3>2
    <3> QED  BY <3>1, <3>3 DEF ClLink
  <2>4. \A m \in ClNodes : k.q[m] = <<>> \/ k.q[m] = <<a>>
    OBVIOUS
  <2> HIDE DEF a, k, t
  <2>5. \A m \in ClNodes : \A i \in 1 .. Len(k.q[m]) : k.q[m][i] = a
    <3>1. Len(<<>>) = 0 /\ Len(<<a>>) = 1 /\ <<a>>[1] = a
      OBVIOUS
    <3>2. \A i \in 1 .. 1 : i = 1
      OBVIOUS
    <3>3. \A i \in 1 .. 0 : FALSE
      OBVIOUS
    <3> QED  BY <2>4, <3>1, <3>2, <3>3
  <2>6. ClLine(k, clNode)
    BY <2>2, <2>5 DEF ClLine, ClFits
  <2>7. clConn' \in ClLinks /\ \A b \in 1 .. ClConns : clConn'[b] = IF b = c THEN k ELSE clConn[b]
    BY <2>1, <2>3, ClParts DEF ClLinks
  <2>8. ClCarried(clConn', clTasks', clNode)
    <3>1. \A b \in 1 .. ClConns : ClLine(clConn'[b], clNode)
      BY <2>6, <2>7, ClParts DEF ClCarried
    <3>2. \A u \in clTasks : ClServes(u, clConn', clNode)
      BY <2>1, <2>7, ClParts DEF ClCarried, ClServes, ClTask
    <3>3. ClServes(t, clConn', clNode)
      BY <2>2 DEF ClServes
    <3> QED  BY <2>1, <3>1, <3>2, <3>3 DEF ClCarried
  <2>9. clTasks' \in SUBSET ClTask
    BY <2>1, <2>2, ClParts
  <2> QED  BY <1>1, <1>2, <2>7, <2>8, <2>9, ClQuietKeeps
<1> QED  BY <1>3, <1>4

(* The answers of net::connect and of net::start: Hello is sent.           *)
LEMMA ClGreetKeeps ==
  ASSUME ClAssumption, ClInv, NEW t \in clTasks, ClConnected(t) \/ ClStarted(t)
  PROVE  ClInv'
<1> DEFINE f == [kind |-> "hello"]
           p == [there |-> TRUE, out |-> TRUE, claimed |-> FALSE]
<1>1. /\ clMenu' = clMenu /\ clCalls' = clCalls /\ clTasks' = clTasks \ {t}
      /\ clConn' = ClSent(clConn, t.n, t.c, f)
      /\ clNode' = clNode \/ clNode' = [clNode EXCEPT ![t.n].peers[t.c] = p]
  BY DEF ClConnected, ClStarted
<1>2. t.n \in ClNodes /\ t.c \in 1 .. ClConns
  BY ClParts DEF ClTask
<1>3. f \in ClFrames /\ f.kind = "hello" /\ p \in ClPeer
  BY DEF ClFrames, ClPeer
<1> HIDE DEF f, p
<1>4. \A m, both : ClFits(f, m, both, clNode)
  BY <1>3 DEF ClFits
<1>5. clConn' \in ClLinks /\ ClCarried(clConn', clTasks, clNode)
  BY <1>1, <1>2, <1>3, <1>4, ClParts, SentKeeps
<1>6. clTasks' \in SUBSET clTasks /\ clTasks' \in SUBSET ClTask
  BY <1>1, ClParts
<1>7. ClCarried(clConn', clTasks', clNode)
  BY <1>5, <1>6, CarriedLess
<1>8. clNode' \in [ClNodes -> ClService] /\ \A m \in ClNodes : ClSame(clNode'[m], clNode[m])
  <2> DEFINE v == [clNode[t.n] EXCEPT !.peers[t.c] = p]
  <2>1. [clNode EXCEPT ![t.n].peers[t.c] = p] = [clNode EXCEPT ![t.n] = v]
    OBVIOUS
  <2>2. ClSame(v, clNode[t.n])
    BY <1>2, <1>3, ClParts, SameBooks
  <2> HIDE DEF v
  <2>3. CASE clNode' = clNode
    BY <2>3, ClParts, NodesSame
  <2>4. CASE clNode' = [clNode EXCEPT ![t.n] = v]
    BY <1>2, <2>2, <2>4, ClParts, NodeSame
  <2> QED  BY <1>1, <2>1, <2>3, <2>4
<1> QED  BY <1>1, <1>5, <1>6, <1>7, <1>8, ClQuietKeeps

(* Accept: the peer is entered and net::start awaited.                     *)
LEMMA ClAcceptKeeps ==
  ASSUME ClAssumption, ClInv, NEW n \in ClNodes, NEW c \in 1 .. ClConns, ClAccept(n, c)
  PROVE  ClInv'
<1> DEFINE t == [kind |-> "start", n |-> n, c |-> c, id |-> 0, epoch |-> 0]
           p == [there |-> TRUE, out |-> FALSE, claimed |-> FALSE]
           v == [clNode[n] EXCEPT !.peers[c] = p]
<1>1. /\ clMenu' = clMenu /\ clCalls' = clCalls /\ clTasks' = clTasks \cup {t}
      /\ clConn' = ClPop(n, c) /\ clConn[c].q[n] # <<>>
      /\ clNode' = [clNode EXCEPT ![n] = v]
  BY DEF ClAccept, ClEvent, ClHead
<1>2. t \in ClTask /\ t.kind = "start" /\ p \in ClPeer
  BY DEF ClTask, ClPeer
<1>3. ClSame(v, clNode[n])
  <2> HIDE DEF p
  <2> QED  BY <1>2, ClParts, SameBooks
<1> HIDE DEF t, p, v
<1>4. clConn' \in ClLinks /\ ClCarried(clConn', clTasks, clNode)
  BY <1>1, ClParts, PopKeeps DEF ClPop
<1>5. ClCarried(clConn', clTasks', clNode)
  BY <1>1, <1>2, <1>4, CarriedMore
<1>6. clTasks' \in SUBSET ClTask
  BY <1>1, <1>2, ClParts
<1>7. clNode' \in [ClNodes -> ClService] /\ \A m \in ClNodes : ClSame(clNode'[m], clNode[m])
  BY <1>1, <1>3, ClParts, NodeSame
<1> QED  BY <1>1, <1>4, <1>5, <1>6, <1>7, ClQuietKeeps


LEMMA SameTwice ==
  ASSUME NEW u, NEW v, NEW w, ClSame(u, v), ClSame(v, w)
  PROVE  ClSame(u, w)
  BY DEF ClSame

(* Hello: the new connection is shut, or taken and the old one shut.       *)
LEMMA ClHelloKeeps ==
  ASSUME ClAssumption, ClInv, NEW n \in ClNodes, NEW c \in 1 .. ClConns, NEW keep,
         ClHello(n, c, keep)
  PROVE  ClInv'
<1> DEFINE old == clNode[n].active
           p == [clNode[n].peers[c] EXCEPT !.claimed = TRUE]
           u == [clNode[n] EXCEPT !.peers[c] = p]
           v == [u EXCEPT !.active = c]
           w == [v EXCEPT !.peers[old] = ClNoPeer]
           claimed == [clNode EXCEPT ![n].peers[c].claimed = TRUE]
<1>1. /\ clMenu' = clMenu /\ clCalls' = clCalls /\ clTasks' = clTasks /\ clConn[c].q[n] # <<>>
      /\ \/ clNode' = claimed /\ clConn' = ClShut(ClPop(n, c), c, keep)
         \/ clNode' = [claimed EXCEPT ![n].active = c] /\ clConn' = ClPop(n, c)
         \/ /\ clNode' = [claimed EXCEPT ![n].active = c, ![n].peers[old] = ClNoPeer]
            /\ old # 0 /\ clConn' = ClShut(ClPop(n, c), old, keep)
  BY DEF ClHello, ClEvent, ClHead
<1>2. clNode[n] \in ClService /\ clNode[n].peers[c] \in ClPeer /\ old \in 0 .. ClConns
  BY ClParts DEF ClService
<1>3. p \in ClPeer /\ ClNoPeer \in ClPeer
  BY <1>2 DEF ClPeer, ClNoPeer
<1>4. /\ claimed = [clNode EXCEPT ![n] = u]
      /\ [claimed EXCEPT ![n].active = c] = [clNode EXCEPT ![n] = v]
      /\ [claimed EXCEPT ![n].active = c, ![n].peers[old] = ClNoPeer] = [clNode EXCEPT ![n] = w]
  <2>1. clNode \in [ClNodes -> ClService]
    BY ClParts
  <2>2. claimed = [clNode EXCEPT ![n] = u]
    OBVIOUS
  <2>3. [claimed EXCEPT ![n].active = c] = [clNode EXCEPT ![n] = v]
    <3> HIDE DEF claimed, u
    <3> QED  BY <2>1, <2>2
  <2>4. [claimed EXCEPT ![n].active = c, ![n].peers[old] = ClNoPeer] = [clNode EXCEPT ![n] = w]
    <3> HIDE DEF claimed, u, old
    <3> QED  BY <2>1, <2>2
  <2> QED  BY <2>2, <2>3, <2>4
<1>5. ClSame(u, clNode[n])
  <2> HIDE DEF p
  <2> QED  BY <1>2, <1>3, SameBooks
<1>6. ClSame(v, clNode[n]) /\ v \in ClService
  <2> HIDE DEF u
  <2>1. u \in ClService
    BY <1>5 DEF ClSame
  <2>2. ClSame(v, u)
    BY <2>1, SameBooks
  <2> QED  BY <1>5, <2>2, SameTwice DEF ClSame
<1>7. old # 0 => ClSame(w, clNode[n])
  <2>1. old # 0 => old \in 1 .. ClConns
    BY <1>2
  <2> HIDE DEF v, old
  <2>2. old # 0 => ClSame(w, v)
    BY <1>3, <1>6, <2>1, SameBooks
  <2> QED  BY <1>6, <2>2, SameTwice
<1> HIDE DEF p, u, v, w, claimed
<1>8. clNode' \in [ClNodes -> ClService] /\ \A m \in ClNodes : ClSame(clNode'[m], clNode[m])
  <2>1. PICK x : ClSame(x, clNode[n]) /\ clNode' = [clNode EXCEPT ![n] = x]
    BY <1>1, <1>4, <1>5, <1>6, <1>7
  <2> QED  BY <2>1, ClParts, NodeSame
<1>9. ClPop(n, c) \in ClLinks /\ ClCarried(ClPop(n, c), clTasks, clNode)
  BY <1>1, ClParts, PopKeeps DEF ClPop
<1>10. clConn' \in ClLinks /\ ClCarried(clConn', clTasks, clNode)
  <2>1. old # 0 => old \in 1 .. ClConns
    BY <1>2
  <2> HIDE DEF old
  <2>2. CASE clConn' = ClPop(n, c)
    BY <1>9, <2>2
  <2>3. ASSUME NEW b \in 1 .. ClConns, clConn' = ClShut(ClPop(n, c), b, keep)
        PROVE  clConn' \in ClLinks /\ ClCarried(clConn', clTasks, clNode)
    BY <1>9, <2>3, ClParts, ShutKeeps
  <2> QED  BY <1>1, <2>1, <2>2, <2>3
<1> QED  BY <1>1, <1>8, <1>10, ClParts, ClQuietKeeps

(* Close or Error: what is pending fails when the connection was in use.   *)
LEMMA ClDisconnectedKeeps ==
  ASSUME ClAssumption, ClInv, NEW n \in ClNodes, NEW c \in 1 .. ClConns, ClDisconnected(n, c)
  PROVE  ClInv'
<1> DEFINE gone == [clNode[n] EXCEPT !.peers[c] = ClNoPeer]
<1>1. /\ clMenu' = clMenu /\ clTasks' = clTasks /\ clConn' = ClPop(n, c) /\ clConn[c].q[n] # <<>>
      /\ \/ clNode' = [clNode EXCEPT ![n] = gone] /\ clCalls' = clCalls
         \/ /\ clNode' = [clNode EXCEPT ![n] = [gone EXCEPT !.active = 0, !.pending = {},
                            !.dial = @ + ClRetry(n), !.retried = TRUE]]
            /\ clCalls' = ClAnswer(clCalls, n, clNode[n].pending, "failed")
  BY DEF ClDisconnected, ClEvent, ClHead, ClFailPending
<1>2. clNode[n] \in ClService /\ ClNoPeer \in ClPeer
  BY ClParts DEF ClPeer, ClNoPeer
<1>3. ClSame(gone, clNode[n]) /\ gone \in ClService
  BY <1>2, SameBooks DEF ClSame
<1> HIDE DEF gone
<1>4. clConn' \in ClLinks /\ ClCarried(clConn', clTasks', clNode) /\ clTasks' \in SUBSET ClTask
  BY <1>1, ClParts, PopKeeps DEF ClPop
<1>5. CASE clNode' = [clNode EXCEPT ![n] = gone] /\ clCalls' = clCalls
  <2>1. clNode' \in [ClNodes -> ClService] /\ \A m \in ClNodes : ClSame(clNode'[m], clNode[m])
    BY <1>3, <1>5, ClParts, NodeSame
  <2> QED  BY <1>1, <1>4, <1>5, <2>1, ClQuietKeeps
<1>6. CASE /\ clNode' = [clNode EXCEPT ![n] = [gone EXCEPT !.active = 0, !.pending = {},
                           !.dial = @ + ClRetry(n), !.retried = TRUE]]
           /\ clCalls' = ClAnswer(clCalls, n, clNode[n].pending, "failed")
  <2> DEFINE v == [gone EXCEPT !.active = 0, !.pending = {}, !.dial = @ + ClRetry(n), !.retried = TRUE]
             calls == clCalls[n]
             after == ClAfter(calls, clNode[n].pending, "failed")
  <2>1. v \in ClService /\ v.pending = {} /\ v.next = gone.next /\ v.ops = gone.ops
        /\ v.epoch = gone.epoch
    <3>1. gone.dial + ClRetry(n) \in Int /\ 0 \in 0 .. ClConns
      BY <1>3 DEF ClService, ClRetry, ClAssumption
    <3> QED  BY <1>3, <3>1 DEF ClService
  <2>2. v.next = clNode[n].next /\ v.ops = clNode[n].ops /\ v.epoch = clNode[n].epoch
    BY <1>3, <2>1 DEF ClSame
  <2>3. clNode' = [clNode EXCEPT ![n] = v] /\ clCalls' = [clCalls EXCEPT ![n] = after]
    BY <1>6 DEF ClAnswer, ClAfter
  <2> HIDE DEF v
  <2>4. after \in [ClIds -> Seq(ClAnswers)] /\ ClBook(v, after, clMenu.ops[n])
    <3>1. /\ calls \in [ClIds -> Seq(ClAnswers)] /\ clMenu.ops[n] \in 0 .. ClMaxOps
          /\ ClBook(clNode[n], calls, clMenu.ops[n]) /\ "failed" \in ClAnswers
      BY ClParts DEF ClAnswers
    <3>2. v.pending = clNode[n].pending \ clNode[n].pending /\ v.pending \subseteq v.timers
      BY <2>1
    <3> HIDE DEF calls
    <3> QED  BY <1>2, <2>1, <2>2, <3>1, <3>2, AnsweredBook
  <2> HIDE DEF after
  <2> QED  BY <1>1, <1>4, <2>1, <2>2, <2>3, <2>4, ClBookKeeps
<1> QED  BY <1>1, <1>5, <1>6


(* Command::Request: it fails at once, or is pending with a timer.         *)
LEMMA ClRequestKeeps ==
  ASSUME ClAssumption, ClInv, NEW n \in ClNodes, ClRequest(n)
  PROVE  ClInv'
<1> DEFINE old == clNode[n]
           calls == clCalls[n]
           id == old.next + 1
           asked == [old EXCEPT !.next = id, !.ops = @ + 1]
           sent == [asked EXCEPT !.pending = @ \cup {id}, !.timers = @ \cup {id}]
           f == ClFrame("request", id, old.epoch)
           after == ClAfter(calls, {id}, "failed")
<1>1. /\ clMenu' = clMenu /\ clTasks' = clTasks /\ old.ops < clMenu.ops[n]
      /\ \/ /\ clNode' = [clNode EXCEPT ![n] = asked] /\ clConn' = clConn
            /\ clCalls' = [clCalls EXCEPT ![n] = after]
         \/ /\ clNode' = [clNode EXCEPT ![n] = sent] /\ old.active # 0 /\ clCalls' = clCalls
            /\ clConn' = ClSent(clConn, n, old.active, f)
  BY DEF ClRequest, ClAnswer, ClAfter
<1>2. /\ old \in ClService /\ clMenu.ops[n] \in 0 .. ClMaxOps
      /\ calls \in [ClIds -> Seq(ClAnswers)] /\ ClBook(old, calls, clMenu.ops[n])
      /\ clCalls = [clCalls EXCEPT ![n] = calls]
  BY ClParts
<1>3. /\ old.next \in Nat /\ old.ops \in Nat /\ old.next <= old.ops
      /\ id \in Nat /\ id \in ClIds /\ id \notin old.pending /\ calls[id] = <<>>
      /\ old.ops + 1 <= clMenu.ops[n] /\ old.epoch \in Nat /\ old.active \in 0 .. ClConns
  <2>1. /\ old.next \in Nat /\ old.ops \in Nat /\ old.next <= old.ops /\ old.ops <= clMenu.ops[n]
        /\ old.epoch \in Nat /\ old.active \in 0 .. ClConns /\ old.pending \subseteq 1 .. old.next
        /\ ClMaxOps \in Nat
    BY <1>2 DEF ClService, ClBook, ClAssumption
  <2> HIDE DEF old
  <2>2. id \in Nat /\ id \in ClIds /\ id \notin old.pending /\ old.ops + 1 <= clMenu.ops[n] /\ id > old.next
    BY <1>1, <1>2, <2>1, SMTT(30) DEF ClIds
  <2>3. calls[id] = <<>>
    BY <1>2, <2>2 DEF ClBook
  <2> QED  BY <2>1, <2>2, <2>3
<1>4. /\ asked \in ClService /\ asked.next = id /\ asked.ops = old.ops + 1
      /\ asked.pending = old.pending /\ asked.timers = old.timers /\ asked.epoch = old.epoch
  <2> DEFINE more == old.ops + 1
  <2>1. more \in Nat /\ id \in Nat /\ asked = [old EXCEPT !.next = id, !.ops = more]
    BY <1>3
  <2> HIDE DEF old, id, more, asked
  <2>2. asked \in ClService
    BY <1>2, <2>1 DEF ClService
  <2>3. /\ asked.next = id /\ asked.ops = more /\ asked.pending = old.pending
        /\ asked.timers = old.timers /\ asked.epoch = old.epoch
    BY <1>2, <2>1 DEF ClService
  <2> QED  BY <2>2, <2>3 DEF more
<1>5. /\ sent \in ClService /\ sent.next = id /\ sent.ops = old.ops + 1
      /\ sent.pending = old.pending \cup {id} /\ sent.timers = old.timers \cup {id}
      /\ sent.epoch = old.epoch
  <2> HIDE DEF asked, id, old
  <2> QED  BY <1>3, <1>4 DEF ClService
<1>6. CASE /\ clNode' = [clNode EXCEPT ![n] = asked] /\ clConn' = clConn
           /\ clCalls' = [clCalls EXCEPT ![n] = after]
  <2>1. /\ after \in [ClIds -> Seq(ClAnswers)] /\ Len(after[id]) = 1
        /\ \A i \in ClIds : i # id => after[i] = calls[i]
    <3>1. "failed" \in ClAnswers
      BY DEF ClAnswers
    <3>2. \A i \in ClIds : Append(calls[i], "failed") \in Seq(ClAnswers)
      BY <1>2, <3>1, PlacesAppended
    <3> HIDE DEF calls, id
    <3> QED  BY <1>2, <1>3, <3>2 DEF ClAfter
  <2> HIDE DEF asked, after, calls
  <2>2. ClBook(asked, after, clMenu.ops[n])
    <3>1. asked.next <= asked.ops /\ asked.ops <= clMenu.ops[n]
      BY <1>3, <1>4
    <3>2. /\ 1 .. id \subseteq ClIds /\ 1 .. id = (1 .. old.next) \cup {id}
          /\ old.pending \subseteq 1 .. old.next /\ id \notin 1 .. old.next
      <4>1. old.pending \subseteq 1 .. old.next /\ ClMaxOps \in Nat
        BY <1>2 DEF ClBook, ClAssumption
      <4> HIDE DEF old
      <4>2. 1 .. id \subseteq ClIds /\ id \notin 1 .. old.next
        BY <1>3, <4>1 DEF ClIds
      <4>3. 1 .. id = (1 .. old.next) \cup {id}
        BY <1>3
      <4> QED  BY <4>1, <4>2, <4>3
    <3>3. \A i \in asked.pending : i \in asked.timers /\ after[i] = <<>>
      BY <1>2, <1>4, <2>1, <3>2 DEF ClBook
    <3>4. \A i \in ClIds : i > asked.next => after[i] = <<>>
      <4> SUFFICES ASSUME NEW i \in ClIds, i > asked.next
                   PROVE  after[i] = <<>>
        OBVIOUS
      <4>1. i # id /\ i > old.next
        BY <1>3, <1>4 DEF ClIds
      <4> QED  BY <1>2, <2>1, <4>1 DEF ClBook
    <3>5. \A i \in 1 .. asked.next : i \notin asked.pending => Len(after[i]) = 1
      BY <1>2, <1>4, <2>1, <3>2 DEF ClBook
    <3>6. asked.pending \subseteq 1 .. asked.next
      BY <1>4, <3>2
    <3> QED  BY <3>1, <3>3, <3>4, <3>5, <3>6 DEF ClBook
  <2>3. clConn' \in ClLinks /\ ClCarried(clConn', clTasks', clNode) /\ clTasks' \in SUBSET ClTask
    BY <1>1, <1>6, ClParts
  <2> QED  BY <1>1, <1>4, <1>6, <2>1, <2>2, <2>3, ClBookKeeps
<1>7. CASE /\ clNode' = [clNode EXCEPT ![n] = sent] /\ old.active # 0 /\ clCalls' = clCalls
           /\ clConn' = ClSent(clConn, n, old.active, f)
  <2>1. f \in ClFrames /\ f.kind = "request" /\ f.epoch = old.epoch
    <3> HIDE DEF id, old
    <3> QED  BY <1>3 DEF ClFrame, ClFrames
  <2> HIDE DEF sent, calls, f
  <2>2. ClBook(sent, calls, clMenu.ops[n])
    <3>1. sent.next <= sent.ops /\ sent.ops <= clMenu.ops[n]
      BY <1>3, <1>5
    <3>2. /\ 1 .. id = (1 .. old.next) \cup {id} /\ old.pending \subseteq 1 .. old.next
      BY <1>2, <1>3 DEF ClBook
    <3>3. \A i \in sent.pending : i \in sent.timers /\ calls[i] = <<>>
      BY <1>2, <1>3, <1>5 DEF ClBook
    <3>4. \A i \in ClIds : i > sent.next => calls[i] = <<>>
      <4> SUFFICES ASSUME NEW i \in ClIds, i > sent.next
                   PROVE  calls[i] = <<>>
        OBVIOUS
      <4>1. i > old.next
        BY <1>3, <1>5 DEF ClIds
      <4> QED  BY <1>2, <4>1 DEF ClBook
    <3>5. \A i \in 1 .. sent.next : i \notin sent.pending => Len(calls[i]) = 1
      BY <1>2, <1>5, <3>2 DEF ClBook
    <3>6. sent.pending \subseteq 1 .. sent.next
      BY <1>5, <3>2
    <3> QED  BY <3>1, <3>3, <3>4, <3>5, <3>6 DEF ClBook
  <2>3. ClFits(f, ClOther(n), TRUE, clNode) /\ old.active \in 1 .. ClConns
    <3>1. ClOther(ClOther(n)) = n
      BY DEF ClOther, ClNodes
    <3> QED  BY <1>3, <1>7, <2>1, <3>1 DEF ClFits
  <2> HIDE DEF old
  <2>4. clConn' \in ClLinks /\ ClCarried(clConn', clTasks, clNode)
    <3>1. ClBoth(clConn[old.active]) => ClFits(f, ClOther(n), ClBoth(clConn[old.active]), clNode)
      BY <2>3 DEF ClFits
    <3> QED  BY <1>7, <2>1, <2>3, <3>1, ClParts, SentKeeps
  <2> QED  BY <1>1, <1>2, <1>5, <1>7, <2>2, <2>4, ClParts, ClBookKeeps DEF old
<1> QED  BY <1>1, <1>6, <1>7

(* Command::Send: a frame that asks for nothing.                           *)
LEMMA ClSendKeeps ==
  ASSUME ClAssumption, ClInv, NEW n \in ClNodes, ClSend(n)
  PROVE  ClInv'
<1> DEFINE old == clNode[n]
           calls == clCalls[n]
           v == [old EXCEPT !.ops = @ + 1]
           f == ClFrame("send", 0, 0)
<1>1. /\ clMenu' = clMenu /\ clTasks' = clTasks /\ old.ops < clMenu.ops[n] /\ old.active # 0
      /\ clNode' = [clNode EXCEPT ![n] = v] /\ clCalls' = clCalls
      /\ clConn' = ClSent(clConn, n, old.active, f)
  BY DEF ClSend
<1>2. /\ old \in ClService /\ clMenu.ops[n] \in 0 .. ClMaxOps
      /\ calls \in [ClIds -> Seq(ClAnswers)] /\ ClBook(old, calls, clMenu.ops[n])
      /\ clCalls = [clCalls EXCEPT ![n] = calls]
  BY ClParts
<1>3. f \in ClFrames /\ f.kind = "send"
  BY DEF ClFrame, ClFrames
<1> HIDE DEF old, calls, f
<1>4. /\ v \in ClService /\ v.next = old.next /\ v.ops = old.ops + 1 /\ v.pending = old.pending
      /\ v.timers = old.timers /\ v.epoch = old.epoch
      /\ old.next \in Nat /\ old.ops \in Nat /\ old.active \in 1 .. ClConns
  <2> DEFINE more == old.ops + 1
  <2>1. /\ old.next \in Nat /\ old.ops \in Nat /\ old.active \in 0 .. ClConns
    BY <1>2 DEF ClService
  <2>2. more \in Nat /\ v = [old EXCEPT !.ops = more] /\ old.active \in 1 .. ClConns
    BY <1>1, <2>1
  <2> HIDE DEF more, v
  <2>3. v \in ClService
    BY <1>2, <2>2 DEF ClService
  <2>4. /\ v.next = old.next /\ v.ops = more /\ v.pending = old.pending
        /\ v.timers = old.timers /\ v.epoch = old.epoch
    BY <1>2, <2>2 DEF ClService
  <2> QED  BY <2>1, <2>2, <2>3, <2>4 DEF more
<1> HIDE DEF v
<1>5. ClBook(v, calls, clMenu.ops[n])
  BY <1>1, <1>2, <1>4 DEF ClBook
<1>6. \A m, both : ClFits(f, m, both, clNode)
  BY <1>3 DEF ClFits
<1>7. clConn' \in ClLinks /\ ClCarried(clConn', clTasks, clNode)
  BY <1>1, <1>3, <1>4, <1>6, ClParts, SentKeeps
<1> QED  BY <1>1, <1>2, <1>4, <1>5, <1>7, ClParts, ClBookKeeps DEF old

(* The timer of a request: it fails if it is pending.                      *)
LEMMA ClTimeoutKeeps ==
  ASSUME ClAssumption, ClInv, NEW n \in ClNodes, NEW id \in ClIds, ClTimeout(n, id)
  PROVE  ClInv'
<1> DEFINE old == clNode[n]
           calls == clCalls[n]
           ids == {id} \cap old.pending
           v == [old EXCEPT !.timers = @ \ {id}, !.pending = @ \ {id}]
           after == ClAfter(calls, ids, "failed")
<1>1. /\ clMenu' = clMenu /\ clTasks' = clTasks /\ clConn' = clConn
      /\ clNode' = [clNode EXCEPT ![n] = v] /\ clCalls' = [clCalls EXCEPT ![n] = after]
  BY ClParts DEF ClTimeout, ClAnswer, ClAfter
<1>2. /\ old \in ClService /\ clMenu.ops[n] \in 0 .. ClMaxOps
      /\ calls \in [ClIds -> Seq(ClAnswers)] /\ ClBook(old, calls, clMenu.ops[n])
  BY ClParts
<1> HIDE DEF old, calls
<1>3. /\ v \in ClService /\ v.next = old.next /\ v.ops = old.ops /\ v.epoch = old.epoch
      /\ v.pending = old.pending \ {id} /\ v.timers = old.timers \ {id}
  BY <1>2 DEF ClService
<1> HIDE DEF v
<1>4. ids \in SUBSET old.pending /\ v.pending = old.pending \ ids /\ v.pending \subseteq v.timers
  BY <1>2, <1>3 DEF ClBook
<1>5. "failed" \in ClAnswers
  BY DEF ClAnswers
<1> HIDE DEF ids
<1>6. after \in [ClIds -> Seq(ClAnswers)] /\ ClBook(v, after, clMenu.ops[n])
  BY <1>2, <1>3, <1>4, <1>5, AnsweredBook
<1> HIDE DEF after
<1> QED  BY <1>1, <1>3, <1>6, ClParts, ClBookKeeps DEF old


(* A request, a send or an answer arrives.                                 *)
LEMMA ClEnvelopeKeeps ==
  ASSUME ClAssumption, ClInv, NEW n \in ClNodes, NEW c \in 1 .. ClConns, ClEnvelope(n, c)
  PROVE  ClInv'
<1> DEFINE q == clConn[c].q[n]
           f == Head(q)
           old == clNode[n]
           t == [kind |-> f.kind, n |-> n, c |-> c, id |-> f.id, epoch |-> f.epoch]
           ids == {f.id} \cap old.pending
           v == [old EXCEPT !.pending = @ \ {f.id}]
           answer == IF f.epoch # old.epoch THEN "stale" ELSE f.kind
           calls == clCalls[n]
           after == ClAfter(calls, ids, answer)
<1>1. /\ clMenu' = clMenu /\ clConn' = ClPop(n, c) /\ q # <<>>
      /\ f.kind \in {"request", "send", "ok", "failed"}
      /\ \/ UNCHANGED <<clNode, clTasks, clCalls>>
         \/ /\ f.kind \in {"request", "send"} /\ clTasks' = clTasks \cup {t}
            /\ UNCHANGED <<clNode, clCalls>>
         \/ /\ f.kind \in {"ok", "failed"} /\ clTasks' = clTasks
            /\ clNode' = [clNode EXCEPT ![n] = v] /\ clCalls' = [clCalls EXCEPT ![n] = after]
  <2>1. /\ clMenu' = clMenu /\ q # <<>> /\ f.kind \in {"request", "send", "ok", "failed"}
        /\ \/ clConn' = ClPop(n, c) /\ UNCHANGED <<clNode, clTasks, clCalls>>
           \/ /\ f.kind \in {"request", "send"} /\ clConn' = ClPop(n, c)
              /\ clTasks' = clTasks \cup {t} /\ UNCHANGED <<clNode, clCalls>>
           \/ /\ f.kind \in {"ok", "failed"} /\ clConn' = ClPop(n, c) /\ clTasks' = clTasks
              /\ clNode' = [clNode EXCEPT ![n].pending = @ \ {f.id}]
              /\ clCalls' = ClAnswer(clCalls, n, ids, answer)
    BY DEF ClEnvelope, ClHead
  <2>2. ClAnswer(clCalls, n, ids, answer) = [clCalls EXCEPT ![n] = after]
    BY DEF ClAnswer, ClAfter
  <2>3. [clNode EXCEPT ![n].pending = @ \ {f.id}] = [clNode EXCEPT ![n] = v]
    OBVIOUS
  <2> HIDE DEF f, q, t, v, after, ids, answer
  <2> QED  BY <2>1, <2>2, <2>3
<1>2. q \in Seq(ClFrames) /\ clConn[c] \in ClLink
  BY ClParts DEF ClLinks, ClLink
<1>3. 1 \in 1 .. Len(q) /\ f = q[1] /\ f \in ClFrames
  BY <1>1, <1>2
<1>4. ClFits(f, n, ClBoth(clConn[c]), clNode)
  <2> HIDE DEF f
  <2>1. ClLine(clConn[c], clNode)
    BY ClParts DEF ClCarried
  <2> QED  BY <1>3, <2>1 DEF ClLine
<1>5. clConn' \in ClLinks /\ ClCarried(clConn', clTasks, clNode)
  BY <1>1, ClParts, PopKeeps DEF ClPop
<1> HIDE DEF f, q
<1>6. CASE UNCHANGED <<clNode, clTasks, clCalls>>
  BY <1>1, <1>5, <1>6, ClParts, NodesSame, ClQuietKeeps
<1>7. CASE /\ f.kind \in {"request", "send"} /\ clTasks' = clTasks \cup {t}
           /\ UNCHANGED <<clNode, clCalls>>
  <2>1. f.id \in Nat /\ f.epoch \in Nat
    BY <1>3, <1>7 DEF ClFrames
  <2>2. t \in ClTask /\ t.kind = f.kind /\ t.n = n /\ t.c = c /\ t.epoch = f.epoch
    BY <1>7, <2>1 DEF ClTask
  <2> HIDE DEF t
  <2>3. ClBoth(clConn'[c]) => ClBoth(clConn[c])
    <3>1. clConn'[c].open = clConn[c].open
      BY <1>1, ClParts DEF ClPop, ClLinks, ClLink
    <3> QED  BY <3>1 DEF ClBoth
  <2>4. ClServes(t, clConn', clNode)
    BY <1>4, <2>2, <2>3 DEF ClServes, ClFits
  <2>5. ClCarried(clConn', clTasks', clNode)
    BY <1>5, <1>7, <2>4 DEF ClCarried
  <2>6. clTasks' \in SUBSET ClTask
    BY <1>7, <2>2, ClParts
  <2> QED  BY <1>1, <1>5, <1>7, <2>5, <2>6, ClParts, NodesSame, ClQuietKeeps
<1>8. CASE /\ f.kind \in {"ok", "failed"} /\ clTasks' = clTasks
           /\ clNode' = [clNode EXCEPT ![n] = v] /\ clCalls' = [clCalls EXCEPT ![n] = after]
  <2>1. answer \in ClAnswers
    BY <1>4, <1>8 DEF ClFits, ClAnswers
  <2>2. /\ old \in ClService /\ clMenu.ops[n] \in 0 .. ClMaxOps
        /\ calls \in [ClIds -> Seq(ClAnswers)] /\ ClBook(old, calls, clMenu.ops[n])
    BY ClParts
  <2> HIDE DEF old, calls, answer
  <2>3. /\ v \in ClService /\ v.next = old.next /\ v.ops = old.ops /\ v.epoch = old.epoch
        /\ v.pending = old.pending \ {f.id} /\ v.timers = old.timers
    BY <2>2 DEF ClService
  <2> HIDE DEF v
  <2>4. ids \in SUBSET old.pending /\ v.pending = old.pending \ ids /\ v.pending \subseteq v.timers
    BY <2>2, <2>3 DEF ClBook
  <2> HIDE DEF ids
  <2>5. after \in [ClIds -> Seq(ClAnswers)] /\ ClBook(v, after, clMenu.ops[n])
    BY <2>1, <2>2, <2>3, <2>4, AnsweredBook
  <2> HIDE DEF after
  <2> QED  BY <1>1, <1>5, <1>8, <2>3, <2>5, ClParts, ClBookKeeps DEF old
<1> QED  BY <1>1, <1>6, <1>7, <1>8

(* A handler of the user has ended: a request is answered.                 *)
LEMMA ClInvokedKeeps ==
  ASSUME ClAssumption, ClInv, NEW t \in clTasks, NEW kind \in {"ok", "failed"}, ClInvoked(t, kind)
  PROVE  ClInv'
<1> DEFINE f == ClFrame(kind, t.id, t.epoch)
<1>1. /\ UNCHANGED <<clMenu, clNode, clCalls>> /\ clTasks' = clTasks \ {t}
      /\ clConn' = IF t.kind = "request" THEN ClSent(clConn, t.n, t.c, f) ELSE clConn
  BY DEF ClInvoked, ClReply
<1>2. t \in ClTask /\ t.n \in ClNodes /\ t.c \in 1 .. ClConns
  BY ClParts DEF ClTask
<1>3. f \in ClFrames /\ f.kind = kind /\ f.epoch = t.epoch
  BY <1>2 DEF ClFrame, ClFrames, ClTask
<1> HIDE DEF f
<1>4. clConn' \in ClLinks /\ ClCarried(clConn', clTasks, clNode)
  <2>1. CASE t.kind # "request"
    BY <1>1, <2>1, ClParts
  <2>2. CASE t.kind = "request"
    <3>1. ClServes(t, clConn, clNode)
      BY ClParts DEF ClCarried
    <3>2. ClBoth(clConn[t.c]) => ClFits(f, ClOther(t.n), ClBoth(clConn[t.c]), clNode)
      BY <1>3, <2>2, <3>1 DEF ClServes, ClFits
    <3>3. clConn' = ClSent(clConn, t.n, t.c, f)
      BY <1>1, <2>2
    <3> QED  BY <1>2, <1>3, <3>2, <3>3, ClParts, SentKeeps
  <2> QED  BY <2>1, <2>2
<1>5. clTasks' \in SUBSET clTasks /\ clTasks' \in SUBSET ClTask
  BY <1>1, ClParts
<1>6. ClCarried(clConn', clTasks', clNode)
  BY <1>4, <1>5, CarriedLess
<1> QED  BY <1>1, <1>4, <1>5, <1>6, ClParts, NodesSame, ClQuietKeeps

(* A service that starts has no books, and its connections carry nothing.  *)
LEMMA FreshService ==
  ASSUME ClAssumption, NEW n, NEW seeded, NEW epoch \in Nat, NEW most \in Nat,
         NEW calls, calls = [i \in ClIds |-> <<>>]
  PROVE  LET v == ClFresh(n, seeded, epoch)
         IN  /\ v \in ClService /\ v.epoch = epoch /\ ClBook(v, calls, most)
             /\ calls \in [ClIds -> Seq(ClAnswers)]
<1> DEFINE v == ClFresh(n, seeded, epoch)
           ps == [c \in 1 .. ClConns |-> ClNoPeer]
<1>1. ps \in [1 .. ClConns -> ClPeer] /\ 0 \in 0 .. ClConns
  BY DEF ClNoPeer, ClPeer, ClAssumption
<1>2. /\ v.active = 0 /\ v.peers = ps /\ v.next = 0 /\ v.ops = 0 /\ v.pending = {} /\ v.timers = {}
      /\ v.retried = FALSE /\ v.epoch = epoch
  BY DEF ClFresh
<1>3. v \in ClService
  <2> DEFINE d == IF n \in seeded THEN 1 ELSE 0
  <2>1. d \in Int /\ v = [active |-> 0, peers |-> ps, next |-> 0, ops |-> 0, pending |-> {},
                          timers |-> {}, dial |-> d, retried |-> FALSE, epoch |-> epoch]
    BY DEF ClFresh
  <2> HIDE DEF d, ps, v
  <2> QED  BY <1>1, <2>1 DEF ClService
<1> HIDE DEF v
<1>4. calls \in [ClIds -> Seq(ClAnswers)]
  OBVIOUS
<1>5. ClBook(v, calls, most)
  BY <1>2 DEF ClBook
<1> QED  BY <1>2, <1>3, <1>4, <1>5 DEF v

(* A restart: the other node keeps what was on its way to it, and no       *)
(* connection is left that could carry an answer to an earlier life.       *)
LEMMA ClRestartKeeps ==
  ASSUME ClAssumption, ClInv, NEW n \in ClNodes, ClRestart(n)
  PROVE  ClInv'
<1> DEFINE v == ClFresh(n, clMenu.seeded, clNode[n].epoch + 1)
           none == [i \in ClIds |-> <<>>]
           shut(c) == ClShut(clConn, c, ClNodes)[c]
<1>1. /\ clMenu' = clMenu /\ clNode' = [clNode EXCEPT ![n] = v]
      /\ clCalls' = [clCalls EXCEPT ![n] = none] /\ clTasks' = {t \in clTasks : t.n # n}
      /\ clConn' = [c \in 1 .. ClConns |-> [shut(c) EXCEPT !.q[n] = <<>>]]
  BY DEF ClRestart
<1>2. clNode[n].epoch + 1 \in Nat /\ clMenu.ops[n] \in Nat
  BY ClParts DEF ClService
<1>3. v \in ClService /\ ClBook(v, none, clMenu.ops[n]) /\ none \in [ClIds -> Seq(ClAnswers)]
  BY <1>2, FreshService
<1> HIDE DEF v, none
<1>4. \A m \in ClNodes : clNode'[m] = (IF m = n THEN v ELSE clNode[m])
                         /\ clCalls'[m] = (IF m = n THEN none ELSE clCalls[m])
  BY <1>1, ClParts
<1>5. \A c \in 1 .. ClConns : /\ shut(c) \in ClLink /\ ~shut(c).open[1] /\ ~shut(c).open[2]
                              /\ ClLine(shut(c), clNode)
  <2> TAKE c \in 1 .. ClConns
  <2> DEFINE d == ClShut(clConn, c, ClNodes)
  <2>1. /\ d \in ClLinks /\ ClCarried(d, clTasks, clNode)
        /\ ~d[c].open[1] /\ ~d[c].open[2]
    BY ClParts, ShutKeeps
  <2> HIDE DEF d
  <2>2. d[c] \in ClLink /\ ClLine(d[c], clNode)
    BY <2>1 DEF ClLinks, ClCarried
  <2> QED  BY <2>1, <2>2 DEF d
<1> HIDE DEF shut
<1>6. ASSUME NEW c \in 1 .. ClConns
      PROVE  clConn'[c] \in ClLink /\ ~ClBoth(clConn'[c]) /\ ClLine(clConn'[c], clNode')
  <2>1. clConn'[c] = [shut(c) EXCEPT !.q[n] = <<>>]
    BY <1>1
  <2>2. /\ clConn'[c] \in ClLink /\ clConn'[c].open = shut(c).open
        /\ \A m \in ClNodes : clConn'[c].q[m] = IF m = n THEN <<>> ELSE shut(c).q[m]
    <3>1. shut(c).q \in [ClNodes -> Seq(ClFrames)] /\ <<>> \in Seq(ClFrames)
      BY <1>5 DEF ClLink
    <3> DEFINE k == shut(c)
               e == [k.q EXCEPT ![n] = <<>>]
    <3>2. e \in [ClNodes -> Seq(ClFrames)] /\ \A m \in ClNodes : e[m] = IF m = n THEN <<>> ELSE k.q[m]
      BY <3>1
    <3>3. clConn'[c] = [k EXCEPT !.q = e] /\ k \in ClLink
      BY <1>5, <2>1
    <3> HIDE DEF k, e
    <3>4. [k EXCEPT !.q = e] \in ClLink /\ [k EXCEPT !.q = e].open = k.open /\ [k EXCEPT !.q = e].q = e
      BY <3>2, <3>3 DEF ClLink
    <3> QED  BY <3>2, <3>3, <3>4 DEF k
  <2>3. ~ClBoth(clConn'[c]) /\ ~ClBoth(shut(c))
    BY <1>5, <2>2 DEF ClBoth
  <2>4. ClLine(clConn'[c], clNode')
    <3> SUFFICES ASSUME NEW m \in ClNodes, NEW i \in 1 .. Len(clConn'[c].q[m])
                 PROVE  ClFits(clConn'[c].q[m][i], m, ClBoth(clConn'[c]), clNode')
      BY DEF ClLine
    <3>1. m # n
      BY <2>2
    <3>2. clConn'[c].q[m] = shut(c).q[m] /\ clNode'[m] = clNode[m]
      BY <1>4, <2>2, <3>1
    <3>3. ClFits(shut(c).q[m][i], m, ClBoth(shut(c)), clNode)
      BY <1>5, <3>2 DEF ClLine
    <3> QED  BY <2>3, <3>2, <3>3 DEF ClFits
  <2> QED  BY <2>2, <2>3, <2>4
<1>7. clConn' \in ClLinks
  BY <1>1, <1>6 DEF ClLinks
<1>8. ClTyped'
  BY <1>1, <1>3, <1>7, ClParts DEF ClInv, ClTyped
<1>9. ClBooked'
  BY <1>1, <1>3, <1>4, ClParts DEF ClBooked
<1>10. ClCarried(clConn', clTasks', clNode')
  <2>1. \A t \in clTasks' : t \in ClTask
    BY <1>1, ClParts
  <2> QED  BY <1>6, <2>1 DEF ClCarried, ClServes, ClTask
<1> QED  BY <1>8, <1>9, <1>10 DEF ClInv

LEMMA ClStart ==
  ASSUME ClAssumption, ClInit
  PROVE  ClInv
<1> DEFINE none == [i \in ClIds |-> <<>>]
<1>1. /\ clMenu \in ClMenus /\ clNode = [n \in ClNodes |-> ClFresh(n, clMenu.seeded, 0)]
      /\ clConn = [c \in 1 .. ClConns |-> ClFree] /\ clTasks = {}
      /\ clCalls = [n \in ClNodes |-> none]
  BY DEF ClInit
<1>2. \A n \in ClNodes : clMenu.ops[n] \in Nat
  BY <1>1 DEF ClAssumption
<1>3. \A n \in ClNodes : /\ clNode[n] \in ClService /\ none \in [ClIds -> Seq(ClAnswers)]
                         /\ ClBook(clNode[n], none, clMenu.ops[n])
  BY <1>1, <1>2, FreshService
<1> HIDE DEF none
<1>4. ClFree \in ClLink /\ \A n \in ClNodes : ClFree.q[n] = <<>>
  BY DEF ClFree, ClLink
<1>5. ClTyped
  <2>1. clNode \in [ClNodes -> ClService]
    BY <1>1, <1>3
  <2>2. clCalls \in [ClNodes -> [ClIds -> Seq(ClAnswers)]]
    BY <1>1, <1>3
  <2>3. clConn \in ClLinks
    BY <1>1, <1>4 DEF ClLinks
  <2> QED  BY <1>1, <2>1, <2>2, <2>3 DEF ClTyped
<1>6. ClBooked
  BY <1>1, <1>3 DEF ClBooked
<1>7. ClCarried(clConn, clTasks, clNode)
  <2>1. \A c \in 1 .. ClConns, n \in ClNodes : clConn[c].q[n] = <<>>
    BY <1>1, <1>4
  <2>2. Len(<<>>) = 0 /\ 1 .. 0 = {}
    OBVIOUS
  <2> QED  BY <1>1, <2>1, <2>2 DEF ClCarried, ClLine
<1> QED  BY <1>5, <1>6, <1>7 DEF ClInv

(* The books of requests, and the lives to which frames on their way       *)
(* belong, are inductive (rskynet-cluster: complete, timeout,              *)
(* disconnected, on_envelope, invoke; restarts of either node).            *)
THEOREM ClInductive == ClSpec => []ClInv
<1>1. ClInit => ClInv
  BY ClStart, ClAssumption
<1>2. ClInv /\ [ClNext]_clVars => ClInv'
  <2> SUFFICES ASSUME ClInv, [ClNext]_clVars
               PROVE  ClInv'
    OBVIOUS
  <2>1. CASE \E n \in ClNodes : ClRestart(n) \/ ClRequest(n) \/ ClSend(n)
    BY <2>1, ClAssumption, ClRestartKeeps, ClRequestKeeps, ClSendKeeps
  <2>2. CASE \E n \in ClNodes, id \in ClIds : ClTimeout(n, id)
    BY <2>2, ClAssumption, ClTimeoutKeeps
  <2>3. CASE \E n \in ClNodes, c \in 1 .. ClConns :
               ClConnect(n, c) \/ ClAccept(n, c) \/ ClDisconnected(n, c) \/ ClEnvelope(n, c)
    BY <2>3, ClAssumption, ClConnectKeeps, ClAcceptKeeps, ClDisconnectedKeeps, ClEnvelopeKeeps
  <2>4. CASE \E n \in ClNodes, c \in 1 .. ClConns, keep \in {{}, ClNodes} :
               ClHello(n, c, keep) \/ ClBadFrame(n, c, keep)
    BY <2>4, ClAssumption, ClHelloKeeps, ClEndKeeps
  <2>5. CASE ClTaskStep
    BY <2>5, ClAssumption, ClGreetKeeps, ClInvokedKeeps DEF ClTaskStep
  <2>6. CASE UNCHANGED clVars
    BY <2>6 DEF clVars, ClInv, ClTyped, ClBooked
  <2>7. CASE \E c \in 1 .. ClConns, keep \in {{}, ClNodes} : ClCut(c, keep)
    BY <2>7, ClAssumption, ClEndKeeps
  <2> QED  BY <2>1, <2>2, <2>3, <2>4, <2>5, <2>6, <2>7 DEF ClNext
<1> QED  BY <1>1, <1>2, PTL DEF ClSpec

(* A remote request is answered exactly once, and never with the answer to *)
(* a request of an earlier life of its node (complete, timeout,            *)
(* disconnected).                                                          *)
THEOREM ClAnsweredAlways == ClSpec => []ClAnswered
<1>1. ClInv => ClAnswered
  <2> SUFFICES ASSUME ClInv, NEW n \in ClNodes, NEW id \in 1 .. clNode[n].next,
                      id \notin clNode[n].pending
               PROVE  Len(clCalls[n][id]) = 1 /\ clCalls[n][id] # <<"stale">>
    BY ClParts, ClAssumption DEF ClAnswered, ClBook
  <2>1. /\ ClBook(clNode[n], clCalls[n], clMenu.ops[n]) /\ clNode[n] \in ClService
        /\ clMenu.ops[n] \in 0 .. ClMaxOps /\ clCalls[n] \in [ClIds -> Seq(ClAnswers)]
    BY ClParts, ClAssumption
  <2>2. id \in ClIds /\ Len(clCalls[n][id]) = 1
    BY <2>1, ClAssumption DEF ClBook, ClService, ClIds, ClAssumption
  <2>3. clCalls[n][id][1] \in ClAnswers
    BY <2>1, <2>2
  <2>4. <<"stale">>[1] = "stale" /\ "stale" \notin ClAnswers
    BY DEF ClAnswers
  <2> QED  BY <2>2, <2>3, <2>4
<1> QED  BY <1>1, ClInductive, PTL

(***************************************************************************)
(* TLS.  The objects and the state of the service, its tasks and messages. *)
(***************************************************************************)
TlsListener == [kind : {"listener"}, sock : TlsSocks]
TlsConn == [kind : {"conn"}, sock : TlsSocks, server : BOOLEAN, announced : BOOLEAN, hs : BOOLEAN,
            closing : BOOLEAN, notify : BOOLEAN, connectReq : TlsReqs \cup {0},
            closeReq : TlsReqs \cup {0}]
TlsObject == {TlsNone} \cup TlsListener \cup TlsConn
TlsReplies == {"failed", "id", "done"}
TlsEnds == {"close", "error"}
TlsEvents == {"connected", "data"} \cup TlsEnds
TlsState ==
  [obj : [TlsIds -> TlsObject], next : Nat, handshakes : Nat,
   ans : [TlsReqs -> Seq(TlsReplies)], told : [TlsIds -> Seq(TlsEvents)], timers : SUBSET TlsIds,
   lost : SUBSET TlsReqs, panic : BOOLEAN]
TlsOps == {"connect", "listen", "connect_info", "start", "pause", "send", "close_listener",
           "close", "accept"}
TlsTaskKind == [op : TlsOps, r : TlsReqs \cup {0}, id : TlsIds \cup {0}, sock : TlsSocks \cup {0}]
TlsAnswerKind == [k : {"ans"}, task : TlsTaskKind, ok : BOOLEAN, sock : TlsSocks \cup {0}]
TlsMessage == TlsAnswerKind \cup [k : {"closed"}, sock : TlsSocks, bad : BOOLEAN] \cup
              [k : {"data"}, sock : TlsSocks] \cup [k : {"accept"}, sock : TlsSocks, listen : TlsSocks]
TlsUsage == [req : 0 .. TlsMaxReq, data : Nat]
TlsTyped(tasks, in, sock, kill, used) ==
  /\ tasks \in SUBSET TlsTaskKind /\ in \in Seq(TlsMessage) /\ used \in Nat
  /\ sock \in [TlsSocks -> {"none", "up", "gone"}] /\ kill \in SUBSET TlsSocks

\* The life of an object: not yet made; a connection that has been announced or not,
\* with the requests it may hold; or something that ended, if its owner heard of it.
TlsToldWell(t, live) ==
  /\ live => t # <<>>
  /\ t # <<>> => /\ t[1] = "connected"
                 /\ \A k \in 1 .. Len(t) - 1 : t[k] \notin TlsEnds
                 /\ live <=> t[Len(t)] \notin TlsEnds
TlsLife(o, t, made) ==
  /\ ~made => o = TlsNone /\ t = <<>>
  /\ TlsToldWell(t, o.kind = "conn" /\ o.announced)
  /\ o.kind = "conn" =>
       /\ ~o.announced => t = <<>> /\ o.closeReq = 0
       /\ o.announced => o.connectReq = 0
       /\ o.closeReq # 0 => o.closing
TlsLives(w) == \A i \in TlsIds : TlsLife(w.obj[i], w.told[i], i < w.next)
TlsShaking(w) == {i \in TlsConns(w) : ~w.obj[i].announced}
TlsWorld(w) == w \in TlsState /\ TlsLives(w) /\ w.handshakes = Cardinality(TlsShaking(w))

\* Whom a request waits for: st is the one place at which request r is.  Request q is
\* in the hands of the handler that runs (0 for none).
TlsReqOf(o, f) == IF o.kind = "conn" THEN o[f] ELSE 0
TlsHolding == {"connectReq", "closeReq"}
TlsWithObjects(w, r, st) ==
  /\ \A f \in TlsHolding :
       /\ \A i \in TlsIds : TlsReqOf(w.obj[i], f) = r => st = f
       /\ st = f => \E i \in TlsIds : TlsReqOf(w.obj[i], f) = r
       /\ \A i, j \in TlsIds : TlsReqOf(w.obj[i], f) = r /\ TlsReqOf(w.obj[j], f) = r => i = j
  /\ Len(w.ans[r]) = IF st = "answered" THEN 1 ELSE 0
  /\ r \in w.lost <=> st = "lost"
TlsWithTasks(tasks, r, st) ==
  /\ \A t \in tasks : t.r = r => st = "task"
  /\ st = "task" => \E t \in tasks : t.r = r
  /\ \A t, u \in tasks : t.r = r /\ u.r = r => t = u
TlsIsAnswer(in, j, r) == in[j].k = "ans" /\ in[j].task.r = r
TlsWithQueue(in, r, st) ==
  /\ \A j \in DOMAIN in : TlsIsAnswer(in, j, r) => st = "ans"
  /\ st = "ans" => \E j \in DOMAIN in : TlsIsAnswer(in, j, r)
  /\ \A i, j \in DOMAIN in : TlsIsAnswer(in, i, r) /\ TlsIsAnswer(in, j, r) => i = j
TlsStages == {"new", "task", "ans", "connectReq", "closeReq", "answered", "lost"}
TlsAt(w, tasks, in, used, r, st) ==
  /\ TlsWithObjects(w, r, st) /\ TlsWithTasks(tasks, r, st) /\ TlsWithQueue(in, r, st)
  /\ st = "new" <=> used < r
TlsPlaced(w, tasks, in, used, q) ==
  \A r \in TlsReqs : \E st \in TlsStages \cup {"hand"} :
    TlsAt(w, tasks, in, used, r, st) /\ (st = "hand" <=> r = q)

\* What a task or a message says of its socket: a socket that is named exists, and
\* an end that was announced has happened.
TlsTaskFits(t, sock) ==
  /\ t.op \notin {"connect", "listen"} => t.sock # 0 /\ sock[t.sock] # "none"
  /\ t.op = "accept" => t.id # 0 /\ t.r = 0
TlsMessageFits(m, sock) ==
  /\ m.k = "ans" => /\ TlsTaskFits(m.task, sock)
                    /\ m.sock # 0 <=> (m.ok /\ m.task.op \in {"connect", "listen"})
                    /\ m.sock # 0 => sock[m.sock] # "none"
                    /\ m.task.op = "close_listener" => sock[m.task.sock] = "gone"
  /\ m.k \in {"data", "accept"} => sock[m.sock] # "none"
  /\ m.k = "closed" => sock[m.sock] = "gone"
TlsFits(w, tasks, in, sock, kill) ==
  /\ \A i \in TlsIds : w.obj[i].kind # "none" => sock[w.obj[i].sock] # "none"
  /\ \A t \in tasks : TlsTaskFits(t, sock)
  /\ \A j \in DOMAIN in : TlsMessageFits(in[j], sock)
  /\ \A s \in kill : sock[s] # "none"

\* Who is answerable for a socket, and who ends a handshake; socket h and connection
\* c are in the hands of the handler that runs.
TlsCares(t, s) == t.op \in {"connect_info", "close_listener"} /\ t.sock = s
TlsHands(m, s) == \/ m.k \in {"ans", "accept"} /\ m.sock = s
                  \/ m.k = "ans" /\ TlsCares(m.task, s)
TlsHeldBy(w, tasks, in, kill, s) ==
  \/ \E i \in TlsIds : w.obj[i].kind # "none" /\ w.obj[i].sock = s
  \/ s \in kill
  \/ \E t \in tasks : TlsCares(t, s)
  \/ \E j \in DOMAIN in : TlsHands(in[j], s)
TlsHeld(w, tasks, in, sock, kill, h) ==
  \A s \in TlsSocks : sock[s] = "up" /\ s # h => TlsHeldBy(w, tasks, in, kill, s)
TlsArms(t, i) == t.op = "accept" /\ t.id = i
TlsTimedBy(w, tasks, in, i) ==
  \/ i \in w.timers
  \/ \E t \in tasks : TlsArms(t, i)
  \/ \E j \in DOMAIN in : in[j].k = "ans" /\ TlsArms(in[j].task, i)
TlsTimers(w, tasks, in, c) ==
  \A i \in TlsShaking(w) : i # c => TlsTimedBy(w, tasks, in, i)

\* The service in the middle of a handler, with request q, socket h and connection c
\* in its hands; and between two handlers, with nothing.
TlsMidway(w, tasks, in, sock, kill, used, q, h, c) ==
  /\ TlsTyped(tasks, in, sock, kill, used) /\ TlsWorld(w)
  /\ TlsPlaced(w, tasks, in, used, q) /\ TlsFits(w, tasks, in, sock, kill)
  /\ TlsHeld(w, tasks, in, sock, kill, h) /\ TlsTimers(w, tasks, in, c)
TlsInv ==
  /\ tlsUsed \in TlsUsage
  /\ TlsMidway(tls, tlsTasks, tlsIn, tlsSock, tlsKill, tlsUsed.req, 0, 0, 0)

(* The fields of a state that an operator leaves alone.                    *)
TlsFields == {"obj", "next", "handshakes", "ans", "told", "timers", "lost", "panic"}
TlsOnly(v, w, fs) == v \in TlsState /\ \A f \in TlsFields \ fs : v[f] = w[f]

LEMMA TlsReplied ==
  ASSUME NEW w \in TlsState, NEW r \in TlsReqs \cup {0}, NEW x \in TlsReplies
  PROVE  LET v == TlsReply(w, r, x)
         IN  /\ TlsOnly(v, w, {"ans"})
             /\ \A q \in TlsReqs : v.ans[q] = IF q = r THEN Append(w.ans[q], x) ELSE w.ans[q]
<1>1. CASE r = 0
  <2>1. r \notin TlsReqs
    BY <1>1 DEF TlsReqs
  <2> QED  BY <1>1, <2>1 DEF TlsReply, TlsOnly
<1>2. CASE r # 0
  <2> DEFINE a == [w.ans EXCEPT ![r] = Append(@, x)]
             v == [w EXCEPT !.ans = a]
  <2>1. r \in TlsReqs /\ w.ans \in [TlsReqs -> Seq(TlsReplies)] /\ w.ans[r] \in Seq(TlsReplies)
    BY <1>2 DEF TlsState
  <2>2. Append(w.ans[r], x) \in Seq(TlsReplies)
    BY <2>1
  <2>3. /\ a \in [TlsReqs -> Seq(TlsReplies)]
        /\ \A q \in TlsReqs : a[q] = IF q = r THEN Append(w.ans[q], x) ELSE w.ans[q]
    BY <2>1, <2>2
  <2>4. TlsReply(w, r, x) = v
    BY <1>2 DEF TlsReply
  <2> HIDE DEF a
  <2>5. v \in TlsState /\ v.ans = a
    BY <2>3 DEF TlsState
  <2>6. \A f \in TlsFields \ {"ans"} : v[f] = w[f]
    BY DEF TlsState, TlsFields
  <2> QED  BY <2>3, <2>4, <2>5, <2>6 DEF TlsOnly
<1> QED  BY <1>1, <1>2

LEMMA TlsEmitted ==
  ASSUME NEW w \in TlsState, NEW id \in TlsIds, NEW e \in TlsEvents
  PROVE  LET v == TlsEmit(w, id, e)
         IN  /\ TlsOnly(v, w, {"told"})
             /\ \A i \in TlsIds : v.told[i] = IF i = id THEN Append(w.told[i], e) ELSE w.told[i]
<1> DEFINE a == [w.told EXCEPT ![id] = Append(@, e)]
           v == [w EXCEPT !.told = a]
<1>1. w.told \in [TlsIds -> Seq(TlsEvents)] /\ w.told[id] \in Seq(TlsEvents)
  BY DEF TlsState
<1>2. Append(w.told[id], e) \in Seq(TlsEvents)
  BY <1>1
<1>3. /\ a \in [TlsIds -> Seq(TlsEvents)]
      /\ \A i \in TlsIds : a[i] = IF i = id THEN Append(w.told[i], e) ELSE w.told[i]
  BY <1>1, <1>2
<1>4. TlsEmit(w, id, e) = v
  BY DEF TlsEmit
<1> HIDE DEF a
<1>5. v \in TlsState /\ v.told = a
  BY <1>3 DEF TlsState
<1>6. \A f \in TlsFields \ {"told"} : v[f] = w[f]
  BY DEF TlsState, TlsFields
<1> QED  BY <1>3, <1>4, <1>5, <1>6 DEF TlsOnly

LEMMA TlsRemoved ==
  ASSUME NEW w \in TlsState, NEW id \in TlsConns(w)
  PROVE  LET v == TlsRemove(w, id)
         IN  /\ TlsOnly(v, w, {"obj", "handshakes"})
             /\ v.obj = [w.obj EXCEPT ![id] = TlsNone]
             /\ v.handshakes = IF ~w.obj[id].announced /\ w.handshakes > 0 THEN w.handshakes - 1
                               ELSE w.handshakes
<1> DEFINE o == [w.obj EXCEPT ![id] = TlsNone]
           h == IF ~w.obj[id].announced /\ w.handshakes > 0 THEN w.handshakes - 1 ELSE w.handshakes
           v == [w EXCEPT !.obj = o, !.handshakes = h]
<1>1. w.obj \in [TlsIds -> TlsObject] /\ w.handshakes \in Nat /\ id \in TlsIds
  BY DEF TlsState, TlsConns
<1>2. o \in [TlsIds -> TlsObject] /\ h \in Nat
  BY <1>1 DEF TlsObject
<1>3. TlsRemove(w, id) = v
  BY DEF TlsRemove
<1> HIDE DEF o, h
<1>4. v \in TlsState /\ v.obj = o /\ v.handshakes = h
  BY <1>2 DEF TlsState
<1>5. \A f \in TlsFields \ {"obj", "handshakes"} : v[f] = w[f]
  BY DEF TlsState, TlsFields
<1> QED  BY <1>3, <1>4, <1>5 DEF TlsOnly, o, h

LEMMA TlsOnlyTwice ==
  ASSUME NEW u, NEW v, NEW w, NEW fs, NEW gs, TlsOnly(u, v, fs), TlsOnly(v, w, gs)
  PROVE  TlsOnly(u, w, fs \cup gs)
  BY DEF TlsOnly

(* A connection is a record of its own kind.                               *)
LEMMA TlsConnIs ==
  ASSUME NEW w \in TlsState, NEW id \in TlsConns(w)
  PROVE  id \in TlsIds /\ w.obj[id] \in TlsConn /\ w.obj[id].kind = "conn"
<1>1. id \in TlsIds /\ w.obj[id].kind = "conn" /\ w.obj[id] \in TlsObject
  BY DEF TlsConns, TlsState
<1> QED  BY <1>1 DEF TlsObject, TlsNone, TlsListener

LEMMA TlsShakingFinite ==
  ASSUME TlsAssumption, NEW w
  PROVE  IsFiniteSet(TlsShaking(w)) /\ Cardinality(TlsShaking(w)) \in Nat
<1>1. IsFiniteSet(TlsIds)
  <2>1. 1 \in Int /\ TlsMaxId \in Int
    BY DEF TlsAssumption
  <2> QED  BY <2>1, FS_Interval DEF TlsIds
<1>2. TlsShaking(w) \in SUBSET TlsIds
  BY DEF TlsShaking, TlsConns
<1>3. IsFiniteSet(TlsShaking(w))
  BY <1>1, <1>2, FS_Subset
<1> QED  BY <1>3, FS_CardinalityType

\* What the end of a connection changes: its object, its place among the handshakes
\* and what its owner hears; and the requests it holds, which are answered or lost.
TlsEndedAs(w, v, id, e) ==
  /\ v \in TlsState /\ v.next = w.next /\ v.timers = w.timers
  /\ v.obj = [w.obj EXCEPT ![id] = TlsNone]
  /\ v.handshakes = IF ~w.obj[id].announced /\ w.handshakes > 0 THEN w.handshakes - 1
                    ELSE w.handshakes
  /\ \A i \in TlsIds : v.told[i] = IF i = id /\ w.obj[id].announced THEN Append(w.told[i], e)
                                   ELSE w.told[i]
TlsFreed(w, v, id) ==
  \A r \in TlsReqs :
    IF \E f \in TlsHolding : w.obj[id][f] = r
    THEN \/ Len(v.ans[r]) = Len(w.ans[r]) + 1 /\ (r \in v.lost <=> r \in w.lost)
         \/ v.ans[r] = w.ans[r] /\ r \in v.lost
    ELSE v.ans[r] = w.ans[r] /\ (r \in v.lost <=> r \in w.lost)

(* What an owner has heard after one more event.                           *)
LEMMA TlsToldMore ==
  ASSUME NEW t \in Seq(TlsEvents), NEW e \in TlsEvents, TlsToldWell(t, TRUE)
  PROVE  TlsToldWell(Append(t, e), e \notin TlsEnds)
<1> DEFINE s == Append(t, e)
<1>1. /\ Len(s) = Len(t) + 1 /\ Len(t) \in Nat /\ s[Len(t) + 1] = e /\ s # <<>>
      /\ \A k \in 1 .. Len(t) : s[k] = t[k]
  OBVIOUS
<1>2. t # <<>> /\ Len(t) > 0
  BY DEF TlsToldWell
<1>3. s[1] = "connected"
  BY <1>1, <1>2 DEF TlsToldWell
<1>4. \A k \in 1 .. Len(s) - 1 : s[k] \notin TlsEnds
  <2> SUFFICES ASSUME NEW k \in 1 .. Len(s) - 1
               PROVE  s[k] \notin TlsEnds
    OBVIOUS
  <2>1. k \in 1 .. Len(t) /\ s[k] = t[k]
    BY <1>1
  <2>2. k = Len(t) \/ k \in 1 .. Len(t) - 1
    BY <2>1, <1>1
  <2> QED  BY <1>2, <2>1, <2>2 DEF TlsToldWell
<1> HIDE DEF s
<1> QED  BY <1>1, <1>3, <1>4 DEF TlsToldWell, s

(* The world after the end of a connection.                                *)
LEMMA TlsEndedWorld ==
  ASSUME TlsAssumption, NEW w, NEW v, NEW id \in TlsConns(w), NEW e \in TlsEnds,
         TlsWorld(w), TlsEndedAs(w, v, id, e)
  PROVE  TlsWorld(v) /\ TlsShaking(v) = TlsShaking(w) \ {id}
<1>1. w \in TlsState /\ id \in TlsIds /\ w.obj[id].kind = "conn" /\ TlsLives(w)
  BY TlsConnIs DEF TlsWorld
<1>2. \A i \in TlsIds : v.obj[i] = IF i = id THEN TlsNone ELSE w.obj[i]
  BY <1>1 DEF TlsEndedAs, TlsState
<1>3. TlsShaking(v) = TlsShaking(w) \ {id}
  BY <1>2 DEF TlsShaking, TlsConns, TlsNone
<1>4. v.handshakes = Cardinality(TlsShaking(v))
  <2>1. IsFiniteSet(TlsShaking(w)) /\ w.handshakes = Cardinality(TlsShaking(w))
    BY TlsShakingFinite DEF TlsWorld
  <2>2. CASE w.obj[id].announced
    <3>1. TlsShaking(v) = TlsShaking(w)
      BY <1>3, <2>2 DEF TlsShaking
    <3> QED  BY <2>1, <2>2, <3>1 DEF TlsEndedAs
  <2>3. CASE ~w.obj[id].announced
    <3>1. id \in TlsShaking(w)
      BY <2>3 DEF TlsShaking
    <3>2. Cardinality(TlsShaking(v)) = w.handshakes - 1
      <4>1. Cardinality(TlsShaking(w) \ {id}) = Cardinality(TlsShaking(w)) - 1
        BY <2>1, <3>1, FS_RemoveElement
      <4> QED  BY <1>3, <2>1, <4>1
    <3>3. w.handshakes \in Nat /\ w.handshakes # 0
      BY <1>1, <2>1, <3>1, FS_EmptySet DEF TlsState
    <3> QED  BY <2>3, <3>2, <3>3 DEF TlsEndedAs
  <2> QED  BY <2>2, <2>3
<1>5. TlsLives(v)
  <2> SUFFICES ASSUME NEW i \in TlsIds
               PROVE  TlsLife(v.obj[i], v.told[i], i < v.next)
    BY DEF TlsLives
  <2>1. TlsLife(w.obj[i], w.told[i], i < w.next) /\ v.next = w.next
    BY <1>1 DEF TlsLives, TlsEndedAs
  <2>2. CASE i # id
    BY <1>2, <2>1, <2>2 DEF TlsEndedAs
  <2>3. CASE i = id
    <3>1. v.obj[i] = TlsNone /\ TlsNone.kind = "none" /\ i < v.next
      BY <1>1, <1>2, <2>1, <2>3 DEF TlsLife, TlsNone
    <3>2. TlsToldWell(v.told[i], FALSE)
      <4>1. CASE w.obj[id].announced
        <5>1. v.told[i] = Append(w.told[i], e) /\ w.told[i] \in Seq(TlsEvents)
          BY <1>1, <2>3, <4>1 DEF TlsEndedAs, TlsState
        <5>2. TlsToldWell(w.told[i], TRUE)
          BY <1>1, <2>1, <2>3, <4>1 DEF TlsLife
        <5>3. e \in TlsEvents
          BY DEF TlsEvents
        <5> QED  BY <5>1, <5>2, <5>3, TlsToldMore
      <4>2. CASE ~w.obj[id].announced
        <5>1. v.told[i] = <<>>
          BY <1>1, <2>1, <2>3, <4>2 DEF TlsEndedAs, TlsLife
        <5> QED  BY <5>1 DEF TlsToldWell
      <4> QED  BY <4>1, <4>2
    <3> QED  BY <3>1, <3>2 DEF TlsLife
  <2> QED  BY <2>2, <2>3
<1> QED  BY <1>3, <1>4, <1>5 DEF TlsWorld, TlsEndedAs

(***************************************************************************)
(* Steps of a handler: what it takes, what it does to the service's state  *)
(* and what it leaves behind.                                              *)
(***************************************************************************)

\* Stages at which neither a task nor a message has the request.
TlsSettled == {"hand", "connectReq", "closeReq", "answered", "lost"}

\* The requests after a change of the state from w to v: request q was in hand, and
\* p is now.
TlsMoves(w, v, q, p) ==
  \A r \in TlsReqs : \A st \in TlsStages \cup {"hand"} :
    TlsWithObjects(w, r, st) /\ (st = "hand" <=> r = q) =>
      \E st2 \in TlsStages \cup {"hand"} :
        /\ TlsWithObjects(v, r, st2) /\ (st2 = "hand" <=> r = p)
        /\ st2 = st \/ (st \in TlsSettled /\ st2 \in TlsSettled)

LEMMA TlsShift ==
  ASSUME NEW w, NEW v, NEW tasks, NEW in, NEW used, NEW r, NEW st, NEW st2,
         TlsAt(w, tasks, in, used, r, st), TlsWithObjects(v, r, st2),
         st2 = st \/ (st \in TlsSettled /\ st2 \in TlsSettled)
  PROVE  TlsAt(v, tasks, in, used, r, st2)
  BY DEF TlsAt, TlsWithTasks, TlsWithQueue, TlsSettled

LEMMA TlsPlacedMoves ==
  ASSUME NEW w, NEW v, NEW tasks, NEW in, NEW used, NEW q, NEW p,
         TlsPlaced(w, tasks, in, used, q), TlsMoves(w, v, q, p)
  PROVE  TlsPlaced(v, tasks, in, used, p)
<1> SUFFICES ASSUME NEW r \in TlsReqs
             PROVE  \E st \in TlsStages \cup {"hand"} :
                      TlsAt(v, tasks, in, used, r, st) /\ (st = "hand" <=> r = p)
  BY DEF TlsPlaced
<1>1. PICK st \in TlsStages \cup {"hand"} :
        TlsAt(w, tasks, in, used, r, st) /\ (st = "hand" <=> r = q)
  BY DEF TlsPlaced
<1>2. TlsWithObjects(w, r, st)
  BY <1>1 DEF TlsAt
<1>3. PICK st2 \in TlsStages \cup {"hand"} :
        /\ TlsWithObjects(v, r, st2) /\ (st2 = "hand" <=> r = p)
        /\ st2 = st \/ (st \in TlsSettled /\ st2 \in TlsSettled)
  BY <1>1, <1>2 DEF TlsMoves
<1>4. TlsAt(v, tasks, in, used, r, st2)
  BY <1>1, <1>3, TlsShift
<1> QED  BY <1>3, <1>4

\* An object of state w has socket s.
TlsHas(w, s) == \E i \in TlsIds : w.obj[i].kind # "none" /\ w.obj[i].sock = s

(* The state changes from w to v, and sockets are told to shut down.       *)
LEMMA TlsStateStep ==
  ASSUME NEW w, NEW v, NEW tasks, NEW in, NEW sock, NEW kill, NEW used,
         NEW q, NEW h, NEW c, NEW p, NEW g, NEW d, NEW more \in SUBSET TlsSocks,
         TlsMidway(w, tasks, in, sock, kill, used, q, h, c),
         TlsWorld(v), TlsMoves(w, v, q, p),
         \A s \in more : sock[s] # "none",
         \A i \in TlsIds : v.obj[i].kind # "none" => sock[v.obj[i].sock] # "none",
         \A s \in TlsSocks : sock[s] = "up" /\ s # g =>
           s \in more \/ TlsHas(v, s) \/ (s # h /\ ~TlsHas(w, s)),
         \A i \in TlsShaking(v) : i # d =>
           i \in v.timers \/ (i \in TlsShaking(w) /\ i # c /\ i \notin w.timers)
  PROVE  TlsMidway(v, tasks, in, sock, kill \cup more, used, p, g, d)
<1>1. TlsTyped(tasks, in, sock, kill \cup more, used)
  BY DEF TlsMidway, TlsTyped
<1>2. TlsPlaced(v, tasks, in, used, p)
  BY TlsPlacedMoves DEF TlsMidway
<1>3. TlsFits(v, tasks, in, sock, kill \cup more)
  BY DEF TlsMidway, TlsFits
<1>4. TlsHeld(v, tasks, in, sock, kill \cup more, g)
  <2> SUFFICES ASSUME NEW s \in TlsSocks, sock[s] = "up", s # g
               PROVE  TlsHeldBy(v, tasks, in, kill \cup more, s)
    BY DEF TlsHeld
  <2>1. CASE s \in more \/ TlsHas(v, s)
    BY <2>1 DEF TlsHeldBy, TlsHas
  <2>2. CASE s # h /\ ~TlsHas(w, s)
    <3>1. TlsHeldBy(w, tasks, in, kill, s)
      BY <2>2 DEF TlsMidway, TlsHeld
    <3> QED  BY <2>2, <3>1 DEF TlsHeldBy, TlsHas
  <2> QED  BY <2>1, <2>2
<1>5. TlsTimers(v, tasks, in, d)
  <2> SUFFICES ASSUME NEW i \in TlsShaking(v), i # d, i \notin v.timers
               PROVE  TlsTimedBy(v, tasks, in, i)
    BY DEF TlsTimers, TlsTimedBy
  <2>1. TlsTimedBy(w, tasks, in, i) /\ i \notin w.timers
    BY DEF TlsMidway, TlsTimers
  <2> QED  BY <2>1 DEF TlsTimedBy
<1> QED  BY <1>1, <1>2, <1>3, <1>4, <1>5 DEF TlsMidway

LEMMA TlsStateStill ==
  ASSUME NEW w, NEW v, NEW tasks, NEW in, NEW sock, NEW kill, NEW used,
         NEW q, NEW h, NEW c, NEW p, NEW g, NEW d,
         TlsMidway(w, tasks, in, sock, kill, used, q, h, c),
         TlsWorld(v), TlsMoves(w, v, q, p),
         \A i \in TlsIds : v.obj[i].kind # "none" => sock[v.obj[i].sock] # "none",
         \A s \in TlsSocks : sock[s] = "up" /\ s # g => TlsHas(v, s) \/ (s # h /\ ~TlsHas(w, s)),
         \A i \in TlsShaking(v) : i # d =>
           i \in v.timers \/ (i \in TlsShaking(w) /\ i # c /\ i \notin w.timers)
  PROVE  TlsMidway(v, tasks, in, sock, kill, used, p, g, d)
<1> DEFINE more == {}
<1>1. more \in SUBSET TlsSocks /\ (\A s \in more : sock[s] # "none") /\ kill \cup more = kill
  OBVIOUS
<1> HIDE DEF more
<1>2. TlsMidway(v, tasks, in, sock, kill \cup more, used, p, g, d)
  BY <1>1, TlsStateStep
<1> QED  BY <1>1, <1>2

(* A handler stops at an await: task t has the request in hand, and what   *)
(* else the handler is answerable for.                                     *)
LEMMA TlsAwaits ==
  ASSUME NEW w, NEW tasks, NEW in, NEW sock, NEW kill, NEW used,
         NEW q, NEW h, NEW c, NEW g, NEW d, NEW t \in TlsTaskKind,
         TlsMidway(w, tasks, in, sock, kill, used, q, h, c),
         TlsTaskFits(t, sock), t.r = q, g = h \/ TlsCares(t, h), d = c \/ TlsArms(t, c)
  PROVE  TlsMidway(w, tasks \cup {t}, in, sock, kill, used, 0, g, d)
<1>1. TlsTyped(tasks \cup {t}, in, sock, kill, used)
  BY DEF TlsMidway, TlsTyped
<1>2. TlsPlaced(w, tasks \cup {t}, in, used, 0)
  <2> SUFFICES ASSUME NEW r \in TlsReqs
               PROVE  \E st \in TlsStages \cup {"hand"} :
                        TlsAt(w, tasks \cup {t}, in, used, r, st) /\ (st = "hand" <=> r = 0)
    BY DEF TlsPlaced
  <2>0. r # 0
    BY DEF TlsReqs
  <2>1. PICK st \in TlsStages \cup {"hand"} :
          TlsAt(w, tasks, in, used, r, st) /\ (st = "hand" <=> r = q)
    BY DEF TlsMidway, TlsPlaced
  <2>2. CASE r = q
    <3>1. TlsAt(w, tasks \cup {t}, in, used, r, "task")
      BY <2>1, <2>2 DEF TlsAt, TlsWithTasks, TlsWithObjects, TlsWithQueue, TlsHolding
    <3> QED  BY <2>0, <3>1 DEF TlsStages
  <2>3. CASE r # q
    <3>1. TlsWithTasks(tasks \cup {t}, r, st)
      BY <2>1, <2>3 DEF TlsAt, TlsWithTasks
    <3> QED  BY <2>0, <2>1, <2>3, <3>1 DEF TlsAt
  <2> QED  BY <2>2, <2>3
<1>3. TlsFits(w, tasks \cup {t}, in, sock, kill)
  BY DEF TlsMidway, TlsFits
<1>4. TlsHeld(w, tasks \cup {t}, in, sock, kill, g)
  BY DEF TlsMidway, TlsHeld, TlsHeldBy, TlsCares
<1>5. TlsTimers(w, tasks \cup {t}, in, d)
  BY DEF TlsMidway, TlsTimers, TlsTimedBy, TlsArms
<1> QED  BY <1>1, <1>2, <1>3, <1>4, <1>5 DEF TlsMidway

(* The socket service takes a task's call out of the set.                  *)
LEMMA TlsDrops ==
  ASSUME NEW w, NEW tasks, NEW in, NEW sock, NEW kill, NEW used, NEW h, NEW c, NEW t \in tasks,
         TlsMidway(w, tasks, in, sock, kill, used, 0, 0, 0),
         \A s \in TlsSocks : sock[s] = "up" /\ TlsCares(t, s) => s = h,
         \A i \in TlsIds : TlsArms(t, i) => i = c
  PROVE  TlsMidway(w, tasks \ {t}, in, sock, kill, used, t.r, h, c) /\ TlsTaskFits(t, sock)
<1>1. TlsTyped(tasks \ {t}, in, sock, kill, used)
  BY DEF TlsMidway, TlsTyped
<1>2. TlsPlaced(w, tasks \ {t}, in, used, t.r)
  <2> SUFFICES ASSUME NEW r \in TlsReqs
               PROVE  \E st \in TlsStages \cup {"hand"} :
                        TlsAt(w, tasks \ {t}, in, used, r, st) /\ (st = "hand" <=> r = t.r)
    BY DEF TlsPlaced
  <2>0. r # 0
    BY DEF TlsReqs
  <2>1. PICK st \in TlsStages \cup {"hand"} :
          TlsAt(w, tasks, in, used, r, st) /\ (st = "hand" <=> r = 0)
    BY DEF TlsMidway, TlsPlaced
  <2>2. CASE r = t.r
    <3>1. TlsAt(w, tasks \ {t}, in, used, r, "hand")
      BY <2>1, <2>2 DEF TlsAt, TlsWithTasks, TlsWithObjects, TlsWithQueue, TlsHolding
    <3> QED  BY <2>2, <3>1
  <2>3. CASE r # t.r
    <3>1. TlsWithTasks(tasks \ {t}, r, st)
      BY <2>1, <2>3 DEF TlsAt, TlsWithTasks
    <3> QED  BY <2>0, <2>1, <2>3, <3>1 DEF TlsAt
  <2> QED  BY <2>2, <2>3
<1>3. TlsFits(w, tasks \ {t}, in, sock, kill) /\ TlsTaskFits(t, sock)
  BY DEF TlsMidway, TlsFits
<1>4. TlsHeld(w, tasks \ {t}, in, sock, kill, h)
  <2>0. \A s \in TlsSocks : s # 0
    BY DEF TlsSocks
  <2> QED  BY <2>0 DEF TlsMidway, TlsHeld, TlsHeldBy
<1>5. TlsTimers(w, tasks \ {t}, in, c)
  <2>0. \A i \in TlsShaking(w) : i \in TlsIds /\ i # 0
    BY DEF TlsShaking, TlsConns, TlsIds
  <2> QED  BY <2>0 DEF TlsMidway, TlsTimers, TlsTimedBy
<1> QED  BY <1>1, <1>2, <1>3, <1>4, <1>5 DEF TlsMidway

(* A call of a user begins: it has the next number.                        *)
LEMMA TlsBegins ==
  ASSUME NEW w, NEW tasks, NEW in, NEW sock, NEW kill, NEW used, NEW r \in TlsReqs, used + 1 = r,
         TlsMidway(w, tasks, in, sock, kill, used, 0, 0, 0)
  PROVE  TlsMidway(w, tasks, in, sock, kill, r, r, 0, 0)
<1>0. used \in Nat /\ TlsReqs \subseteq Nat
  BY DEF TlsMidway, TlsTyped, TlsReqs
<1>1. TlsTyped(tasks, in, sock, kill, r)
  BY <1>0 DEF TlsMidway, TlsTyped
<1>2. TlsPlaced(w, tasks, in, r, r)
  <2> SUFFICES ASSUME NEW x \in TlsReqs
               PROVE  \E st \in TlsStages \cup {"hand"} :
                        TlsAt(w, tasks, in, r, x, st) /\ (st = "hand" <=> x = r)
    BY DEF TlsPlaced
  <2>0. x # 0 /\ x \in Nat
    BY DEF TlsReqs
  <2>1. PICK st \in TlsStages \cup {"hand"} :
          TlsAt(w, tasks, in, used, x, st) /\ (st = "hand" <=> x = 0)
    BY DEF TlsMidway, TlsPlaced
  <2>2. CASE x = r
    <3>1. st = "new"
      BY <1>0, <2>1, <2>2 DEF TlsAt
    <3>2. TlsWithObjects(w, x, "hand") /\ TlsWithTasks(tasks, x, "hand") /\ TlsWithQueue(in, x, "hand")
      BY <2>1, <3>1 DEF TlsAt, TlsWithTasks, TlsWithObjects, TlsWithQueue, TlsHolding
    <3>3. ~(r < x)
      BY <1>0, <2>2
    <3> QED  BY <2>2, <3>2, <3>3 DEF TlsAt
  <2>3. CASE x # r
    <3>1. used < x <=> r < x
      BY <1>0, <2>0, <2>3
    <3> QED  BY <2>0, <2>1, <2>3, <3>1 DEF TlsAt
  <2> QED  BY <2>2, <2>3
<1> QED  BY <1>1, <1>2 DEF TlsMidway

(* A handler takes the first message, with the request, the socket and the *)
(* connection that it was answerable for.                                  *)
LEMMA TlsTakes ==
  ASSUME NEW w, NEW tasks, NEW in, NEW sock, NEW kill, NEW used, NEW q, NEW h, NEW c,
         TlsMidway(w, tasks, in, sock, kill, used, 0, 0, 0), in # <<>>,
         \A r \in TlsReqs : (Head(in).k = "ans" /\ Head(in).task.r = r) <=> r = q,
         \A s \in TlsSocks : sock[s] = "up" /\ TlsHands(Head(in), s) => s = h,
         \A i \in TlsIds : Head(in).k = "ans" /\ TlsArms(Head(in).task, i) => i = c
  PROVE  TlsMidway(w, tasks, Tail(in), sock, kill, used, q, h, c)
<1> DEFINE rest == Tail(in)
<1>1. in \in Seq(TlsMessage) /\ Len(in) \in Nat /\ Len(in) > 0 /\ in[1] = Head(in)
  BY DEF TlsMidway, TlsTyped
<1>2. /\ rest \in Seq(TlsMessage) /\ DOMAIN in = 1 .. Len(in) /\ DOMAIN rest = 1 .. Len(in) - 1
      /\ \A j \in 1 .. Len(in) - 1 : rest[j] = in[j + 1]
  BY <1>1
<1>3. /\ \A j \in DOMAIN rest : j + 1 \in DOMAIN in /\ rest[j] = in[j + 1]
      /\ \A j \in DOMAIN in : j = 1 \/ (j - 1 \in DOMAIN rest /\ rest[j - 1] = in[j])
      /\ 1 \in DOMAIN in
  <2>1. \A j \in 1 .. Len(in) - 1 : j + 1 \in 1 .. Len(in)
    BY <1>1
  <2>2. \A j \in 1 .. Len(in) : j = 1 \/ (j - 1 \in 1 .. Len(in) - 1 /\ (j - 1) + 1 = j)
    BY <1>1
  <2>3. 1 \in 1 .. Len(in)
    BY <1>1
  <2> QED  BY <1>2, <2>1, <2>2, <2>3
<1>4. \A i, j \in DOMAIN rest : i + 1 = j + 1 => i = j
  BY <1>1, <1>2
<1> HIDE DEF rest
<1>5. TlsTyped(tasks, rest, sock, kill, used)
  BY <1>2 DEF TlsMidway, TlsTyped
<1>6. TlsPlaced(w, tasks, rest, used, q)
  <2> SUFFICES ASSUME NEW r \in TlsReqs
               PROVE  \E st \in TlsStages \cup {"hand"} :
                        TlsAt(w, tasks, rest, used, r, st) /\ (st = "hand" <=> r = q)
    BY DEF TlsPlaced
  <2>0. r # 0
    BY DEF TlsReqs
  <2>1. PICK st \in TlsStages \cup {"hand"} :
          TlsAt(w, tasks, in, used, r, st) /\ (st = "hand" <=> r = 0)
    BY DEF TlsMidway, TlsPlaced
  <2>2. CASE r = q
    <3>1. TlsIsAnswer(in, 1, r)
      BY <1>1, <2>2 DEF TlsIsAnswer
    <3>2. st = "ans"
      BY <1>3, <2>1, <3>1 DEF TlsAt, TlsWithQueue
    <3>3. \A j \in DOMAIN rest : ~TlsIsAnswer(rest, j, r)
      <4> SUFFICES ASSUME NEW j \in DOMAIN rest, TlsIsAnswer(rest, j, r)
                   PROVE  FALSE
        OBVIOUS
      <4>1. TlsIsAnswer(in, j + 1, r) /\ j + 1 \in DOMAIN in
        BY <1>3 DEF TlsIsAnswer
      <4>2. j + 1 = 1
        BY <1>3, <2>1, <3>1, <4>1 DEF TlsAt, TlsWithQueue
      <4> QED  BY <1>1, <1>2, <4>2
    <3>4. TlsWithQueue(rest, r, "hand")
      BY <3>3 DEF TlsWithQueue
    <3>5. TlsWithObjects(w, r, "hand") /\ TlsWithTasks(tasks, r, "hand") /\ ~(used < r)
      BY <2>1, <3>2 DEF TlsAt, TlsWithTasks, TlsWithObjects, TlsHolding
    <3> QED  BY <2>2, <3>4, <3>5 DEF TlsAt
  <2>3. CASE r # q
    <3>1. ~TlsIsAnswer(in, 1, r)
      BY <1>1, <2>3 DEF TlsIsAnswer
    <3>2. /\ \A j \in DOMAIN rest : TlsIsAnswer(rest, j, r) <=> TlsIsAnswer(in, j + 1, r)
          /\ \A j \in DOMAIN in : TlsIsAnswer(in, j, r) =>
                                    j - 1 \in DOMAIN rest /\ TlsIsAnswer(rest, j - 1, r)
      BY <1>3, <3>1 DEF TlsIsAnswer
    <3>3. TlsWithQueue(rest, r, st)
      BY <1>3, <1>4, <2>1, <3>2 DEF TlsAt, TlsWithQueue
    <3> QED  BY <2>0, <2>1, <2>3, <3>3 DEF TlsAt
  <2> QED  BY <2>2, <2>3
<1>7. TlsFits(w, tasks, rest, sock, kill)
  BY <1>3 DEF TlsMidway, TlsFits
<1>8. TlsHeld(w, tasks, rest, sock, kill, h)
  <2> SUFFICES ASSUME NEW s \in TlsSocks, sock[s] = "up", s # h
               PROVE  TlsHeldBy(w, tasks, rest, kill, s)
    BY DEF TlsHeld
  <2>1. TlsHeldBy(w, tasks, in, kill, s) /\ ~TlsHands(in[1], s)
    <3>1. s # 0
      BY DEF TlsSocks
    <3> QED  BY <1>1, <3>1 DEF TlsMidway, TlsHeld
  <2>2. \A j \in DOMAIN in : TlsHands(in[j], s) => \E k \in DOMAIN rest : TlsHands(rest[k], s)
    BY <1>3, <2>1
  <2> QED  BY <2>1, <2>2 DEF TlsHeldBy
<1>9. TlsTimers(w, tasks, rest, c)
  <2> SUFFICES ASSUME NEW i \in TlsShaking(w), i # c
               PROVE  TlsTimedBy(w, tasks, rest, i)
    BY DEF TlsTimers
  <2>1. i \in TlsIds /\ i # 0
    BY DEF TlsShaking, TlsConns, TlsIds
  <2>2. TlsTimedBy(w, tasks, in, i) /\ ~(in[1].k = "ans" /\ TlsArms(in[1].task, i))
    BY <1>1, <2>1 DEF TlsMidway, TlsTimers
  <2>3. \A j \in DOMAIN in : in[j].k = "ans" /\ TlsArms(in[j].task, i) =>
          \E k \in DOMAIN rest : rest[k].k = "ans" /\ TlsArms(rest[k].task, i)
    BY <1>3, <2>2
  <2> QED  BY <2>2, <2>3 DEF TlsTimedBy
<1> QED  BY <1>5, <1>6, <1>7, <1>8, <1>9 DEF TlsMidway, rest

(* What the first message says is so.                                      *)
LEMMA TlsHeadFits ==
  ASSUME NEW w, NEW tasks, NEW in, NEW sock, NEW kill, NEW used, NEW q, NEW h, NEW c,
         TlsMidway(w, tasks, in, sock, kill, used, q, h, c), in # <<>>
  PROVE  Head(in) \in TlsMessage /\ TlsMessageFits(Head(in), sock)
<1>1. in \in Seq(TlsMessage)
  BY DEF TlsMidway, TlsTyped
<1>2. 1 \in DOMAIN in /\ in[1] = Head(in) /\ Head(in) \in TlsMessage
  BY <1>1
<1> QED  BY <1>2 DEF TlsMidway, TlsFits

(* A message arrives: an answer has the request in hand, if there is one.  *)
LEMMA TlsAppends ==
  ASSUME NEW w, NEW tasks, NEW in, NEW sock, NEW kill, NEW used, NEW q, NEW h, NEW c,
         NEW p, NEW g, NEW d, NEW m \in TlsMessage, TlsMessageFits(m, sock),
         TlsMidway(w, tasks, in, sock, kill, used, q, h, c),
         IF m.k = "ans" THEN m.task.r = q /\ p = 0 ELSE p = q,
         g = h \/ TlsHands(m, h), d = c \/ (m.k = "ans" /\ TlsArms(m.task, c))
  PROVE  TlsMidway(w, tasks, Append(in, m), sock, kill, used, p, g, d)
<1> DEFINE out == Append(in, m)
           n == Len(in) + 1
<1>1. in \in Seq(TlsMessage) /\ Len(in) \in Nat
  BY DEF TlsMidway, TlsTyped
<1>2. /\ out \in Seq(TlsMessage) /\ DOMAIN in = 1 .. Len(in) /\ DOMAIN out = 1 .. n
      /\ \A j \in 1 .. Len(in) : out[j] = in[j]
      /\ out[n] = m
  BY <1>1
<1>3. /\ \A j \in DOMAIN in : j \in DOMAIN out /\ out[j] = in[j]
      /\ \A j \in DOMAIN out : j = n \/ j \in DOMAIN in
      /\ n \in DOMAIN out /\ n \notin DOMAIN in
  <2>1. \A j \in 1 .. n : j = n \/ j \in 1 .. Len(in)
    BY <1>1
  <2>2. n \in 1 .. n /\ n \notin 1 .. Len(in) /\ \A j \in 1 .. Len(in) : j \in 1 .. n
    BY <1>1
  <2> QED  BY <1>2, <2>1, <2>2
<1> HIDE DEF out, n
<1>5. TlsTyped(tasks, out, sock, kill, used)
  BY <1>2 DEF TlsMidway, TlsTyped
<1>6. TlsPlaced(w, tasks, out, used, p)
  <2> SUFFICES ASSUME NEW r \in TlsReqs
               PROVE  \E st \in TlsStages \cup {"hand"} :
                        TlsAt(w, tasks, out, used, r, st) /\ (st = "hand" <=> r = p)
    BY DEF TlsPlaced
  <2>0. r # 0
    BY DEF TlsReqs
  <2>1. PICK st \in TlsStages \cup {"hand"} :
          TlsAt(w, tasks, in, used, r, st) /\ (st = "hand" <=> r = q)
    BY DEF TlsMidway, TlsPlaced
  <2>2. \A j \in DOMAIN in : TlsIsAnswer(out, j, r) <=> TlsIsAnswer(in, j, r)
    BY <1>3 DEF TlsIsAnswer
  <2>3. CASE m.k = "ans" /\ r = q
    <3>1. TlsIsAnswer(out, n, r)
      BY <1>2, <2>3 DEF TlsIsAnswer
    <3>2. \A j \in DOMAIN in : ~TlsIsAnswer(out, j, r)
      BY <2>1, <2>2, <2>3 DEF TlsAt, TlsWithQueue
    <3>3. TlsWithQueue(out, r, "ans")
      BY <1>3, <3>1, <3>2 DEF TlsWithQueue
    <3>4. TlsWithObjects(w, r, "ans") /\ TlsWithTasks(tasks, r, "ans") /\ ~(used < r)
      BY <2>1, <2>3 DEF TlsAt, TlsWithTasks, TlsWithObjects, TlsHolding
    <3> QED  BY <2>0, <2>3, <3>3, <3>4 DEF TlsAt, TlsStages
  <2>4. CASE ~(m.k = "ans" /\ r = q)
    <3>1. ~TlsIsAnswer(out, n, r) /\ (r = p <=> r = q)
      BY <1>2, <2>0, <2>4 DEF TlsIsAnswer
    <3>2. TlsWithQueue(out, r, st)
      BY <1>3, <2>1, <2>2, <3>1 DEF TlsAt, TlsWithQueue
    <3> QED  BY <2>1, <3>1, <3>2 DEF TlsAt
  <2> QED  BY <2>3, <2>4
<1>7. TlsFits(w, tasks, out, sock, kill)
  BY <1>2, <1>3 DEF TlsMidway, TlsFits
<1>8. TlsHeld(w, tasks, out, sock, kill, g)
  <2> SUFFICES ASSUME NEW s \in TlsSocks, sock[s] = "up", s # g
               PROVE  TlsHeldBy(w, tasks, out, kill, s)
    BY DEF TlsHeld
  <2>1. CASE s = h
    BY <1>2, <1>3, <2>1 DEF TlsHeldBy
  <2>2. CASE s # h
    <3>1. TlsHeldBy(w, tasks, in, kill, s)
      BY <2>2 DEF TlsMidway, TlsHeld
    <3> QED  BY <1>3, <3>1 DEF TlsHeldBy
  <2> QED  BY <2>1, <2>2
<1>9. TlsTimers(w, tasks, out, d)
  <2> SUFFICES ASSUME NEW i \in TlsShaking(w), i # d
               PROVE  TlsTimedBy(w, tasks, out, i)
    BY DEF TlsTimers
  <2>1. CASE i = c
    BY <1>2, <1>3, <2>1 DEF TlsTimedBy
  <2>2. CASE i # c
    <3>1. TlsTimedBy(w, tasks, in, i)
      BY <2>2 DEF TlsMidway, TlsTimers
    <3> QED  BY <1>3, <3>1 DEF TlsTimedBy
  <2> QED  BY <2>1, <2>2
<1> QED  BY <1>5, <1>6, <1>7, <1>8, <1>9 DEF TlsMidway, out

(* The socket service: a socket ends or begins, a shutdown is carried out. *)
LEMMA TlsSocket ==
  ASSUME NEW w, NEW tasks, NEW in, NEW sock, NEW kill, NEW used, NEW q, NEW h, NEW c,
         NEW g, NEW new \in [TlsSocks -> {"none", "up", "gone"}], NEW left \in SUBSET kill,
         TlsMidway(w, tasks, in, sock, kill, used, q, h, c),
         \A s \in TlsSocks : sock[s] # "none" => new[s] # "none",
         \A s \in TlsSocks : sock[s] = "gone" => new[s] = "gone",
         \A s \in TlsSocks : new[s] = "up" /\ s # g => sock[s] = "up" /\ s # h,
         \A s \in kill : s \in left \/ new[s] = "gone"
  PROVE  TlsMidway(w, tasks, in, new, left, used, q, g, c)
<1>1. TlsTyped(tasks, in, new, left, used) /\ kill \in SUBSET TlsSocks
  BY DEF TlsMidway, TlsTyped
<1>2. TlsFits(w, tasks, in, new, left)
  <2>1. \A i \in TlsIds : w.obj[i].kind # "none" => new[w.obj[i].sock] # "none"
    <3> SUFFICES ASSUME NEW i \in TlsIds, w.obj[i].kind # "none"
                 PROVE  new[w.obj[i].sock] # "none"
      OBVIOUS
    <3>1. w.obj[i] \in TlsObject /\ sock[w.obj[i].sock] # "none"
      BY DEF TlsMidway, TlsFits, TlsWorld, TlsState
    <3>2. w.obj[i].sock \in TlsSocks
      BY <3>1 DEF TlsObject, TlsListener, TlsConn, TlsNone
    <3> QED  BY <3>1, <3>2
  <2>2. \A t \in TlsTaskKind : TlsTaskFits(t, sock) => TlsTaskFits(t, new)
    BY DEF TlsTaskFits, TlsTaskKind
  <2>3. \A m \in TlsMessage : TlsMessageFits(m, sock) => TlsMessageFits(m, new)
    <3> SUFFICES ASSUME NEW m \in TlsMessage, TlsMessageFits(m, sock)
                 PROVE  TlsMessageFits(m, new)
      OBVIOUS
    <3>1. CASE m \in TlsAnswerKind
      <4>1. /\ m.k = "ans" /\ m.task \in TlsTaskKind /\ m.sock \in TlsSocks \cup {0}
            /\ m.task.sock \in TlsSocks \cup {0}
        BY <3>1 DEF TlsAnswerKind, TlsTaskKind
      <4>2. TlsTaskFits(m.task, new) /\ (m.sock # 0 => new[m.sock] # "none")
        BY <2>2, <4>1 DEF TlsMessageFits
      <4>3. m.task.op = "close_listener" => m.task.sock \in TlsSocks
        BY <4>1 DEF TlsMessageFits, TlsTaskFits
      <4> QED  BY <4>1, <4>2, <4>3 DEF TlsMessageFits
    <3>2. CASE m \notin TlsAnswerKind
      <4>1. m.k # "ans" /\ m.sock \in TlsSocks
        BY <3>2 DEF TlsMessage
      <4> QED  BY <4>1 DEF TlsMessageFits
    <3> QED  BY <3>1, <3>2
  <2>4. (\A t \in tasks : t \in TlsTaskKind) /\ \A j \in DOMAIN in : in[j] \in TlsMessage
    BY DEF TlsMidway, TlsTyped
  <2>5. \A s \in left : new[s] # "none"
    BY <1>1 DEF TlsMidway, TlsFits
  <2> QED  BY <2>1, <2>2, <2>3, <2>4, <2>5 DEF TlsMidway, TlsFits
<1>3. TlsHeld(w, tasks, in, new, left, g)
  <2> SUFFICES ASSUME NEW s \in TlsSocks, new[s] = "up", s # g
               PROVE  TlsHeldBy(w, tasks, in, left, s)
    BY DEF TlsHeld
  <2>1. TlsHeldBy(w, tasks, in, kill, s) /\ (s \in kill => s \in left)
    BY DEF TlsMidway, TlsHeld
  <2> QED  BY <2>1 DEF TlsHeldBy
<1> QED  BY <1>1, <1>2, <1>3 DEF TlsMidway

(* What an object does to the requests: it keeps its own, gives back all   *)
(* of them, or gets the one in hand.                                       *)
LEMMA TlsMovesSame ==
  ASSUME NEW w, NEW v, NEW q, \A r \in TlsReqs : v.ans[r] = w.ans[r] /\ (r \in v.lost <=> r \in w.lost),
         \A i \in TlsIds : \A f \in TlsHolding : TlsReqOf(v.obj[i], f) = TlsReqOf(w.obj[i], f)
  PROVE  TlsMoves(w, v, q, q)
<1> SUFFICES ASSUME NEW r \in TlsReqs, NEW st \in TlsStages \cup {"hand"}, TlsWithObjects(w, r, st)
             PROVE  TlsWithObjects(v, r, st)
  BY DEF TlsMoves
<1> QED  BY DEF TlsWithObjects

LEMMA TlsMovesAnswer ==
  ASSUME NEW w, NEW v, NEW q,
         \A r \in TlsReqs : r \in v.lost <=> r \in w.lost,
         \A r \in TlsReqs : r = q => Len(v.ans[r]) = Len(w.ans[r]) + 1,
         \A r \in TlsReqs : r # q => v.ans[r] = w.ans[r],
         \A i \in TlsIds : \A f \in TlsHolding : TlsReqOf(v.obj[i], f) = TlsReqOf(w.obj[i], f)
  PROVE  TlsMoves(w, v, q, 0)
<1> SUFFICES ASSUME NEW r \in TlsReqs, NEW st \in TlsStages \cup {"hand"}, TlsWithObjects(w, r, st),
                    st = "hand" <=> r = q
             PROVE  \E st2 \in TlsStages \cup {"hand"} :
                      /\ TlsWithObjects(v, r, st2) /\ (st2 = "hand" <=> r = 0)
                      /\ st2 = st \/ (st \in TlsSettled /\ st2 \in TlsSettled)
  BY DEF TlsMoves
<1>0. r # 0
  BY DEF TlsReqs
<1>1. CASE r = q
  <2>1. TlsWithObjects(v, r, "answered")
    <3>1. /\ Len(w.ans[r]) = 0 /\ r \notin w.lost
          /\ \A i \in TlsIds : \A f \in TlsHolding : TlsReqOf(w.obj[i], f) # r
      BY <1>1 DEF TlsWithObjects, TlsHolding
    <3>2. Len(v.ans[r]) = 1
      <4>1. Len(v.ans[r]) = Len(w.ans[r]) + 1
        BY <1>1
      <4> QED  BY <3>1, <4>1
    <3> QED  BY <3>1, <3>2 DEF TlsWithObjects, TlsHolding
  <2> QED  BY <1>0, <1>1, <2>1 DEF TlsSettled, TlsStages
<1>2. CASE r # q
  <2>1. TlsWithObjects(v, r, st)
    BY <1>2 DEF TlsWithObjects
  <2> QED  BY <1>0, <1>2, <2>1
<1> QED  BY <1>1, <1>2

LEMMA TlsMovesGiven ==
  ASSUME NEW w, NEW v, NEW q, NEW id \in TlsIds, NEW f \in TlsHolding,
         \A r \in TlsReqs : v.ans[r] = w.ans[r] /\ (r \in v.lost <=> r \in w.lost),
         \A i \in TlsIds : \A e \in TlsHolding :
           i # id \/ e # f => TlsReqOf(v.obj[i], e) = TlsReqOf(w.obj[i], e),
         TlsReqOf(w.obj[id], f) = 0, TlsReqOf(v.obj[id], f) = q
  PROVE  TlsMoves(w, v, q, 0)
<1> SUFFICES ASSUME NEW r \in TlsReqs, NEW st \in TlsStages \cup {"hand"}, TlsWithObjects(w, r, st),
                    st = "hand" <=> r = q
             PROVE  \E st2 \in TlsStages \cup {"hand"} :
                      /\ TlsWithObjects(v, r, st2) /\ (st2 = "hand" <=> r = 0)
                      /\ st2 = st \/ (st \in TlsSettled /\ st2 \in TlsSettled)
  BY DEF TlsMoves
<1>0. r # 0 /\ f # "hand" /\ f \in TlsSettled /\ f \in TlsStages
  BY DEF TlsReqs, TlsHolding, TlsSettled, TlsStages
<1>1. CASE r = q
  <2>1. \A i \in TlsIds : \A e \in TlsHolding : TlsReqOf(w.obj[i], e) # r
    BY <1>0, <1>1 DEF TlsWithObjects, TlsHolding
  <2>2. \A i \in TlsIds : \A e \in TlsHolding : TlsReqOf(v.obj[i], e) = r <=> (i = id /\ e = f)
    BY <1>1, <2>1
  <2>3. f # "answered" /\ f # "lost"
    BY DEF TlsHolding
  <2>4. TlsWithObjects(v, r, f)
    BY <1>1, <2>2, <2>3 DEF TlsWithObjects
  <2> QED  BY <1>0, <1>1, <2>4 DEF TlsSettled
<1>2. CASE r # q
  <2>1. \A i \in TlsIds : \A e \in TlsHolding :
          TlsReqOf(v.obj[i], e) = r <=> TlsReqOf(w.obj[i], e) = r
    BY <1>0, <1>2
  <2>2. TlsWithObjects(v, r, st)
    BY <2>1 DEF TlsWithObjects
  <2> QED  BY <1>0, <1>2, <2>2
<1> QED  BY <1>1, <1>2

LEMMA TlsMovesFreed ==
  ASSUME NEW w, NEW v, NEW q, NEW id \in TlsConns(w), TlsFreed(w, v, id),
         \A i \in TlsIds : \A f \in TlsHolding :
           TlsReqOf(v.obj[i], f) = IF i = id THEN 0 ELSE TlsReqOf(w.obj[i], f)
  PROVE  TlsMoves(w, v, q, q)
<1> SUFFICES ASSUME NEW r \in TlsReqs, NEW st \in TlsStages \cup {"hand"}, TlsWithObjects(w, r, st),
                    st = "hand" <=> r = q
             PROVE  \E st2 \in TlsStages \cup {"hand"} :
                      /\ TlsWithObjects(v, r, st2) /\ (st2 = "hand" <=> r = q)
                      /\ st2 = st \/ (st \in TlsSettled /\ st2 \in TlsSettled)
  BY DEF TlsMoves
<1>0. r # 0 /\ id \in TlsIds /\ \A f \in TlsHolding : TlsReqOf(w.obj[id], f) = w.obj[id][f]
  BY DEF TlsReqs, TlsConns, TlsReqOf
<1>1. CASE \E f \in TlsHolding : w.obj[id][f] = r
  <2>1. PICK f \in TlsHolding : w.obj[id][f] = r
    BY <1>1
  <2>2. st = f /\ f # "answered" /\ f # "lost" /\ f # "hand" /\ f \in TlsSettled
    BY <1>0, <2>1 DEF TlsWithObjects, TlsHolding, TlsSettled
  <2>3. \A i \in TlsIds : \A e \in TlsHolding : TlsReqOf(w.obj[i], e) = r => i = id
    BY <1>0, <2>1, <2>2 DEF TlsWithObjects
  <2>4. \A i \in TlsIds : \A e \in TlsHolding : TlsReqOf(v.obj[i], e) # r
    BY <1>0, <2>3
  <2>5. Len(w.ans[r]) = 0 /\ r \notin w.lost
    BY <2>2 DEF TlsWithObjects
  <2>6. \/ Len(v.ans[r]) = 1 /\ r \notin v.lost
        \/ Len(v.ans[r]) = 0 /\ r \in v.lost
    <3>1. \/ Len(v.ans[r]) = Len(w.ans[r]) + 1 /\ (r \in v.lost <=> r \in w.lost)
          \/ v.ans[r] = w.ans[r] /\ r \in v.lost
      BY <1>1 DEF TlsFreed
    <3> QED  BY <2>5, <3>1
  <2>7. TlsWithObjects(v, r, "answered") \/ TlsWithObjects(v, r, "lost")
    BY <2>4, <2>6 DEF TlsWithObjects, TlsHolding
  <2> QED  BY <2>2, <2>7 DEF TlsSettled, TlsStages
<1>2. CASE ~\E f \in TlsHolding : w.obj[id][f] = r
  <2>1. \A i \in TlsIds : \A f \in TlsHolding :
          TlsReqOf(v.obj[i], f) = r <=> TlsReqOf(w.obj[i], f) = r
    BY <1>0, <1>2
  <2>2. v.ans[r] = w.ans[r] /\ (r \in v.lost <=> r \in w.lost)
    BY <1>2 DEF TlsFreed
  <2>3. TlsWithObjects(v, r, st)
    BY <2>1, <2>2 DEF TlsWithObjects
  <2> QED  BY <2>3
<1> QED  BY <1>1, <1>2

(* A state that differs in its answers, timers, losses or panic only.      *)
LEMMA TlsWorldSame ==
  ASSUME NEW w, NEW v \in TlsState, TlsWorld(w), v.obj = w.obj, v.told = w.told, v.next = w.next,
         v.handshakes = w.handshakes
  PROVE  TlsWorld(v) /\ TlsShaking(v) = TlsShaking(w) /\ \A s : TlsHas(v, s) <=> TlsHas(w, s)
  BY DEF TlsWorld, TlsLives, TlsShaking, TlsConns, TlsHas

LEMMA TlsMidwayIs ==
  ASSUME NEW w, NEW tasks, NEW in, NEW sock, NEW kill, NEW used, NEW q, NEW h, NEW c,
         TlsMidway(w, tasks, in, sock, kill, used, q, h, c)
  PROVE  /\ w \in TlsState /\ TlsWorld(w) /\ TlsTyped(tasks, in, sock, kill, used)
         /\ \A i \in TlsIds : w.obj[i].kind # "none" => sock[w.obj[i].sock] # "none"
         /\ \A i \in TlsIds : w.obj[i].kind # "none" => w.obj[i].sock \in TlsSocks
<1>1. w \in TlsState /\ \A i \in TlsIds : w.obj[i] \in TlsObject
  BY DEF TlsMidway, TlsWorld, TlsState
<1>2. \A i \in TlsIds : w.obj[i].kind # "none" => w.obj[i].sock \in TlsSocks
  BY <1>1 DEF TlsObject, TlsListener, TlsConn, TlsNone
<1> QED  BY <1>1, <1>2 DEF TlsMidway, TlsFits

(* The request in hand is answered.                                        *)
LEMMA TlsRepliesHand ==
  ASSUME NEW w, NEW tasks, NEW in, NEW sock, NEW kill, NEW used, NEW q \in TlsReqs \cup {0},
         NEW h, NEW c, NEW x \in TlsReplies,
         TlsMidway(w, tasks, in, sock, kill, used, q, h, c)
  PROVE  TlsMidway(TlsReply(w, q, x), tasks, in, sock, kill, used, 0, h, c)
<1> DEFINE v == TlsReply(w, q, x)
<1>0. w \in TlsState /\ TlsWorld(w) /\ \A i \in TlsIds : w.obj[i].kind # "none" => sock[w.obj[i].sock] # "none"
  BY TlsMidwayIs
<1>1. /\ TlsOnly(v, w, {"ans"})
      /\ \A r \in TlsReqs : v.ans[r] = IF r = q THEN Append(w.ans[r], x) ELSE w.ans[r]
  BY <1>0, TlsReplied
<1> HIDE DEF v
<1>2. /\ v \in TlsState /\ v.obj = w.obj /\ v.told = w.told /\ v.next = w.next
      /\ v.handshakes = w.handshakes /\ v.lost = w.lost /\ v.timers = w.timers
  BY <1>1 DEF TlsOnly, TlsFields
<1>3. /\ \A r \in TlsReqs : r = q => Len(v.ans[r]) = Len(w.ans[r]) + 1
      /\ \A r \in TlsReqs : r # q => v.ans[r] = w.ans[r]
  <2>1. \A r \in TlsReqs : w.ans[r] \in Seq(TlsReplies)
    BY <1>0 DEF TlsState
  <2>2. \A s \in Seq(TlsReplies) : Len(Append(s, x)) = Len(s) + 1
    OBVIOUS
  <2> QED  BY <1>1, <2>1, <2>2
<1>4. TlsMoves(w, v, q, 0)
  BY <1>2, <1>3, TlsMovesAnswer
<1>5. TlsWorld(v) /\ TlsShaking(v) = TlsShaking(w) /\ \A s : TlsHas(v, s) <=> TlsHas(w, s)
  BY <1>0, <1>2, TlsWorldSame
<1>6. TlsMidway(v, tasks, in, sock, kill, used, 0, h, c)
  BY <1>0, <1>2, <1>4, <1>5, TlsStateStill
<1> QED  BY <1>6 DEF v

(* Timers, and the flag of a panic.                                        *)
LEMMA TlsTimersChange ==
  ASSUME NEW w, NEW tasks, NEW in, NEW sock, NEW kill, NEW used, NEW h, NEW c,
         NEW v \in TlsState, NEW d, TlsMidway(w, tasks, in, sock, kill, used, 0, h, c),
         v.obj = w.obj, v.told = w.told, v.next = w.next, v.handshakes = w.handshakes,
         v.lost = w.lost, v.ans = w.ans,
         \A i \in TlsShaking(w) : i # d => i \in v.timers \/ (i \notin w.timers /\ i # c)
  PROVE  TlsMidway(v, tasks, in, sock, kill, used, 0, h, d)
<1>0. w \in TlsState /\ TlsWorld(w) /\ \A i \in TlsIds : w.obj[i].kind # "none" => sock[w.obj[i].sock] # "none"
  BY TlsMidwayIs
<1>2. TlsWorld(v) /\ TlsShaking(v) = TlsShaking(w) /\ \A s : TlsHas(v, s) <=> TlsHas(w, s)
  BY <1>0, TlsWorldSame
<1>3. TlsMoves(w, v, 0, 0)
  BY TlsMovesSame
<1>4. /\ \A i \in TlsIds : v.obj[i].kind # "none" => sock[v.obj[i].sock] # "none"
      /\ \A s \in TlsSocks : sock[s] = "up" /\ s # h =>
           TlsHas(v, s) \/ (s # h /\ ~TlsHas(w, s))
      /\ \A i \in TlsShaking(v) : i # d =>
           i \in v.timers \/ (i \in TlsShaking(w) /\ i # c /\ i \notin w.timers)
  BY <1>0, <1>2
<1> QED  BY <1>2, <1>3, <1>4, TlsStateStill

(***************************************************************************)
(* What a handler does to the objects.                                     *)
(***************************************************************************)
TlsSet(w, id, o, n, k) ==
  [w EXCEPT !.obj = [w.obj EXCEPT ![id] = o], !.next = n, !.handshakes = k]
LEMMA TlsObjectSet ==
  ASSUME NEW w \in TlsState, NEW id \in TlsIds, NEW o \in TlsObject, NEW n \in Nat, NEW k \in Nat,
         NEW v, v = TlsSet(w, id, o, n, k)
  PROVE  /\ v \in TlsState /\ v.obj = [w.obj EXCEPT ![id] = o] /\ v.next = n /\ v.handshakes = k
         /\ v.told = w.told /\ v.ans = w.ans /\ v.timers = w.timers /\ v.lost = w.lost
         /\ v.panic = w.panic /\ \A i \in TlsIds : v.obj[i] = IF i = id THEN o ELSE w.obj[i]
<1> DEFINE a == [w.obj EXCEPT ![id] = o]
<1>1. /\ a \in [TlsIds -> TlsObject] /\ v = [w EXCEPT !.obj = a, !.next = n, !.handshakes = k]
      /\ \A i \in TlsIds : a[i] = IF i = id THEN o ELSE w.obj[i]
  BY DEF TlsState, TlsSet
<1> HIDE DEF a
<1>2. /\ v \in TlsState /\ v.obj = a /\ v.next = n /\ v.handshakes = k
      /\ v.told = w.told /\ v.ans = w.ans /\ v.timers = w.timers /\ v.lost = w.lost
      /\ v.panic = w.panic
  BY <1>1 DEF TlsState
<1> QED  BY <1>1, <1>2 DEF a

LEMMA TlsObjectAt ==
  ASSUME NEW w \in TlsState, NEW v, NEW id \in TlsIds, NEW o, v.obj = [w.obj EXCEPT ![id] = o]
  PROVE  \A i \in TlsIds : v.obj[i] = IF i = id THEN o ELSE w.obj[i]
  BY DEF TlsState

(* An object that changes without beginning or ending a handshake.         *)
LEMMA TlsObjectKept ==
  ASSUME NEW w, NEW v \in TlsState, NEW id \in TlsIds, NEW o, TlsWorld(w),
         v.obj = [w.obj EXCEPT ![id] = o], v.told = w.told, v.next = w.next,
         v.handshakes = w.handshakes, TlsLife(o, w.told[id], id < w.next),
         (o.kind = "conn" /\ ~o.announced) <=> (w.obj[id].kind = "conn" /\ ~w.obj[id].announced)
  PROVE  TlsWorld(v) /\ TlsShaking(v) = TlsShaking(w)
<1>1. \A i \in TlsIds : v.obj[i] = IF i = id THEN o ELSE w.obj[i]
  BY TlsObjectAt DEF TlsWorld
<1>2. TlsShaking(v) = TlsShaking(w)
  BY <1>1 DEF TlsShaking, TlsConns
<1>3. TlsLives(v)
  BY <1>1 DEF TlsWorld, TlsLives
<1> QED  BY <1>2, <1>3 DEF TlsWorld

(* A connection ends.                                                      *)
LEMMA TlsEndsConn ==
  ASSUME TlsAssumption, NEW w, NEW tasks, NEW in, NEW sock, NEW kill, NEW used, NEW q, NEW h, NEW c,
         TlsMidway(w, tasks, in, sock, kill, used, q, h, c),
         NEW v, NEW id \in TlsConns(w), NEW e \in TlsEnds, TlsEndedAs(w, v, id, e), TlsFreed(w, v, id),
         NEW more \in SUBSET {w.obj[id].sock}, more = {} => sock[w.obj[id].sock] # "up",
         NEW d, d = c \/ c = id
  PROVE  TlsMidway(v, tasks, in, sock, kill \cup more, used, q, h, d)
<1>0. /\ w \in TlsState /\ TlsWorld(w) /\ id \in TlsIds /\ w.obj[id].kind = "conn"
      /\ \A i \in TlsIds : w.obj[i].kind # "none" => sock[w.obj[i].sock] # "none"
      /\ \A i \in TlsIds : w.obj[i].kind # "none" => w.obj[i].sock \in TlsSocks
  BY TlsMidwayIs, TlsConnIs
<1>1. \A i \in TlsIds : v.obj[i] = IF i = id THEN TlsNone ELSE w.obj[i]
  <2>1. v.obj = [w.obj EXCEPT ![id] = TlsNone]
    BY DEF TlsEndedAs
  <2> QED  BY <1>0, <2>1 DEF TlsState
<1>2. TlsWorld(v) /\ TlsShaking(v) = TlsShaking(w) \ {id}
  BY <1>0, TlsEndedWorld
<1>3. TlsMoves(w, v, q, q)
  <2>1. \A i \in TlsIds : \A f \in TlsHolding :
          TlsReqOf(v.obj[i], f) = IF i = id THEN 0 ELSE TlsReqOf(w.obj[i], f)
    BY <1>1 DEF TlsReqOf, TlsNone
  <2> QED  BY <2>1, TlsMovesFreed
<1>4. more \in SUBSET TlsSocks /\ \A s \in more : sock[s] # "none"
  BY <1>0
<1>5. \A i \in TlsIds : v.obj[i].kind # "none" => sock[v.obj[i].sock] # "none"
  BY <1>0, <1>1 DEF TlsNone
<1>6. \A s \in TlsSocks : sock[s] = "up" /\ s # h =>
        s \in more \/ TlsHas(v, s) \/ (s # h /\ ~TlsHas(w, s))
  <2> SUFFICES ASSUME NEW s \in TlsSocks, sock[s] = "up", TlsHas(w, s), s \notin more
               PROVE  TlsHas(v, s)
    OBVIOUS
  <2>1. PICK i \in TlsIds : w.obj[i].kind # "none" /\ w.obj[i].sock = s
    BY DEF TlsHas
  <2>2. i # id
    <3> SUFFICES ASSUME i = id
                 PROVE  FALSE
      OBVIOUS
    <3>1. w.obj[id].sock = s /\ more = {}
      BY <2>1
    <3> QED  BY <3>1
  <2> QED  BY <1>1, <2>1, <2>2 DEF TlsHas
<1>7. \A i \in TlsShaking(v) : i # d =>
        i \in v.timers \/ (i \in TlsShaking(w) /\ i # c /\ i \notin w.timers)
  BY <1>2 DEF TlsEndedAs
<1> QED  BY <1>2, <1>3, <1>4, <1>5, <1>6, <1>7, TlsStateStep

(* fail: what it leaves.                                                   *)
LEMMA TlsFailIs ==
  ASSUME NEW w, NEW id \in TlsConns(w), TlsWorld(w)
  PROVE  TlsEndedAs(w, TlsFail(w, id), id, "error") /\ TlsFreed(w, TlsFail(w, id), id)
<1> DEFINE o == w.obj[id]
           gone == TlsRemove(w, id)
           said == IF o.connectReq # 0 THEN TlsReply(gone, o.connectReq, "failed")
                   ELSE IF o.announced THEN TlsEmit(gone, id, "error") ELSE gone
           v == TlsReply(said, o.closeReq, "failed")
<1>1. TlsFail(w, id) = v
  BY DEF TlsFail
<1>2. w \in TlsState /\ id \in TlsIds /\ o \in TlsConn /\ o.kind = "conn"
  BY TlsConnIs DEF TlsWorld
<1>3. /\ o.connectReq \in TlsReqs \cup {0} /\ o.closeReq \in TlsReqs \cup {0}
      /\ o.announced \in BOOLEAN
  BY <1>2 DEF TlsConn
<1>4. (o.announced => o.connectReq = 0) /\ (~o.announced => o.closeReq = 0)
  BY <1>2 DEF TlsWorld, TlsLives, TlsLife
<1>5. /\ TlsOnly(gone, w, {"obj", "handshakes"})
      /\ gone.obj = [w.obj EXCEPT ![id] = TlsNone]
      /\ gone.handshakes = IF ~o.announced /\ w.handshakes > 0 THEN w.handshakes - 1
                           ELSE w.handshakes
  BY <1>2, TlsRemoved
<1> HIDE DEF gone
<1>6. /\ gone \in TlsState /\ gone.next = w.next /\ gone.timers = w.timers /\ gone.lost = w.lost
      /\ gone.ans = w.ans /\ gone.told = w.told
  BY <1>5 DEF TlsOnly, TlsFields
<1>7. /\ said \in TlsState /\ said.obj = gone.obj /\ said.handshakes = gone.handshakes
      /\ said.next = w.next /\ said.timers = w.timers /\ said.lost = w.lost
      /\ \A r \in TlsReqs : said.ans[r] = IF r = o.connectReq THEN Append(w.ans[r], "failed")
                                          ELSE w.ans[r]
      /\ \A i \in TlsIds : said.told[i] = IF i = id /\ o.announced THEN Append(w.told[i], "error")
                                          ELSE w.told[i]
  <2>1. CASE o.connectReq # 0
    <3>1. said = TlsReply(gone, o.connectReq, "failed") /\ "failed" \in TlsReplies /\ ~o.announced
      BY <1>4, <2>1 DEF TlsReplies
    <3>2. /\ TlsOnly(said, gone, {"ans"})
          /\ \A r \in TlsReqs : said.ans[r] = IF r = o.connectReq THEN Append(gone.ans[r], "failed")
                                              ELSE gone.ans[r]
      BY <1>3, <1>6, <3>1, TlsReplied
    <3> QED  BY <1>6, <3>1, <3>2 DEF TlsOnly, TlsFields
  <2>2. CASE o.connectReq = 0 /\ o.announced
    <3>1. said = TlsEmit(gone, id, "error") /\ "error" \in TlsEvents
      BY <2>2 DEF TlsEvents, TlsEnds
    <3>2. /\ TlsOnly(said, gone, {"told"})
          /\ \A i \in TlsIds : said.told[i] = IF i = id THEN Append(gone.told[i], "error")
                                              ELSE gone.told[i]
      BY <1>2, <1>6, <3>1, TlsEmitted
    <3>3. \A r \in TlsReqs : r # o.connectReq
      BY <2>2 DEF TlsReqs
    <3> QED  BY <1>6, <2>2, <3>2, <3>3 DEF TlsOnly, TlsFields
  <2>3. CASE o.connectReq = 0 /\ ~o.announced
    <3>1. said = gone
      BY <2>3
    <3>2. \A r \in TlsReqs : r # o.connectReq
      BY <2>3 DEF TlsReqs
    <3> QED  BY <1>6, <2>3, <3>1, <3>2
  <2> QED  BY <2>1, <2>2, <2>3
<1> HIDE DEF said
<1>8. /\ TlsOnly(v, said, {"ans"})
      /\ \A r \in TlsReqs : v.ans[r] = IF r = o.closeReq THEN Append(said.ans[r], "failed")
                                       ELSE said.ans[r]
  <2>1. "failed" \in TlsReplies
    BY DEF TlsReplies
  <2> QED  BY <1>3, <1>7, <2>1, TlsReplied
<1> HIDE DEF v
<1>9. /\ v \in TlsState /\ v.obj = gone.obj /\ v.handshakes = gone.handshakes /\ v.next = w.next
      /\ v.timers = w.timers /\ v.lost = w.lost /\ v.told = said.told
  BY <1>7, <1>8 DEF TlsOnly, TlsFields
<1>10. TlsEndedAs(w, v, id, "error")
  BY <1>5, <1>7, <1>9 DEF TlsEndedAs
<1>11. TlsFreed(w, v, id)
  <2> SUFFICES ASSUME NEW r \in TlsReqs
               PROVE  IF \E f \in TlsHolding : o[f] = r
                      THEN Len(v.ans[r]) = Len(w.ans[r]) + 1
                      ELSE v.ans[r] = w.ans[r]
    BY <1>9 DEF TlsFreed
  <2>0. w.ans[r] \in Seq(TlsReplies)
    BY <1>2 DEF TlsState
  <2>1. r # 0
    BY DEF TlsReqs
  <2>2. (\E f \in TlsHolding : o[f] = r) <=> (r = o.connectReq \/ r = o.closeReq)
    BY DEF TlsHolding
  <2>3. Len(Append(w.ans[r], "failed")) = Len(w.ans[r]) + 1
    BY <2>0
  <2>4. o.connectReq = 0 \/ o.closeReq = 0
    BY <1>3, <1>4
  <2> QED  BY <1>7, <1>8, <2>1, <2>2, <2>3, <2>4
<1> QED  BY <1>1, <1>10, <1>11

(* fail, of a connection that is there or not.                             *)
LEMMA TlsFails ==
  ASSUME TlsAssumption, NEW w, NEW tasks, NEW in, NEW sock, NEW kill, NEW used, NEW q, NEW h, NEW c,
         TlsMidway(w, tasks, in, sock, kill, used, q, h, c), NEW id, NEW d, d = c \/ c = id
  PROVE  TlsMidway(TlsFail(w, id), tasks, in, sock, kill \cup TlsFailKill(w, id), used, q, h, d)
<1>1. CASE id \in TlsConns(w)
  <2>1. TlsFailKill(w, id) = {w.obj[id].sock} /\ TlsWorld(w)
    BY <1>1 DEF TlsFailKill, TlsMidway
  <2>2. TlsEndedAs(w, TlsFail(w, id), id, "error") /\ TlsFreed(w, TlsFail(w, id), id)
    BY <1>1, <2>1, TlsFailIs
  <2>3. "error" \in TlsEnds /\ {w.obj[id].sock} # {} /\ {w.obj[id].sock} \in SUBSET {w.obj[id].sock}
    BY DEF TlsEnds
  <2>4. TlsMidway(TlsFail(w, id), tasks, in, sock, kill \cup {w.obj[id].sock}, used, q, h, d)
    BY <1>1, <2>2, <2>3, TlsEndsConn
  <2> QED  BY <2>1, <2>4
<1>2. CASE id \notin TlsConns(w)
  <2>1. TlsFail(w, id) = w /\ kill \cup TlsFailKill(w, id) = kill
    BY <1>2 DEF TlsFail, TlsFailKill
  <2>2. TlsTimers(w, tasks, in, d)
    BY <1>2 DEF TlsMidway, TlsTimers, TlsShaking
  <2> QED  BY <2>1, <2>2 DEF TlsMidway
<1> QED  BY <1>1, <1>2

(* The next id is free.                                                    *)
LEMMA TlsNextFree ==
  ASSUME NEW w, TlsWorld(w), w.next \in TlsIds
  PROVE  w.obj[w.next] = TlsNone /\ w.told[w.next] = <<>> /\ w.next \notin TlsShaking(w)
<1>1. ~(w.next < w.next)
  BY DEF TlsWorld, TlsState
<1>2. w.obj[w.next] = TlsNone /\ w.told[w.next] = <<>>
  BY <1>1 DEF TlsWorld, TlsLives, TlsLife
<1> QED  BY <1>2 DEF TlsShaking, TlsConns, TlsNone

(* The lives of all objects when the next one is made.                     *)
LEMMA TlsMadeLives ==
  ASSUME NEW w, NEW v, NEW o, TlsWorld(w), w.next \in TlsIds,
         \A i \in TlsIds : v.obj[i] = IF i = w.next THEN o ELSE w.obj[i],
         v.told = w.told, v.next = w.next + 1,
         TlsLife(o, <<>>, TRUE)
  PROVE  TlsLives(v)
<1>1. w \in TlsState /\ w.next \in Nat
  BY DEF TlsWorld, TlsState
<1>3. \A i \in TlsIds : i # w.next => (i < v.next <=> i < w.next)
  BY <1>1 DEF TlsIds
<1>4. w.next < v.next
  BY <1>1
<1>5. TlsLives(v)
  <2> SUFFICES ASSUME NEW i \in TlsIds
               PROVE  TlsLife(v.obj[i], v.told[i], i < v.next)
    BY DEF TlsLives
  <2>1. CASE i = w.next
    BY <1>4, <2>1, TlsNextFree DEF TlsLife
  <2>2. CASE i # w.next
    BY <1>3, <2>2 DEF TlsWorld, TlsLives, TlsLife
  <2> QED  BY <2>1, <2>2
<1> QED  BY <1>5

(* A new connection has the request and the socket in hand, and is itself  *)
(* in hand until its timer is armed.                                       *)
LEMMA TlsInserts ==
  ASSUME TlsAssumption, NEW w, NEW tasks, NEW in, NEW sock, NEW kill, NEW used,
         NEW q \in TlsReqs \cup {0}, NEW s \in TlsSocks, NEW server \in BOOLEAN,
         TlsMidway(w, tasks, in, sock, kill, used, q, s, 0), w.next \in TlsIds, sock[s] # "none"
  PROVE  /\ TlsMidway(TlsInsert(w, s, server, q), tasks, in, sock, kill, used, 0, 0, w.next)
         /\ TlsInsert(w, s, server, q).timers = w.timers
<1> DEFINE o == [kind |-> "conn", sock |-> s, server |-> server, announced |-> FALSE, hs |-> TRUE,
                 closing |-> FALSE, notify |-> FALSE, connectReq |-> q, closeReq |-> 0]
           n == w.next + 1
           k == w.handshakes + 1
           v == TlsSet(w, w.next, o, n, k)
<1>0. /\ w \in TlsState /\ TlsWorld(w)
      /\ \A i \in TlsIds : w.obj[i].kind # "none" => sock[w.obj[i].sock] # "none"
  BY TlsMidwayIs
<1>1. TlsInsert(w, s, server, q) = v
  BY DEF TlsInsert, TlsSet
<1>2. /\ o \in TlsConn /\ o.kind = "conn" /\ ~o.announced /\ o.connectReq = q /\ o.closeReq = 0
      /\ o.sock = s /\ n \in Nat /\ k \in Nat
  BY <1>0 DEF TlsConn, TlsState
<1>3. o \in TlsObject
  BY <1>2 DEF TlsObject
<1>a. v = TlsSet(w, w.next, o, n, k)
  OBVIOUS
<1>b. n = w.next + 1 /\ k = w.handshakes + 1
  OBVIOUS
<1> HIDE DEF o, n, k, v
<1>c. /\ v \in TlsState /\ v.obj = [w.obj EXCEPT ![w.next] = o] /\ v.next = n
      /\ v.handshakes = k /\ v.told = w.told /\ v.ans = w.ans
      /\ v.timers = w.timers /\ v.lost = w.lost
      /\ \A i \in TlsIds : v.obj[i] = IF i = w.next THEN o ELSE w.obj[i]
  BY <1>0, <1>2, <1>3, <1>a, TlsObjectSet, SMTT(30)
<1>4. /\ v \in TlsState /\ v.obj = [w.obj EXCEPT ![w.next] = o] /\ v.next = w.next + 1
      /\ v.handshakes = w.handshakes + 1 /\ v.told = w.told /\ v.ans = w.ans
      /\ v.timers = w.timers /\ v.lost = w.lost
  BY <1>b, <1>c
<1>5. TlsLife(o, <<>>, TRUE)
  BY <1>2 DEF TlsLife, TlsToldWell
<1>6. TlsLives(v) /\ \A i \in TlsIds : v.obj[i] = IF i = w.next THEN o ELSE w.obj[i]
  BY <1>0, <1>c, <1>4, <1>5, TlsMadeLives
<1>7. /\ w.obj[w.next] = TlsNone /\ w.next \notin TlsShaking(w)
      /\ TlsShaking(v) = TlsShaking(w) \cup {w.next}
  <2>1. w.obj[w.next] = TlsNone /\ w.next \notin TlsShaking(w)
    BY <1>0, TlsNextFree
  <2> QED  BY <1>2, <1>6, <2>1 DEF TlsShaking, TlsConns
<1>8. TlsWorld(v)
  <2>1. IsFiniteSet(TlsShaking(w)) /\ w.handshakes = Cardinality(TlsShaking(w))
    BY <1>0, TlsShakingFinite DEF TlsWorld
  <2>2. Cardinality(TlsShaking(w) \cup {w.next}) = Cardinality(TlsShaking(w)) + 1
    BY <1>7, <2>1, FS_AddElement
  <2> QED  BY <1>4, <1>6, <1>7, <2>1, <2>2 DEF TlsWorld
<1>9. TlsMoves(w, v, q, 0)
  <2>1. /\ \A f \in TlsHolding : TlsReqOf(w.obj[w.next], f) = 0
        /\ TlsReqOf(v.obj[w.next], "connectReq") = q /\ TlsReqOf(v.obj[w.next], "closeReq") = 0
        /\ \A i \in TlsIds : i # w.next => \A f \in TlsHolding :
             TlsReqOf(v.obj[i], f) = TlsReqOf(w.obj[i], f)
    BY <1>2, <1>6, <1>7 DEF TlsReqOf, TlsNone
  <2>2. \A i \in TlsIds : \A f \in TlsHolding :
          i # w.next \/ f # "connectReq" => TlsReqOf(v.obj[i], f) = TlsReqOf(w.obj[i], f)
    BY <2>1 DEF TlsHolding
  <2>3. "connectReq" \in TlsHolding
    BY DEF TlsHolding
  <2> QED  BY <1>4, <2>1, <2>2, <2>3, TlsMovesGiven
<1>10. \A i \in TlsIds : v.obj[i].kind # "none" => sock[v.obj[i].sock] # "none"
  BY <1>0, <1>2, <1>6
<1>11. \A x \in TlsSocks : sock[x] = "up" /\ x # 0 => TlsHas(v, x) \/ (x # s /\ ~TlsHas(w, x))
  <2>1. TlsHas(v, s)
    BY <1>2, <1>6 DEF TlsHas
  <2>2. \A x : TlsHas(w, x) => TlsHas(v, x)
    BY <1>6, <1>7 DEF TlsHas, TlsNone
  <2> QED  BY <2>1, <2>2
<1>12. \A i \in TlsShaking(v) : i # w.next =>
         i \in v.timers \/ (i \in TlsShaking(w) /\ i # 0 /\ i \notin w.timers)
  <2>1. \A i \in TlsShaking(w) : i # 0
    BY DEF TlsShaking, TlsConns, TlsIds
  <2> QED  BY <1>4, <1>7, <2>1
<1>13. TlsMidway(v, tasks, in, sock, kill, used, 0, 0, w.next)
  BY <1>8, <1>9, <1>10, <1>11, <1>12, TlsStateStill
<1> QED  BY <1>1, <1>4, <1>13

(* A new listener has the socket in hand.                                  *)
LEMMA TlsListens ==
  ASSUME NEW w, NEW tasks, NEW in, NEW sock, NEW kill, NEW used, NEW q, NEW s \in TlsSocks,
         TlsMidway(w, tasks, in, sock, kill, used, q, s, 0), w.next \in TlsIds, sock[s] # "none"
  PROVE  TlsMidway([w EXCEPT !.obj[w.next] = [kind |-> "listener", sock |-> s], !.next = @ + 1],
                   tasks, in, sock, kill, used, q, 0, 0)
<1> DEFINE o == [kind |-> "listener", sock |-> s]
           n == w.next + 1
           k == w.handshakes
           v == TlsSet(w, w.next, o, n, k)
<1>0. /\ w \in TlsState /\ TlsWorld(w) /\ w.next \in Nat /\ w.handshakes \in Nat
      /\ \A i \in TlsIds : w.obj[i].kind # "none" => sock[w.obj[i].sock] # "none"
  BY TlsMidwayIs DEF TlsState
<1>1. [w EXCEPT !.obj[w.next] = [kind |-> "listener", sock |-> s], !.next = @ + 1] = v
  BY <1>0 DEF TlsState, TlsSet
<1>2. o \in TlsListener /\ o.kind = "listener" /\ o.sock = s /\ n \in Nat /\ k \in Nat
  BY <1>0 DEF TlsListener
<1>3. o \in TlsObject
  BY <1>2 DEF TlsObject
<1>a. v = TlsSet(w, w.next, o, n, k)
  OBVIOUS
<1>b. n = w.next + 1 /\ k = w.handshakes
  OBVIOUS
<1> HIDE DEF o, n, k, v
<1>c. /\ v \in TlsState /\ v.obj = [w.obj EXCEPT ![w.next] = o] /\ v.next = n
      /\ v.handshakes = k /\ v.told = w.told /\ v.ans = w.ans
      /\ v.timers = w.timers /\ v.lost = w.lost
      /\ \A i \in TlsIds : v.obj[i] = IF i = w.next THEN o ELSE w.obj[i]
  BY <1>0, <1>2, <1>3, <1>a, TlsObjectSet
<1>4. /\ v \in TlsState /\ v.obj = [w.obj EXCEPT ![w.next] = o] /\ v.next = w.next + 1
      /\ v.handshakes = w.handshakes /\ v.told = w.told /\ v.ans = w.ans
      /\ v.timers = w.timers /\ v.lost = w.lost
  BY <1>b, <1>c
<1>5. TlsLife(o, <<>>, TRUE)
  BY <1>2 DEF TlsLife, TlsToldWell
<1>6. TlsLives(v) /\ \A i \in TlsIds : v.obj[i] = IF i = w.next THEN o ELSE w.obj[i]
  BY <1>0, <1>c, <1>4, <1>5, TlsMadeLives
<1>7. w.obj[w.next] = TlsNone /\ TlsShaking(v) = TlsShaking(w)
  <2>1. w.obj[w.next] = TlsNone
    BY <1>0, TlsNextFree
  <2> QED  BY <1>2, <1>6, <2>1 DEF TlsShaking, TlsConns, TlsNone
<1>8. TlsWorld(v)
  BY <1>0, <1>4, <1>6, <1>7 DEF TlsWorld
<1>9. TlsMoves(w, v, q, q)
  <2>1. \A i \in TlsIds : \A f \in TlsHolding : TlsReqOf(v.obj[i], f) = TlsReqOf(w.obj[i], f)
    BY <1>2, <1>6, <1>7 DEF TlsReqOf, TlsNone
  <2> QED  BY <1>4, <2>1, TlsMovesSame
<1>10. \A i \in TlsIds : v.obj[i].kind # "none" => sock[v.obj[i].sock] # "none"
  BY <1>0, <1>2, <1>6
<1>11. \A x \in TlsSocks : sock[x] = "up" /\ x # 0 => TlsHas(v, x) \/ (x # s /\ ~TlsHas(w, x))
  <2>1. TlsHas(v, s)
    BY <1>2, <1>6 DEF TlsHas
  <2>2. \A x : TlsHas(w, x) => TlsHas(v, x)
    BY <1>6, <1>7 DEF TlsHas, TlsNone
  <2> QED  BY <2>1, <2>2
<1>12. \A i \in TlsShaking(v) : i # 0 =>
         i \in v.timers \/ (i \in TlsShaking(w) /\ i # 0 /\ i \notin w.timers)
  BY <1>4, <1>7
<1>13. TlsMidway(v, tasks, in, sock, kill, used, q, 0, 0)
  BY <1>8, <1>9, <1>10, <1>11, <1>12, TlsStateStill
<1> QED  BY <1>1, <1>13

(* A listener is taken out: its socket is in hand.                         *)
LEMMA TlsRemovesListener ==
  ASSUME NEW w, NEW tasks, NEW in, NEW sock, NEW kill, NEW used, NEW q, NEW id \in TlsIds,
         TlsMidway(w, tasks, in, sock, kill, used, q, 0, 0), w.obj[id].kind = "listener"
  PROVE  TlsMidway(TlsRemoveListener(w, id), tasks, in, sock, kill, used, q, w.obj[id].sock, 0)
<1> DEFINE n == w.next
           k == w.handshakes
           v == TlsSet(w, id, TlsNone, n, k)
<1>0. /\ w \in TlsState /\ TlsWorld(w) /\ w.next \in Nat /\ w.handshakes \in Nat
      /\ \A i \in TlsIds : w.obj[i].kind # "none" => sock[w.obj[i].sock] # "none"
  BY TlsMidwayIs DEF TlsState
<1>1. TlsRemoveListener(w, id) = v
  BY <1>0 DEF TlsRemoveListener, TlsState, TlsSet
<1>2. TlsNone \in TlsObject /\ TlsNone.kind = "none"
  BY DEF TlsObject, TlsNone
<1>4. /\ v \in TlsState /\ v.obj = [w.obj EXCEPT ![id] = TlsNone] /\ v.next = w.next
      /\ v.handshakes = w.handshakes /\ v.told = w.told /\ v.ans = w.ans
      /\ v.timers = w.timers /\ v.lost = w.lost
  <2>1. v = TlsSet(w, id, TlsNone, n, k)
    OBVIOUS
  <2>2. n = w.next /\ k = w.handshakes /\ n \in Nat /\ k \in Nat
    BY <1>0
  <2> HIDE DEF v, n, k
  <2> QED  BY <1>0, <1>2, <2>1, <2>2, TlsObjectSet
<1> HIDE DEF v
<1>5. TlsLife(TlsNone, w.told[id], id < w.next)
  BY <1>0, <1>2 DEF TlsWorld, TlsLives, TlsLife
<1>6. \A i \in TlsIds : v.obj[i] = IF i = id THEN TlsNone ELSE w.obj[i]
  BY <1>0, <1>4 DEF TlsState
<1>8. TlsWorld(v) /\ TlsShaking(v) = TlsShaking(w)
  BY <1>0, <1>2, <1>4, <1>5, TlsObjectKept
<1>9. TlsMoves(w, v, q, q)
  <2>1. \A i \in TlsIds : \A f \in TlsHolding : TlsReqOf(v.obj[i], f) = TlsReqOf(w.obj[i], f)
    BY <1>2, <1>6 DEF TlsReqOf
  <2> QED  BY <1>4, <2>1, TlsMovesSame
<1>10. \A i \in TlsIds : v.obj[i].kind # "none" => sock[v.obj[i].sock] # "none"
  BY <1>0, <1>2, <1>6
<1>11. \A x \in TlsSocks : sock[x] = "up" /\ x # w.obj[id].sock =>
         TlsHas(v, x) \/ (x # 0 /\ ~TlsHas(w, x))
  <2>1. \A x : TlsHas(w, x) /\ x # w.obj[id].sock => TlsHas(v, x)
    BY <1>6 DEF TlsHas
  <2>2. \A x \in TlsSocks : x # 0
    BY DEF TlsSocks
  <2> QED  BY <2>1, <2>2
<1>12. \A i \in TlsShaking(v) : i # 0 =>
         i \in v.timers \/ (i \in TlsShaking(w) /\ i # 0 /\ i \notin w.timers)
  BY <1>4, <1>8
<1>13. TlsMidway(v, tasks, in, sock, kill, used, q, w.obj[id].sock, 0)
  BY <1>8, <1>9, <1>10, <1>11, <1>12, TlsStateStill
<1> QED  BY <1>1, <1>13

(* Sockets are told to shut down, the one in hand among them.              *)
LEMMA TlsKills ==
  ASSUME NEW w, NEW tasks, NEW in, NEW sock, NEW kill, NEW used, NEW q, NEW h, NEW c,
         TlsMidway(w, tasks, in, sock, kill, used, q, h, c), NEW s \in TlsSocks, sock[s] # "none",
         NEW g, g = h \/ h = s
  PROVE  TlsMidway(w, tasks, in, sock, kill \cup {s}, used, q, g, c)
<1> DEFINE more == {s}
<1>1. /\ TlsWorld(w) /\ \A i \in TlsIds : w.obj[i].kind # "none" => sock[w.obj[i].sock] # "none"
  BY TlsMidwayIs
<1>2. TlsMoves(w, w, q, q)
  BY TlsMovesSame
<1>3. /\ more \in SUBSET TlsSocks /\ \A x \in more : sock[x] # "none"
      /\ \A x \in TlsSocks : sock[x] = "up" /\ x # g =>
           x \in more \/ TlsHas(w, x) \/ (x # h /\ ~TlsHas(w, x))
      /\ \A i \in TlsShaking(w) : i # c =>
           i \in w.timers \/ (i \in TlsShaking(w) /\ i # c /\ i \notin w.timers)
  OBVIOUS
<1> HIDE DEF more
<1>4. TlsMidway(w, tasks, in, sock, kill \cup more, used, q, g, c)
  BY <1>1, <1>2, <1>3, TlsStateStep
<1> QED  BY <1>4 DEF more

(* A connection changes but neither its socket nor its handshake; it may   *)
(* take the request in hand as the close that waits.                       *)
LEMMA TlsChanges ==
  ASSUME NEW w, NEW tasks, NEW in, NEW sock, NEW kill, NEW used, NEW q, NEW h, NEW c,
         TlsMidway(w, tasks, in, sock, kill, used, q, h, c), NEW id \in TlsConns(w),
         NEW o \in TlsConn, o.sock = w.obj[id].sock, o.announced = w.obj[id].announced,
         o.connectReq = w.obj[id].connectReq, TlsLife(o, w.told[id], id < w.next), NEW p,
         \/ o.closeReq = w.obj[id].closeReq /\ p = q
         \/ o.closeReq = q /\ w.obj[id].closeReq = 0 /\ p = 0,
         NEW v, v = TlsSet(w, id, o, w.next, w.handshakes)
  PROVE  /\ TlsMidway(v, tasks, in, sock, kill, used, p, h, c) /\ v \in TlsState
         /\ id \in TlsConns(v) /\ v.obj[id] = o /\ v.told = w.told /\ v.handshakes = w.handshakes
         /\ v.timers = w.timers
<1>0. /\ w \in TlsState /\ TlsWorld(w) /\ id \in TlsIds /\ w.obj[id].kind = "conn"
      /\ \A i \in TlsIds : w.obj[i].kind # "none" => sock[w.obj[i].sock] # "none"
  BY TlsMidwayIs, TlsConnIs
<1>1. o \in TlsObject /\ o.kind = "conn" /\ w.next \in Nat /\ w.handshakes \in Nat
  BY <1>0 DEF TlsObject, TlsConn, TlsState
<1>2. /\ v \in TlsState /\ v.obj = [w.obj EXCEPT ![id] = o] /\ v.next = w.next
      /\ v.handshakes = w.handshakes /\ v.told = w.told /\ v.ans = w.ans
      /\ v.timers = w.timers /\ v.lost = w.lost
      /\ \A i \in TlsIds : v.obj[i] = IF i = id THEN o ELSE w.obj[i]
  BY <1>0, <1>1, TlsObjectSet
<1>3. TlsWorld(v) /\ TlsShaking(v) = TlsShaking(w)
  BY <1>0, <1>1, <1>2, TlsObjectKept
<1>4. TlsMoves(w, v, q, p)
  <2>1. \A i \in TlsIds : i # id => \A f \in TlsHolding :
          TlsReqOf(v.obj[i], f) = TlsReqOf(w.obj[i], f)
    BY <1>2
  <2>2. /\ TlsReqOf(v.obj[id], "connectReq") = TlsReqOf(w.obj[id], "connectReq")
        /\ TlsReqOf(v.obj[id], "closeReq") = o.closeReq
        /\ TlsReqOf(w.obj[id], "closeReq") = w.obj[id].closeReq
    BY <1>0, <1>1, <1>2 DEF TlsReqOf
  <2>3. CASE o.closeReq = w.obj[id].closeReq /\ p = q
    <3>1. \A i \in TlsIds : \A f \in TlsHolding : TlsReqOf(v.obj[i], f) = TlsReqOf(w.obj[i], f)
      BY <2>1, <2>2, <2>3 DEF TlsHolding
    <3> QED  BY <1>2, <2>3, <3>1, TlsMovesSame
  <2>4. CASE o.closeReq = q /\ w.obj[id].closeReq = 0 /\ p = 0
    <3>1. \A i \in TlsIds : \A f \in TlsHolding :
            i # id \/ f # "closeReq" => TlsReqOf(v.obj[i], f) = TlsReqOf(w.obj[i], f)
      BY <2>1, <2>2 DEF TlsHolding
    <3>2. "closeReq" \in TlsHolding
      BY DEF TlsHolding
    <3>3. /\ TlsReqOf(w.obj[id], "closeReq") = 0 /\ TlsReqOf(v.obj[id], "closeReq") = q
          /\ \A r \in TlsReqs : v.ans[r] = w.ans[r] /\ (r \in v.lost <=> r \in w.lost)
      BY <1>2, <2>2, <2>4
    <3>4. TlsMoves(w, v, q, 0)
      BY <1>0, <3>1, <3>2, <3>3, TlsMovesGiven
    <3> QED  BY <2>4, <3>4
  <2> QED  BY <2>3, <2>4
<1>5. /\ \A i \in TlsIds : v.obj[i].kind # "none" => sock[v.obj[i].sock] # "none"
      /\ \A x : TlsHas(v, x) <=> TlsHas(w, x)
  BY <1>0, <1>1, <1>2 DEF TlsHas
<1>6. /\ \A x \in TlsSocks : sock[x] = "up" /\ x # h => TlsHas(v, x) \/ (x # h /\ ~TlsHas(w, x))
      /\ \A i \in TlsShaking(v) : i # c =>
           i \in v.timers \/ (i \in TlsShaking(w) /\ i # c /\ i \notin w.timers)
  BY <1>2, <1>3, <1>5
<1>7. TlsMidway(v, tasks, in, sock, kill, used, p, h, c)
  BY <1>3, <1>4, <1>5, <1>6, TlsStateStill
<1> QED  BY <1>0, <1>1, <1>2, <1>7 DEF TlsConns

(* close: the connection has the request in hand.                          *)
TlsClosing(w, id, q) == [w EXCEPT !.obj[id].closing = TRUE, !.obj[id].closeReq = q]
LEMMA TlsCloses ==
  ASSUME NEW w, NEW tasks, NEW in, NEW sock, NEW kill, NEW used, NEW q \in TlsReqs, NEW h, NEW c,
         TlsMidway(w, tasks, in, sock, kill, used, q, h, c), NEW id \in TlsConns(w),
         w.told[id] # <<>>, ~w.obj[id].closing
  PROVE  LET v == TlsClosing(w, id, q)
         IN  /\ TlsMidway(v, tasks, in, sock, kill, used, 0, h, c)
             /\ TlsFailKill(v, id) = TlsFailKill(w, id) /\ id \in TlsConns(v)
<1> DEFINE o == [w.obj[id] EXCEPT !.closing = TRUE, !.closeReq = q]
           v == TlsSet(w, id, o, w.next, w.handshakes)
<1>0. /\ w \in TlsState /\ TlsWorld(w) /\ id \in TlsIds /\ w.obj[id].kind = "conn"
      /\ w.obj[id] \in TlsConn
  BY TlsMidwayIs, TlsConnIs
<1>1. TlsClosing(w, id, q) = v
  BY <1>0 DEF TlsState, TlsSet, TlsConn, TlsClosing
<1>2. /\ o \in TlsConn /\ o.sock = w.obj[id].sock /\ o.announced = w.obj[id].announced
      /\ o.connectReq = w.obj[id].connectReq /\ o.closing /\ o.closeReq = q /\ o.kind = "conn"
  BY <1>0 DEF TlsConn
<1>3. TlsLife(w.obj[id], w.told[id], id < w.next)
  BY <1>0 DEF TlsWorld, TlsLives
<1>4. w.obj[id].announced /\ w.obj[id].closeReq = 0 /\ id < w.next
  BY <1>0, <1>3 DEF TlsLife, TlsNone
<1> HIDE DEF o
<1>5. TlsLife(o, w.told[id], id < w.next)
  BY <1>0, <1>2, <1>3, <1>4 DEF TlsLife
<1>6. v = TlsSet(w, id, o, w.next, w.handshakes)
  OBVIOUS
<1> HIDE DEF v
<1>7. /\ TlsMidway(v, tasks, in, sock, kill, used, 0, h, c)
      /\ id \in TlsConns(v) /\ v.obj[id] = o
  <2> DEFINE p == 0
  <2>1. o.closeReq = q /\ w.obj[id].closeReq = 0 /\ p = 0
    BY <1>2, <1>4
  <2> HIDE DEF p
  <2>2. /\ TlsMidway(v, tasks, in, sock, kill, used, p, h, c)
        /\ id \in TlsConns(v) /\ v.obj[id] = o
    BY <1>2, <1>5, <1>6, <2>1, TlsChanges
  <2> QED  BY <2>1, <2>2
<1> QED  BY <1>1, <1>2, <1>7 DEF TlsFailKill

(* What rustls makes of a chunk, before anyone hears of it.                *)
TlsHearing(w, id, a, b) == [w EXCEPT !.obj[id].hs = a, !.obj[id].notify = b]
LEMMA TlsHears ==
  ASSUME NEW w, NEW tasks, NEW in, NEW sock, NEW kill, NEW used, NEW q, NEW h, NEW c,
         TlsMidway(w, tasks, in, sock, kill, used, q, h, c), NEW id \in TlsConns(w),
         NEW a \in BOOLEAN, NEW b \in BOOLEAN
  PROVE  LET v == TlsHearing(w, id, a, b)
         IN  /\ TlsMidway(v, tasks, in, sock, kill, used, q, h, c) /\ id \in TlsConns(v)
             /\ v.obj[id].hs = a /\ v.obj[id].sock = w.obj[id].sock
             /\ v.obj[id].announced = w.obj[id].announced
<1> DEFINE o == [w.obj[id] EXCEPT !.hs = a, !.notify = b]
           v == TlsSet(w, id, o, w.next, w.handshakes)
<1>0. /\ w \in TlsState /\ TlsWorld(w) /\ id \in TlsIds /\ w.obj[id].kind = "conn"
      /\ w.obj[id] \in TlsConn
  BY TlsMidwayIs, TlsConnIs
<1>1. TlsHearing(w, id, a, b) = v
  BY <1>0 DEF TlsState, TlsSet, TlsConn, TlsHearing
<1>2. /\ o \in TlsConn /\ o.sock = w.obj[id].sock /\ o.announced = w.obj[id].announced
      /\ o.connectReq = w.obj[id].connectReq /\ o.closing = w.obj[id].closing
      /\ o.closeReq = w.obj[id].closeReq /\ o.kind = "conn" /\ o.hs = a
  BY <1>0 DEF TlsConn
<1>3. TlsLife(w.obj[id], w.told[id], id < w.next)
  BY <1>0 DEF TlsWorld, TlsLives
<1> HIDE DEF o
<1>5. TlsLife(o, w.told[id], id < w.next)
  BY <1>0, <1>2, <1>3 DEF TlsLife, TlsNone
<1>6. v = TlsSet(w, id, o, w.next, w.handshakes)
  OBVIOUS
<1> HIDE DEF v
<1>7. /\ TlsMidway(v, tasks, in, sock, kill, used, q, h, c)
      /\ id \in TlsConns(v) /\ v.obj[id] = o
  BY <1>2, <1>5, <1>6, TlsChanges
<1> QED  BY <1>1, <1>2, <1>7

(* The owner of a connection that was announced hears of data.             *)
LEMMA TlsTells ==
  ASSUME NEW w, NEW tasks, NEW in, NEW sock, NEW kill, NEW used, NEW q, NEW h, NEW c,
         TlsMidway(w, tasks, in, sock, kill, used, q, h, c), NEW id \in TlsConns(w),
         w.obj[id].announced
  PROVE  /\ TlsMidway(TlsEmit(w, id, "data"), tasks, in, sock, kill, used, q, h, c)
         /\ TlsEmit(w, id, "data").obj = w.obj
<1> DEFINE v == TlsEmit(w, id, "data")
<1>0. /\ w \in TlsState /\ TlsWorld(w) /\ id \in TlsIds /\ w.obj[id].kind = "conn"
      /\ \A i \in TlsIds : w.obj[i].kind # "none" => sock[w.obj[i].sock] # "none"
  BY TlsMidwayIs, TlsConnIs
<1>1. "data" \in TlsEvents /\ "data" \notin TlsEnds
  BY DEF TlsEvents, TlsEnds
<1>2. /\ TlsOnly(v, w, {"told"})
      /\ \A i \in TlsIds : v.told[i] = IF i = id THEN Append(w.told[i], "data") ELSE w.told[i]
  BY <1>0, <1>1, TlsEmitted
<1> HIDE DEF v
<1>3. /\ v \in TlsState /\ v.obj = w.obj /\ v.ans = w.ans /\ v.next = w.next
      /\ v.handshakes = w.handshakes /\ v.lost = w.lost /\ v.timers = w.timers
  BY <1>2 DEF TlsOnly, TlsFields
<1>4. TlsLives(v)
  <2> SUFFICES ASSUME NEW i \in TlsIds
               PROVE  TlsLife(v.obj[i], v.told[i], i < v.next)
    BY DEF TlsLives
  <2>1. TlsLife(w.obj[i], w.told[i], i < w.next)
    BY <1>0 DEF TlsWorld, TlsLives
  <2>2. CASE i # id
    BY <1>2, <1>3, <2>1, <2>2
  <2>3. CASE i = id
    <3>1. TlsToldWell(w.told[id], TRUE) /\ w.told[id] \in Seq(TlsEvents)
      BY <1>0, <2>1, <2>3 DEF TlsLife, TlsState
    <3>2. TlsToldWell(Append(w.told[id], "data"), "data" \notin TlsEnds)
      BY <1>1, <3>1, TlsToldMore
    <3>3. TlsToldWell(v.told[i], TRUE)
      BY <1>1, <1>2, <2>3, <3>2
    <3>4. i < w.next /\ w.obj[i].connectReq = 0 /\ (w.obj[i].closeReq # 0 => w.obj[i].closing)
      BY <1>0, <2>1, <2>3 DEF TlsLife, TlsNone
    <3> QED  BY <1>0, <1>3, <2>3, <3>3, <3>4 DEF TlsLife
  <2> QED  BY <2>2, <2>3
<1>5. TlsShaking(v) = TlsShaking(w)
  BY <1>3 DEF TlsShaking, TlsConns
<1>6. TlsWorld(v)
  BY <1>0, <1>3, <1>4, <1>5 DEF TlsWorld
<1>7. TlsMoves(w, v, q, q)
  BY <1>3, TlsMovesSame
<1>8. /\ \A i \in TlsIds : v.obj[i].kind # "none" => sock[v.obj[i].sock] # "none"
      /\ \A x \in TlsSocks : sock[x] = "up" /\ x # h => TlsHas(v, x) \/ (x # h /\ ~TlsHas(w, x))
      /\ \A i \in TlsShaking(v) : i # c =>
           i \in v.timers \/ (i \in TlsShaking(w) /\ i # c /\ i \notin w.timers)
  BY <1>0, <1>3, <1>5 DEF TlsHas
<1>9. TlsMidway(v, tasks, in, sock, kill, used, q, h, c)
  BY <1>6, <1>7, <1>8, TlsStateStill
<1> QED  BY <1>3, <1>9 DEF v

(* announce_if_ready, of a connection whose handshake is over: what it     *)
(* changes.                                                                *)
TlsAnnouncedAs(w, v, id) ==
  /\ v \in TlsState /\ v.next = w.next /\ v.timers = w.timers /\ v.lost = w.lost
  /\ v.handshakes = IF w.handshakes > 0 THEN w.handshakes - 1 ELSE w.handshakes
  /\ \A i \in TlsIds : i # id => v.obj[i] = w.obj[i] /\ v.told[i] = w.told[i]
  /\ v.told[id] = Append(w.told[id], "connected")
  /\ v.obj[id] = [w.obj[id] EXCEPT !.announced = TRUE, !.connectReq = 0]
  /\ \A r \in TlsReqs : v.ans[r] = IF r = w.obj[id].connectReq THEN Append(w.ans[r], "id")
                                   ELSE w.ans[r]
LEMMA TlsAnnounceIs ==
  ASSUME NEW w \in TlsState, NEW id \in TlsConns(w), ~w.obj[id].announced, ~w.obj[id].hs
  PROVE  TlsAnnouncedAs(w, TlsAnnounce(w, id), id)
<1> DEFINE o == [w.obj[id] EXCEPT !.announced = TRUE, !.connectReq = 0]
           n == w.next
           k == IF w.handshakes > 0 THEN w.handshakes - 1 ELSE w.handshakes
           r == w.obj[id].connectReq
           u == TlsSet(w, id, o, n, k)
           s == TlsReply(u, r, "id")
           v == TlsEmit(s, id, "connected")
<1>1. id \in TlsIds /\ w.obj[id] \in TlsConn /\ w.obj[id].kind = "conn"
  BY TlsConnIs
<1>2. TlsAnnounce(w, id) = v
  BY <1>1, ZenonT(40) DEF TlsAnnounce, TlsSet, TlsState, TlsConn
<1>3. o \in TlsObject /\ n \in Nat /\ k \in Nat /\ r \in TlsReqs \cup {0}
  <2>1. o \in TlsConn /\ r \in TlsReqs \cup {0}
    BY <1>1 DEF TlsConn
  <2>2. w.next \in Nat /\ w.handshakes \in Nat
    BY DEF TlsState
  <2>3. o \in TlsObject
    BY <2>1 DEF TlsObject
  <2> QED  BY <2>1, <2>2, <2>3
<1>4. /\ "id" \in TlsReplies /\ "connected" \in TlsEvents
      /\ u = TlsSet(w, id, o, n, k)
  BY DEF TlsReplies, TlsEvents
<1> HIDE DEF o, n, k, r, u
<1>5. /\ u \in TlsState /\ u.obj = [w.obj EXCEPT ![id] = o] /\ u.next = n /\ u.handshakes = k
      /\ u.told = w.told /\ u.ans = w.ans /\ u.timers = w.timers /\ u.lost = w.lost
      /\ \A i \in TlsIds : u.obj[i] = IF i = id THEN o ELSE w.obj[i]
  BY <1>1, <1>3, <1>4, TlsObjectSet
<1>6. /\ TlsOnly(s, u, {"ans"})
      /\ \A p \in TlsReqs : s.ans[p] = IF p = r THEN Append(u.ans[p], "id") ELSE u.ans[p]
  BY <1>3, <1>4, <1>5, TlsReplied
<1> HIDE DEF s
<1>7. /\ s \in TlsState /\ s.obj = u.obj /\ s.told = u.told /\ s.next = u.next
      /\ s.handshakes = u.handshakes /\ s.lost = u.lost /\ s.timers = u.timers
  BY <1>6 DEF TlsOnly, TlsFields
<1>8. /\ TlsOnly(v, s, {"told"})
      /\ \A i \in TlsIds : v.told[i] = IF i = id THEN Append(s.told[i], "connected") ELSE s.told[i]
  BY <1>1, <1>4, <1>7, TlsEmitted
<1> HIDE DEF v
<1>9. /\ v \in TlsState /\ v.obj = s.obj /\ v.ans = s.ans /\ v.next = s.next
      /\ v.handshakes = s.handshakes /\ v.lost = s.lost /\ v.timers = s.timers
  BY <1>8 DEF TlsOnly, TlsFields
<1>10. TlsAnnouncedAs(w, v, id)
  <2>1. /\ v.obj[id] = o /\ v.told[id] = Append(w.told[id], "connected")
        /\ \A i \in TlsIds : i # id => v.obj[i] = w.obj[i] /\ v.told[i] = w.told[i]
    <3>1. /\ \A i \in TlsIds : u.obj[i] = IF i = id THEN o ELSE w.obj[i]
          /\ v.obj = u.obj /\ s.told = w.told
      BY <1>5, <1>7, <1>9
    <3> QED  BY <1>1, <1>8, <3>1
  <2>2. \A p \in TlsReqs : v.ans[p] = IF p = r THEN Append(w.ans[p], "id") ELSE w.ans[p]
    BY <1>5, <1>6, <1>9
  <2>3. /\ v \in TlsState /\ v.next = w.next /\ v.timers = w.timers /\ v.lost = w.lost
        /\ v.handshakes = k
    BY <1>5, <1>7, <1>9 DEF n
  <2> QED  BY <2>1, <2>2, <2>3 DEF TlsAnnouncedAs, o, k, r
<1> QED  BY <1>2, <1>10

LEMMA TlsAnnouncedWorld ==
  ASSUME TlsAssumption, NEW w, NEW v, NEW id \in TlsConns(w), ~w.obj[id].announced,
         TlsWorld(w), TlsAnnouncedAs(w, v, id)
  PROVE  TlsWorld(v) /\ TlsShaking(v) = TlsShaking(w) \ {id}
<1>1. /\ w \in TlsState /\ id \in TlsIds /\ w.obj[id].kind = "conn" /\ w.obj[id] \in TlsConn
      /\ TlsLives(w) /\ id \in TlsShaking(w)
  BY TlsConnIs DEF TlsWorld, TlsShaking
<1>2. /\ v.obj[id].kind = "conn" /\ v.obj[id].announced /\ v.obj[id].connectReq = 0
      /\ v.obj[id].closeReq = w.obj[id].closeReq /\ v.obj[id].closing = w.obj[id].closing
  BY <1>1 DEF TlsAnnouncedAs, TlsConn
<1>3. TlsShaking(v) = TlsShaking(w) \ {id}
  BY <1>1, <1>2 DEF TlsShaking, TlsConns, TlsAnnouncedAs
<1>4. v.handshakes = Cardinality(TlsShaking(v))
  <2>1. IsFiniteSet(TlsShaking(w)) /\ w.handshakes = Cardinality(TlsShaking(w))
    BY TlsShakingFinite DEF TlsWorld
  <2>2. Cardinality(TlsShaking(v)) = w.handshakes - 1
    <3>1. Cardinality(TlsShaking(w) \ {id}) = Cardinality(TlsShaking(w)) - 1
      BY <1>1, <2>1, FS_RemoveElement
    <3> QED  BY <1>3, <2>1, <3>1
  <2>3. w.handshakes \in Nat /\ w.handshakes # 0
    BY <1>1, <2>1, FS_EmptySet DEF TlsState
  <2> QED  BY <2>2, <2>3 DEF TlsAnnouncedAs
<1>5. TlsLives(v)
  <2> SUFFICES ASSUME NEW i \in TlsIds
               PROVE  TlsLife(v.obj[i], v.told[i], i < v.next)
    BY DEF TlsLives
  <2>1. TlsLife(w.obj[i], w.told[i], i < w.next) /\ v.next = w.next
    BY <1>1 DEF TlsLives, TlsAnnouncedAs
  <2>2. CASE i # id
    BY <2>1, <2>2 DEF TlsAnnouncedAs
  <2>3. CASE i = id
    <3>1. w.told[i] = <<>> /\ w.obj[i].closeReq = 0 /\ i < w.next
      BY <1>1, <2>1, <2>3 DEF TlsLife, TlsNone
    <3>2. v.told[i] = <<"connected">>
      BY <2>3, <3>1 DEF TlsAnnouncedAs
    <3>3. TlsToldWell(<<"connected">>, TRUE)
      BY DEF TlsToldWell, TlsEnds
    <3> QED  BY <1>2, <2>1, <2>3, <3>1, <3>2, <3>3 DEF TlsLife
  <2> QED  BY <2>2, <2>3
<1> QED  BY <1>3, <1>4, <1>5 DEF TlsWorld, TlsAnnouncedAs

LEMMA TlsAnnounces ==
  ASSUME TlsAssumption, NEW w, NEW tasks, NEW in, NEW sock, NEW kill, NEW used, NEW q, NEW h, NEW c,
         TlsMidway(w, tasks, in, sock, kill, used, q, h, c), NEW id \in TlsConns(w)
  PROVE  LET v == TlsAnnounce(w, id)
         IN  /\ TlsMidway(v, tasks, in, sock, kill, used, q, h, c)
             /\ id \in TlsConns(v) /\ v.obj[id].sock = w.obj[id].sock
             /\ ~w.obj[id].hs => v.obj[id].announced
<1> DEFINE v == TlsAnnounce(w, id)
<1>1. CASE w.obj[id].announced \/ w.obj[id].hs
  BY <1>1 DEF TlsAnnounce
<1>2. CASE ~w.obj[id].announced /\ ~w.obj[id].hs
  <2>0. /\ w \in TlsState /\ TlsWorld(w) /\ id \in TlsIds /\ w.obj[id].kind = "conn"
        /\ w.obj[id] \in TlsConn
        /\ \A i \in TlsIds : w.obj[i].kind # "none" => sock[w.obj[i].sock] # "none"
    BY TlsMidwayIs, TlsConnIs
  <2>1. TlsAnnouncedAs(w, v, id)
    BY <1>2, <2>0, TlsAnnounceIs
  <2> HIDE DEF v
  <2>2. TlsWorld(v) /\ TlsShaking(v) = TlsShaking(w) \ {id}
    BY <1>2, <2>0, <2>1, TlsAnnouncedWorld
  <2>3. /\ v.obj[id].kind = "conn" /\ v.obj[id].announced /\ v.obj[id].connectReq = 0
        /\ v.obj[id].sock = w.obj[id].sock /\ v.obj[id].closeReq = w.obj[id].closeReq
        /\ \A i \in TlsIds : i # id => v.obj[i] = w.obj[i]
    BY <2>0, <2>1 DEF TlsAnnouncedAs, TlsConn
  <2>4. w.obj[id].closeReq = 0
    BY <1>2, <2>0 DEF TlsWorld, TlsLives, TlsLife
  <2>5. TlsFreed(w, v, id)
    <3> SUFFICES ASSUME NEW r \in TlsReqs
                 PROVE  IF \E f \in TlsHolding : w.obj[id][f] = r
                        THEN Len(v.ans[r]) = Len(w.ans[r]) + 1
                        ELSE v.ans[r] = w.ans[r]
      BY <2>1 DEF TlsFreed, TlsAnnouncedAs
    <3>1. (\E f \in TlsHolding : w.obj[id][f] = r) <=> r = w.obj[id].connectReq
      BY <2>4 DEF TlsHolding, TlsReqs
    <3>2. v.ans[r] = IF r = w.obj[id].connectReq THEN Append(w.ans[r], "id") ELSE w.ans[r]
      BY <2>1 DEF TlsAnnouncedAs
    <3>3. w.ans[r] \in Seq(TlsReplies)
      BY <2>0 DEF TlsState
    <3>4. Len(Append(w.ans[r], "id")) = Len(w.ans[r]) + 1
      BY <3>3
    <3> QED  BY <3>1, <3>2, <3>4
  <2>6. TlsMoves(w, v, q, q)
    <3>1. \A i \in TlsIds : i # id => \A f \in TlsHolding :
            TlsReqOf(v.obj[i], f) = TlsReqOf(w.obj[i], f)
      BY <2>3
    <3>2. \A f \in TlsHolding : TlsReqOf(v.obj[id], f) = 0
      BY <2>3, <2>4 DEF TlsReqOf, TlsHolding
    <3> QED  BY <2>5, <3>1, <3>2, TlsMovesFreed
  <2>7. /\ \A i \in TlsIds : v.obj[i].kind # "none" => sock[v.obj[i].sock] # "none"
        /\ \A x : TlsHas(v, x) <=> TlsHas(w, x)
    BY <2>0, <2>3 DEF TlsHas
  <2>8. /\ \A x \in TlsSocks : sock[x] = "up" /\ x # h => TlsHas(v, x) \/ (x # h /\ ~TlsHas(w, x))
        /\ \A i \in TlsShaking(v) : i # c =>
             i \in v.timers \/ (i \in TlsShaking(w) /\ i # c /\ i \notin w.timers)
    BY <2>1, <2>2, <2>7 DEF TlsAnnouncedAs
  <2>9. TlsMidway(v, tasks, in, sock, kill, used, q, h, c)
    BY <2>2, <2>6, <2>7, <2>8, TlsStateStill
  <2> QED  BY <2>0, <2>3, <2>9 DEF TlsConns, v
<1> QED  BY <1>1, <1>2

(* shutdown of a connection: a close that waits loses its answer.          *)
LEMMA TlsShutdownIs ==
  ASSUME NEW w, NEW id \in TlsConns(w), TlsWorld(w), w.obj[id].announced,
         NEW v, v = [TlsEmit(TlsRemove(w, id), id, "close")
                       EXCEPT !.lost = @ \cup ({w.obj[id].closeReq} \ {0})]
  PROVE  TlsEndedAs(w, v, id, "close") /\ TlsFreed(w, v, id)
<1> DEFINE o == w.obj[id]
           gone == TlsRemove(w, id)
           u == TlsEmit(gone, id, "close")
           more == {o.closeReq} \ {0}
<1>2. w \in TlsState /\ id \in TlsIds /\ o \in TlsConn /\ o.kind = "conn"
  BY TlsConnIs DEF TlsWorld
<1>3. /\ o.closeReq \in TlsReqs \cup {0} /\ "close" \in TlsEvents
      /\ v = [u EXCEPT !.lost = u.lost \cup more]
  BY <1>2 DEF TlsConn, TlsEvents, TlsEnds
<1>4. o.connectReq = 0
  BY <1>2 DEF TlsWorld, TlsLives, TlsLife
<1>5. /\ TlsOnly(gone, w, {"obj", "handshakes"})
      /\ gone.obj = [w.obj EXCEPT ![id] = TlsNone]
      /\ gone.handshakes = IF ~o.announced /\ w.handshakes > 0 THEN w.handshakes - 1
                           ELSE w.handshakes
  BY <1>2, TlsRemoved
<1> HIDE DEF gone
<1>6. /\ gone \in TlsState /\ gone.next = w.next /\ gone.timers = w.timers /\ gone.lost = w.lost
      /\ gone.ans = w.ans /\ gone.told = w.told
  BY <1>5 DEF TlsOnly, TlsFields
<1>7. /\ TlsOnly(u, gone, {"told"})
      /\ \A i \in TlsIds : u.told[i] = IF i = id THEN Append(gone.told[i], "close") ELSE gone.told[i]
  BY <1>2, <1>3, <1>6, TlsEmitted
<1> HIDE DEF u
<1>8. /\ u \in TlsState /\ u.obj = gone.obj /\ u.handshakes = gone.handshakes /\ u.next = gone.next
      /\ u.timers = gone.timers /\ u.lost = gone.lost /\ u.ans = gone.ans
  BY <1>7 DEF TlsOnly, TlsFields
<1>9. more \in SUBSET TlsReqs /\ u.lost \in SUBSET TlsReqs
  BY <1>3, <1>8 DEF TlsState
<1> HIDE DEF more
<1>10. /\ v \in TlsState /\ v.obj = gone.obj /\ v.handshakes = gone.handshakes
       /\ v.next = w.next /\ v.timers = w.timers /\ v.lost = w.lost \cup more /\ v.ans = w.ans
       /\ v.told = u.told
  <2>1. u.lost \cup more \in SUBSET TlsReqs
    BY <1>9
  <2>2. v \in TlsState /\ v.lost = u.lost \cup more
    BY <1>3, <1>8, <2>1 DEF TlsState
  <2> QED  BY <1>3, <1>6, <1>8, <2>2, ZenonT(40) DEF TlsState
<1>11. TlsEndedAs(w, v, id, "close")
  BY <1>5, <1>6, <1>7, <1>10 DEF TlsEndedAs
<1>12. TlsFreed(w, v, id)
  <2> SUFFICES ASSUME NEW r \in TlsReqs
               PROVE  IF \E f \in TlsHolding : o[f] = r
                      THEN r \in v.lost
                      ELSE r \in v.lost <=> r \in w.lost
    BY <1>10 DEF TlsFreed
  <2>1. (\E f \in TlsHolding : o[f] = r) <=> r = o.closeReq
    BY <1>4 DEF TlsHolding, TlsReqs
  <2>2. r \in more <=> r = o.closeReq
    BY DEF more, TlsReqs
  <2> QED  BY <1>10, <2>1, <2>2
<1> QED  BY <1>11, <1>12

(* socket_closed, of a connection.                                         *)
TlsClosedState(w, id, x, e) ==
  LET c == w.obj[id]
      u == TlsReply(TlsRemove(w, id), c.closeReq, x)
  IN  IF c.connectReq # 0 THEN TlsReply(u, c.connectReq, "failed")
      ELSE IF ~c.announced THEN u ELSE TlsEmit(u, id, e)
LEMMA TlsClosedIs ==
  ASSUME NEW w, NEW id \in TlsConns(w), TlsWorld(w), NEW x \in TlsReplies, NEW e \in TlsEnds
  PROVE  /\ TlsEndedAs(w, TlsClosedState(w, id, x, e), id, e)
         /\ TlsFreed(w, TlsClosedState(w, id, x, e), id)
<1> DEFINE o == w.obj[id]
           gone == TlsRemove(w, id)
           u == TlsReply(gone, o.closeReq, x)
           v == IF o.connectReq # 0 THEN TlsReply(u, o.connectReq, "failed")
                ELSE IF ~o.announced THEN u ELSE TlsEmit(u, id, e)
<1>1. TlsClosedState(w, id, x, e) = v
  BY DEF TlsClosedState
<1>2. w \in TlsState /\ id \in TlsIds /\ o \in TlsConn /\ o.kind = "conn"
  BY TlsConnIs DEF TlsWorld
<1>3. /\ o.connectReq \in TlsReqs \cup {0} /\ o.closeReq \in TlsReqs \cup {0}
      /\ o.announced \in BOOLEAN
  BY <1>2 DEF TlsConn
<1>4. (o.announced => o.connectReq = 0) /\ (~o.announced => o.closeReq = 0)
  BY <1>2 DEF TlsWorld, TlsLives, TlsLife
<1>5. /\ TlsOnly(gone, w, {"obj", "handshakes"})
      /\ gone.obj = [w.obj EXCEPT ![id] = TlsNone]
      /\ gone.handshakes = IF ~o.announced /\ w.handshakes > 0 THEN w.handshakes - 1
                           ELSE w.handshakes
  BY <1>2, TlsRemoved
<1> HIDE DEF gone
<1>6. /\ gone \in TlsState /\ gone.next = w.next /\ gone.timers = w.timers /\ gone.lost = w.lost
      /\ gone.ans = w.ans /\ gone.told = w.told
  BY <1>5 DEF TlsOnly, TlsFields
<1>7. /\ TlsOnly(u, gone, {"ans"})
      /\ \A r \in TlsReqs : u.ans[r] = IF r = o.closeReq THEN Append(w.ans[r], x) ELSE w.ans[r]
  BY <1>3, <1>6, TlsReplied
<1> HIDE DEF u
<1>8. /\ u \in TlsState /\ u.obj = gone.obj /\ u.handshakes = gone.handshakes /\ u.next = w.next
      /\ u.timers = w.timers /\ u.lost = w.lost /\ u.told = w.told
  BY <1>6, <1>7 DEF TlsOnly, TlsFields
<1>9. /\ v \in TlsState /\ v.obj = gone.obj /\ v.handshakes = gone.handshakes
      /\ v.next = w.next /\ v.timers = w.timers /\ v.lost = w.lost
      /\ \A r \in TlsReqs : v.ans[r] = IF r = o.connectReq THEN Append(u.ans[r], "failed")
                                       ELSE u.ans[r]
      /\ \A i \in TlsIds : v.told[i] = IF i = id /\ o.announced THEN Append(w.told[i], e)
                                       ELSE w.told[i]
  <2>1. CASE o.connectReq # 0
    <3>1. v = TlsReply(u, o.connectReq, "failed") /\ "failed" \in TlsReplies /\ ~o.announced
      BY <1>4, <2>1 DEF TlsReplies
    <3>2. /\ TlsOnly(v, u, {"ans"})
          /\ \A r \in TlsReqs : v.ans[r] = IF r = o.connectReq THEN Append(u.ans[r], "failed")
                                           ELSE u.ans[r]
      BY <1>3, <1>8, <3>1, TlsReplied
    <3> QED  BY <1>8, <3>1, <3>2 DEF TlsOnly, TlsFields
  <2>2. CASE o.connectReq = 0 /\ o.announced
    <3>1. v = TlsEmit(u, id, e) /\ e \in TlsEvents
      BY <2>2 DEF TlsEvents
    <3>2. /\ TlsOnly(v, u, {"told"})
          /\ \A i \in TlsIds : v.told[i] = IF i = id THEN Append(u.told[i], e) ELSE u.told[i]
      BY <1>2, <1>8, <3>1, TlsEmitted
    <3>3. \A r \in TlsReqs : r # o.connectReq
      BY <2>2 DEF TlsReqs
    <3> QED  BY <1>8, <2>2, <3>2, <3>3 DEF TlsOnly, TlsFields
  <2>3. CASE o.connectReq = 0 /\ ~o.announced
    <3>1. v = u
      BY <2>3
    <3>2. \A r \in TlsReqs : r # o.connectReq
      BY <2>3 DEF TlsReqs
    <3> QED  BY <1>8, <2>3, <3>1, <3>2
  <2> QED  BY <2>1, <2>2, <2>3
<1> HIDE DEF v
<1>10. TlsEndedAs(w, v, id, e)
  BY <1>5, <1>9 DEF TlsEndedAs
<1>11. TlsFreed(w, v, id)
  <2> SUFFICES ASSUME NEW r \in TlsReqs
               PROVE  IF \E f \in TlsHolding : o[f] = r
                      THEN Len(v.ans[r]) = Len(w.ans[r]) + 1
                      ELSE v.ans[r] = w.ans[r]
    BY <1>9 DEF TlsFreed
  <2>0. w.ans[r] \in Seq(TlsReplies)
    BY <1>2 DEF TlsState
  <2>1. r # 0
    BY DEF TlsReqs
  <2>2. (\E f \in TlsHolding : o[f] = r) <=> (r = o.connectReq \/ r = o.closeReq)
    BY DEF TlsHolding
  <2>3. /\ Len(Append(w.ans[r], "failed")) = Len(w.ans[r]) + 1
        /\ Len(Append(w.ans[r], x)) = Len(w.ans[r]) + 1
    BY <2>0
  <2>4. o.connectReq = 0 \/ o.closeReq = 0
    BY <1>3, <1>4
  <2> QED  BY <1>7, <1>9, <2>1, <2>2, <2>3, <2>4
<1> QED  BY <1>1, <1>10, <1>11

\* listener_sockets and connection_sockets: what a look-up returns.
LEMMA TlsOfIs ==
  ASSUME TlsAssumption, NEW w, NEW kind, NEW s
  PROVE  /\ TlsOf(w, kind, s) # 0 => /\ TlsOf(w, kind, s) \in TlsIds
                                     /\ w.obj[TlsOf(w, kind, s)].kind = kind
                                     /\ w.obj[TlsOf(w, kind, s)].sock = s
         /\ TlsOf(w, kind, s) = 0 => \A i \in TlsIds : ~(w.obj[i].kind = kind /\ w.obj[i].sock = s)
<1> DEFINE ids == {i \in TlsIds : w.obj[i].kind = kind /\ w.obj[i].sock = s}
<1>1. TlsOf(w, kind, s) = IF ids = {} THEN 0 ELSE CHOOSE i \in ids : TRUE
  BY DEF TlsOf
<1>2. CASE ids = {}
  BY <1>1, <1>2
<1>3. CASE ids # {}
  <2>1. (CHOOSE i \in ids : TRUE) \in ids
    BY <1>3
  <2>2. TlsOf(w, kind, s) \in ids
    BY <1>1, <1>3, <2>1
  <2>3. TlsOf(w, kind, s) # 0
    BY <2>2 DEF TlsIds
  <2> QED  BY <2>2, <2>3
<1> QED  BY <1>2, <1>3

(***************************************************************************)
(* The commands, up to their first await.                                  *)
(***************************************************************************)
LEMMA TlsAsked ==
  ASSUME TlsInv, NEW r \in TlsReqs, TlsAsk(r)
  PROVE  /\ tlsUsed' \in TlsUsage /\ tlsUsed'.req = r
         /\ TlsMidway(tls, tlsTasks, tlsIn, tlsSock, tlsKill, r, r, 0, 0)
<1>1. tlsUsed \in TlsUsage /\ tlsUsed.req + 1 = r /\ r \in 0 .. TlsMaxReq
  BY DEF TlsInv, TlsAsk, TlsReqs
<1>2. tlsUsed' \in TlsUsage /\ tlsUsed'.req = r
  BY <1>1 DEF TlsAsk, TlsUsage
<1>3. TlsMidway(tls, tlsTasks, tlsIn, tlsSock, tlsKill, tlsUsed.req, 0, 0, 0)
  BY DEF TlsInv
<1>4. TlsMidway(tls, tlsTasks, tlsIn, tlsSock, tlsKill, r, r, 0, 0)
  BY <1>1, <1>3, TlsBegins
<1> QED  BY <1>2, <1>4

(* A call is refused.                                                      *)
LEMMA TlsRefuses ==
  ASSUME TlsInv, NEW r \in TlsReqs, TlsAsk(r), tls' = TlsReply(tls, r, "failed"),
         UNCHANGED <<tlsTasks, tlsIn, tlsSock, tlsKill>>
  PROVE  TlsInv'
<1>1. /\ tlsUsed' \in TlsUsage /\ tlsUsed'.req = r
      /\ TlsMidway(tls, tlsTasks, tlsIn, tlsSock, tlsKill, r, r, 0, 0)
  BY TlsAsked
<1>2. "failed" \in TlsReplies /\ r \in TlsReqs \cup {0}
  BY DEF TlsReplies
<1>3. TlsMidway(TlsReply(tls, r, "failed"), tlsTasks, tlsIn, tlsSock, tlsKill, r, 0, 0, 0)
  BY <1>1, <1>2, TlsRepliesHand
<1> QED  BY <1>1, <1>3 DEF TlsInv

LEMMA TlsTaskIs ==
  ASSUME NEW op \in TlsOps, NEW r \in TlsReqs \cup {0}, NEW id \in TlsIds \cup {0},
         NEW s \in TlsSocks \cup {0}
  PROVE  LET t == TlsTask(op, r, id, s)
         IN  t \in TlsTaskKind /\ t.op = op /\ t.r = r /\ t.id = id /\ t.sock = s
  BY DEF TlsTask, TlsTaskKind

(* A call awaits the socket service and the state is left alone.           *)
LEMMA TlsCalls ==
  ASSUME TlsInv, NEW r \in TlsReqs, TlsAsk(r), NEW op \in TlsOps, NEW id \in TlsIds \cup {0},
         NEW s \in TlsSocks \cup {0}, op # "accept",
         op \notin {"connect", "listen"} => s # 0 /\ tlsSock[s] # "none",
         TlsAwait(TlsTask(op, r, id, s)), UNCHANGED <<tls, tlsIn, tlsSock, tlsKill>>
  PROVE  TlsInv'
<1> DEFINE t == TlsTask(op, r, id, s)
<1>1. /\ tlsUsed' \in TlsUsage /\ tlsUsed'.req = r
      /\ TlsMidway(tls, tlsTasks, tlsIn, tlsSock, tlsKill, r, r, 0, 0)
  BY TlsAsked
<1>2. t \in TlsTaskKind /\ t.op = op /\ t.r = r /\ t.id = id /\ t.sock = s
  BY TlsTaskIs
<1> HIDE DEF t
<1>3. TlsTaskFits(t, tlsSock)
  BY <1>2 DEF TlsTaskFits
<1>4. TlsMidway(tls, tlsTasks \cup {t}, tlsIn, tlsSock, tlsKill, r, 0, 0, 0)
  BY <1>1, <1>2, <1>3, TlsAwaits
<1>5. tlsTasks' = tlsTasks \cup {t}
  BY DEF TlsAwait, t
<1> QED  BY <1>1, <1>4, <1>5 DEF TlsInv

(* The objects of the service between two handlers.                        *)
LEMMA TlsInvIs ==
  ASSUME TlsInv
  PROVE  /\ tls \in TlsState /\ TlsWorld(tls)
         /\ TlsTyped(tlsTasks, tlsIn, tlsSock, tlsKill, tlsUsed.req)
         /\ tlsUsed \in TlsUsage
         /\ \A i \in TlsIds : tls.obj[i].kind # "none" =>
              tlsSock[tls.obj[i].sock] # "none" /\ tls.obj[i].sock \in TlsSocks
         /\ TlsMidway(tls, tlsTasks, tlsIn, tlsSock, tlsKill, tlsUsed.req, 0, 0, 0)
<1>1. /\ tlsUsed \in TlsUsage
      /\ TlsMidway(tls, tlsTasks, tlsIn, tlsSock, tlsKill, tlsUsed.req, 0, 0, 0)
  BY DEF TlsInv
<1> QED  BY <1>1, TlsMidwayIs

LEMMA TlsConnectStep ==
  ASSUME TlsInv, NEW r \in TlsReqs, TlsConnect(r)
  PROVE  TlsInv'
<1>1. CASE tls' = TlsReply(tls, r, "failed") /\ UNCHANGED tlsTasks
  BY <1>1, TlsRefuses DEF TlsConnect
<1>2. CASE TlsAwait(TlsTask("connect", r, 0, 0)) /\ UNCHANGED tls
  <2>1. "connect" \in TlsOps /\ "connect" # "accept" /\ "connect" \in {"connect", "listen"}
    BY DEF TlsOps
  <2> QED  BY <1>2, <2>1, TlsCalls DEF TlsConnect
<1> QED  BY <1>1, <1>2 DEF TlsConnect

LEMMA TlsListenStep ==
  ASSUME TlsInv, NEW r \in TlsReqs, TlsListen(r)
  PROVE  TlsInv'
<1>1. CASE tls' = TlsReply(tls, r, "failed") /\ UNCHANGED tlsTasks
  BY <1>1, TlsRefuses DEF TlsListen
<1>2. CASE TlsAwait(TlsTask("listen", r, 0, 0)) /\ UNCHANGED tls
  <2>1. "listen" \in TlsOps /\ "listen" # "accept" /\ "listen" \in {"connect", "listen"}
    BY DEF TlsOps
  <2> QED  BY <1>2, <2>1, TlsCalls DEF TlsListen
<1> QED  BY <1>1, <1>2 DEF TlsListen

LEMMA TlsForwardStep ==
  ASSUME TlsInv, NEW op \in {"start", "pause", "send"}, NEW id \in TlsIds, NEW r \in TlsReqs,
         TlsForward(op, id, r)
  PROVE  TlsInv'
<1>1. CASE tls' = TlsReply(tls, r, "failed") /\ UNCHANGED tlsTasks
  BY <1>1, TlsRefuses DEF TlsForward
<1>2. CASE /\ tls.obj[id].kind # "none" /\ TlsAwait(TlsTask(op, r, id, tls.obj[id].sock))
           /\ UNCHANGED tls
  <2>1. op \in TlsOps /\ op # "accept"
    BY DEF TlsOps
  <2>2. tls.obj[id].sock \in TlsSocks /\ tlsSock[tls.obj[id].sock] # "none"
    BY <1>2, TlsInvIs
  <2>3. tls.obj[id].sock # 0
    BY <2>2 DEF TlsSocks
  <2>4. TlsAsk(r) /\ UNCHANGED <<tlsIn, tlsSock, tlsKill>>
    BY DEF TlsForward
  <2> QED  BY <1>2, <2>1, <2>2, <2>3, <2>4, TlsCalls
<1>3. \/ tls' = TlsReply(tls, r, "failed") /\ UNCHANGED tlsTasks
      \/ /\ tls.obj[id].kind # "none" /\ TlsAwait(TlsTask(op, r, id, tls.obj[id].sock))
         /\ UNCHANGED tls
  BY DEF TlsForward
<1> QED  BY <1>1, <1>2, <1>3

LEMMA TlsSendStep ==
  ASSUME TlsInv, NEW id \in TlsIds, TlsSend(id)
  PROVE  TlsInv'
<1>1. TlsMidway(TlsFail(tls, id), tlsTasks, tlsIn, tlsSock, tlsKill \cup TlsFailKill(tls, id),
                tlsUsed.req, 0, 0, 0)
  BY TlsAssumption, TlsInvIs, TlsFails
<1> QED  BY <1>1, TlsInvIs DEF TlsSend, TlsInv

LEMMA TlsCloseStep ==
  ASSUME TlsInv, NEW id \in TlsIds, NEW r \in TlsReqs, TlsClose(id, r)
  PROVE  TlsInv'
<1> DEFINE s == tls.obj[id].sock
<1>0. TlsAsk(r) /\ UNCHANGED <<tlsIn, tlsSock, tlsKill>>
  BY DEF TlsClose
<1>1. CASE tls' = TlsReply(tls, r, "failed") /\ UNCHANGED tlsTasks
  BY <1>0, <1>1, TlsRefuses
<1>2. /\ tlsUsed' \in TlsUsage /\ tlsUsed'.req = r
      /\ TlsMidway(tls, tlsTasks, tlsIn, tlsSock, tlsKill, r, r, 0, 0)
  BY <1>0, TlsAsked
<1>3. CASE /\ tls.obj[id].kind = "listener" /\ tls' = TlsRemoveListener(tls, id)
           /\ TlsAwait(TlsTask("close_listener", r, id, s))
  <2> DEFINE t == TlsTask("close_listener", r, id, s)
             v == TlsRemoveListener(tls, id)
  <2>1. s \in TlsSocks /\ tlsSock[s] # "none" /\ "close_listener" \in TlsOps
    BY <1>3, TlsInvIs DEF TlsOps
  <2>2. t \in TlsTaskKind /\ t.op = "close_listener" /\ t.r = r /\ t.id = id /\ t.sock = s
    BY <2>1, TlsTaskIs
  <2>3. TlsMidway(v, tlsTasks, tlsIn, tlsSock, tlsKill, r, r, s, 0)
    BY <1>2, <1>3, TlsRemovesListener
  <2>4. s # 0
    BY <2>1 DEF TlsSocks
  <2> HIDE DEF t, v, s
  <2>5. TlsTaskFits(t, tlsSock) /\ TlsCares(t, s)
    BY <2>1, <2>2, <2>4 DEF TlsTaskFits, TlsCares
  <2>6. TlsMidway(v, tlsTasks \cup {t}, tlsIn, tlsSock, tlsKill, r, 0, 0, 0)
    BY <2>2, <2>3, <2>5, TlsAwaits
  <2>7. tlsTasks' = tlsTasks \cup {t} /\ tls' = v
    BY <1>3 DEF TlsAwait, t, v
  <2> QED  BY <1>0, <1>2, <2>6, <2>7 DEF TlsInv
<1>4. CASE /\ id \in TlsKnown
           /\ tls.obj[id].kind = "conn" /\ ~tls.obj[id].closing
           /\ tls' = [tls EXCEPT !.obj[id].closing = TRUE, !.obj[id].closeReq = r]
           /\ TlsAwait(TlsTask("close", 0, id, s))
  <2> DEFINE t == TlsTask("close", 0, id, s)
             v == TlsClosing(tls, id, r)
  <2>1. s \in TlsSocks /\ tlsSock[s] # "none" /\ "close" \in TlsOps
    BY <1>4, TlsInvIs DEF TlsOps
  <2>2. t \in TlsTaskKind /\ t.op = "close" /\ t.r = 0 /\ t.id = id /\ t.sock = s
    BY <2>1, TlsTaskIs
  <2>3. id \in TlsConns(tls) /\ tls.told[id] # <<>>
    BY <1>4 DEF TlsConns, TlsKnown, TlsListeners
  <2>4. TlsMidway(v, tlsTasks, tlsIn, tlsSock, tlsKill, r, 0, 0, 0)
    BY <1>2, <1>4, <2>3, TlsCloses
  <2>5. s # 0
    BY <2>1 DEF TlsSocks
  <2> HIDE DEF t, v, s
  <2>6. TlsTaskFits(t, tlsSock)
    BY <2>1, <2>2, <2>5 DEF TlsTaskFits
  <2>7. TlsMidway(v, tlsTasks \cup {t}, tlsIn, tlsSock, tlsKill, r, 0, 0, 0)
    BY <2>2, <2>4, <2>6, TlsAwaits
  <2>8. tlsTasks' = tlsTasks \cup {t} /\ tls' = v
    BY <1>4 DEF TlsAwait, TlsClosing, t, v
  <2> QED  BY <1>0, <1>2, <2>7, <2>8 DEF TlsInv
<1> QED  BY <1>1, <1>3, <1>4 DEF TlsClose

LEMMA TlsCloseFailsStep ==
  ASSUME TlsInv, NEW id \in TlsIds, NEW r \in TlsReqs, TlsCloseFails(id, r)
  PROVE  TlsInv'
<1> DEFINE v == TlsClosing(tls, id, r)
<1>1. /\ TlsAsk(r) /\ id \in TlsConns(tls) /\ tls.told[id] # <<>> /\ ~tls.obj[id].closing
      /\ tls' = TlsFail(v, id) /\ tlsKill' = tlsKill \cup TlsFailKill(tls, id)
      /\ UNCHANGED <<tlsTasks, tlsIn, tlsSock>>
  BY DEF TlsCloseFails, TlsClosing, TlsKnown, TlsConns, TlsListeners
<1>2. /\ tlsUsed' \in TlsUsage /\ tlsUsed'.req = r
      /\ TlsMidway(tls, tlsTasks, tlsIn, tlsSock, tlsKill, r, r, 0, 0)
  BY <1>1, TlsAsked
<1>3. /\ TlsMidway(v, tlsTasks, tlsIn, tlsSock, tlsKill, r, 0, 0, 0)
      /\ TlsFailKill(v, id) = TlsFailKill(tls, id)
  BY <1>1, <1>2, TlsCloses
<1> HIDE DEF v
<1>4. TlsMidway(TlsFail(v, id), tlsTasks, tlsIn, tlsSock, tlsKill \cup TlsFailKill(v, id), r, 0, 0, 0)
  BY <1>3, TlsAssumption, TlsFails
<1> QED  BY <1>1, <1>2, <1>3, <1>4 DEF TlsInv

LEMMA TlsShutdownStep ==
  ASSUME TlsInv, NEW id \in TlsIds, TlsShutdown(id)
  PROVE  TlsInv'
<1> DEFINE more == {tls.obj[id].sock}
<1>1. /\ id \in TlsConns(tls) /\ tls.obj[id].announced
      /\ tls' = [TlsEmit(TlsRemove(tls, id), id, "close")
                    EXCEPT !.lost = @ \cup ({tls.obj[id].closeReq} \ {0})]
      /\ tlsKill' = tlsKill \cup more /\ UNCHANGED <<tlsTasks, tlsIn, tlsSock, tlsUsed>>
  BY DEF TlsShutdown
<1>2. TlsEndedAs(tls, tls', id, "close") /\ TlsFreed(tls, tls', id)
  BY <1>1, TlsInvIs, TlsShutdownIs
<1>3. /\ "close" \in TlsEnds /\ more \in SUBSET {tls.obj[id].sock}
      /\ more = {} => tlsSock[tls.obj[id].sock] # "up"
  BY DEF TlsEnds
<1> HIDE DEF more
<1>4. TlsMidway(tls', tlsTasks, tlsIn, tlsSock, tlsKill \cup more, tlsUsed.req, 0, 0, 0)
  BY <1>1, <1>2, <1>3, TlsAssumption, TlsInvIs, TlsEndsConn
<1> QED  BY <1>1, <1>4, TlsInvIs DEF TlsInv

(* A borrow while another is held: only the flag of the panic changes.     *)
LEMMA TlsPanics ==
  ASSUME NEW w, NEW tasks, NEW in, NEW sock, NEW kill, NEW used,
         TlsMidway(w, tasks, in, sock, kill, used, 0, 0, 0)
  PROVE  TlsMidway([w EXCEPT !.panic = TRUE], tasks, in, sock, kill, used, 0, 0, 0)
<1> DEFINE v == [w EXCEPT !.panic = TRUE]
<1>1. w \in TlsState
  BY TlsMidwayIs
<1>2. /\ v \in TlsState /\ v.obj = w.obj /\ v.told = w.told /\ v.next = w.next
      /\ v.handshakes = w.handshakes /\ v.lost = w.lost /\ v.ans = w.ans /\ v.timers = w.timers
  BY <1>1 DEF TlsState
<1> HIDE DEF v
<1>3. \A i \in TlsShaking(w) : i # 0 => i \in v.timers \/ (i \notin w.timers /\ i # 0)
  BY <1>2
<1>4. TlsMidway(v, tasks, in, sock, kill, used, 0, 0, 0)
  BY <1>2, <1>3, TlsTimersChange
<1> QED  BY <1>4 DEF v

LEMMA TlsShutdownListenerStep ==
  ASSUME TlsInv, NEW id \in TlsIds, TlsShutdownListener(id)
  PROVE  TlsInv'
<1>1. TlsMidway([tls EXCEPT !.panic = TRUE], tlsTasks, tlsIn, tlsSock, tlsKill, tlsUsed.req, 0, 0, 0)
  BY TlsInvIs, TlsPanics
<1> QED  BY <1>1, TlsInvIs DEF TlsShutdownListener, TlsInv

(* The state with another set of timers.                                   *)
TlsWithTimers(w, ts) == [w EXCEPT !.timers = ts]
LEMMA TlsRetimed ==
  ASSUME NEW w, NEW tasks, NEW in, NEW sock, NEW kill, NEW used, NEW c, NEW d,
         TlsMidway(w, tasks, in, sock, kill, used, 0, 0, c), NEW ts \in SUBSET TlsIds,
         \A i \in TlsShaking(w) : i # d => i \in ts \/ (i \notin w.timers /\ i # c)
  PROVE  /\ TlsMidway(TlsWithTimers(w, ts), tasks, in, sock, kill, used, 0, 0, d)
         /\ TlsWithTimers(w, ts).obj = w.obj
<1> DEFINE v == TlsWithTimers(w, ts)
<1>1. w \in TlsState
  BY TlsMidwayIs
<1>2. /\ v \in TlsState /\ v.obj = w.obj /\ v.told = w.told /\ v.next = w.next
      /\ v.handshakes = w.handshakes /\ v.lost = w.lost /\ v.ans = w.ans /\ v.timers = ts
  BY <1>1 DEF TlsState, TlsWithTimers
<1> HIDE DEF v
<1>3. \A i \in TlsShaking(w) : i # d => i \in v.timers \/ (i \notin w.timers /\ i # c)
  BY <1>2
<1>4. TlsMidway(v, tasks, in, sock, kill, used, 0, 0, d)
  BY <1>2, <1>3, TlsTimersChange
<1> QED  BY <1>2, <1>4 DEF v

LEMMA TlsHandshakeTimeoutStep ==
  ASSUME TlsInv, NEW id \in TlsIds, TlsHandshakeTimeout(id)
  PROVE  TlsInv'
<1> DEFINE ts == tls.timers \ {id}
           w == TlsWithTimers(tls, ts)
           late == id \in TlsConns(tls) /\ ~tls.obj[id].announced
<1>0. ts \in SUBSET TlsIds
  BY TlsInvIs DEF TlsState
<1>1. /\ tls' = IF late THEN TlsFail(w, id) ELSE w
      /\ tlsKill' = tlsKill \cup IF late THEN TlsFailKill(tls, id) ELSE {}
      /\ UNCHANGED <<tlsTasks, tlsIn, tlsSock, tlsUsed>>
  BY DEF TlsHandshakeTimeout, TlsWithTimers
<1>2. CASE late
  <2>1. \A i \in TlsShaking(tls) : i # id => i \in ts \/ (i \notin tls.timers /\ i # 0)
    BY DEF TlsShaking, TlsConns, TlsIds
  <2> HIDE DEF ts
  <2>2. TlsMidway(w, tlsTasks, tlsIn, tlsSock, tlsKill, tlsUsed.req, 0, 0, id) /\ w.obj = tls.obj
    BY <1>0, <2>1, TlsInvIs, TlsRetimed
  <2> HIDE DEF w
  <2>3. TlsMidway(TlsFail(w, id), tlsTasks, tlsIn, tlsSock, tlsKill \cup TlsFailKill(w, id),
                  tlsUsed.req, 0, 0, 0)
    BY <2>2, TlsAssumption, TlsFails
  <2>4. TlsFailKill(w, id) = TlsFailKill(tls, id)
    BY <2>2 DEF TlsFailKill, TlsConns
  <2> QED  BY <1>1, <1>2, <2>3, <2>4, TlsInvIs DEF TlsInv
<1>3. CASE ~late
  <2>1. \A i \in TlsShaking(tls) : i # 0 => i \in ts \/ (i \notin tls.timers /\ i # 0)
    BY <1>3 DEF TlsShaking
  <2> HIDE DEF ts
  <2>2. TlsMidway(w, tlsTasks, tlsIn, tlsSock, tlsKill, tlsUsed.req, 0, 0, 0)
    BY <1>0, <2>1, TlsInvIs, TlsRetimed
  <2>3. tls' = w /\ tlsKill' = tlsKill
    BY <1>1, <1>3
  <2> QED  BY <1>1, <2>2, <2>3, TlsInvIs DEF TlsInv
<1> QED  BY <1>2, <1>3

(***************************************************************************)
(* The answers of the socket service.                                      *)
(***************************************************************************)
LEMMA TlsAnswerIs ==
  ASSUME TlsInv, TlsTake("ans")
  PROVE  LET m == Head(tlsIn)
         IN  /\ tlsIn # <<>> /\ m.k = "ans" /\ m.task \in TlsTaskKind /\ m.ok \in BOOLEAN
             /\ m.sock \in TlsSocks \cup {0} /\ m.task.op \in TlsOps
             /\ m.task.r \in TlsReqs \cup {0} /\ m.task.id \in TlsIds \cup {0}
             /\ m.task.sock \in TlsSocks \cup {0} /\ TlsMessageFits(m, tlsSock)
<1> DEFINE m == Head(tlsIn)
<1>1. tlsIn # <<>> /\ m.k = "ans"
  BY DEF TlsTake
<1>2. m \in TlsMessage /\ TlsMessageFits(m, tlsSock)
  BY <1>1, TlsInvIs, TlsHeadFits
<1> HIDE DEF m
<1>3. m \in TlsAnswerKind
  BY <1>1, <1>2 DEF TlsMessage
<1>4. m.task \in TlsTaskKind /\ m.ok \in BOOLEAN /\ m.sock \in TlsSocks \cup {0}
  BY <1>3 DEF TlsAnswerKind
<1>5. /\ m.task.op \in TlsOps /\ m.task.r \in TlsReqs \cup {0} /\ m.task.id \in TlsIds \cup {0}
      /\ m.task.sock \in TlsSocks \cup {0}
  BY <1>4 DEF TlsTaskKind
<1> QED  BY <1>1, <1>2, <1>4, <1>5 DEF m

(* A handler goes on with the request of its task, and with the socket and *)
(* the connection that its task was answerable for.                        *)
LEMMA TlsResumed ==
  ASSUME TlsInv, NEW op, TlsResume(op), NEW h, NEW c,
         h = IF op \in {"connect", "listen"} THEN Head(tlsIn).sock
             ELSE IF op = "connect_info" THEN Head(tlsIn).task.sock ELSE 0,
         c = IF op = "accept" THEN Head(tlsIn).task.id ELSE 0
  PROVE  /\ TlsMidway(tls, tlsTasks, tlsIn', tlsSock, tlsKill, tlsUsed.req, Head(tlsIn).task.r, h, c)
         /\ UNCHANGED <<tlsSock, tlsUsed>> /\ Head(tlsIn).task.op = op
         /\ TlsMessageFits(Head(tlsIn), tlsSock) /\ Head(tlsIn).k = "ans"
<1> DEFINE m == Head(tlsIn)
           q == m.task.r
<1>1. TlsTake("ans") /\ m.task.op = op /\ tlsIn' = Tail(tlsIn) /\ UNCHANGED <<tlsSock, tlsUsed>>
  BY DEF TlsResume
<1>2. /\ tlsIn # <<>> /\ m.k = "ans" /\ m.sock \in TlsSocks \cup {0}
      /\ TlsMessageFits(m, tlsSock)
  BY <1>1, TlsAnswerIs
<1>3. \A r \in TlsReqs : (m.k = "ans" /\ m.task.r = r) <=> r = q
  BY <1>2
<1>4. \A s \in TlsSocks : tlsSock[s] = "up" /\ TlsHands(m, s) => s = h
  <2> SUFFICES ASSUME NEW s \in TlsSocks, tlsSock[s] = "up", m.sock = s \/ TlsCares(m.task, s)
               PROVE  s = h
    BY <1>2 DEF TlsHands
  <2>0. s # 0
    BY DEF TlsSocks
  <2>1. CASE m.sock = s
    <3>1. op \in {"connect", "listen"}
      BY <1>1, <1>2, <2>0, <2>1 DEF TlsMessageFits
    <3> QED  BY <2>1, <3>1
  <2>2. CASE TlsCares(m.task, s)
    <3>1. op # "close_listener"
      BY <1>1, <1>2, <2>2 DEF TlsMessageFits, TlsCares
    <3> QED  BY <1>1, <2>2, <3>1 DEF TlsCares
  <2> QED  BY <2>1, <2>2
<1>5. \A i \in TlsIds : m.k = "ans" /\ TlsArms(m.task, i) => i = c
  BY <1>1 DEF TlsArms
<1>6. TlsMidway(tls, tlsTasks, Tail(tlsIn), tlsSock, tlsKill, tlsUsed.req, q, h, c)
  <2>1. TlsMidway(tls, tlsTasks, tlsIn, tlsSock, tlsKill, tlsUsed.req, 0, 0, 0)
    BY TlsInvIs
  <2> QED  BY <1>2, <1>3, <1>4, <1>5, <2>1, TlsTakes
<1> QED  BY <1>1, <1>2, <1>6

(* The end of a handler.                                                   *)
LEMMA TlsDone ==
  ASSUME TlsInv, UNCHANGED tlsUsed,
         TlsMidway(tls', tlsTasks', tlsIn', tlsSock', tlsKill', tlsUsed.req, 0, 0, 0)
  PROVE  TlsInv'
  BY TlsInvIs DEF TlsInv

LEMMA TlsConnectedStep ==
  ASSUME TlsInv, TlsConnected
  PROVE  TlsInv'
<1> DEFINE m == Head(tlsIn)
           q == m.task.r
           h == m.sock
           v == TlsReply(tls, q, "failed")
<1>0. TlsResume("connect") /\ TlsTake("ans")
  BY DEF TlsConnected, TlsResume
<1>1. /\ m.ok \in BOOLEAN /\ q \in TlsReqs \cup {0} /\ h \in TlsSocks \cup {0} /\ "failed" \in TlsReplies
  BY <1>0, TlsAnswerIs DEF TlsReplies
<1>2. /\ TlsMidway(tls, tlsTasks, tlsIn', tlsSock, tlsKill, tlsUsed.req, q, h, 0)
      /\ UNCHANGED <<tlsSock, tlsUsed>> /\ m.task.op = "connect"
      /\ TlsMessageFits(m, tlsSock) /\ m.k = "ans"
  BY <1>0, TlsResumed
<1>3. (h # 0 <=> m.ok) /\ (h # 0 => tlsSock[h] # "none")
  BY <1>1, <1>2 DEF TlsMessageFits
<1>4. \/ ~m.ok /\ tls' = v /\ UNCHANGED <<tlsTasks, tlsKill>>
      \/ m.ok /\ tls' = v /\ tlsKill' = tlsKill \cup {h} /\ UNCHANGED tlsTasks
      \/ /\ m.ok /\ tlsTasks' = tlsTasks \cup {TlsTask("connect_info", q, 0, h)}
         /\ UNCHANGED <<tls, tlsKill>>
  BY DEF TlsConnected, TlsAwait
<1>5. TlsMidway(v, tlsTasks, tlsIn', tlsSock, tlsKill, tlsUsed.req, 0, h, 0)
  <2> HIDE DEF q, h
  <2> QED  BY <1>1, <1>2, TlsRepliesHand
<1> HIDE DEF v, q, h, m
<1>6. CASE ~m.ok /\ tls' = v /\ UNCHANGED <<tlsTasks, tlsKill>>
  <2>1. h = 0
    BY <1>3, <1>6
  <2> QED  BY <1>2, <1>5, <1>6, <2>1, TlsDone
<1>7. CASE m.ok /\ tls' = v /\ tlsKill' = tlsKill \cup {h} /\ UNCHANGED tlsTasks
  <2>1. h \in TlsSocks /\ tlsSock[h] # "none"
    BY <1>1, <1>3, <1>7
  <2>2. TlsMidway(v, tlsTasks, tlsIn', tlsSock, tlsKill \cup {h}, tlsUsed.req, 0, 0, 0)
    BY <1>5, <2>1, TlsKills
  <2> QED  BY <1>2, <1>7, <2>2, TlsDone
<1>8. CASE /\ m.ok /\ tlsTasks' = tlsTasks \cup {TlsTask("connect_info", q, 0, h)}
           /\ UNCHANGED <<tls, tlsKill>>
  <2> DEFINE t == TlsTask("connect_info", q, 0, h)
  <2>1. h \in TlsSocks /\ tlsSock[h] # "none" /\ h # 0
    BY <1>1, <1>3, <1>8
  <2>2. "connect_info" \in TlsOps
    BY DEF TlsOps
  <2>3. t \in TlsTaskKind /\ t.op = "connect_info" /\ t.r = q /\ t.id = 0 /\ t.sock = h
    BY <1>1, <2>2, TlsTaskIs
  <2> HIDE DEF t
  <2>4. TlsTaskFits(t, tlsSock) /\ TlsCares(t, h)
    BY <2>1, <2>3 DEF TlsTaskFits, TlsCares
  <2>5. TlsMidway(tls, tlsTasks \cup {t}, tlsIn', tlsSock, tlsKill, tlsUsed.req, 0, 0, 0)
    BY <1>2, <2>3, <2>4, TlsAwaits
  <2> QED  BY <1>2, <1>8, <2>5, TlsDone DEF t
<1> QED  BY <1>4, <1>6, <1>7, <1>8

LEMMA TlsConnectInfoStep ==
  ASSUME TlsInv, TlsConnectInfo
  PROVE  TlsInv'
<1> DEFINE m == Head(tlsIn)
           q == m.task.r
           h == m.task.sock
           id == tls.next
           w == TlsInsert(tls, h, FALSE, q)
           ts == w.timers \cup {id}
<1>0. TlsResume("connect_info") /\ TlsTake("ans") /\ id \in TlsIds /\ UNCHANGED tlsTasks
  BY DEF TlsConnectInfo, TlsResume
<1>1. q \in TlsReqs \cup {0} /\ h \in TlsSocks \cup {0}
  BY <1>0, TlsAnswerIs
<1>2. /\ TlsMidway(tls, tlsTasks, tlsIn', tlsSock, tlsKill, tlsUsed.req, q, h, 0)
      /\ UNCHANGED <<tlsSock, tlsUsed>> /\ m.task.op = "connect_info"
      /\ TlsMessageFits(m, tlsSock) /\ m.k = "ans"
  BY <1>0, TlsResumed
<1>3. h \in TlsSocks /\ tlsSock[h] # "none"
  BY <1>1, <1>2 DEF TlsMessageFits, TlsTaskFits
<1>4. \/ tls' = TlsWithTimers(w, ts) /\ UNCHANGED tlsKill
      \/ tls' = TlsFail(w, id) /\ tlsKill' = tlsKill \cup TlsFailKill(w, id)
  BY DEF TlsConnectInfo, TlsWithTimers
<1>5. /\ TlsMidway(w, tlsTasks, tlsIn', tlsSock, tlsKill, tlsUsed.req, 0, 0, id)
      /\ w.timers = tls.timers
  <2> DEFINE server == FALSE
  <2>1. server \in BOOLEAN /\ w = TlsInsert(tls, h, server, q)
    OBVIOUS
  <2> HIDE DEF q, h, server, w
  <2>2. /\ TlsMidway(TlsInsert(tls, h, server, q), tlsTasks, tlsIn', tlsSock, tlsKill, tlsUsed.req,
                     0, 0, tls.next)
        /\ TlsInsert(tls, h, server, q).timers = tls.timers
    BY <1>0, <1>1, <1>2, <1>3, <2>1, TlsAssumption, TlsInserts
  <2> QED  BY <2>1, <2>2
<1>6. ts \in SUBSET TlsIds
  BY <1>0, <1>5, TlsInvIs DEF TlsState
<1> HIDE DEF w, id
<1>7. CASE tls' = TlsWithTimers(w, ts) /\ UNCHANGED tlsKill
  <2>1. \A i \in TlsShaking(w) : i # 0 => i \in ts \/ (i \notin w.timers /\ i # id)
    OBVIOUS
  <2> HIDE DEF ts
  <2>2. TlsMidway(TlsWithTimers(w, ts), tlsTasks, tlsIn', tlsSock, tlsKill, tlsUsed.req, 0, 0, 0)
    BY <1>5, <1>6, <2>1, TlsRetimed
  <2> QED  BY <1>0, <1>2, <1>7, <2>2, TlsDone
<1>8. CASE tls' = TlsFail(w, id) /\ tlsKill' = tlsKill \cup TlsFailKill(w, id)
  <2>1. TlsMidway(TlsFail(w, id), tlsTasks, tlsIn', tlsSock, tlsKill \cup TlsFailKill(w, id),
                  tlsUsed.req, 0, 0, 0)
    BY <1>5, TlsAssumption, TlsFails
  <2> QED  BY <1>0, <1>2, <1>8, <2>1, TlsDone
<1> QED  BY <1>4, <1>7, <1>8

LEMMA TlsListeningStep ==
  ASSUME TlsInv, TlsListening
  PROVE  TlsInv'
<1> DEFINE m == Head(tlsIn)
           q == m.task.r
           h == m.sock
           w == [tls EXCEPT !.obj[tls.next] = [kind |-> "listener", sock |-> h], !.next = @ + 1]
<1>0. TlsResume("listen") /\ TlsTake("ans") /\ tls.next \in TlsIds /\ UNCHANGED <<tlsTasks, tlsKill>>
  BY DEF TlsListening, TlsResume
<1>1. /\ m.ok \in BOOLEAN /\ q \in TlsReqs \cup {0} /\ h \in TlsSocks \cup {0}
      /\ "failed" \in TlsReplies /\ "id" \in TlsReplies
  BY <1>0, TlsAnswerIs DEF TlsReplies
<1>2. /\ TlsMidway(tls, tlsTasks, tlsIn', tlsSock, tlsKill, tlsUsed.req, q, h, 0)
      /\ UNCHANGED <<tlsSock, tlsUsed>> /\ m.task.op = "listen"
      /\ TlsMessageFits(m, tlsSock) /\ m.k = "ans"
  BY <1>0, TlsResumed
<1>3. (h # 0 <=> m.ok) /\ (h # 0 => tlsSock[h] # "none")
  BY <1>1, <1>2 DEF TlsMessageFits
<1>4. tls' = IF ~m.ok THEN TlsReply(tls, q, "failed") ELSE TlsReply(w, q, "id")
  BY DEF TlsListening
<1> HIDE DEF m, q, h
<1>5. CASE ~m.ok
  <2>1. h = 0
    BY <1>3, <1>5
  <2>2. TlsMidway(TlsReply(tls, q, "failed"), tlsTasks, tlsIn', tlsSock, tlsKill, tlsUsed.req, 0, h, 0)
    BY <1>1, <1>2, TlsRepliesHand
  <2> QED  BY <1>0, <1>2, <1>4, <1>5, <2>1, <2>2, TlsDone
<1>6. CASE m.ok
  <2>1. h \in TlsSocks /\ tlsSock[h] # "none"
    BY <1>1, <1>3, <1>6
  <2>2. TlsMidway(w, tlsTasks, tlsIn', tlsSock, tlsKill, tlsUsed.req, q, 0, 0)
    BY <1>0, <1>2, <2>1, TlsListens
  <2> HIDE DEF w
  <2>3. TlsMidway(TlsReply(w, q, "id"), tlsTasks, tlsIn', tlsSock, tlsKill, tlsUsed.req, 0, 0, 0)
    BY <1>1, <2>2, TlsRepliesHand
  <2> QED  BY <1>0, <1>2, <1>4, <1>6, <2>3, TlsDone
<1> QED  BY <1>1, <1>5, <1>6

LEMMA TlsForwardedStep ==
  ASSUME TlsInv, TlsForwarded
  PROVE  TlsInv'
<1> DEFINE m == Head(tlsIn)
           q == m.task.r
           x == IF m.ok THEN "done" ELSE "failed"
<1>0. PICK op \in {"start", "pause", "close_listener"} : TlsResume(op)
  BY DEF TlsForwarded
<1>1. /\ TlsTake("ans") /\ tls' = TlsReply(tls, q, x) /\ UNCHANGED <<tlsTasks, tlsKill>>
      /\ x \in TlsReplies
  BY DEF TlsForwarded, TlsResume, TlsReplies
<1>2. q \in TlsReqs \cup {0}
  BY <1>1, TlsAnswerIs
<1>3. /\ TlsMidway(tls, tlsTasks, tlsIn', tlsSock, tlsKill, tlsUsed.req, q, 0, 0)
      /\ UNCHANGED <<tlsSock, tlsUsed>>
  BY <1>0, TlsResumed
<1> HIDE DEF q, x
<1>4. TlsMidway(TlsReply(tls, q, x), tlsTasks, tlsIn', tlsSock, tlsKill, tlsUsed.req, 0, 0, 0)
  BY <1>1, <1>2, <1>3, TlsRepliesHand
<1> QED  BY <1>1, <1>3, <1>4, TlsDone

LEMMA TlsSentStep ==
  ASSUME TlsInv, TlsSent
  PROVE  TlsInv'
<1> DEFINE m == Head(tlsIn)
           q == m.task.r
           id == m.task.id
           x == IF m.ok THEN "done" ELSE "failed"
<1>0. PICK op \in {"send", "close"} : TlsResume(op)
  BY DEF TlsSent
<1>1. /\ TlsTake("ans") /\ tls' = TlsReply(IF m.ok THEN tls ELSE TlsFail(tls, id), q, x)
      /\ tlsKill' = tlsKill \cup IF m.ok THEN {} ELSE TlsFailKill(tls, id)
      /\ UNCHANGED tlsTasks /\ x \in TlsReplies
  BY DEF TlsSent, TlsResume, TlsReplies
<1>2. q \in TlsReqs \cup {0}
  BY <1>1, TlsAnswerIs
<1>3. /\ TlsMidway(tls, tlsTasks, tlsIn', tlsSock, tlsKill, tlsUsed.req, q, 0, 0)
      /\ UNCHANGED <<tlsSock, tlsUsed>>
  BY <1>0, TlsResumed
<1> HIDE DEF q, x, id
<1>4. CASE m.ok
  <2>1. TlsMidway(TlsReply(tls, q, x), tlsTasks, tlsIn', tlsSock, tlsKill, tlsUsed.req, 0, 0, 0)
    BY <1>1, <1>2, <1>3, TlsRepliesHand
  <2>2. tls' = TlsReply(tls, q, x) /\ tlsKill' = tlsKill
    BY <1>1, <1>4
  <2> QED  BY <1>1, <1>3, <2>1, <2>2, TlsDone
<1>5. CASE ~m.ok
  <2> DEFINE w == TlsFail(tls, id)
             kill == tlsKill \cup TlsFailKill(tls, id)
  <2>1. TlsMidway(w, tlsTasks, tlsIn', tlsSock, kill, tlsUsed.req, q, 0, 0)
    BY <1>3, TlsAssumption, TlsFails
  <2>2. tls' = TlsReply(w, q, x) /\ tlsKill' = kill
    BY <1>1, <1>5
  <2> HIDE DEF w, kill
  <2>3. TlsMidway(TlsReply(w, q, x), tlsTasks, tlsIn', tlsSock, kill, tlsUsed.req, 0, 0, 0)
    BY <1>1, <1>2, <2>1, TlsRepliesHand
  <2> QED  BY <1>1, <1>3, <2>2, <2>3, TlsDone
<1> QED  BY <1>4, <1>5

LEMMA TlsStartedStep ==
  ASSUME TlsInv, TlsStarted
  PROVE  TlsInv'
<1> DEFINE m == Head(tlsIn)
           id == m.task.id
           ts == tls.timers \cup {id}
<1>0. /\ TlsResume("accept") /\ TlsTake("ans") /\ UNCHANGED tlsTasks
      /\ tls' = IF m.ok THEN TlsWithTimers(tls, ts) ELSE TlsFail(tls, id)
      /\ tlsKill' = tlsKill \cup IF m.ok THEN {} ELSE TlsFailKill(tls, id)
  BY DEF TlsStarted, TlsResume, TlsWithTimers
<1>1. id \in TlsIds \cup {0}
  BY <1>0, TlsAnswerIs
<1>2. /\ TlsMidway(tls, tlsTasks, tlsIn', tlsSock, tlsKill, tlsUsed.req, m.task.r, 0, id)
      /\ UNCHANGED <<tlsSock, tlsUsed>> /\ m.task.op = "accept"
      /\ TlsMessageFits(m, tlsSock) /\ m.k = "ans"
  BY <1>0, TlsResumed
<1>3. m.task.r = 0 /\ id # 0
  BY <1>2 DEF TlsMessageFits, TlsTaskFits
<1>4. TlsMidway(tls, tlsTasks, tlsIn', tlsSock, tlsKill, tlsUsed.req, 0, 0, id) /\ id \in TlsIds
  BY <1>1, <1>2, <1>3
<1>5. ts \in SUBSET TlsIds
  BY <1>4, TlsInvIs DEF TlsState
<1> HIDE DEF id
<1>6. CASE m.ok
  <2>1. \A i \in TlsShaking(tls) : i # 0 => i \in ts \/ (i \notin tls.timers /\ i # id)
    OBVIOUS
  <2> HIDE DEF ts
  <2>2. TlsMidway(TlsWithTimers(tls, ts), tlsTasks, tlsIn', tlsSock, tlsKill, tlsUsed.req, 0, 0, 0)
    BY <1>4, <1>5, <2>1, TlsRetimed
  <2>3. tls' = TlsWithTimers(tls, ts) /\ tlsKill' = tlsKill
    BY <1>0, <1>6
  <2> QED  BY <1>0, <1>2, <2>2, <2>3, TlsDone
<1>7. CASE ~m.ok
  <2>1. TlsMidway(TlsFail(tls, id), tlsTasks, tlsIn', tlsSock, tlsKill \cup TlsFailKill(tls, id),
                  tlsUsed.req, 0, 0, 0)
    BY <1>4, TlsAssumption, TlsFails
  <2> QED  BY <1>0, <1>2, <1>7, <2>1, TlsDone
<1> QED  BY <1>6, <1>7

(***************************************************************************)
(* The events of sockets.                                                  *)
(***************************************************************************)
LEMMA TlsEventIs ==
  ASSUME TlsInv, NEW k \in {"accept", "data", "closed"}, TlsTake(k), tlsIn' = Tail(tlsIn)
  PROVE  LET m == Head(tlsIn)
             h == IF k = "accept" THEN m.sock ELSE 0
         IN  /\ m.k = k /\ m.sock \in TlsSocks /\ (k = "closed" => m.bad \in BOOLEAN)
             /\ k # "closed" => tlsSock[m.sock] # "none"
             /\ k = "closed" => tlsSock[m.sock] = "gone"
             /\ TlsMidway(tls, tlsTasks, tlsIn', tlsSock, tlsKill, tlsUsed.req, 0, h, 0)
<1> DEFINE m == Head(tlsIn)
           h == IF k = "accept" THEN m.sock ELSE 0
<1>1. tlsIn # <<>> /\ m.k = k /\ m.k # "ans"
  BY DEF TlsTake
<1>2. m \in TlsMessage /\ TlsMessageFits(m, tlsSock)
  BY <1>1, TlsInvIs, TlsHeadFits
<1>3. m.sock \in TlsSocks /\ (k = "closed" => m.bad \in BOOLEAN)
  <2> HIDE DEF m
  <2> QED  BY <1>1, <1>2 DEF TlsMessage, TlsAnswerKind
<1>4. /\ k # "closed" => tlsSock[m.sock] # "none"
      /\ k = "closed" => tlsSock[m.sock] = "gone"
  BY <1>1, <1>2 DEF TlsMessageFits
<1>5. \A r \in TlsReqs : (m.k = "ans" /\ m.task.r = r) <=> r = 0
  BY <1>1 DEF TlsReqs
<1>6. \A s \in TlsSocks : tlsSock[s] = "up" /\ TlsHands(m, s) => s = h
  BY <1>1 DEF TlsHands
<1>7. \A i \in TlsIds : m.k = "ans" /\ TlsArms(m.task, i) => i = 0
  BY <1>1
<1>8. TlsMidway(tls, tlsTasks, Tail(tlsIn), tlsSock, tlsKill, tlsUsed.req, 0, h, 0)
  <2>1. TlsMidway(tls, tlsTasks, tlsIn, tlsSock, tlsKill, tlsUsed.req, 0, 0, 0)
    BY TlsInvIs
  <2> HIDE DEF h
  <2> QED  BY <1>1, <1>5, <1>6, <1>7, <2>1, TlsTakes
<1> QED  BY <1>1, <1>3, <1>4, <1>8

LEMMA TlsAcceptStep ==
  ASSUME TlsInv, TlsAccept
  PROVE  TlsInv'
<1> DEFINE s == Head(tlsIn).sock
           server == TRUE
           q == 0
           w == TlsInsert(tls, s, server, q)
           id == tls.next
           t == TlsTask("accept", 0, id, s)
<1>0. TlsTake("accept") /\ tlsIn' = Tail(tlsIn) /\ UNCHANGED <<tlsSock, tlsUsed>>
  BY DEF TlsAccept
<1>1. /\ s \in TlsSocks /\ tlsSock[s] # "none"
      /\ TlsMidway(tls, tlsTasks, tlsIn', tlsSock, tlsKill, tlsUsed.req, 0, s, 0)
  BY <1>0, TlsEventIs
<1>2. s # 0 /\ server \in BOOLEAN /\ q = 0 /\ q \in TlsReqs \cup {0} /\ "accept" \in TlsOps
  BY <1>1 DEF TlsSocks, TlsOps
<1>3. \/ tlsKill' = tlsKill \cup {s} /\ UNCHANGED <<tls, tlsTasks>>
      \/ /\ id \in TlsIds /\ tls' = w /\ tlsTasks' = tlsTasks \cup {t} /\ UNCHANGED tlsKill
  BY DEF TlsAccept, TlsAwait
<1> HIDE DEF s, server, q
<1>4. CASE tlsKill' = tlsKill \cup {s} /\ UNCHANGED <<tls, tlsTasks>>
  <2>1. TlsMidway(tls, tlsTasks, tlsIn', tlsSock, tlsKill \cup {s}, tlsUsed.req, 0, 0, 0)
    BY <1>1, TlsKills
  <2> QED  BY <1>0, <1>4, <2>1, TlsDone
<1>5. CASE id \in TlsIds /\ tls' = w /\ tlsTasks' = tlsTasks \cup {t} /\ UNCHANGED tlsKill
  <2>1. TlsMidway(w, tlsTasks, tlsIn', tlsSock, tlsKill, tlsUsed.req, 0, 0, id)
    <3>1. TlsMidway(tls, tlsTasks, tlsIn', tlsSock, tlsKill, tlsUsed.req, q, s, 0)
      BY <1>1, <1>2
    <3> QED  BY <1>1, <1>2, <1>5, <3>1, TlsAssumption, TlsInserts
  <2>2. t \in TlsTaskKind /\ t.op = "accept" /\ t.r = 0 /\ t.id = id /\ t.sock = s
    BY <1>1, <1>2, <1>5, TlsTaskIs
  <2>3. id # 0
    BY <1>5 DEF TlsIds
  <2> HIDE DEF w, id, t
  <2>4. TlsTaskFits(t, tlsSock) /\ TlsArms(t, id)
    BY <1>1, <1>2, <2>2, <2>3 DEF TlsTaskFits, TlsArms
  <2>5. TlsMidway(w, tlsTasks \cup {t}, tlsIn', tlsSock, tlsKill, tlsUsed.req, 0, 0, 0)
    BY <2>1, <2>2, <2>4, TlsAwaits
  <2> QED  BY <1>0, <1>5, <2>5, TlsDone
<1> QED  BY <1>3, <1>4, <1>5

LEMMA TlsReceiveNothingStep ==
  ASSUME TlsInv, TlsReceiveNothing
  PROVE  TlsInv'
<1>1. TlsTake("data") /\ tlsIn' = Tail(tlsIn) /\ UNCHANGED <<tls, tlsTasks, tlsSock, tlsKill, tlsUsed>>
  BY DEF TlsReceiveNothing
<1>2. TlsMidway(tls, tlsTasks, tlsIn', tlsSock, tlsKill, tlsUsed.req, 0, 0, 0)
  BY <1>1, TlsEventIs
<1> QED  BY <1>1, <1>2, TlsDone

LEMMA TlsReceiveStep ==
  ASSUME TlsInv, NEW effect \in {"more", "done", "plain", "notify", "bad"}, TlsReceive(effect)
  PROVE  TlsInv'
<1> DEFINE s == Head(tlsIn).sock
           id == TlsOf(tls, "conn", s)
           a == tls.obj[id].hs /\ effect # "done"
           b == tls.obj[id].notify \/ effect = "notify"
           heard == TlsHearing(tls, id, a, b)
           w == TlsAnnounce(heard, id)
<1>0. /\ TlsTake("data") /\ tlsIn' = Tail(tlsIn) /\ id # 0 /\ effect \in TlsEffects(tls.obj[id])
      /\ UNCHANGED <<tlsTasks, tlsSock, tlsUsed>>
  BY DEF TlsReceive
<1>1. /\ s \in TlsSocks /\ tlsSock[s] # "none"
      /\ TlsMidway(tls, tlsTasks, tlsIn', tlsSock, tlsKill, tlsUsed.req, 0, 0, 0)
  BY <1>0, TlsEventIs
<1>2. id \in TlsIds /\ id \in TlsConns(tls) /\ tls.obj[id].sock = s
  BY <1>0, TlsAssumption, TlsOfIs DEF TlsConns
<1>3. CASE effect = "bad"
  <2>1. tls' = TlsFail(tls, id) /\ tlsKill' = tlsKill \cup TlsFailKill(tls, id)
    BY <1>3 DEF TlsReceive
  <2>2. TlsMidway(TlsFail(tls, id), tlsTasks, tlsIn', tlsSock, tlsKill \cup TlsFailKill(tls, id),
                  tlsUsed.req, 0, 0, 0)
    BY <1>1, TlsAssumption, TlsFails
  <2> QED  BY <1>0, <2>1, <2>2, TlsDone
<1>4. CASE effect # "bad"
  <2>1. /\ tls' = IF effect = "plain" THEN TlsEmit(w, id, "data") ELSE w
        /\ tlsKill' = tlsKill \cup IF w.obj[id].notify THEN {w.obj[id].sock} ELSE {}
    BY <1>4 DEF TlsReceive, TlsHearing
  <2>2. a \in BOOLEAN /\ b \in BOOLEAN /\ (effect = "plain" => ~a)
    BY <1>0 DEF TlsEffects
  <2> HIDE DEF a, b, id, s
  <2>3. /\ TlsMidway(heard, tlsTasks, tlsIn', tlsSock, tlsKill, tlsUsed.req, 0, 0, 0)
        /\ id \in TlsConns(heard) /\ heard.obj[id].hs = a /\ heard.obj[id].sock = s
    BY <1>1, <1>2, <2>2, TlsHears
  <2> HIDE DEF heard
  <2>4. /\ TlsMidway(w, tlsTasks, tlsIn', tlsSock, tlsKill, tlsUsed.req, 0, 0, 0)
        /\ id \in TlsConns(w) /\ w.obj[id].sock = s /\ (~a => w.obj[id].announced)
    BY <2>3, TlsAssumption, TlsAnnounces
  <2> HIDE DEF w
  <2>5. TlsMidway(tls', tlsTasks, tlsIn', tlsSock, tlsKill, tlsUsed.req, 0, 0, 0)
    <3>1. CASE effect = "plain"
      <4>1. TlsMidway(TlsEmit(w, id, "data"), tlsTasks, tlsIn', tlsSock, tlsKill, tlsUsed.req, 0, 0, 0)
        BY <2>2, <2>4, <3>1, TlsTells
      <4> QED  BY <2>1, <3>1, <4>1
    <3>2. CASE effect # "plain"
      BY <2>1, <2>4, <3>2
    <3> QED  BY <3>1, <3>2
  <2>6. TlsMidway(tls', tlsTasks, tlsIn', tlsSock, tlsKill \cup {s}, tlsUsed.req, 0, 0, 0)
    BY <1>1, <2>5, TlsKills
  <2>7. tlsKill' = tlsKill \/ tlsKill' = tlsKill \cup {s}
    BY <2>1, <2>4
  <2> QED  BY <1>0, <2>5, <2>6, <2>7, TlsDone
<1> QED  BY <1>3, <1>4

LEMMA TlsSocketClosedStep ==
  ASSUME TlsInv, TlsSocketClosed
  PROVE  TlsInv'
<1> DEFINE m == Head(tlsIn)
           s == m.sock
           id == TlsOf(tls, "conn", s)
           x == IF m.bad THEN "failed" ELSE "done"
           e == IF m.bad \/ ~(tls.obj[id].notify \/ tls.obj[id].closing) THEN "error" ELSE "close"
           v == TlsClosedState(tls, id, x, e)
<1>0. /\ TlsTake("closed") /\ tlsIn' = Tail(tlsIn) /\ UNCHANGED <<tlsTasks, tlsSock, tlsKill, tlsUsed>>
  BY DEF TlsSocketClosed
<1>1. /\ s \in TlsSocks /\ tlsSock[s] = "gone"
      /\ TlsMidway(tls, tlsTasks, tlsIn', tlsSock, tlsKill, tlsUsed.req, 0, 0, 0)
  BY <1>0, TlsEventIs
<1>2. tls' = [tls EXCEPT !.panic = TRUE] \/ tls' = tls \/ (id # 0 /\ tls' = v)
  BY DEF TlsSocketClosed, TlsClosedState
<1>3. CASE tls' = [tls EXCEPT !.panic = TRUE]
  <2>1. TlsMidway([tls EXCEPT !.panic = TRUE], tlsTasks, tlsIn', tlsSock, tlsKill, tlsUsed.req, 0, 0, 0)
    BY <1>1, TlsPanics
  <2> QED  BY <1>0, <1>3, <2>1, TlsDone
<1>4. CASE tls' = tls
  BY <1>0, <1>1, <1>4, TlsDone
<1>5. CASE id # 0 /\ tls' = v
  <2> DEFINE more == {}
  <2>1. id \in TlsConns(tls) /\ tls.obj[id].sock = s
    BY <1>5, TlsAssumption, TlsOfIs DEF TlsConns
  <2>2. /\ x \in TlsReplies /\ e \in TlsEnds /\ more \in SUBSET {tls.obj[id].sock}
        /\ tlsKill \cup more = tlsKill
    BY DEF TlsReplies, TlsEnds
  <2> HIDE DEF x, e, more, id, s
  <2>3. TlsEndedAs(tls, v, id, e) /\ TlsFreed(tls, v, id)
    BY <2>1, <2>2, TlsInvIs, TlsClosedIs
  <2>4. more = {} => tlsSock[tls.obj[id].sock] # "up"
    BY <1>1, <2>1
  <2> HIDE DEF v
  <2>5. TlsMidway(v, tlsTasks, tlsIn', tlsSock, tlsKill \cup more, tlsUsed.req, 0, 0, 0)
    BY <1>1, <2>1, <2>2, <2>3, <2>4, TlsAssumption, TlsEndsConn
  <2> QED  BY <1>0, <1>5, <2>2, <2>5, TlsDone
<1> QED  BY <1>2, <1>3, <1>4, <1>5

(***************************************************************************)
(* The socket service.                                                     *)
(***************************************************************************)
LEMMA TlsFirstIs ==
  ASSUME TlsFresh # {}
  PROVE  TlsFirst \in TlsFresh
<1>1. TlsFresh \subseteq Nat
  BY DEF TlsFresh, TlsSocks
<1>2. PICK x \in TlsFresh : \A y \in TlsFresh : ~(<<y, x>> \in OpToRel(<, Nat))
  BY <1>1, WFMin, NatLessThanWellFounded
<1>3. \A y \in TlsFresh : x <= y
  <2> SUFFICES ASSUME NEW y \in TlsFresh
               PROVE  x <= y
    OBVIOUS
  <2>1. ~(y < x)
    BY <1>1, <1>2 DEF OpToRel
  <2> QED  BY <1>1, <2>1
<1> QED  BY <1>3 DEF TlsFirst

(* The first fresh socket comes up and is in hand.                         *)
LEMMA TlsOpens ==
  ASSUME NEW w, NEW tasks, NEW in, NEW kill, NEW used, NEW q, NEW c,
         TlsMidway(w, tasks, in, tlsSock, kill, used, q, 0, c), TlsFresh # {},
         NEW new \in [TlsSocks -> {"none", "up", "gone"}],
         \A x \in TlsSocks : new[x] = IF x = TlsFirst THEN "up" ELSE tlsSock[x]
  PROVE  /\ TlsMidway(w, tasks, in, new, kill, used, q, TlsFirst, c)
         /\ TlsFirst \in TlsSocks /\ new[TlsFirst] = "up"
         /\ \A s \in TlsSocks : tlsSock[s] # "none" => new[s] = tlsSock[s]
<1>1. TlsFirst \in TlsSocks /\ tlsSock[TlsFirst] = "none"
  BY TlsFirstIs DEF TlsFresh
<1>2. /\ tlsSock \in [TlsSocks -> {"none", "up", "gone"}] /\ kill \in SUBSET TlsSocks
      /\ \A s \in kill : tlsSock[s] # "none"
  BY DEF TlsMidway, TlsTyped, TlsFits
<1>4. /\ \A s \in TlsSocks : tlsSock[s] # "none" => new[s] # "none"
      /\ \A s \in TlsSocks : tlsSock[s] = "gone" => new[s] = "gone"
      /\ \A s \in TlsSocks : new[s] = "up" /\ s # TlsFirst => tlsSock[s] = "up" /\ s # 0
      /\ \A s \in kill : s \in kill \/ new[s] = "gone"
      /\ kill \in SUBSET kill
  BY <1>1, <1>2 DEF TlsSocks
<1>5. TlsMidway(w, tasks, in, new, kill, used, q, TlsFirst, c)
  BY <1>4, TlsSocket
<1> QED  BY <1>1, <1>5

(* A socket ends.                                                          *)
LEMMA TlsGoes ==
  ASSUME NEW w, NEW tasks, NEW in, NEW sock, NEW kill, NEW used, NEW q, NEW h, NEW c, NEW g,
         TlsMidway(w, tasks, in, sock, kill, used, q, h, c), NEW s \in TlsSocks, sock[s] # "none",
         g = h \/ h = s, NEW left \in SUBSET kill, kill \ {s} \subseteq left,
         NEW new \in [TlsSocks -> {"none", "up", "gone"}],
         \A x \in TlsSocks : new[x] = IF x = s THEN "gone" ELSE sock[x]
  PROVE  /\ TlsMidway(w, tasks, in, new, left, used, q, g, c) /\ new[s] = "gone"
         /\ \A x \in TlsSocks : x # s => new[x] = sock[x]
<1>1. kill \in SUBSET TlsSocks
  BY DEF TlsMidway, TlsTyped
<1>3. /\ \A x \in TlsSocks : sock[x] # "none" => new[x] # "none"
      /\ \A x \in TlsSocks : sock[x] = "gone" => new[x] = "gone"
      /\ \A x \in TlsSocks : new[x] = "up" /\ x # g => sock[x] = "up" /\ x # h
      /\ \A x \in kill : x \in left \/ new[x] = "gone"
  BY <1>1
<1>4. TlsMidway(w, tasks, in, new, left, used, q, g, c)
  BY <1>3, TlsSocket
<1> QED  BY <1>4

LEMMA TlsClosedMessage ==
  ASSUME NEW s \in TlsSocks, NEW bad \in BOOLEAN
  PROVE  LET m == [k |-> "closed", sock |-> s, bad |-> bad]
         IN  m \in TlsMessage /\ m.k = "closed" /\ m.sock = s
  BY DEF TlsMessage

(* The end of a socket is told.                                            *)
LEMMA TlsEndTold ==
  ASSUME NEW w, NEW tasks, NEW in, NEW sock, NEW kill, NEW used, NEW q, NEW h, NEW c,
         TlsMidway(w, tasks, in, sock, kill, used, q, h, c), NEW s \in TlsSocks, sock[s] = "gone",
         NEW bad \in BOOLEAN
  PROVE  TlsMidway(w, tasks, Append(in, [k |-> "closed", sock |-> s, bad |-> bad]), sock, kill,
                   used, q, h, c)
<1> DEFINE m == [k |-> "closed", sock |-> s, bad |-> bad]
<1>1. m \in TlsMessage /\ m.k = "closed" /\ m.sock = s
  BY TlsClosedMessage
<1> HIDE DEF m
<1>2. TlsMessageFits(m, sock) /\ m.k # "ans"
  BY <1>1 DEF TlsMessageFits
<1>3. TlsMidway(w, tasks, Append(in, m), sock, kill, used, q, h, c)
  BY <1>1, <1>2, TlsAppends
<1> QED  BY <1>3 DEF m

LEMMA TlsNetShutdownStep ==
  ASSUME TlsInv, NEW s \in TlsSocks, TlsNetShutdown(s)
  PROVE  TlsInv'
<1> DEFINE left == tlsKill \ {s}
           new == [tlsSock EXCEPT ![s] = "gone"]
<1>1. /\ tlsKill' = left /\ tlsSock' = new /\ UNCHANGED <<tls, tlsTasks, tlsUsed>> /\ s \in tlsKill
      /\ \/ tlsIn' = tlsIn
         \/ tlsIn' = Append(tlsIn, [k |-> "closed", sock |-> s, bad |-> FALSE])
  BY DEF TlsNetShutdown
<1>2. tlsSock[s] # "none" /\ left \in SUBSET tlsKill /\ tlsKill \ {s} \subseteq left /\ FALSE \in BOOLEAN
  BY <1>1, TlsInvIs DEF TlsMidway, TlsFits
<1>a. /\ tlsSock' \in [TlsSocks -> {"none", "up", "gone"}]
      /\ \A x \in TlsSocks : tlsSock'[x] = IF x = s THEN "gone" ELSE tlsSock[x]
  BY <1>1, TlsInvIs DEF TlsTyped
<1> HIDE DEF left, new
<1>3. TlsMidway(tls, tlsTasks, tlsIn, tlsSock', left, tlsUsed.req, 0, 0, 0) /\ tlsSock'[s] = "gone"
  BY <1>2, <1>a, TlsInvIs, TlsGoes
<1>4. TlsMidway(tls, tlsTasks, Append(tlsIn, [k |-> "closed", sock |-> s, bad |-> FALSE]), tlsSock',
                left, tlsUsed.req, 0, 0, 0)
  BY <1>2, <1>3, TlsEndTold
<1> QED  BY <1>1, <1>3, <1>4, TlsDone

LEMMA TlsNetEventStep ==
  ASSUME TlsInv, NEW s \in TlsSocks, NEW what \in {"data", "close", "error"}, TlsNetEvent(s, what)
  PROVE  TlsInv'
<1> DEFINE bad == (what = "error")
<1>1. /\ tlsSock[s] = "up" /\ UNCHANGED <<tls, tlsTasks, tlsKill>>
      /\ tlsUsed' = [tlsUsed EXCEPT !.data = IF what = "data" THEN @ + 1 ELSE @]
      /\ tlsSock' = IF what = "data" THEN tlsSock ELSE [tlsSock EXCEPT ![s] = "gone"]
      /\ tlsIn' = Append(tlsIn, IF what = "data" THEN [k |-> "data", sock |-> s]
                                ELSE [k |-> "closed", sock |-> s, bad |-> bad])
  BY DEF TlsNetEvent
<1>2. tlsUsed' \in TlsUsage /\ tlsUsed'.req = tlsUsed.req
  BY <1>1, TlsInvIs DEF TlsUsage
<1>3. CASE what = "data"
  <2> DEFINE m == [k |-> "data", sock |-> s]
  <2>1. m \in TlsMessage /\ m.k = "data" /\ m.sock = s
    BY DEF TlsMessage
  <2>2. tlsIn' = Append(tlsIn, m) /\ tlsSock' = tlsSock
    BY <1>1, <1>3
  <2> HIDE DEF m
  <2>3. TlsMessageFits(m, tlsSock) /\ m.k # "ans"
    BY <1>1, <2>1 DEF TlsMessageFits
  <2>4. TlsMidway(tls, tlsTasks, Append(tlsIn, m), tlsSock, tlsKill, tlsUsed.req, 0, 0, 0)
    BY <2>1, <2>3, TlsInvIs, TlsAppends
  <2> QED  BY <1>1, <1>2, <2>2, <2>4 DEF TlsInv
<1>4. CASE what # "data"
  <2>1. /\ tlsSock' = [tlsSock EXCEPT ![s] = "gone"] /\ tlsSock[s] # "none" /\ bad \in BOOLEAN
        /\ tlsIn' = Append(tlsIn, [k |-> "closed", sock |-> s, bad |-> bad])
        /\ tlsKill \in SUBSET tlsKill /\ tlsKill \ {s} \subseteq tlsKill
    BY <1>1, <1>4
  <2>a. /\ tlsSock' \in [TlsSocks -> {"none", "up", "gone"}]
        /\ \A x \in TlsSocks : tlsSock'[x] = IF x = s THEN "gone" ELSE tlsSock[x]
    BY <2>1, TlsInvIs DEF TlsTyped
  <2>b. tlsSock[s] # "none" /\ tlsKill \in SUBSET tlsKill /\ tlsKill \ {s} \subseteq tlsKill
    BY <2>1
  <2> HIDE DEF bad
  <2>2. TlsMidway(tls, tlsTasks, tlsIn, tlsSock', tlsKill, tlsUsed.req, 0, 0, 0) /\ tlsSock'[s] = "gone"
    BY <2>a, <2>b, TlsInvIs, TlsGoes
  <2>3. TlsMidway(tls, tlsTasks, tlsIn', tlsSock', tlsKill, tlsUsed.req, 0, 0, 0)
    BY <2>1, <2>2, TlsEndTold
  <2> QED  BY <1>1, <1>2, <2>3 DEF TlsInv
<1> QED  BY <1>3, <1>4

LEMMA TlsNetListenerFailsStep ==
  ASSUME TlsInv, NEW id \in TlsIds, TlsNetListenerFails(id)
  PROVE  TlsInv'
<1> DEFINE s == tls.obj[id].sock
           bad == TRUE
<1>1. /\ tls.obj[id].kind = "listener" /\ UNCHANGED <<tls, tlsTasks, tlsKill, tlsUsed>>
      /\ tlsSock' = [tlsSock EXCEPT ![s] = "gone"]
      /\ tlsIn' = Append(tlsIn, [k |-> "closed", sock |-> s, bad |-> bad])
  BY DEF TlsNetListenerFails, TlsListeners
<1>2. /\ s \in TlsSocks /\ tlsSock[s] # "none" /\ bad \in BOOLEAN
      /\ tlsKill \in SUBSET tlsKill /\ tlsKill \ {s} \subseteq tlsKill
  BY <1>1, TlsInvIs
<1>a. /\ tlsSock' \in [TlsSocks -> {"none", "up", "gone"}]
      /\ \A x \in TlsSocks : tlsSock'[x] = IF x = s THEN "gone" ELSE tlsSock[x]
  BY <1>1, <1>2, TlsInvIs DEF TlsTyped
<1> HIDE DEF s, bad
<1>3. TlsMidway(tls, tlsTasks, tlsIn, tlsSock', tlsKill, tlsUsed.req, 0, 0, 0) /\ tlsSock'[s] = "gone"
  BY <1>2, <1>a, TlsInvIs, TlsGoes
<1>4. TlsMidway(tls, tlsTasks, tlsIn', tlsSock', tlsKill, tlsUsed.req, 0, 0, 0)
  BY <1>1, <1>2, <1>3, TlsEndTold
<1> QED  BY <1>1, <1>4, TlsDone

LEMMA TlsNetAcceptStep ==
  ASSUME TlsInv, NEW id \in TlsIds, TlsNetAccept(id)
  PROVE  TlsInv'
<1> DEFINE m == [k |-> "accept", sock |-> TlsFirst, listen |-> tls.obj[id].sock]
<1>1. /\ tls.obj[id].kind = "listener" /\ UNCHANGED <<tls, tlsTasks, tlsKill, tlsUsed>>
      /\ TlsFresh # {} /\ tlsSock' = [tlsSock EXCEPT ![TlsFirst] = "up"]
      /\ tlsIn' = Append(tlsIn, m)
  BY DEF TlsNetAccept, TlsListeners
<1>a. /\ tlsSock' \in [TlsSocks -> {"none", "up", "gone"}]
      /\ \A x \in TlsSocks : tlsSock'[x] = IF x = TlsFirst THEN "up" ELSE tlsSock[x]
  <2>1. TlsFirst \in TlsSocks
    BY <1>1, TlsFirstIs DEF TlsFresh
  <2> QED  BY <1>1, <2>1, TlsInvIs DEF TlsTyped
<1>2. /\ TlsMidway(tls, tlsTasks, tlsIn, tlsSock', tlsKill, tlsUsed.req, 0, TlsFirst, 0)
      /\ TlsFirst \in TlsSocks /\ tlsSock'[TlsFirst] = "up"
  <2>1. TlsFresh # {}
    BY <1>1
  <2> QED  BY <1>a, <2>1, TlsInvIs, TlsOpens
<1>3. tls.obj[id].sock \in TlsSocks
  BY <1>1, TlsInvIs
<1>4. m \in TlsMessage /\ m.k = "accept" /\ m.sock = TlsFirst
  BY <1>2, <1>3 DEF TlsMessage
<1> HIDE DEF m
<1>5. TlsMessageFits(m, tlsSock') /\ TlsHands(m, TlsFirst) /\ m.k # "ans"
  BY <1>2, <1>4 DEF TlsMessageFits, TlsHands
<1>6. TlsMidway(tls, tlsTasks, Append(tlsIn, m), tlsSock', tlsKill, tlsUsed.req, 0, 0, 0)
  BY <1>2, <1>4, <1>5, TlsAppends
<1> QED  BY <1>1, <1>6, TlsDone

(* An answer has what its task had in hand.                                *)
LEMMA TlsAnswers ==
  ASSUME NEW w, NEW tasks, NEW in, NEW sock, NEW kill, NEW used, NEW h, NEW c,
         NEW t \in TlsTaskKind, NEW ok \in BOOLEAN, NEW s \in TlsSocks \cup {0},
         TlsMidway(w, tasks, in, sock, kill, used, t.r, h, c), TlsTaskFits(t, sock),
         s # 0 <=> (ok /\ t.op \in {"connect", "listen"}), s # 0 => sock[s] # "none",
         t.op = "close_listener" => sock[t.sock] = "gone",
         h = 0 \/ s = h \/ TlsCares(t, h), c = 0 \/ TlsArms(t, c)
  PROVE  TlsMidway(w, tasks, Append(in, [k |-> "ans", task |-> t, ok |-> ok, sock |-> s]), sock,
                   kill, used, 0, 0, 0)
<1> DEFINE m == [k |-> "ans", task |-> t, ok |-> ok, sock |-> s]
<1>1. m \in TlsMessage /\ m.k = "ans" /\ m.task = t /\ m.ok = ok /\ m.sock = s
  BY DEF TlsMessage, TlsAnswerKind
<1> HIDE DEF m
<1>2. TlsMessageFits(m, sock)
  BY <1>1 DEF TlsMessageFits
<1>3. (0 = h \/ TlsHands(m, h)) /\ (0 = c \/ (m.k = "ans" /\ TlsArms(m.task, c)))
  BY <1>1 DEF TlsHands
<1>4. TlsMidway(w, tasks, Append(in, m), sock, kill, used, 0, 0, 0)
  <2> DEFINE q == t.r
             p == 0
  <2>1. IF m.k = "ans" THEN m.task.r = q /\ p = 0 ELSE p = q
    BY <1>1
  <2>2. TlsMidway(w, tasks, in, sock, kill, used, q, h, c)
    OBVIOUS
  <2> HIDE DEF q, p
  <2>3. TlsMidway(w, tasks, Append(in, m), sock, kill, used, p, 0, 0)
    BY <1>1, <1>2, <1>3, <2>1, <2>2, TlsAppends
  <2> QED  BY <2>3 DEF p
<1> QED  BY <1>4 DEF m

LEMMA TlsOneMore ==
  ASSUME NEW in \in Seq(TlsMessage), NEW e \in TlsMessage, NEW a \in TlsMessage
  PROVE  in \o <<>> \o <<a>> = Append(in, a) /\ in \o <<e>> \o <<a>> = Append(Append(in, e), a)
<1>1. in \o <<>> = in /\ in \o <<a>> = Append(in, a) /\ in \o <<e>> = Append(in, e)
  OBVIOUS
<1>2. Append(in, e) \in Seq(TlsMessage)
  OBVIOUS
<1>3. Append(in, e) \o <<a>> = Append(Append(in, e), a)
  BY <1>2
<1> QED  BY <1>1, <1>3

LEMMA TlsAnswerMessage ==
  ASSUME NEW t \in TlsTaskKind, NEW ok \in BOOLEAN, NEW s \in TlsSocks \cup {0}
  PROVE  [k |-> "ans", task |-> t, ok |-> ok, sock |-> s] \in TlsMessage
  BY DEF TlsMessage, TlsAnswerKind

LEMMA TlsNetAnswerStep ==
  ASSUME TlsInv, NEW t \in tlsTasks, NEW ok \in BOOLEAN, TlsNetAnswer(t, ok)
  PROVE  TlsInv'
<1> DEFINE opens == t.op \in {"connect", "listen"} /\ ok
           ends == t.op \in {"close", "close_listener"} /\ ok /\ tlsSock[t.sock] = "up"
           end == [k |-> "closed", sock |-> t.sock, bad |-> FALSE]
           s == IF opens THEN TlsFirst ELSE 0
           a == [k |-> "ans", task |-> t, ok |-> ok, sock |-> s]
           new == [x \in TlsSocks |-> IF opens /\ x = TlsFirst THEN "up"
                                      ELSE IF ends /\ x = t.sock THEN "gone" ELSE tlsSock[x]]
           tasks == tlsTasks \ {t}
           h == IF t.op = "connect_info" \/ (t.op = "close_listener" /\ tlsSock[t.sock] = "up")
                THEN t.sock ELSE 0
           c == IF t.op = "accept" THEN t.id ELSE 0
<1>0. /\ t.op \in {"close", "close_listener"} /\ tlsSock[t.sock] = "up" => ok
      /\ opens => TlsFresh # {}
      /\ tlsTasks' = tasks /\ tlsSock' = new /\ UNCHANGED <<tls, tlsKill, tlsUsed>>
      /\ tlsIn' = tlsIn \o (IF ends THEN <<end>> ELSE <<>>) \o <<a>>
  BY DEF TlsNetAnswer
<1>1. /\ t \in TlsTaskKind /\ tlsIn \in Seq(TlsMessage)
      /\ tlsSock \in [TlsSocks -> {"none", "up", "gone"}]
  BY TlsInvIs DEF TlsTyped
<1>2. t.op \in TlsOps /\ t.sock \in TlsSocks \cup {0} /\ t.r \in TlsReqs \cup {0}
  BY <1>1 DEF TlsTaskKind
<1>3. /\ TlsMidway(tls, tasks, tlsIn, tlsSock, tlsKill, tlsUsed.req, t.r, h, c)
      /\ TlsTaskFits(t, tlsSock)
  <2>1. \A x \in TlsSocks : tlsSock[x] = "up" /\ TlsCares(t, x) => x = h
    BY DEF TlsCares
  <2>2. \A i \in TlsIds : TlsArms(t, i) => i = c
    BY DEF TlsArms
  <2> HIDE DEF h, c
  <2> QED  BY <2>1, <2>2, TlsInvIs, TlsDrops
<1>4. t.op \notin {"connect", "listen"} => t.sock \in TlsSocks /\ tlsSock[t.sock] # "none" /\ t.sock # 0
  BY <1>2, <1>3 DEF TlsTaskFits
<1>5. (h = 0 \/ TlsCares(t, h)) /\ (c = 0 \/ TlsArms(t, c))
  BY DEF TlsCares, TlsArms
<1>6. CASE opens
  <2>1. ~ends /\ h = 0
    BY <1>6
  <2>a. /\ new \in [TlsSocks -> {"none", "up", "gone"}] /\ TlsFresh # {}
        /\ \A x \in TlsSocks : new[x] = IF x = TlsFirst THEN "up" ELSE tlsSock[x]
    BY <1>0, <1>1, <1>6, <2>1
  <2>2. /\ TlsMidway(tls, tasks, tlsIn, new, tlsKill, tlsUsed.req, t.r, TlsFirst, c)
        /\ TlsFirst \in TlsSocks /\ new[TlsFirst] = "up"
    <3>1. TlsMidway(tls, tasks, tlsIn, tlsSock, tlsKill, tlsUsed.req, t.r, 0, c)
      BY <1>3, <2>1
    <3> HIDE DEF new, c, tasks
    <3> QED  BY <2>a, <3>1, TlsOpens
  <2>3. /\ s = TlsFirst /\ s \in TlsSocks \cup {0} /\ s # 0
    BY <1>6, <2>2 DEF TlsSocks
  <2>4. tlsIn' = Append(tlsIn, a)
    <3>1. tlsIn' = tlsIn \o <<>> \o <<a>>
      BY <1>0, <2>1
    <3>2. a \in TlsMessage
      <4> HIDE DEF s
      <4> QED  BY <1>1, <2>3, TlsAnswerMessage
    <3> HIDE DEF a
    <3> QED  BY <1>1, <3>1, <3>2, TlsOneMore
  <2>5. TlsTaskFits(t, new) /\ t.op # "close_listener"
    BY <1>6 DEF TlsTaskFits
  <2>6. TlsMidway(tls, tasks, Append(tlsIn, a), new, tlsKill, tlsUsed.req, 0, 0, 0)
    <3>1. s # 0 <=> (ok /\ t.op \in {"connect", "listen"})
      BY <1>6, <2>3
    <3>2. TlsMidway(tls, tasks, tlsIn, new, tlsKill, tlsUsed.req, t.r, s, c) /\ new[s] # "none"
      BY <2>2, <2>3
    <3> HIDE DEF new, c, tasks, s
    <3> QED  BY <1>1, <1>5, <2>3, <2>5, <3>1, <3>2, TlsAnswers
  <2> QED  BY <1>0, <2>4, <2>6, TlsDone
<1>7. CASE ends
  <2>a. /\ new \in [TlsSocks -> {"none", "up", "gone"}]
        /\ \A x \in TlsSocks : new[x] = IF x = t.sock THEN "gone" ELSE tlsSock[x]
    BY <1>1, <1>7
  <2>1. /\ ~opens /\ s = 0 /\ s \in TlsSocks \cup {0}
        /\ t.sock \in TlsSocks /\ tlsSock[t.sock] # "none" /\ (0 = h \/ h = t.sock)
        /\ tlsKill \in SUBSET tlsKill /\ tlsKill \ {t.sock} \subseteq tlsKill /\ c = 0
    BY <1>1, <1>4, <1>7
  <2>2. TlsMidway(tls, tasks, tlsIn, new, tlsKill, tlsUsed.req, t.r, 0, c) /\ new[t.sock] = "gone"
    <3> HIDE DEF new, h, c, tasks
    <3> DEFINE u == t.sock
               q == t.r
    <3>1. /\ \A x \in TlsSocks : new[x] = IF x = u THEN "gone" ELSE tlsSock[x]
          /\ u \in TlsSocks /\ tlsSock[u] # "none" /\ (0 = h \/ h = u)
          /\ tlsKill \in SUBSET tlsKill /\ tlsKill \ {u} \subseteq tlsKill
          /\ TlsMidway(tls, tasks, tlsIn, tlsSock, tlsKill, tlsUsed.req, q, h, c)
      BY <1>3, <2>a, <2>1
    <3> HIDE DEF u, q
    <3>2. TlsMidway(tls, tasks, tlsIn, new, tlsKill, tlsUsed.req, q, 0, c) /\ new[u] = "gone"
      BY <2>a, <3>1, TlsGoes
    <3> QED  BY <3>2 DEF u, q
  <2>3. TlsMidway(tls, tasks, Append(tlsIn, end), new, tlsKill, tlsUsed.req, t.r, 0, c)
    <3> DEFINE bad == FALSE
    <3>1. bad \in BOOLEAN /\ end = [k |-> "closed", sock |-> t.sock, bad |-> bad]
      OBVIOUS
    <3> HIDE DEF bad, new, c, tasks, end
    <3>2. TlsMidway(tls, tasks, Append(tlsIn, [k |-> "closed", sock |-> t.sock, bad |-> bad]), new,
                    tlsKill, tlsUsed.req, t.r, 0, c)
      <4> DEFINE u == t.sock
                 q == t.r
      <4>1. /\ TlsMidway(tls, tasks, tlsIn, new, tlsKill, tlsUsed.req, q, 0, c)
            /\ u \in TlsSocks /\ new[u] = "gone"
        BY <2>1, <2>2
      <4> HIDE DEF u, q
      <4>2. TlsMidway(tls, tasks, Append(tlsIn, [k |-> "closed", sock |-> u, bad |-> bad]), new,
                      tlsKill, tlsUsed.req, q, 0, c)
        BY <3>1, <4>1, TlsEndTold
      <4> QED  BY <4>2 DEF u, q
    <3> QED  BY <3>1, <3>2
  <2>4. tlsIn' = Append(Append(tlsIn, end), a)
    <3>1. tlsIn' = tlsIn \o <<end>> \o <<a>>
      BY <1>0, <1>7
    <3>2. a \in TlsMessage /\ end \in TlsMessage
      <4>1. FALSE \in BOOLEAN
        OBVIOUS
      <4> HIDE DEF s
      <4> QED  BY <1>1, <2>1, <4>1, TlsAnswerMessage, TlsClosedMessage
    <3> HIDE DEF a, end
    <3> QED  BY <1>1, <3>1, <3>2, TlsOneMore
  <2>5. TlsTaskFits(t, new)
    BY <1>3, <1>7, <2>2 DEF TlsTaskFits
  <2>6. TlsMidway(tls, tasks, Append(Append(tlsIn, end), a), new, tlsKill, tlsUsed.req, 0, 0, 0)
    <3> DEFINE in == Append(tlsIn, end)
               g == 0
    <3>1. s # 0 <=> (ok /\ t.op \in {"connect", "listen"})
      BY <2>1
    <3>2. TlsMidway(tls, tasks, in, new, tlsKill, tlsUsed.req, t.r, g, c) /\ g = 0
      BY <2>3
    <3> HIDE DEF new, c, tasks, s, in, g
    <3>3. TlsMidway(tls, tasks, Append(in, a), new, tlsKill, tlsUsed.req, 0, 0, 0)
      BY <1>1, <1>5, <2>1, <2>2, <2>5, <3>1, <3>2, TlsAnswers
    <3> QED  BY <3>3 DEF in
  <2> QED  BY <1>0, <2>4, <2>6, TlsDone
<1>8. CASE ~opens /\ ~ends
  <2>1. new = tlsSock /\ s = 0 /\ s \in TlsSocks \cup {0}
    BY <1>1, <1>8
  <2>2. tlsIn' = Append(tlsIn, a)
    <3>1. tlsIn' = tlsIn \o <<>> \o <<a>>
      BY <1>0, <1>8
    <3>2. a \in TlsMessage
      <4> HIDE DEF s
      <4> QED  BY <1>1, <2>1, TlsAnswerMessage
    <3> HIDE DEF a
    <3> QED  BY <1>1, <3>1, <3>2, TlsOneMore
  <2>3. t.op = "close_listener" => tlsSock[t.sock] = "gone"
    <3>1. t.op = "close_listener" => tlsSock[t.sock] # "up"
      BY <1>0, <1>8
    <3> QED  BY <1>1, <1>4, <3>1
  <2>4. TlsMidway(tls, tasks, Append(tlsIn, a), tlsSock, tlsKill, tlsUsed.req, 0, 0, 0)
    <3>1. s # 0 <=> (ok /\ t.op \in {"connect", "listen"})
      BY <1>8, <2>1
    <3> HIDE DEF c, tasks, s, h
    <3> QED  BY <1>1, <1>3, <1>5, <2>1, <2>3, <3>1, TlsAnswers
  <2> QED  BY <1>0, <2>1, <2>2, <2>4, TlsDone
<1> QED  BY <1>6, <1>7, <1>8

(***************************************************************************)
(* The theorems.                                                           *)
(***************************************************************************)
LEMMA TlsStart ==
  ASSUME TlsInit
  PROVE  TlsInv
<1>0. TlsMaxReq \in Nat /\ TlsMaxReq > 0
  BY TlsAssumption
<1>1. tlsUsed \in TlsUsage /\ tlsUsed.req = 0
  BY <1>0 DEF TlsInit, TlsUsage
<1>2. tlsTasks = {} /\ tlsIn = <<>> /\ tlsKill = {} /\ tlsSock = [s \in TlsSocks |-> "none"]
  BY DEF TlsInit
<1>3. TlsTyped(tlsTasks, tlsIn, tlsSock, tlsKill, tlsUsed.req)
  BY <1>1, <1>2 DEF TlsTyped
<1>4. /\ tls.obj = [i \in TlsIds |-> TlsNone] /\ tls.next = 1 /\ tls.handshakes = 0
      /\ tls.ans = [r \in TlsReqs |-> <<>>] /\ tls.told = [i \in TlsIds |-> <<>>]
      /\ tls.timers = {} /\ tls.lost = {}
  BY DEF TlsInit
<1>5. tls \in TlsState
  <2>1. TlsNone \in TlsObject /\ <<>> \in Seq(TlsReplies) /\ <<>> \in Seq(TlsEvents)
    BY DEF TlsObject
  <2> DEFINE o == [i \in TlsIds |-> TlsNone]
             a == [r \in TlsReqs |-> <<>>]
             t == [i \in TlsIds |-> <<>>]
  <2>2. /\ o \in [TlsIds -> TlsObject] /\ a \in [TlsReqs -> Seq(TlsReplies)]
        /\ t \in [TlsIds -> Seq(TlsEvents)]
    BY <2>1
  <2>3. tls = [obj |-> o, next |-> 1, handshakes |-> 0, ans |-> a, told |-> t, timers |-> {},
               lost |-> {}, panic |-> FALSE]
    BY DEF TlsInit
  <2> HIDE DEF o, a, t
  <2> QED  BY <2>2, <2>3 DEF TlsState
<1>6. \A i \in TlsIds : tls.obj[i] = TlsNone /\ tls.told[i] = <<>> /\ TlsNone.kind = "none"
  BY <1>4 DEF TlsNone
<1>7. TlsShaking(tls) = {}
  BY <1>6 DEF TlsShaking, TlsConns
<1>8. TlsWorld(tls)
  <2>1. TlsLives(tls)
    BY <1>6 DEF TlsLives, TlsLife, TlsToldWell
  <2> QED  BY <1>4, <1>5, <1>7, <2>1, FS_EmptySet DEF TlsWorld
<1>9. TlsPlaced(tls, tlsTasks, tlsIn, tlsUsed.req, 0)
  <2> SUFFICES ASSUME NEW r \in TlsReqs
               PROVE  /\ TlsAt(tls, tlsTasks, tlsIn, tlsUsed.req, r, "new")
                      /\ "new" \in TlsStages \cup {"hand"} /\ ("new" = "hand" <=> r = 0)
    BY DEF TlsPlaced
  <2>1. r # 0 /\ 0 < r
    BY DEF TlsReqs
  <2>2. \A f \in TlsHolding : f # "new" /\ \A i \in TlsIds : TlsReqOf(tls.obj[i], f) = 0
    BY <1>6 DEF TlsReqOf, TlsHolding
  <2>3. tls.ans[r] = <<>> /\ r \notin tls.lost
    BY <1>4
  <2>4. TlsWithObjects(tls, r, "new")
    BY <2>1, <2>2, <2>3 DEF TlsWithObjects
  <2>5. TlsWithTasks(tlsTasks, r, "new") /\ TlsWithQueue(tlsIn, r, "new")
    BY <1>2 DEF TlsWithTasks, TlsWithQueue
  <2> QED  BY <1>1, <2>1, <2>4, <2>5 DEF TlsAt, TlsStages
<1>10. TlsFits(tls, tlsTasks, tlsIn, tlsSock, tlsKill)
  BY <1>2, <1>6 DEF TlsFits
<1>11. TlsHeld(tls, tlsTasks, tlsIn, tlsSock, tlsKill, 0)
  BY <1>2 DEF TlsHeld
<1>12. TlsTimers(tls, tlsTasks, tlsIn, 0)
  BY <1>7 DEF TlsTimers
<1> QED  BY <1>1, <1>3, <1>8, <1>9, <1>10, <1>11, <1>12 DEF TlsInv, TlsMidway

LEMMA TlsNextKeeps ==
  ASSUME TlsInv, [TlsNext]_tlsVars
  PROVE  TlsInv'
<1>1. CASE UNCHANGED tlsVars
  BY <1>1 DEF tlsVars, TlsInv
<1>2. CASE TlsUser
  BY <1>2, TlsConnectStep, TlsListenStep, TlsCloseStep, TlsCloseFailsStep, TlsForwardStep,
     TlsSendStep, TlsShutdownStep, TlsShutdownListenerStep DEF TlsUser
<1>3. CASE TlsServe
  BY <1>3, TlsConnectedStep, TlsConnectInfoStep, TlsListeningStep, TlsForwardedStep, TlsSentStep,
     TlsStartedStep, TlsAcceptStep, TlsReceiveNothingStep, TlsSocketClosedStep, TlsReceiveStep
  DEF TlsServe
<1>4. CASE \E id \in TlsIds : TlsHandshakeTimeout(id)
  BY <1>4, TlsHandshakeTimeoutStep
<1>5. CASE TlsEnv
  BY <1>5, TlsNetAnswerStep, TlsNetShutdownStep, TlsNetEventStep, TlsNetAcceptStep,
     TlsNetListenerFailsStep DEF TlsEnv
<1> QED  BY <1>1, <1>2, <1>3, <1>4, <1>5 DEF TlsNext

(* The inductive invariant of the TLS service: in every behaviour, for     *)
(* every value of the limits, each request is at exactly one place, each   *)
(* socket that is up has someone answerable for it, each unfinished        *)
(* handshake a timer or an acceptor, and the owners have heard what they   *)
(* should.                                                                 *)
THEOREM TlsInductive == TlsSpec => []TlsInv
<1>1. TlsInit => TlsInv
  BY TlsStart
<1>2. TlsInv /\ [TlsNext]_tlsVars => TlsInv'
  BY TlsNextKeeps
<1> QED  BY <1>1, <1>2, PTL DEF TlsSpec

LEMMA TlsPlacesCount ==
  ASSUME TlsInv, NEW r \in 1 .. tlsUsed.req
  PROVE  Cardinality(TlsPlaces(r)) + Len(tls.ans[r]) = IF r \in tls.lost THEN 0 ELSE 1
<1> DEFINE T == {u \in tlsTasks \cup TlsAnsTasks : u.r = r}
           C == {j \in TlsConns(tls) : tls.obj[j].connectReq = r}
           D == {j \in TlsConns(tls) : tls.obj[j].closeReq = r}
<1>0. /\ r \in TlsReqs /\ ~(tlsUsed.req < r) /\ r # 0
      /\ TlsPlaced(tls, tlsTasks, tlsIn, tlsUsed.req, 0)
  BY TlsInvIs, TlsAssumption DEF TlsReqs, TlsUsage, TlsMidway
<1>1. PICK st \in TlsStages \cup {"hand"} :
        TlsAt(tls, tlsTasks, tlsIn, tlsUsed.req, r, st) /\ (st = "hand" <=> r = 0)
  BY <1>0 DEF TlsPlaced
<1>2. /\ st \in {"task", "ans", "connectReq", "closeReq", "answered", "lost"}
      /\ TlsWithObjects(tls, r, st) /\ TlsWithTasks(tlsTasks, r, st) /\ TlsWithQueue(tlsIn, r, st)
  BY <1>0, <1>1 DEF TlsAt, TlsStages
<1>3. /\ Len(tls.ans[r]) = IF st = "answered" THEN 1 ELSE 0
      /\ r \in tls.lost <=> st = "lost"
  BY <1>2 DEF TlsWithObjects
<1>4. C = {} \/ (st = "connectReq" /\ \E i : C = {i})
  <2>1. \A i \in C : i \in TlsIds /\ TlsReqOf(tls.obj[i], "connectReq") = r
    BY DEF TlsReqOf, TlsConns
  <2>2. \A i, j \in C : i = j /\ st = "connectReq"
    BY <1>2, <2>1 DEF TlsWithObjects, TlsHolding
  <2> HIDE DEF C
  <2>3. CASE C # {}
    <3>1. PICK i : i \in C
      BY <2>3
    <3>2. C = {i}
      BY <2>2, <3>1
    <3> QED  BY <2>2, <3>1, <3>2
  <2> QED  BY <2>3
<1>5. D = {} \/ (st = "closeReq" /\ \E i : D = {i})
  <2>1. \A i \in D : i \in TlsIds /\ TlsReqOf(tls.obj[i], "closeReq") = r
    BY DEF TlsReqOf, TlsConns
  <2>2. \A i, j \in D : i = j /\ st = "closeReq"
    BY <1>2, <2>1 DEF TlsWithObjects, TlsHolding
  <2> HIDE DEF D
  <2>3. CASE D # {}
    <3>1. PICK i : i \in D
      BY <2>3
    <3>2. D = {i}
      BY <2>2, <3>1
    <3> QED  BY <2>2, <3>1, <3>2
  <2> QED  BY <2>3
<1>6. T = {} \/ (st \in {"task", "ans"} /\ \E t : T = {t})
  <2>1. \A t \in T : \/ st = "task" /\ t \in tlsTasks
                     \/ st = "ans" /\ \E j \in DOMAIN tlsIn : TlsIsAnswer(tlsIn, j, r) /\ t = tlsIn[j].task
    <3> SUFFICES ASSUME NEW t \in T
                 PROVE  \/ st = "task" /\ t \in tlsTasks
                        \/ st = "ans" /\ \E j \in DOMAIN tlsIn : TlsIsAnswer(tlsIn, j, r) /\ t = tlsIn[j].task
      OBVIOUS
    <3>1. CASE t \in tlsTasks
      BY <1>2, <3>1 DEF TlsWithTasks
    <3>2. CASE t \in TlsAnsTasks
      <4>1. PICK j \in DOMAIN tlsIn : tlsIn[j].k = "ans" /\ t = tlsIn[j].task
        BY <3>2 DEF TlsAnsTasks
      <4>2. TlsIsAnswer(tlsIn, j, r)
        BY <4>1 DEF TlsIsAnswer
      <4> QED  BY <1>2, <4>1, <4>2 DEF TlsWithQueue
    <3> QED  BY <3>1, <3>2
  <2>2. \A t, u \in T : t = u
    <3> SUFFICES ASSUME NEW t \in T, NEW u \in T
                 PROVE  t = u
      OBVIOUS
    <3>1. CASE st = "task"
      BY <1>2, <2>1, <3>1 DEF TlsWithTasks
    <3>2. CASE st = "ans"
      BY <1>2, <2>1, <3>2 DEF TlsWithQueue
    <3> QED  BY <2>1, <3>1, <3>2
  <2>3. T # {} => st \in {"task", "ans"}
    BY <2>1
  <2> QED  BY <2>2, <2>3
<1>7. /\ st = "connectReq" => C # {}
      /\ st = "closeReq" => D # {}
      /\ st \in {"task", "ans"} => T # {}
  <2>1. \A i \in TlsIds : \A f \in TlsHolding :
          TlsReqOf(tls.obj[i], f) = r => i \in TlsConns(tls) /\ tls.obj[i][f] = r
    BY <1>0 DEF TlsReqOf, TlsConns
  <2>2. st = "connectReq" => C # {}
    BY <1>2, <2>1 DEF TlsWithObjects, TlsHolding
  <2>3. st = "closeReq" => D # {}
    BY <1>2, <2>1 DEF TlsWithObjects, TlsHolding
  <2>4. st = "task" => T # {}
    BY <1>2 DEF TlsWithTasks
  <2>5. st = "ans" => T # {}
    BY <1>2 DEF TlsWithQueue, TlsIsAnswer, TlsAnsTasks
  <2> QED  BY <2>2, <2>3, <2>4, <2>5
<1>8. TlsPlaces(r) = {<<"task", t>> : t \in T} \cup {<<"connect", i>> : i \in C}
                     \cup {<<"close", i>> : i \in D}
  BY DEF TlsPlaces
<1> HIDE DEF T, C, D
<1>9. CASE st \in {"answered", "lost"}
  <2>1. T = {} /\ C = {} /\ D = {}
    BY <1>4, <1>5, <1>6, <1>9
  <2>2. TlsPlaces(r) = {}
    BY <1>8, <2>1
  <2> QED  BY <1>3, <1>9, <2>2, FS_EmptySet
<1>10. CASE st \notin {"answered", "lost"}
  <2>1. \E p : TlsPlaces(r) = {p}
    <3>1. CASE st \in {"task", "ans"}
      <4>1. C = {} /\ D = {} /\ \E t : T = {t}
        BY <1>4, <1>5, <1>6, <1>7, <3>1
      <4>2. PICK t : T = {t}
        BY <4>1
      <4>3. /\ {<<"task", x>> : x \in T} = {<<"task", t>>}
            /\ {<<"connect", x>> : x \in C} = {} /\ {<<"close", x>> : x \in D} = {}
        BY <4>1, <4>2
      <4> QED  BY <1>8, <4>3
    <3>2. CASE st = "connectReq"
      <4>1. T = {} /\ D = {} /\ \E i : C = {i}
        BY <1>4, <1>5, <1>6, <1>7, <3>2
      <4>2. PICK t : C = {t}
        BY <4>1
      <4>3. /\ {<<"connect", x>> : x \in C} = {<<"connect", t>>}
            /\ {<<"task", x>> : x \in T} = {} /\ {<<"close", x>> : x \in D} = {}
        BY <4>1, <4>2
      <4> QED  BY <1>8, <4>3
    <3>3. CASE st = "closeReq"
      <4>1. T = {} /\ C = {} /\ \E i : D = {i}
        BY <1>4, <1>5, <1>6, <1>7, <3>3
      <4>2. PICK t : D = {t}
        BY <4>1
      <4>3. /\ {<<"close", x>> : x \in D} = {<<"close", t>>}
            /\ {<<"task", x>> : x \in T} = {} /\ {<<"connect", x>> : x \in C} = {}
        BY <4>1, <4>2
      <4> QED  BY <1>8, <4>3
    <3> QED  BY <1>2, <1>10, <3>1, <3>2, <3>3
  <2>2. Cardinality(TlsPlaces(r)) = 1
    BY <2>1, FS_Singleton
  <2> QED  BY <1>3, <1>10, <2>2
<1> QED  BY <1>9, <1>10

LEMMA TlsToldSafe ==
  ASSUME NEW t \in Seq(TlsEvents), NEW live \in BOOLEAN, TlsToldWell(t, live)
  PROVE  LET ends == {i \in DOMAIN t : t[i] \in {"close", "error"}}
         IN  /\ t # <<>> => t[1] = "connected"
             /\ ends \subseteq {Len(t)}
             /\ (t # <<>> /\ ends = {}) <=> live
<1> DEFINE ends == {i \in DOMAIN t : t[i] \in {"close", "error"}}
<1>1. DOMAIN t = 1 .. Len(t) /\ Len(t) \in Nat /\ (t # <<>> => Len(t) \in DOMAIN t)
  OBVIOUS
<1>2. ends \subseteq {Len(t)}
  <2> SUFFICES ASSUME NEW i \in DOMAIN t, t[i] \in {"close", "error"}
               PROVE  i = Len(t)
    OBVIOUS
  <2>1. t # <<>> /\ (i = Len(t) \/ i \in 1 .. Len(t) - 1)
    BY <1>1
  <2> QED  BY <2>1 DEF TlsToldWell, TlsEnds
<1>3. t # <<>> => (ends = {} <=> t[Len(t)] \notin TlsEnds)
  BY <1>1, <1>2 DEF TlsEnds
<1> QED  BY <1>2, <1>3 DEF TlsToldWell

(* TlsInv says what TlsSafe does.                                          *)
LEMMA TlsInvSafe ==
  ASSUME TlsInv
  PROVE  TlsSafe
<1>0. /\ tls \in TlsState /\ TlsWorld(tls)
      /\ TlsMidway(tls, tlsTasks, tlsIn, tlsSock, tlsKill, tlsUsed.req, 0, 0, 0)
  BY TlsInvIs
<1>1. TlsAnswered
  BY TlsPlacesCount DEF TlsAnswered
<1>2. TlsHeard
  <2>1. ASSUME NEW id \in TlsIds
        PROVE  LET t == tls.told[id]
                   ends == {i \in DOMAIN t : t[i] \in {"close", "error"}}
               IN  /\ t # <<>> => t[1] = "connected"
                   /\ ends \subseteq {Len(t)}
                   /\ (t # <<>> /\ ends = {}) <=> (id \in TlsConns(tls) /\ tls.obj[id].announced)
    <3> DEFINE live == (tls.obj[id].kind = "conn" /\ tls.obj[id].announced)
               t == tls.told[id]
    <3>1. t \in Seq(TlsEvents) /\ tls.obj[id] \in TlsObject
      BY <1>0 DEF TlsState
    <3>2. TlsToldWell(t, live)
      BY <1>0 DEF TlsWorld, TlsLives, TlsLife
    <3>3. live <=> (id \in TlsConns(tls) /\ tls.obj[id].announced)
      BY DEF TlsConns
    <3>4. live \in BOOLEAN
      BY <3>1 DEF TlsObject, TlsConn, TlsNone, TlsListener
    <3> HIDE DEF live, t
    <3>5. LET ends == {i \in DOMAIN t : t[i] \in {"close", "error"}}
          IN  /\ t # <<>> => t[1] = "connected"
              /\ ends \subseteq {Len(t)}
              /\ (t # <<>> /\ ends = {}) <=> live
      BY <3>1, <3>2, <3>4, TlsToldSafe
    <3> QED  BY <3>3, <3>5 DEF t
  <2>2. tls.handshakes = Cardinality({i \in TlsConns(tls) : ~tls.obj[i].announced})
    BY <1>0 DEF TlsWorld, TlsShaking
  <2> QED  BY <2>1, <2>2 DEF TlsHeard
<1>3. \A j \in DOMAIN tlsIn : tlsIn[j].k = "ans" => tlsIn[j].task \in TlsAnsTasks
  BY DEF TlsAnsTasks
<1>4. TlsOwned
  <2> SUFFICES ASSUME NEW s \in TlsSocks, tlsSock[s] = "up"
               PROVE  \/ \E i \in TlsIds : tls.obj[i].sock = s
                      \/ s \in tlsKill
                      \/ \E t \in tlsTasks \cup TlsAnsTasks : t.sock = s
                      \/ \E i \in DOMAIN tlsIn : tlsIn[i].k \in {"ans", "accept"} /\ tlsIn[i].sock = s
    BY DEF TlsOwned
  <2>1. TlsHeldBy(tls, tlsTasks, tlsIn, tlsKill, s)
    BY <1>0 DEF TlsMidway, TlsHeld, TlsSocks
  <2> QED  BY <1>3, <2>1 DEF TlsHeldBy, TlsCares, TlsHands
<1>5. TlsTimed
  <2> SUFFICES ASSUME NEW i \in TlsConns(tls), ~tls.obj[i].announced
               PROVE  i \in tls.timers \/ \E t \in tlsTasks \cup TlsAnsTasks : t.op = "accept" /\ t.id = i
    BY DEF TlsTimed
  <2>1. i \in TlsShaking(tls) /\ i # 0
    BY DEF TlsShaking, TlsConns, TlsIds
  <2>2. TlsTimedBy(tls, tlsTasks, tlsIn, i)
    BY <1>0, <2>1 DEF TlsMidway, TlsTimers
  <2> QED  BY <1>3, <2>2 DEF TlsTimedBy, TlsArms
<1> QED  BY <1>1, <1>2, <1>4, <1>5 DEF TlsSafe

(* Every call to the TLS service has its one answer or waits at one place, *)
(* owners hear of a connection first that it is connected and last, once,  *)
(* that it ended, handshakes counts the unfinished ones, no socket that is *)
(* up is leaked and no handshake is untimed (connect, listen, accept,      *)
(* receive_tls, socket_closed, close, shutdown, fail, handshake_timeout).  *)
THEOREM TlsAlways == TlsSpec => []TlsSafe
<1>1. TlsInv => TlsSafe
  BY TlsInvSafe
<1> QED  BY <1>1, TlsInductive, PTL

(***************************************************************************)
(* The HTTP server.  Connections, transports and the handles of requests.  *)
(***************************************************************************)
HsAll == {"get", "post", "expect", "part", "end", "term", "bad"}
HsBusy == {"body", "await100", "provide", "sendbody", "responding", "ws", "lost"}
HsConnKind ==
  [proto : {"recv"} \cup HsBusy, input : Seq(HsAll), chunks : Nat, ended : BOOLEAN, err : BOOLEAN,
   paused : BOOLEAN, gen : Nat, new : {0}]
HsReqKind == [t : HsTrs, in : {"active", "ended", "gone"},
              out : {"responder", "body", "ws", "done"},
              step : {"ready", "continue", "reading", "head", "whole", "writing", "finishing",
                      "left", "upgrading", "ws", "over"}]
HsState ==
  [conn : [HsTrs -> {HsNoConn} \cup HsConnKind], timers : SUBSET [t : HsTrs, gen : Nat],
   kick : SUBSET HsTrs, next : 1 .. HsMaxReq + 1, listener : {"none", "bound", "started", "gone"}]
HsNets == [HsTrs -> [st : {"none", "up", "closing", "gone"}, at : {"start", "body"}, quiet : BOOLEAN]]
HsApps == [HsReqs -> {HsNoReq} \cup HsReqKind]
HsTyped ==
  /\ hs \in HsState /\ hsNet \in HsNets /\ hsApp \in HsApps /\ hsTok \in Nat
  /\ \A k \in HsReqs : hsApp[k] = HsNoReq <=> hs.next <= k

\* Requests of transport t with a handle that is alive, and what a connection has to do
\* with them: it has one while it is busy, and one that waits for a request has none.
\* While a request waits in finish, or has been left there, nothing takes its connection.
HsLive(q, t) == q.t = t /\ q.step # "over"
HsEnding(q, t) == q.t = t /\ q.step \in {"finishing", "left"}
HsPlace(t, c, st, ts, kick, app) ==
  /\ st = "none" => c = HsNoConn /\ \A k \in HsReqs : app[k].t # t
  /\ st = "up" => c # HsNoConn
  /\ \A j, k \in HsReqs : HsLive(app[j], t) /\ HsLive(app[k], t) => j = k
  /\ \A k \in HsReqs : HsEnding(app[k], t) => c.proto = "responding"
  /\ c # HsNoConn =>
       /\ c.proto = "recv" <=> \A k \in HsReqs : ~HsLive(app[k], t)
       /\ c.proto = "recv" => /\ [t |-> t, gen |-> c.gen] \in ts
                              /\ c.input = <<>> \/ t \in kick
       /\ c.err => st = "gone"
HsInv ==
  HsTyped /\ \A t \in HsTrs : HsPlace(t, hs.conn[t], hsNet[t].st, hs.timers, hs.kick, hsApp)

\* A step at transport t leaves every other transport alone.
HsElsewhere(t) ==
  /\ \A u \in HsTrs \ {t} : /\ hs'.conn[u] = hs.conn[u] /\ hsNet'[u].st = hsNet[u].st
                            /\ u \in hs'.kick <=> u \in hs.kick
  /\ \A x \in hs.timers : x.t # t => x \in hs'.timers
  /\ \A k \in HsReqs : hsApp'[k] = hsApp[k] \/ (hsApp'[k].t = t /\ hsApp[k].t \in {0, t})

LEMMA HsFrame ==
  ASSUME HsAssumption, HsInv, NEW t \in HsTrs, HsTyped', HsElsewhere(t),
         HsPlace(t, hs'.conn[t], hsNet'[t].st, hs'.timers, hs'.kick, hsApp')
  PROVE  HsInv'
<1> SUFFICES ASSUME NEW u \in HsTrs, u # t
             PROVE  HsPlace(u, hs'.conn[u], hsNet'[u].st, hs'.timers, hs'.kick, hsApp')
  BY DEF HsInv
<1>1. HsPlace(u, hs.conn[u], hsNet[u].st, hs.timers, hs.kick, hsApp)
  BY DEF HsInv
<1>2. /\ hs'.conn[u] = hs.conn[u] /\ hsNet'[u].st = hsNet[u].st /\ (u \in hs'.kick <=> u \in hs.kick)
      /\ \A x \in hs.timers : x.t # t => x \in hs'.timers
  BY DEF HsElsewhere
<1>3. \A k \in HsReqs : /\ hsApp'[k].t = u <=> hsApp[k].t = u
                        /\ HsLive(hsApp'[k], u) <=> HsLive(hsApp[k], u)
                        /\ HsEnding(hsApp'[k], u) <=> HsEnding(hsApp[k], u)
  BY DEF HsElsewhere, HsLive, HsEnding, HsAssumption
<1>4. \A g : [t |-> u, gen |-> g] \in hs.timers => [t |-> u, gen |-> g] \in hs'.timers
  BY <1>2
<1> QED  BY <1>1, <1>2, <1>3, <1>4 DEF HsPlace

\* A request that was handed out.
LEMMA HsReqIs ==
  ASSUME HsAssumption, HsInv, NEW k \in 1 .. hs.next - 1
  PROVE  /\ k \in HsReqs /\ hsApp[k] # HsNoReq /\ hsApp[k] \in HsReqKind /\ HsTr(k) \in HsTrs
         /\ hs.conn[HsTr(k)] \in {HsNoConn} \cup HsConnKind
         /\ hs.conn[HsTr(k)].proto \in {"none", "recv"} \cup HsBusy
<1>1. HsMaxReq \in Nat /\ hs.next \in 1 .. HsMaxReq + 1
  BY DEF HsInv, HsTyped, HsState, HsAssumption
<1>2. k \in HsReqs /\ ~(hs.next <= k)
  BY <1>1 DEF HsReqs
<1>3. hsApp[k] # HsNoReq /\ hsApp[k] \in {HsNoReq} \cup HsReqKind
  BY <1>2 DEF HsInv, HsTyped, HsApps
<1>4. HsTr(k) \in HsTrs
  BY <1>3 DEF HsReqKind, HsTr
<1>5. hs.conn[HsTr(k)] \in {HsNoConn} \cup HsConnKind
  BY <1>4 DEF HsInv, HsTyped, HsState
<1>6. hs.conn[HsTr(k)].proto \in {"none", "recv"} \cup HsBusy
  BY <1>5 DEF HsNoConn, HsConnKind
<1> QED  BY <1>2, <1>3, <1>4, <1>5, <1>6

\* The request k of transport t goes on, and the connection, if there is one, stays busy.
LEMMA HsWorks ==
  ASSUME HsAssumption, HsInv, NEW k \in 1 .. hs.next - 1, hsApp[k].step # "over",
         hs' \in HsState, hsApp' \in HsApps, hsNet' = hsNet, hsTok' = hsTok,
         hs'.timers = hs.timers, hs'.kick = hs.kick, hs'.next = hs.next,
         \A u \in HsTrs \ {HsTr(k)} : hs'.conn[u] = hs.conn[u],
         \/ hs'.conn[HsTr(k)] = hs.conn[HsTr(k)]
         \/ /\ hs.conn[HsTr(k)] # HsNoConn /\ hs'.conn[HsTr(k)] \in HsConnKind
            /\ hs'.conn[HsTr(k)].proto \in HsBusy /\ hs'.conn[HsTr(k)].err = hs.conn[HsTr(k)].err,
         \A j \in HsReqs \ {k} : hsApp'[j] = hsApp[j],
         hsApp'[k].t = hsApp[k].t, hsApp'[k].step # "over",
         hsApp'[k].step \in {"finishing", "left"} => hs'.conn[HsTr(k)].proto = "responding"
  PROVE  HsInv'
<1> DEFINE t == HsTr(k)
<1>1. k \in HsReqs /\ hsApp[k] # HsNoReq /\ hsApp[k] \in HsReqKind /\ t \in HsTrs
  BY HsReqIs
<1>2. hsApp'[k] # HsNoReq
  BY <1>1 DEF HsTr, HsNoReq, HsAssumption
<1>3. HsTyped'
  BY <1>1, <1>2 DEF HsInv, HsTyped
<1>4. HsElsewhere(t)
  BY <1>1 DEF HsElsewhere, HsTr
<1>5. HsPlace(t, hs.conn[t], hsNet[t].st, hs.timers, hs.kick, hsApp) /\ HsLive(hsApp[k], t)
  BY <1>1 DEF HsInv, HsLive, HsTr
<1>6. \A j \in HsReqs : HsLive(hsApp'[j], t) <=> HsLive(hsApp[j], t)
  BY <1>1, <1>5 DEF HsLive, HsTr
<1>7. hsNet[t].st # "none"
  BY <1>1, <1>5 DEF HsPlace, HsTr
<1>8. \A j \in HsReqs : HsEnding(hsApp'[j], t) => hs'.conn[t].proto = "responding"
  <2>1. \A j \in HsReqs : HsEnding(hsApp'[j], t) => HsLive(hsApp'[j], t)
    BY DEF HsEnding, HsLive
  <2>2. \A j \in HsReqs : HsLive(hsApp'[j], t) => j = k
    BY <1>1, <1>5, <1>6 DEF HsPlace
  <2> QED  BY <2>1, <2>2 DEF HsEnding
<1>9. HsPlace(t, hs'.conn[t], hsNet'[t].st, hs'.timers, hs'.kick, hsApp')
  <2>1. CASE hs'.conn[t] = hs.conn[t]
    BY <2>1, <1>5, <1>6, <1>7, <1>8 DEF HsPlace
  <2>2. CASE /\ hs.conn[t] # HsNoConn /\ hs'.conn[t] \in HsConnKind
             /\ hs'.conn[t].proto \in HsBusy /\ hs'.conn[t].err = hs.conn[t].err
    <3>1. hs'.conn[t].proto # "recv" /\ hs'.conn[t] # HsNoConn
      BY <2>2 DEF HsBusy, HsNoConn
    <3> QED  BY <1>1, <2>2, <3>1, <1>5, <1>6, <1>7, <1>8 DEF HsPlace
  <2> QED  BY <2>1, <2>2
<1> QED  BY <1>1, <1>3, <1>4, <1>9, HsFrame

\* The connection of request k goes, and its transport is not left open.
LEMMA HsEnds ==
  ASSUME HsAssumption, HsInv, NEW k \in 1 .. hs.next - 1, hsApp[k].step # "over",
         hs' \in HsState, hsApp' \in HsApps, hsNet' \in HsNets, hsTok' = hsTok,
         hs'.timers = hs.timers, hs'.kick = hs.kick, hs'.next = hs.next,
         hs'.conn[HsTr(k)] = HsNoConn, hsNet'[HsTr(k)].st \notin {"up", "none"},
         \A u \in HsTrs \ {HsTr(k)} : hs'.conn[u] = hs.conn[u] /\ hsNet'[u].st = hsNet[u].st,
         \A j \in HsReqs \ {k} : hsApp'[j] = hsApp[j], hsApp'[k].t = hsApp[k].t,
         hsApp'[k].step \notin {"finishing", "left"}
  PROVE  HsInv'
<1> DEFINE t == HsTr(k)
<1>1. k \in HsReqs /\ hsApp[k] # HsNoReq /\ hsApp[k] \in HsReqKind /\ t \in HsTrs
  BY HsReqIs
<1>2. hsApp'[k] # HsNoReq
  BY <1>1 DEF HsTr, HsNoReq, HsAssumption
<1>3. HsTyped'
  BY <1>1, <1>2 DEF HsInv, HsTyped
<1>4. HsElsewhere(t)
  BY <1>1 DEF HsElsewhere, HsTr
<1>5. HsPlace(t, hs.conn[t], hsNet[t].st, hs.timers, hs.kick, hsApp) /\ HsLive(hsApp[k], t)
  BY <1>1 DEF HsInv, HsLive, HsTr
<1>6. \A j \in HsReqs : HsLive(hsApp'[j], t) => HsLive(hsApp[j], t)
  BY <1>1, <1>5 DEF HsLive, HsTr
<1>7. \A j \in HsReqs : ~HsEnding(hsApp'[j], t)
  <2>1. \A j \in HsReqs : HsEnding(hsApp'[j], t) => HsLive(hsApp[j], t)
    BY <1>6 DEF HsEnding, HsLive
  <2>2. \A j \in HsReqs : HsLive(hsApp[j], t) => j = k
    BY <1>1, <1>5 DEF HsPlace
  <2> QED  BY <2>1, <2>2 DEF HsEnding
<1>8. HsPlace(t, hs'.conn[t], hsNet'[t].st, hs'.timers, hs'.kick, hsApp')
  BY <1>1, <1>5, <1>6, <1>7 DEF HsPlace
<1> QED  BY <1>1, <1>3, <1>4, <1>8, HsFrame

\* Request k is over and its connection waits for the next one.
LEMMA HsAgain ==
  ASSUME HsAssumption, HsInv, NEW k \in 1 .. hs.next - 1, hsApp[k].step # "over",
         hs' \in HsState, hsApp' \in HsApps, hsNet' \in HsNets, hsTok' = hsTok, hs'.next = hs.next,
         \A u \in HsTrs : hsNet'[u].st = hsNet[u].st, hs.conn[HsTr(k)] # HsNoConn, hs'.conn[HsTr(k)] # HsNoConn,
         hs'.conn[HsTr(k)].proto = "recv", ~hs'.conn[HsTr(k)].err,
         [t |-> HsTr(k), gen |-> hs'.conn[HsTr(k)].gen] \in hs'.timers,
         hs'.conn[HsTr(k)].input = <<>> \/ HsTr(k) \in hs'.kick,
         hs.timers \subseteq hs'.timers,
         \A u \in HsTrs \ {HsTr(k)} : hs'.conn[u] = hs.conn[u] /\ (u \in hs'.kick <=> u \in hs.kick),
         \A j \in HsReqs \ {k} : hsApp'[j] = hsApp[j], hsApp'[k].t = hsApp[k].t,
         hsApp'[k].step = "over"
  PROVE  HsInv'
<1> DEFINE t == HsTr(k)
<1>1. k \in HsReqs /\ hsApp[k] # HsNoReq /\ hsApp[k] \in HsReqKind /\ t \in HsTrs
  BY HsReqIs
<1>2. hsApp'[k] # HsNoReq
  BY <1>1 DEF HsTr, HsNoReq, HsAssumption
<1>3. HsTyped'
  BY <1>1, <1>2 DEF HsInv, HsTyped
<1>4. HsElsewhere(t)
  BY <1>1 DEF HsElsewhere, HsTr
<1>5. HsPlace(t, hs.conn[t], hsNet[t].st, hs.timers, hs.kick, hsApp) /\ HsLive(hsApp[k], t)
  BY <1>1 DEF HsInv, HsLive, HsTr
<1>6. \A j \in HsReqs : ~HsLive(hsApp'[j], t) /\ ~HsEnding(hsApp'[j], t)
  <2>1. \A j \in HsReqs : HsLive(hsApp[j], t) => j = k
    BY <1>1, <1>5 DEF HsPlace
  <2> QED  BY <1>1, <2>1 DEF HsLive, HsEnding
<1>7. hsNet[t].st # "none"
  BY <1>5 DEF HsPlace
<1>8. HsPlace(t, hs'.conn[t], hsNet'[t].st, hs'.timers, hs'.kick, hsApp')
  BY <1>1, <1>5, <1>6, <1>7 DEF HsPlace
<1> QED  BY <1>1, <1>3, <1>4, <1>8, HsFrame

LEMMA HsClosingIs ==
  ASSUME NEW n \in HsNets, NEW S
  PROVE  /\ HsClosing(n, S) \in HsNets
         /\ \A u \in HsTrs : /\ u \notin S => HsClosing(n, S)[u] = n[u]
                             /\ HsClosing(n, S)[u].st =
                                  (IF u \in S /\ n[u].st = "up" THEN "closing" ELSE n[u].st)
<1>1. \A u \in HsTrs : /\ u \notin S => HsClosing(n, S)[u] = n[u]
                       /\ HsClosing(n, S)[u].st =
                            (IF u \in S /\ n[u].st = "up" THEN "closing" ELSE n[u].st)
                       /\ HsClosing(n, S)[u] \in [st : {"none", "up", "closing", "gone"},
                                                  at : {"start", "body"}, quiet : BOOLEAN]
  BY DEF HsClosing, HsNets
<1>2. HsClosing(n, S) = [u \in HsTrs |-> HsClosing(n, S)[u]]
  BY DEF HsClosing
<1> QED  BY <1>1, <1>2 DEF HsNets

LEMMA HsRemoved ==
  ASSUME NEW w \in HsState, NEW t \in HsTrs
  PROVE  LET v == HsRemove(w, t)
         IN  /\ v \in HsState /\ v.timers = w.timers /\ v.kick = w.kick /\ v.next = w.next
             /\ v.conn[t] = HsNoConn /\ \A u \in HsTrs \ {t} : v.conn[u] = w.conn[u]
<1>1. [w.conn EXCEPT ![t] = HsNoConn] \in [HsTrs -> {HsNoConn} \cup HsConnKind]
  BY DEF HsState
<1> QED  BY <1>1 DEF HsState, HsRemove

\* The transport of a request that is alive was accepted.
LEMMA HsAccepted ==
  ASSUME HsAssumption, HsInv, NEW k \in 1 .. hs.next - 1
  PROVE  hsNet \in HsNets /\ hs \in HsState /\ hsNet[HsTr(k)].st # "none"
<1>1. k \in HsReqs /\ HsTr(k) \in HsTrs
  BY HsReqIs
<1>2. HsPlace(HsTr(k), hs.conn[HsTr(k)], hsNet[HsTr(k)].st, hs.timers, hs.kick, hsApp)
  BY <1>1 DEF HsInv
<1> QED  BY <1>1, <1>2 DEF HsInv, HsTyped, HsPlace, HsTr

LEMMA HsAborted ==
  ASSUME HsAssumption, HsInv, NEW k \in 1 .. hs.next - 1, hsApp[k].step # "over",
         HsAbort(k), hsTok' = hsTok, hsApp' \in HsApps,
         \A j \in HsReqs \ {k} : hsApp'[j] = hsApp[j], hsApp'[k].t = hsApp[k].t,
         hsApp'[k].step \notin {"finishing", "left"}
  PROVE  HsInv'
<1> DEFINE t == HsTr(k)
           S == IF HsConn(k) = HsNoConn THEN {} ELSE {t}
<1>1. t \in HsTrs /\ hsNet \in HsNets /\ hs \in HsState /\ hsNet[t].st # "none"
  BY HsReqIs, HsAccepted
<1>2. hs' = HsRemove(hs, t) /\ hsNet' = HsClosing(hsNet, S)
  BY DEF HsAbort, HsShut
<1>3. hsNet[t].st = "up" => t \in S
  BY <1>1 DEF HsInv, HsPlace, HsConn
<1>4. \A u \in HsTrs : u # t => u \notin S
  OBVIOUS
<1> HIDE DEF S
<1>5. /\ hsNet' \in HsNets /\ hsNet'[t].st \notin {"up", "none"}
      /\ \A u \in HsTrs \ {t} : hsNet'[u].st = hsNet[u].st
  BY <1>1, <1>2, <1>3, <1>4, HsClosingIs DEF HsNets
<1>6. /\ hs' \in HsState /\ hs'.timers = hs.timers /\ hs'.kick = hs.kick /\ hs'.next = hs.next
      /\ hs'.conn[t] = HsNoConn /\ \A u \in HsTrs \ {t} : hs'.conn[u] = hs.conn[u]
  BY <1>1, <1>2, HsRemoved
<1> QED  BY <1>5, <1>6, HsEnds

HsSteps == {"ready", "continue", "reading", "head", "whole", "writing", "finishing", "left",
            "upgrading", "ws", "over"}
LEMMA HsStepIs ==
  ASSUME HsAssumption, HsInv, NEW k \in 1 .. hs.next - 1, NEW s \in HsSteps, HsStep(k, s)
  PROVE  /\ hsApp' \in HsApps /\ \A j \in HsReqs \ {k} : hsApp'[j] = hsApp[j]
         /\ hsApp'[k].t = hsApp[k].t /\ hsApp'[k].step = s
<1>1. k \in HsReqs /\ hsApp[k] \in HsReqKind /\ hsApp \in HsApps
  BY HsReqIs DEF HsInv, HsTyped
<1>2. [hsApp[k] EXCEPT !.step = s] \in HsReqKind
  BY <1>1 DEF HsReqKind, HsSteps
<1> QED  BY <1>1, <1>2 DEF HsStep, HsApps, HsReqKind

LEMMA HsOverIs ==
  ASSUME HsAssumption, HsInv, NEW k \in 1 .. hs.next - 1, HsOver(k)
  PROVE  /\ hsApp' \in HsApps /\ \A j \in HsReqs \ {k} : hsApp'[j] = hsApp[j]
         /\ hsApp'[k].t = hsApp[k].t /\ hsApp'[k].step = "over"
<1>1. k \in HsReqs /\ hsApp[k] \in HsReqKind /\ hsApp \in HsApps
  BY HsReqIs DEF HsInv, HsTyped
<1>2. [hsApp[k] EXCEPT !.in = "gone", !.out = "done", !.step = "over"] \in HsReqKind
  BY <1>1 DEF HsReqKind
<1> QED  BY <1>1, <1>2 DEF HsOver, HsApps, HsReqKind

\* Only the connection of transport t is written.
LEMMA HsConnSet ==
  ASSUME NEW w \in HsState, NEW t \in HsTrs, NEW c \in {HsNoConn} \cup HsConnKind, NEW v,
         v = [w EXCEPT !.conn[t] = c]
  PROVE  /\ v \in HsState /\ v.timers = w.timers /\ v.kick = w.kick /\ v.next = w.next
         /\ v.conn[t] = c /\ \A u \in HsTrs \ {t} : v.conn[u] = w.conn[u]
<1>1. [w.conn EXCEPT ![t] = c] \in [HsTrs -> {HsNoConn} \cup HsConnKind]
  BY DEF HsState
<1> QED  BY <1>1 DEF HsState

\* A busy connection turns to p.
LEMMA HsProtoSet ==
  ASSUME NEW c \in HsConnKind, NEW p \in HsBusy, NEW d, d = [c EXCEPT !.proto = p]
  PROVE  d \in HsConnKind /\ d.proto = p /\ d.err = c.err
BY DEF HsConnKind, HsBusy

\* Request k goes on at step s with its connection turned to p.
LEMMA HsTurns ==
  ASSUME HsAssumption, HsInv, NEW k \in 1 .. hs.next - 1, hsApp[k].step # "over",
         HsConn(k) # HsNoConn, NEW p \in HsBusy, NEW s \in HsSteps \ {"over"},
         hs' = [hs EXCEPT !.conn[HsTr(k)].proto = p], HsStep(k, s), hsNet' = hsNet, hsTok' = hsTok,
         s \in {"finishing", "left"} => p = "responding"
  PROVE  HsInv'
<1> DEFINE t == HsTr(k)
           c == [hs.conn[t] EXCEPT !.proto = p]
<1>1. t \in HsTrs /\ hs \in HsState /\ hs.conn[t] \in HsConnKind /\ hs.conn[t] # HsNoConn
  BY HsReqIs, HsAccepted DEF HsConn
<1>2. c \in HsConnKind /\ c.proto = p /\ c.err = hs.conn[t].err
  BY <1>1, HsProtoSet
<1>3. hs' = [hs EXCEPT !.conn[t] = c]
  OBVIOUS
<1> HIDE DEF c
<1>4. /\ hs' \in HsState /\ hs'.timers = hs.timers /\ hs'.kick = hs.kick /\ hs'.next = hs.next
      /\ hs'.conn[t] = c /\ \A u \in HsTrs \ {t} : hs'.conn[u] = hs.conn[u]
  BY <1>1, <1>2, <1>3, HsConnSet
<1>5. /\ hsApp' \in HsApps /\ \A j \in HsReqs \ {k} : hsApp'[j] = hsApp[j]
      /\ hsApp'[k].t = hsApp[k].t /\ hsApp'[k].step = s /\ s # "over"
  BY HsStepIs
<1> QED  BY <1>1, <1>2, <1>4, <1>5, HsWorks

\* Request k goes on at step s and the server is left alone.
LEMMA HsWaits ==
  ASSUME HsAssumption, HsInv, NEW k \in 1 .. hs.next - 1, hsApp[k].step # "over",
         NEW s \in HsSteps \ {"over"}, HsStep(k, s), hs' = hs, hsNet' = hsNet, hsTok' = hsTok,
         s \in {"finishing", "left"} => HsConn(k).proto = "responding"
  PROVE  HsInv'
<1>1. hs' \in HsState /\ hs'.conn[HsTr(k)] = HsConn(k)
  BY HsAccepted DEF HsConn
<1>2. /\ hsApp' \in HsApps /\ \A j \in HsReqs \ {k} : hsApp'[j] = hsApp[j]
      /\ hsApp'[k].t = hsApp[k].t /\ hsApp'[k].step = s /\ s # "over"
  BY HsStepIs
<1> QED  BY <1>1, <1>2, HsWorks

LEMMA HsNextChunkKeeps ==
  ASSUME HsAssumption, HsInv, NEW k \in 1 .. hs.next - 1, HsNextChunk(k)
  PROVE  HsInv'
<1>1. hsApp[k].step = "ready" /\ hsTok' = hsTok /\ hsNet' = hsNet /\ HsConn(k) # HsNoConn
  BY DEF HsNextChunk, HsAt
<1>2. /\ {"continue", "reading"} \subseteq HsSteps \ {"over"} /\ "body" \in HsBusy
      /\ hsApp[k].step # "over"
  BY <1>1 DEF HsSteps, HsBusy
<1>3. CASE HsConn(k).proto = "await100"
  BY <1>1, <1>2, <1>3, HsTurns DEF HsNextChunk
<1>4. CASE HsConn(k).proto # "await100"
  BY <1>1, <1>2, <1>4, HsWaits DEF HsNextChunk
<1> QED  BY <1>3, <1>4

LEMMA HsWriteKeeps ==
  ASSUME HsAssumption, HsInv, NEW k \in 1 .. hs.next - 1, HsWriteChunk(k) \/ HsWrote(k)
  PROVE  HsInv'
<1>1. /\ hsTok' = hsTok /\ hsNet' = hsNet /\ hs' = hs
      /\ HsStep(k, "writing") \/ HsStep(k, "ready")
      /\ hsApp[k].step \in {"ready", "writing"}
  BY DEF HsWriteChunk, HsWrote, HsAt
<1>2. {"ready", "writing"} \subseteq HsSteps \ {"over"} /\ hsApp[k].step # "over"
  BY <1>1 DEF HsSteps
<1> QED  BY <1>1, <1>2, HsWaits

LEMMA HsRespondKeeps ==
  ASSUME HsAssumption, HsInv, NEW k \in 1 .. hs.next - 1, NEW body \in BOOLEAN, HsRespond(k, body)
  PROVE  HsInv'
<1>1. hsApp[k].step = "ready" /\ hsTok' = hsTok /\ hsApp[k].step # "over"
  BY DEF HsRespond, HsAt
<1>2. CASE HsAbort(k) /\ HsOver(k)
  BY <1>1, <1>2, HsOverIs, HsAborted
<1>3. CASE /\ HsConn(k).proto \in {"await100", "provide"}
           /\ hs' = [hs EXCEPT !.conn[HsTr(k)].proto = IF body THEN "sendbody" ELSE "responding"]
           /\ HsStep(k, IF body THEN "head" ELSE "whole") /\ UNCHANGED hsNet
  <2> DEFINE p == IF body THEN "sendbody" ELSE "responding"
             s == IF body THEN "head" ELSE "whole"
  <2>1. /\ p \in HsBusy /\ s \in HsSteps \ {"over"} /\ s \notin {"finishing", "left"}
        /\ HsConn(k) # HsNoConn
    BY <1>3 DEF HsBusy, HsSteps, HsNoConn
  <2>2. hs' = [hs EXCEPT !.conn[HsTr(k)].proto = p] /\ HsStep(k, s) /\ hsNet' = hsNet
    BY <1>3
  <2> HIDE DEF p, s
  <2> QED  BY <1>1, <2>1, <2>2, HsTurns
<1> QED  BY <1>2, <1>3 DEF HsRespond

LEMMA HsFinishKeeps ==
  ASSUME HsAssumption, HsInv, NEW k \in 1 .. hs.next - 1, HsFinish(k)
  PROVE  HsInv'
<1>1. hsApp[k].step = "ready" /\ hsTok' = hsTok /\ hsApp[k].step # "over"
  BY DEF HsFinish, HsAt
<1>2. CASE HsAbort(k) /\ HsOver(k)
  BY <1>1, <1>2, HsOverIs, HsAborted
<1>3. CASE /\ HsConn(k).proto = "sendbody"
           /\ hs' = [hs EXCEPT !.conn[HsTr(k)].proto = "responding"]
           /\ HsStep(k, "finishing") /\ UNCHANGED hsNet
  <2>1. "responding" \in HsBusy /\ "finishing" \in HsSteps \ {"over"} /\ HsConn(k) # HsNoConn
    BY <1>3 DEF HsBusy, HsSteps, HsNoConn
  <2> QED  BY <1>1, <1>3, <2>1, HsTurns
<1> QED  BY <1>2, <1>3 DEF HsFinish

\* What process makes of a connection; a request that it hands out is counted in new.
HsParsed ==
  [proto : {"recv"} \cup HsBusy, input : Seq(HsAll), chunks : Nat, ended : BOOLEAN, err : BOOLEAN,
   paused : BOOLEAN, gen : Nat, new : {0, 1}]
LEMMA HsPartsIs ==
  ASSUME NEW input \in Seq(HsAll)
  PROVE  HsParts(input) \in 0 .. Len(input)
<1> DEFINE P == {i \in DOMAIN input : \A j \in 1 .. i : input[j] = "part"}
<1>1. DOMAIN input = 1 .. Len(input) /\ Len(input) \in Nat
  OBVIOUS
<1>2. IsFiniteSet(1 .. Len(input)) /\ Cardinality(1 .. Len(input)) = Len(input)
  BY <1>1, FS_Interval
<1>3. P \subseteq 1 .. Len(input)
  BY <1>1
<1> HIDE DEF P
<1>4. Cardinality(P) <= Len(input) /\ Cardinality(P) \in Nat
  BY <1>2, <1>3, FS_Subset, FS_CardinalityType
<1> QED  BY <1>1, <1>4 DEF HsParts, P

LEMMA HsParseIs ==
  ASSUME NEW c \in HsConnKind
  PROVE  LET d == HsParse(c)
         IN  /\ d \in HsParsed /\ d.err = c.err
             /\ c.proto # "recv" \/ c.input = <<>> => d = c
             /\ c.proto = "recv" /\ c.input # <<>> =>
                  d.proto # "recv" /\ (d.proto # "lost" => d.new = 1)
<1>1. c \in HsParsed /\ c.new = 0
  BY DEF HsConnKind, HsParsed
<1>2. CASE c.input = <<>> \/ c.proto # "recv"
  BY <1>1, <1>2 DEF HsParse
<1>3. CASE c.input # <<>> /\ c.proto = "recv"
  <2> DEFINE got == [c EXCEPT !.input = Tail(@), !.new = 1]
  <2>1. Tail(c.input) \in Seq(HsAll)
    BY <1>1, <1>3 DEF HsParsed
  <2>2. got \in HsParsed /\ got.new = 1 /\ got.err = c.err
    BY <1>1, <2>1 DEF HsParsed
  <2>3. HsParse(c) = CASE Head(c.input) = "get"    -> [got EXCEPT !.proto = "provide", !.ended = TRUE]
               [] Head(c.input) = "post"   -> [got EXCEPT !.proto = "body", !.ended = FALSE]
               [] Head(c.input) = "expect" -> [got EXCEPT !.proto = "await100", !.ended = FALSE]
               [] OTHER -> [c EXCEPT !.proto = "lost"]
    BY <1>3 DEF HsParse
  <2> HIDE DEF got
  <2>4. {"provide", "body", "await100", "lost"} \subseteq HsBusy /\ "recv" \notin HsBusy
    BY DEF HsBusy
  <2>5. \/ HsParse(c) = [got EXCEPT !.proto = "provide", !.ended = TRUE]
        \/ HsParse(c) = [got EXCEPT !.proto = "body", !.ended = FALSE]
        \/ HsParse(c) = [got EXCEPT !.proto = "await100", !.ended = FALSE]
        \/ HsParse(c) = [c EXCEPT !.proto = "lost"]
    BY <2>3
  <2> QED  BY <1>1, <1>3, <2>2, <2>4, <2>5 DEF HsParsed
<1> QED  BY <1>2, <1>3

LEMMA HsReadBodyIs ==
  ASSUME NEW c \in HsParsed
  PROVE  LET d == HsReadBody(c)
         IN  /\ d \in HsParsed /\ d.err = c.err /\ d.new = c.new
             /\ c.proto # "body" => d = c
             /\ c.proto = "body" => d.proto \in HsBusy
<1>1. CASE c.proto # "body"
  BY <1>1 DEF HsReadBody
<1>2. CASE c.proto = "body"
  <2> DEFINE n == HsParts(c.input)
             rest == SubSeq(c.input, n + 1, Len(c.input))
             got == [c EXCEPT !.input = rest, !.chunks = @ + n]
  <2>1. c.input \in Seq(HsAll) /\ n \in 0 .. Len(c.input) /\ n \in Nat
    BY HsPartsIs DEF HsParsed
  <2>2. HsReadBody(c) =
          IF rest = <<>> THEN got
          ELSE IF Head(rest) \in {"end", "term"}
          THEN [got EXCEPT !.input = Tail(@), !.proto = "provide", !.ended = TRUE,
                           !.chunks = IF Head(rest) = "end" THEN @ + 1 ELSE @]
          ELSE [got EXCEPT !.proto = "lost"]
    BY <1>2 DEF HsReadBody
  <2> HIDE DEF n
  <2>3. rest \in Seq(HsAll)
    BY <2>1
  <2> HIDE DEF rest
  <2>4. c.chunks + n \in Nat
    BY <2>1 DEF HsParsed
  <2>5. /\ got \in HsParsed /\ got.err = c.err /\ got.new = c.new /\ got.proto = "body"
        /\ got.input = rest
    BY <1>2, <2>4, <2>3 DEF HsParsed
  <2> HIDE DEF got
  <2>6. {"provide", "body", "lost"} \subseteq HsBusy
    BY DEF HsBusy
  <2>7. CASE rest = <<>>
    BY <1>2, <2>2, <2>5, <2>6, <2>7
  <2>8. CASE rest # <<>> /\ Head(rest) \in {"end", "term"}
    <3> DEFINE m == IF Head(rest) = "end" THEN got.chunks + 1 ELSE got.chunks
               d == [got EXCEPT !.input = Tail(rest), !.proto = "provide", !.ended = TRUE,
                                !.chunks = m]
    <3>1. Tail(rest) \in Seq(HsAll)
      BY <2>3, <2>8
    <3>2. HsReadBody(c) = [got EXCEPT !.input = Tail(@), !.proto = "provide", !.ended = TRUE,
                                      !.chunks = IF Head(rest) = "end" THEN @ + 1 ELSE @]
      BY <2>2, <2>8
    <3>3. m \in Nat
      BY <2>5 DEF HsParsed
    <3>4. HsReadBody(c) = d
      BY <2>5, <3>2
    <3> HIDE DEF m
    <3>5. d \in HsParsed /\ d.err = got.err /\ d.new = got.new /\ d.proto = "provide"
      BY <2>5, <2>6, <3>1, <3>3 DEF HsParsed
    <3> QED  BY <1>2, <2>5, <2>6, <3>4, <3>5
  <2>9. CASE rest # <<>> /\ Head(rest) \notin {"end", "term"}
    <3>1. HsReadBody(c) = [got EXCEPT !.proto = "lost"]
      BY <2>2, <2>9
    <3> QED  BY <1>2, <2>5, <2>6, <3>1 DEF HsParsed
  <2> QED  BY <2>7, <2>8, <2>9
<1> QED  BY <1>1, <1>2

LEMMA HsProcessIs ==
  ASSUME NEW c \in HsConnKind
  PROVE  LET d == HsProcess(c)
         IN  /\ d \in HsParsed /\ d.err = c.err
             /\ c.proto = "recv" /\ c.input = <<>> => d = c
             /\ c.proto # "recv" => d.proto \in HsBusy /\ d.new = 0
             /\ c.proto = "responding" => d.proto = "responding"
             /\ c.proto = "recv" /\ c.input # <<>> =>
                  d.proto \in HsBusy /\ (d.proto # "lost" => d.new = 1)
<1> DEFINE e == HsParse(c)
<1>1. /\ e \in HsParsed /\ e.err = c.err
      /\ c.proto # "recv" \/ c.input = <<>> => e = c
      /\ c.proto = "recv" /\ c.input # <<>> => e.proto # "recv" /\ (e.proto # "lost" => e.new = 1)
  BY HsParseIs
<1>2. HsProcess(c) = HsReadBody(e) /\ c.new = 0
  BY DEF HsProcess, HsConnKind
<1> HIDE DEF e
<1>3. LET d == HsReadBody(e)
      IN  /\ d \in HsParsed /\ d.err = e.err /\ d.new = e.new
          /\ e.proto # "body" => d = e
          /\ e.proto = "body" => d.proto \in HsBusy
  BY <1>1, HsReadBodyIs
<1>4. e.proto \in {"recv"} \cup HsBusy /\ "recv" \notin HsBusy
  BY <1>1 DEF HsParsed, HsBusy
<1>5. "lost" # "body"
  OBVIOUS
<1>6. CASE c.proto # "recv"
  BY <1>1, <1>2, <1>3, <1>4, <1>6
<1>7. CASE c.proto = "recv" /\ c.input = <<>>
  BY <1>1, <1>2, <1>3, <1>7
<1>8. CASE c.proto = "recv" /\ c.input # <<>>
  BY <1>1, <1>2, <1>3, <1>4, <1>5, <1>8
<1> QED  BY <1>6, <1>7, <1>8

HsReady(c, g) ==
  [c EXCEPT !.proto = "recv", !.ended = FALSE, !.chunks = 0, !.err = FALSE, !.gen = g]
LEMMA HsReadyIs ==
  ASSUME NEW c \in HsConnKind, NEW g \in Nat
  PROVE  LET d == HsReady(c, g)
         IN  d \in HsConnKind /\ d.proto = "recv" /\ ~d.err /\ d.gen = g /\ d.input = c.input
<1> DEFINE d == HsReady(c, g)
<1>1. d = [c EXCEPT !.proto = "recv", !.ended = FALSE, !.chunks = 0, !.err = FALSE, !.gen = g]
  BY DEF HsReady
<1> HIDE DEF d
<1>2. d = [proto |-> "recv", input |-> c.input, chunks |-> 0, ended |-> FALSE, err |-> FALSE,
           paused |-> c.paused, gen |-> g, new |-> c.new]
  BY <1>1 DEF HsConnKind
<1>3. /\ c.input \in Seq(HsAll) /\ c.paused \in BOOLEAN /\ c.new \in {0} /\ 0 \in Nat
      /\ "recv" \in {"recv"} \cup HsBusy /\ FALSE \in BOOLEAN
  BY DEF HsConnKind
<1>4. d \in HsConnKind
  BY <1>2, <1>3, Zenon DEF HsConnKind
<1>5. d.err = FALSE
  BY <1>2, Zenon
<1>6. d.proto = "recv" /\ d.gen = g /\ d.input = c.input
  BY <1>2
<1> QED  BY <1>4, <1>5, <1>6, Zenon DEF d

LEMMA HsWsSet ==
  ASSUME NEW c \in HsConnKind, NEW d,
         d = [c EXCEPT !.proto = "ws", !.input = <<>>, !.ended = TRUE, !.chunks = 0]
  PROVE  d \in HsConnKind /\ d.proto = "ws" /\ d.err = c.err /\ d.proto \in HsBusy
<1>1. d = [proto |-> "ws", input |-> <<>>, chunks |-> 0, ended |-> TRUE, err |-> c.err,
           paused |-> c.paused, gen |-> c.gen, new |-> c.new]
  BY DEF HsConnKind
<1>2. /\ <<>> \in Seq(HsAll) /\ "ws" \in HsBusy /\ 0 \in Nat /\ TRUE \in BOOLEAN
  BY DEF HsBusy
<1>3. c.err \in BOOLEAN /\ c.paused \in BOOLEAN /\ c.gen \in Nat /\ c.new \in {0}
  BY DEF HsConnKind
<1>4. d \in HsConnKind
  BY <1>1, <1>2, <1>3, Zenon DEF HsConnKind
<1>5. d.proto = "ws" /\ d.err = c.err
  BY <1>1, Zenon
<1> QED  BY <1>2, <1>4, <1>5, Zenon

\* The response is given: the connection is closed or used again (finish_response).
LEMMA HsReuses ==
  ASSUME HsAssumption, HsInv, NEW k \in 1 .. hs.next - 1, hsApp[k].step # "over",
         NEW close \in BOOLEAN, hs' = HsFinishResponse(hs, HsTr(k), close),
         HsShut(IF close THEN {HsTr(k)} ELSE {}), HsOver(k), hsTok' = hsTok
  PROVE  HsInv'
<1> DEFINE t == HsTr(k)
           S == IF close THEN {t} ELSE {}
<1>1. /\ t \in HsTrs /\ hsNet \in HsNets /\ hs \in HsState /\ hsNet[t].st # "none"
      /\ hs.conn[t] \in {HsNoConn} \cup HsConnKind
      /\ hsNet[t].st = "up" => hs.conn[t] # HsNoConn
  BY HsReqIs, HsAccepted DEF HsInv, HsPlace
<1>2. /\ hsApp' \in HsApps /\ \A j \in HsReqs \ {k} : hsApp'[j] = hsApp[j]
      /\ hsApp'[k].t = hsApp[k].t /\ hsApp'[k].step = "over"
  BY HsOverIs
<1>3. hsNet' = HsClosing(hsNet, S) /\ (close <=> t \in S) /\ \A u \in HsTrs \ {t} : u \notin S
  BY DEF HsShut
<1> HIDE DEF S
<1>4. /\ hsNet' \in HsNets /\ (close => hsNet'[t].st \notin {"up", "none"})
      /\ \A u \in HsTrs : u # t \/ ~close => hsNet'[u].st = hsNet[u].st
  BY <1>1, <1>3, HsClosingIs DEF HsNets
<1>5. CASE close \/ hs.conn[t] = HsNoConn
  <2>1. hs' = HsRemove(hs, t)
    BY <1>5 DEF HsFinishResponse
  <2>2. /\ hs' \in HsState /\ hs'.timers = hs.timers /\ hs'.kick = hs.kick /\ hs'.next = hs.next
        /\ hs'.conn[t] = HsNoConn /\ \A u \in HsTrs \ {t} : hs'.conn[u] = hs.conn[u]
    BY <1>1, <2>1, HsRemoved
  <2>3. hsNet'[t].st \notin {"up", "none"}
    BY <1>1, <1>4, <1>5
  <2> QED  BY <1>2, <1>4, <2>2, <2>3, HsEnds
<1>6. CASE ~close /\ hs.conn[t] # HsNoConn
  <2> DEFINE g == hs.conn[t].gen + 1
             c == [hs.conn[t] EXCEPT !.proto = "recv", !.ended = FALSE, !.chunks = 0,
                                     !.err = FALSE, !.gen = g]
             ts == hs.timers \cup {[t |-> t, gen |-> g]}
             kick == IF hs.conn[t].input = <<>> THEN hs.kick ELSE hs.kick \cup {t}
  <2>1. g \in Nat /\ c \in HsConnKind /\ c.proto = "recv" /\ ~c.err /\ c.gen = g
        /\ c.input = hs.conn[t].input
    <3>1. hs.conn[t] \in HsConnKind /\ g \in Nat
      BY <1>1, <1>6 DEF HsConnKind
    <3>2. c = HsReady(hs.conn[t], g)
      BY DEF HsReady
    <3> HIDE DEF c, g
    <3> QED  BY <3>1, <3>2, HsReadyIs, Zenon
  <2>2. hs' = [hs EXCEPT !.conn[t] = c, !.timers = ts, !.kick = kick]
    BY <1>6 DEF HsFinishResponse
  <2>3. /\ ts \in SUBSET [t : HsTrs, gen : Nat] /\ kick \in SUBSET HsTrs
        /\ [t |-> t, gen |-> g] \in ts /\ hs.timers \subseteq ts
        /\ c.input = <<>> \/ t \in kick
        /\ \A u \in HsTrs \ {t} : u \in kick <=> u \in hs.kick
    BY <1>1, <2>1 DEF HsState
  <2>4. c # HsNoConn
    BY <2>1 DEF HsNoConn
  <2> HIDE DEF g, c, ts, kick
  <2>5. [hs.conn EXCEPT ![t] = c] \in [HsTrs -> {HsNoConn} \cup HsConnKind]
    BY <1>1, <2>1 DEF HsState
  <2>6. /\ hs' \in HsState /\ hs'.timers = ts /\ hs'.kick = kick /\ hs'.next = hs.next
        /\ hs'.conn[t] = c /\ \A u \in HsTrs \ {t} : hs'.conn[u] = hs.conn[u]
    BY <1>1, <2>2, <2>3, <2>5, ZenonT(40) DEF HsState
  <2>7. \A u \in HsTrs : hsNet'[u].st = hsNet[u].st
    BY <1>4, <1>6
  <2> QED  BY <1>2, <1>4, <1>6, <2>1, <2>3, <2>4, <2>6, <2>7, HsAgain
<1> QED  BY <1>5, <1>6

LEMMA HsRespondedKeeps ==
  ASSUME HsAssumption, HsInv, NEW k \in 1 .. hs.next - 1, NEW ok \in BOOLEAN,
         NEW close \in BOOLEAN, HsResponded(k, ok, close)
  PROVE  HsInv'
<1>1. hsTok' = hsTok /\ hsApp[k].step # "over"
  BY DEF HsResponded
<1>2. CASE HsAbort(k) /\ HsOver(k)
  BY <1>1, <1>2, HsOverIs, HsAborted
<1>3. CASE /\ hsApp' = [hsApp EXCEPT ![k].out = "body", ![k].step = "ready"]
           /\ UNCHANGED <<hs, hsNet>>
  <2>1. k \in HsReqs /\ hsApp[k] \in HsReqKind /\ hsApp \in HsApps /\ hs \in HsState
    BY HsReqIs DEF HsInv, HsTyped
  <2>2. [hsApp[k] EXCEPT !.out = "body", !.step = "ready"] \in HsReqKind
    BY <2>1 DEF HsReqKind
  <2>3. hsApp' = [hsApp EXCEPT ![k] = [hsApp[k] EXCEPT !.out = "body", !.step = "ready"]]
    BY <1>3, <2>1 DEF HsApps
  <2>4. /\ hsApp' \in HsApps /\ \A j \in HsReqs \ {k} : hsApp'[j] = hsApp[j]
        /\ hsApp'[k].t = hsApp[k].t /\ hsApp'[k].step = "ready"
    BY <2>1, <2>2, <2>3 DEF HsApps, HsReqKind
  <2> QED  BY <1>1, <1>3, <2>1, <2>4, HsWorks
<1>4. CASE /\ hs' = HsFinishResponse(hs, HsTr(k), close)
           /\ HsShut(IF close THEN {HsTr(k)} ELSE {}) /\ HsOver(k)
  BY <1>1, <1>4, HsReuses
<1> QED  BY <1>2, <1>3, <1>4 DEF HsResponded

\* A future is dropped: next_chunk is given up, finish is left where it waits.
LEMMA HsGivesUpKeeps ==
  ASSUME HsAssumption, HsInv, NEW k \in 1 .. hs.next - 1, HsStopReading(k) \/ HsFinishLeft(k)
  PROVE  HsInv'
<1>1. hsTok' = hsTok /\ hsNet' = hsNet /\ hs' = hs /\ {"ready", "left"} \subseteq HsSteps \ {"over"}
  BY DEF HsStopReading, HsFinishLeft, HsAt, HsSteps
<1>2. CASE HsStopReading(k)
  <2>1. hsApp[k].step # "over" /\ HsStep(k, "ready")
    BY <1>2 DEF HsStopReading
  <2> QED  BY <1>1, <2>1, HsWaits
<1>3. CASE HsFinishLeft(k)
  <2>1. hsApp[k].step = "finishing" /\ HsStep(k, "left") /\ hsApp[k].step # "over"
    BY <1>3 DEF HsFinishLeft, HsAt
  <2>2. k \in HsReqs /\ HsTr(k) \in HsTrs
    BY HsReqIs
  <2>3. HsPlace(HsTr(k), HsConn(k), hsNet[HsTr(k)].st, hs.timers, hs.kick, hsApp)
    BY <2>2 DEF HsInv, HsConn
  <2>4. HsConn(k).proto = "responding"
    BY <2>1, <2>2, <2>3 DEF HsPlace, HsEnding, HsTr
  <2> QED  BY <1>1, <2>1, <2>4, HsWaits
<1> QED  BY <1>2, <1>3

LEMMA HsFinishedKeeps ==
  ASSUME HsAssumption, HsInv, NEW k \in 1 .. hs.next - 1, NEW ok \in BOOLEAN,
         NEW close \in BOOLEAN, HsFinished(k, ok, close)
  PROVE  HsInv'
<1>1. hsTok' = hsTok /\ hsApp[k].step # "over" /\ HsOver(k)
  BY DEF HsFinished, HsAt
<1>2. CASE ok
  BY <1>1, <1>2, HsReuses DEF HsFinished
<1>3. CASE ~ok
  BY <1>1, <1>3, HsOverIs, HsAborted DEF HsFinished
<1> QED  BY <1>2, <1>3

LEMMA HsDropKeeps ==
  ASSUME HsAssumption, HsInv, NEW k \in 1 .. hs.next - 1,
         HsDropOutgoing(k) \/ HsSocketEnds(k)
  PROVE  HsInv'
<1>1. hsTok' = hsTok /\ hsApp[k].step # "over" /\ HsOver(k) /\ HsAbort(k)
  BY DEF HsDropOutgoing, HsSocketEnds, HsAt
<1> QED  BY <1>1, HsOverIs, HsAborted

LEMMA HsBodyTimeoutKeeps ==
  ASSUME HsAssumption, HsInv, NEW k \in 1 .. hs.next - 1, HsBodyTimeout(k)
  PROVE  HsInv'
<1>1. /\ hsTok' = hsTok /\ hsApp[k].step # "over" /\ HsAbort(k) /\ HsStep(k, "ready")
      /\ "ready" \in HsSteps
  BY DEF HsBodyTimeout, HsAt, HsSteps
<1> QED  BY <1>1, HsStepIs, HsAborted

LEMMA HsDropIncomingKeeps ==
  ASSUME HsAssumption, HsInv, NEW k \in 1 .. hs.next - 1, HsDropIncoming(k)
  PROVE  HsInv'
<1>1. hsTok' = hsTok /\ hsApp[k].step = "ready" /\ hsApp' = [hsApp EXCEPT ![k].in = "gone"]
  BY DEF HsDropIncoming, HsAt
<1>2. k \in HsReqs /\ hsApp[k] \in HsReqKind /\ hsApp \in HsApps /\ hs \in HsState
  BY HsReqIs DEF HsInv, HsTyped
<1>3. [hsApp[k] EXCEPT !.in = "gone"] \in HsReqKind
  BY <1>2 DEF HsReqKind
<1>4. /\ hsApp' \in HsApps /\ \A j \in HsReqs \ {k} : hsApp'[j] = hsApp[j]
      /\ hsApp'[k].t = hsApp[k].t /\ hsApp'[k].step = "ready"
  BY <1>1, <1>2, <1>3 DEF HsApps, HsReqKind
<1>5. CASE HsAbort(k)
  BY <1>1, <1>4, <1>5, HsAborted
<1>6. CASE UNCHANGED <<hs, hsNet>>
  BY <1>1, <1>2, <1>4, <1>6, HsWorks
<1> QED  BY <1>5, <1>6 DEF HsDropIncoming

LEMMA HsUpgradeKeeps ==
  ASSUME HsAssumption, HsInv, NEW k \in 1 .. hs.next - 1, HsUpgrade(k)
  PROVE  HsInv'
<1> DEFINE t == HsTr(k)
           c == [hs.conn[t] EXCEPT !.proto = "ws", !.input = <<>>, !.ended = TRUE, !.chunks = 0]
<1>1. /\ hsTok' = hsTok /\ hsApp[k].step = "ready" /\ hsNet' = hsNet /\ HsStep(k, "upgrading")
      /\ hs' = [hs EXCEPT !.conn[t] = c] /\ hs.conn[t].proto = "provide"
  <2>1. hs' = [hs EXCEPT !.conn[t] = c]
    BY DEF HsUpgrade
  <2> HIDE DEF c
  <2> QED  BY <2>1 DEF HsUpgrade, HsAt, HsConn
<1>2. t \in HsTrs /\ hs \in HsState /\ hs.conn[t] # HsNoConn /\ hs.conn[t] \in HsConnKind
  BY <1>1, HsReqIs, HsAccepted DEF HsNoConn
<1>3. c \in HsConnKind /\ c.proto = "ws" /\ c.err = hs.conn[t].err /\ c.proto \in HsBusy
  BY <1>2, HsWsSet
<1> HIDE DEF c
<1>4. /\ hs' \in HsState /\ hs'.timers = hs.timers /\ hs'.kick = hs.kick /\ hs'.next = hs.next
      /\ hs'.conn[t] = c /\ \A u \in HsTrs \ {t} : hs'.conn[u] = hs.conn[u]
  BY <1>1, <1>2, <1>3, HsConnSet
<1>5. /\ hsApp' \in HsApps /\ \A j \in HsReqs \ {k} : hsApp'[j] = hsApp[j]
      /\ hsApp'[k].t = hsApp[k].t /\ hsApp'[k].step = "upgrading"
  BY <1>1, HsStepIs DEF HsSteps
<1> QED  BY <1>1, <1>2, <1>3, <1>4, <1>5, HsWorks

LEMMA HsUpgradedKeeps ==
  ASSUME HsAssumption, HsInv, NEW k \in 1 .. hs.next - 1, NEW ok \in BOOLEAN, HsUpgraded(k, ok)
  PROVE  HsInv'
<1>1. hsTok' = hsTok /\ hsApp[k].step = "upgrading"
  BY DEF HsUpgraded, HsAt
<1>2. CASE HsAbort(k) /\ HsOver(k)
  BY <1>1, <1>2, HsOverIs, HsAborted
<1>3. CASE /\ hsApp' = [hsApp EXCEPT ![k].in = "gone", ![k].out = "ws", ![k].step = "ws"]
           /\ UNCHANGED <<hs, hsNet>>
  <2> DEFINE q == [hsApp[k] EXCEPT !.in = "gone", !.out = "ws", !.step = "ws"]
  <2>1. k \in HsReqs /\ hsApp[k] \in HsReqKind /\ hsApp \in HsApps /\ hs \in HsState
    BY HsReqIs DEF HsInv, HsTyped
  <2>2. q \in HsReqKind /\ q.t = hsApp[k].t /\ q.step = "ws"
    BY <2>1 DEF HsReqKind
  <2>3. hsApp' = [hsApp EXCEPT ![k] = q]
    BY <1>3, <2>1 DEF HsApps
  <2> HIDE DEF q
  <2>4. /\ hsApp' \in HsApps /\ \A j \in HsReqs \ {k} : hsApp'[j] = hsApp[j]
        /\ hsApp'[k].t = hsApp[k].t /\ hsApp'[k].step = "ws"
    BY <2>1, <2>2, <2>3 DEF HsApps
  <2> QED  BY <1>1, <1>3, <2>1, <2>4, HsWorks
<1> QED  BY <1>2, <1>3 DEF HsUpgraded

\* A chunk less (next_chunk).
HsFewer(c, b) == [c EXCEPT !.chunks = @ - 1, !.paused = b]
LEMMA HsFewerIs ==
  ASSUME NEW c \in HsConnKind, c.chunks > 0, NEW b \in BOOLEAN
  PROVE  LET d == HsFewer(c, b) IN d \in HsConnKind /\ d.proto = c.proto /\ d.err = c.err
<1> DEFINE d == HsFewer(c, b)
           n == c.chunks - 1
<1>1. n \in Nat
  BY DEF HsConnKind
<1>2. d = [c EXCEPT !.chunks = n, !.paused = b]
  BY DEF HsFewer
<1> HIDE DEF d, n
<1> QED  BY <1>1, <1>2 DEF HsConnKind, d

LEMMA HsReadKeeps ==
  ASSUME HsAssumption, HsInv, NEW k \in 1 .. hs.next - 1, HsRead(k)
  PROVE  HsInv'
<1> DEFINE t == HsTr(k)
           c == hs.conn[t]
<1>1. /\ hsTok' = hsTok /\ hsApp[k].step = "reading" /\ hsNet' = hsNet
      /\ "ready" \in HsSteps \ {"over"}
  BY DEF HsRead, HsAt, HsSteps
<1>2. /\ k \in HsReqs /\ hsApp[k] \in HsReqKind /\ hsApp \in HsApps /\ t \in HsTrs /\ hs \in HsState
      /\ hsNet \in HsNets /\ c \in {HsNoConn} \cup HsConnKind
  BY HsReqIs, HsAccepted DEF HsInv, HsTyped
<1>3. CASE HsStep(k, "ready") /\ UNCHANGED hs
  BY <1>1, <1>3, HsWaits
<1>4. CASE /\ c # HsNoConn /\ c.chunks > 0 /\ HsStep(k, "ready")
           /\ LET resume == c.paused /\ Len(c.input) + c.chunks - 1 <= HsLow
              IN  hs' = [hs EXCEPT !.conn[t].chunks = @ - 1, !.conn[t].paused = @ /\ ~resume]
  <2> DEFINE b == c.paused /\ ~(c.paused /\ Len(c.input) + c.chunks - 1 <= HsLow)
             d == HsFewer(c, b)
  <2>1. hs' = [hs EXCEPT !.conn[t] = d]
    BY <1>2, <1>4 DEF HsFewer, HsState
  <2>2. c \in HsConnKind /\ b \in BOOLEAN
    BY <1>2, <1>4
  <2> HIDE DEF b
  <2>3. d \in HsConnKind /\ d.proto = c.proto /\ d.err = c.err
    BY <1>4, <2>2, HsFewerIs
  <2>4. c.proto \in HsBusy
    <3>1. HsPlace(t, c, hsNet[t].st, hs.timers, hs.kick, hsApp) /\ HsLive(hsApp[k], t)
      BY <1>1, <1>2 DEF HsInv, HsLive, HsTr
    <3> QED  BY <1>2, <1>4, <2>2, <3>1 DEF HsPlace, HsConnKind
  <2> HIDE DEF d
  <2>5. /\ hs' \in HsState /\ hs'.timers = hs.timers /\ hs'.kick = hs.kick /\ hs'.next = hs.next
        /\ hs'.conn[t] = d /\ \A u \in HsTrs \ {t} : hs'.conn[u] = hs.conn[u]
    BY <1>2, <2>1, <2>3, HsConnSet
  <2>6. /\ hsApp' \in HsApps /\ \A j \in HsReqs \ {k} : hsApp'[j] = hsApp[j]
        /\ hsApp'[k].t = hsApp[k].t /\ hsApp'[k].step = "ready"
    BY <1>1, <1>4, HsStepIs
  <2> QED  BY <1>1, <1>4, <2>3, <2>4, <2>5, <2>6, HsWorks
<1>5. CASE c # HsNoConn /\ c.err /\ hs' = HsRemove(hs, t) /\ HsStep(k, "ready")
  <2>1. hsNet[t].st = "gone"
    BY <1>2, <1>5 DEF HsInv, HsPlace
  <2>2. /\ hs' \in HsState /\ hs'.timers = hs.timers /\ hs'.kick = hs.kick /\ hs'.next = hs.next
        /\ hs'.conn[t] = HsNoConn /\ \A u \in HsTrs \ {t} : hs'.conn[u] = hs.conn[u]
    BY <1>2, <1>5, HsRemoved
  <2>3. /\ hsApp' \in HsApps /\ \A j \in HsReqs \ {k} : hsApp'[j] = hsApp[j]
        /\ hsApp'[k].t = hsApp[k].t /\ hsApp'[k].step = "ready"
    BY <1>1, <1>5, HsStepIs
  <2> QED  BY <1>1, <1>2, <2>1, <2>2, <2>3, HsEnds
<1>6. CASE hsApp' = [hsApp EXCEPT ![k].step = "ready", ![k].in = "ended"] /\ UNCHANGED hs
  <2> DEFINE q == [hsApp[k] EXCEPT !.step = "ready", !.in = "ended"]
  <2>1. q \in HsReqKind /\ q.t = hsApp[k].t /\ q.step = "ready"
    BY <1>2 DEF HsReqKind
  <2>2. hsApp' = [hsApp EXCEPT ![k] = q]
    BY <1>2, <1>6 DEF HsApps
  <2> HIDE DEF q
  <2>3. /\ hsApp' \in HsApps /\ \A j \in HsReqs \ {k} : hsApp'[j] = hsApp[j]
        /\ hsApp'[k].t = hsApp[k].t /\ hsApp'[k].step = "ready"
    BY <1>2, <2>1, <2>2 DEF HsApps
  <2> QED  BY <1>1, <1>2, <1>6, <2>3, HsWorks
<1> QED  BY <1>3, <1>4, <1>5, <1>6 DEF HsRead, HsConn

LEMMA HsContinuedKeeps ==
  ASSUME HsAssumption, HsInv, NEW k \in 1 .. hs.next - 1, NEW ok \in BOOLEAN, HsContinued(k, ok)
  PROVE  HsInv'
<1> DEFINE t == HsTr(k)
           c == hs.conn[t]
           s == IF ok /\ hs'.conn[t].proto \notin {"lost", "none"} THEN "reading" ELSE "ready"
<1>1. /\ hsTok' = hsTok /\ hsApp[k].step = "continue" /\ hsNet' = hsNet /\ HsStep(k, s)
      /\ s \in HsSteps \ {"over"} /\ s \notin {"finishing", "left"}
  BY DEF HsContinued, HsAt, HsSteps
<1> HIDE DEF s
<1>2. k \in HsReqs /\ t \in HsTrs /\ hs \in HsState /\ c \in {HsNoConn} \cup HsConnKind
  BY HsReqIs, HsAccepted
<1>3. CASE hs' = hs
  BY <1>1, <1>3, HsWaits
<1>4. CASE c # HsNoConn /\ hs' = [hs EXCEPT !.conn[t] = HsProcess(@)]
  <2> DEFINE d == HsProcess(c)
  <2>1. c \in HsConnKind /\ c.proto # "recv"
    <3>1. HsPlace(t, c, hsNet[t].st, hs.timers, hs.kick, hsApp) /\ HsLive(hsApp[k], t)
      BY <1>1, <1>2 DEF HsInv, HsLive, HsTr
    <3> QED  BY <1>2, <1>4, <3>1 DEF HsPlace
  <2>2. d \in HsParsed /\ d.err = c.err /\ d.proto \in HsBusy /\ d.new = 0
    BY <2>1, HsProcessIs
  <2>3. hs' = [hs EXCEPT !.conn[t] = d]
    BY <1>2, <1>4 DEF HsState
  <2> HIDE DEF d
  <2>4. d \in HsConnKind
    BY <2>2 DEF HsParsed, HsConnKind
  <2>5. /\ hs' \in HsState /\ hs'.timers = hs.timers /\ hs'.kick = hs.kick /\ hs'.next = hs.next
        /\ hs'.conn[t] = d /\ \A u \in HsTrs \ {t} : hs'.conn[u] = hs.conn[u]
    BY <1>2, <2>3, <2>4, HsConnSet
  <2>6. /\ hsApp' \in HsApps /\ \A j \in HsReqs \ {k} : hsApp'[j] = hsApp[j]
        /\ hsApp'[k].t = hsApp[k].t /\ hsApp'[k].step \notin {"over", "finishing", "left"}
    BY <1>1, HsStepIs
  <2> QED  BY <1>1, <1>4, <2>2, <2>4, <2>5, <2>6, HsWorks
<1> QED  BY <1>3, <1>4 DEF HsContinued, HsConn

\* A connection that goes while no handle of its requests changes.
LEMMA HsGoes ==
  ASSUME HsAssumption, HsInv, NEW t \in HsTrs,
         hs' \in HsState, hsNet' \in HsNets, hsTok' \in Nat, hsApp' = hsApp, hs'.next = hs.next,
         hs.conn[t].proto # "responding",
         hs'.conn[t] = HsNoConn, hsNet'[t].st \notin {"up", "none"},
         \A u \in HsTrs \ {t} : /\ hs'.conn[u] = hs.conn[u] /\ hsNet'[u].st = hsNet[u].st
                                /\ u \in hs'.kick <=> u \in hs.kick,
         \A x \in hs.timers : x.t # t => x \in hs'.timers
  PROVE  HsInv'
<1>1. HsTyped' /\ HsElsewhere(t)
  BY DEF HsInv, HsTyped, HsElsewhere
<1>2. HsPlace(t, hs.conn[t], hsNet[t].st, hs.timers, hs.kick, hsApp)
  BY DEF HsInv
<1>3. HsPlace(t, hs'.conn[t], hsNet'[t].st, hs'.timers, hs'.kick, hsApp')
  BY <1>2 DEF HsPlace
<1> QED  BY <1>1, <1>3, HsFrame

\* A transport and its connection as they are for the requests.
LEMMA HsAtPlace ==
  ASSUME HsAssumption, HsInv, NEW t \in HsTrs
  PROVE  /\ hs \in HsState /\ hsNet \in HsNets /\ hsApp \in HsApps /\ hsTok \in Nat
         /\ hs.conn[t] \in {HsNoConn} \cup HsConnKind /\ hs.next \in 1 .. HsMaxReq + 1
         /\ HsPlace(t, hs.conn[t], hsNet[t].st, hs.timers, hs.kick, hsApp)
         /\ hs.conn[t] # HsNoConn => hsNet[t].st # "none"
BY DEF HsInv, HsTyped, HsState, HsPlace

LEMMA HsListenerKeeps ==
  ASSUME HsAssumption, HsInv, HsBind \/ HsListenerClosed \/ \E ok \in BOOLEAN : HsBound(ok)
  PROVE  HsInv'
<1>1. PICK l \in {"bound", "started", "gone"} : hs' = [hs EXCEPT !.listener = l]
  BY DEF HsBind, HsListenerClosed, HsBound
<1>2. hsApp' = hsApp /\ hsNet' = hsNet /\ hsTok' = hsTok
  BY DEF HsBind, HsListenerClosed, HsBound
<1>3. /\ hs' \in HsState /\ hs'.conn = hs.conn /\ hs'.timers = hs.timers /\ hs'.kick = hs.kick
      /\ hs'.next = hs.next
  BY <1>1 DEF HsState, HsInv, HsTyped
<1> QED  BY <1>2, <1>3 DEF HsInv, HsTyped

HsFirst == [proto |-> "recv", input |-> <<>>, chunks |-> 0, ended |-> FALSE, err |-> FALSE,
            paused |-> FALSE, gen |-> 1, new |-> 0]
LEMMA HsInserted ==
  ASSUME HsAssumption, NEW w \in HsState, NEW t \in HsTrs
  PROVE  LET v == HsInsert(w, t)
         IN  /\ v \in HsState /\ v.kick = w.kick /\ v.next = w.next
             /\ v.timers = w.timers \cup {[t |-> t, gen |-> 1]}
             /\ v.conn[t] = HsFirst /\ \A u \in HsTrs \ {t} : v.conn[u] = w.conn[u]
             /\ HsFirst \in HsConnKind
<1>1. <<>> \in Seq(HsAll) /\ 0 \in Nat /\ 1 \in Nat /\ FALSE \in BOOLEAN
  OBVIOUS
<1>2. HsFirst \in HsConnKind
  BY <1>1, Zenon DEF HsFirst, HsConnKind
<1> DEFINE v == HsInsert(w, t)
           ts == w.timers \cup {[t |-> t, gen |-> 1]}
<1>3. v = [w EXCEPT !.conn[t] = HsFirst, !.timers = ts]
  BY DEF HsInsert, HsFirst
<1>4. ts \in SUBSET [t : HsTrs, gen : Nat]
  BY DEF HsState
<1>5. [w.conn EXCEPT ![t] = HsFirst] \in [HsTrs -> {HsNoConn} \cup HsConnKind]
  BY <1>2 DEF HsState
<1> HIDE DEF ts, v
<1>6. /\ v \in HsState /\ v.kick = w.kick /\ v.next = w.next /\ v.timers = ts
      /\ v.conn[t] = HsFirst /\ \A u \in HsTrs \ {t} : v.conn[u] = w.conn[u]
  BY <1>2, <1>3, <1>4, <1>5 DEF HsState
<1> QED  BY <1>2, <1>6 DEF v, ts

LEMMA HsAcceptKeeps ==
  ASSUME HsAssumption, HsInv, NEW t \in HsTrs, HsAccept(t)
  PROVE  HsInv'
<1>1. /\ hsNet[t].st = "none" /\ hsApp' = hsApp /\ hsTok' = hsTok
  BY DEF HsAccept
<1>2. /\ hs \in HsState /\ hsNet \in HsNets /\ hsApp \in HsApps /\ hsTok \in Nat
      /\ HsPlace(t, hs.conn[t], hsNet[t].st, hs.timers, hs.kick, hsApp)
  BY HsAtPlace
<1> DEFINE v == HsInsert(hs, t)
<1>3. /\ v \in HsState /\ v.kick = hs.kick /\ v.next = hs.next
      /\ v.timers = hs.timers \cup {[t |-> t, gen |-> 1]}
      /\ v.conn[t] = HsFirst /\ \A u \in HsTrs \ {t} : v.conn[u] = hs.conn[u]
      /\ HsFirst \in HsConnKind
  BY <1>2, HsInserted
<1> HIDE DEF v
<1>4. CASE hs' = v /\ hsNet' = [hsNet EXCEPT ![t].st = "up"]
  <2>1. /\ hsNet' \in HsNets /\ hsNet'[t].st = "up"
        /\ \A u \in HsTrs \ {t} : hsNet'[u].st = hsNet[u].st
    BY <1>2, <1>4 DEF HsNets
  <2>2. HsTyped' /\ HsElsewhere(t)
    BY <1>1, <1>2, <1>3, <1>4, <2>1 DEF HsInv, HsTyped, HsElsewhere
  <2>3. HsFirst.proto = "recv" /\ HsFirst.gen = 1 /\ HsFirst.input = <<>> /\ HsFirst.err = FALSE
        /\ HsFirst # HsNoConn
    BY DEF HsFirst, HsNoConn
  <2>4. \A k \in HsReqs : ~HsLive(hsApp[k], t) /\ ~HsEnding(hsApp[k], t)
    BY <1>1, <1>2 DEF HsPlace, HsLive, HsEnding
  <2>5. HsPlace(t, hs'.conn[t], hsNet'[t].st, hs'.timers, hs'.kick, hsApp')
    BY <1>1, <1>3, <1>4, <2>1, <2>3, <2>4 DEF HsPlace
  <2> QED  BY <2>2, <2>5, HsFrame
<1>5. CASE hs' = HsRemove(v, t) /\ hsNet' = [hsNet EXCEPT ![t].st = "gone"]
  <2>1. /\ hsNet' \in HsNets /\ hsNet'[t].st = "gone"
        /\ \A u \in HsTrs \ {t} : hsNet'[u].st = hsNet[u].st
    BY <1>2, <1>5 DEF HsNets
  <2>2. /\ hs' \in HsState /\ hs'.timers = v.timers /\ hs'.kick = v.kick /\ hs'.next = v.next
        /\ hs'.conn[t] = HsNoConn /\ \A u \in HsTrs \ {t} : hs'.conn[u] = v.conn[u]
    BY <1>3, <1>5, HsRemoved
  <2>3. hs.conn[t].proto # "responding"
    BY <1>1, <1>2 DEF HsPlace, HsNoConn
  <2> QED  BY <1>1, <1>2, <1>3, <2>1, <2>2, <2>3, HsGoes
<1> QED  BY <1>4, <1>5 DEF HsAccept, v

LEMMA HsHeaderTimeoutKeeps ==
  ASSUME HsAssumption, HsInv, NEW tm \in hs.timers, HsHeaderTimeout(tm)
  PROVE  HsInv'
<1> DEFINE t == tm.t
           w == [hs EXCEPT !.timers = @ \ {tm}]
           late == hs.conn[t].proto = "recv" /\ hs.conn[t].gen = tm.gen
           S == IF late THEN {t} ELSE {}
<1>1. hsApp' = hsApp /\ hsTok' = hsTok /\ hs' = (IF late THEN HsRemove(w, t) ELSE w)
      /\ hsNet' = HsClosing(hsNet, S)
  BY DEF HsHeaderTimeout, HsShut
<1>2. t \in HsTrs /\ tm = [t |-> t, gen |-> tm.gen]
  BY DEF HsInv, HsTyped, HsState
<1>3. /\ hs \in HsState /\ hsNet \in HsNets /\ hsApp \in HsApps /\ hsTok \in Nat
      /\ hs.conn[t] \in {HsNoConn} \cup HsConnKind
      /\ HsPlace(t, hs.conn[t], hsNet[t].st, hs.timers, hs.kick, hsApp)
      /\ hs.conn[t] # HsNoConn => hsNet[t].st # "none"
  BY <1>2, HsAtPlace
<1>4. /\ w \in HsState /\ w.conn = hs.conn /\ w.timers = hs.timers \ {tm} /\ w.kick = hs.kick
      /\ w.next = hs.next
  BY <1>3 DEF HsState
<1>5. (late => t \in S) /\ (~late => S = {}) /\ \A u \in HsTrs \ {t} : u \notin S
  OBVIOUS
<1> HIDE DEF w, S
<1>6. /\ hsNet' \in HsNets /\ \A u \in HsTrs : u # t \/ ~late => hsNet'[u].st = hsNet[u].st
      /\ late => hsNet'[t].st # "up" /\ (hsNet[t].st # "none" => hsNet'[t].st # "none")
  BY <1>1, <1>2, <1>3, <1>5, HsClosingIs DEF HsNets
<1>7. CASE late
  <2>1. /\ hs' \in HsState /\ hs'.timers = w.timers /\ hs'.kick = w.kick /\ hs'.next = w.next
        /\ hs'.conn[t] = HsNoConn /\ \A u \in HsTrs \ {t} : hs'.conn[u] = w.conn[u]
    BY <1>1, <1>2, <1>4, <1>7, HsRemoved
  <2>2. hs.conn[t] # HsNoConn
    BY <1>7 DEF HsNoConn
  <2>3. hsNet'[t].st \notin {"up", "none"}
    BY <1>3, <1>6, <1>7, <2>2
  <2>4. \A x \in hs.timers : x.t # t => x \in hs'.timers
    BY <1>4, <2>1
  <2>5. hs.conn[t].proto # "responding"
    BY <1>7
  <2> QED  BY <1>1, <1>2, <1>3, <1>4, <1>6, <2>1, <2>3, <2>4, <2>5, HsGoes
<1>8. CASE ~late
  <2>1. hs' = w
    BY <1>1, <1>8
  <2>2. HsTyped' /\ HsElsewhere(t)
    BY <1>1, <1>3, <1>4, <1>6, <1>8, <2>1 DEF HsInv, HsTyped, HsElsewhere
  <2>3. hs.conn[t].proto = "recv" => [t |-> t, gen |-> hs.conn[t].gen] # tm
    BY <1>2, <1>8
  <2>4. HsPlace(t, hs'.conn[t], hsNet'[t].st, hs'.timers, hs'.kick, hsApp')
    BY <1>1, <1>2, <1>3, <1>4, <1>6, <1>8, <2>1, <2>3 DEF HsPlace
  <2> QED  BY <1>2, <2>2, <2>4, HsFrame
<1> QED  BY <1>7, <1>8

\* A request finds the error of its transport (closed).
HsBroken(c) == [c EXCEPT !.err = TRUE, !.ended = TRUE]
LEMMA HsBrokenIs ==
  ASSUME NEW c \in HsConnKind
  PROVE  LET d == HsBroken(c) IN d \in HsConnKind /\ d.proto = c.proto
<1> DEFINE d == HsBroken(c)
<1>1. d = [c EXCEPT !.err = TRUE, !.ended = TRUE]
  BY DEF HsBroken
<1> HIDE DEF d
<1>2. d = [proto |-> c.proto, input |-> c.input, chunks |-> c.chunks, ended |-> TRUE, err |-> TRUE,
           paused |-> c.paused, gen |-> c.gen, new |-> c.new]
  BY <1>1 DEF HsConnKind
<1>3. /\ c.proto \in {"recv"} \cup HsBusy /\ c.input \in Seq(HsAll) /\ c.chunks \in Nat
      /\ c.paused \in BOOLEAN /\ c.gen \in Nat /\ c.new \in {0} /\ TRUE \in BOOLEAN
  BY DEF HsConnKind
<1>4. d \in HsConnKind
  BY <1>2, <1>3, Zenon DEF HsConnKind
<1>5. d.proto = c.proto
  BY <1>2
<1> QED  BY <1>4, <1>5 DEF d

LEMMA HsClosedKeeps ==
  ASSUME HsAssumption, HsInv, NEW t \in HsTrs, HsClosed(t)
  PROVE  HsInv'
<1> DEFINE c == hs.conn[t]
<1>1. /\ hs \in HsState /\ hsNet \in HsNets /\ hsApp \in HsApps /\ hsTok \in Nat
      /\ c \in {HsNoConn} \cup HsConnKind
      /\ HsPlace(t, c, hsNet[t].st, hs.timers, hs.kick, hsApp)
  BY HsAtPlace
<1>2. hsApp' = hsApp /\ hsTok' = hsTok /\ hsNet' = [hsNet EXCEPT ![t].st = "gone"]
  BY DEF HsClosed
<1>3. /\ hsNet' \in HsNets /\ hsNet'[t].st = "gone"
      /\ \A u \in HsTrs \ {t} : hsNet'[u].st = hsNet[u].st
  BY <1>1, <1>2 DEF HsNets
<1>4. CASE c.proto \in {"recv", "ws"}
  <2>1. c # HsNoConn
    BY <1>4 DEF HsNoConn
  <2>2. hs' = HsRemove(hs, t)
    BY <1>4, <2>1 DEF HsClosed
  <2>3. /\ hs' \in HsState /\ hs'.timers = hs.timers /\ hs'.kick = hs.kick /\ hs'.next = hs.next
        /\ hs'.conn[t] = HsNoConn /\ \A u \in HsTrs \ {t} : hs'.conn[u] = hs.conn[u]
    BY <1>1, <2>2, HsRemoved
  <2>4. c.proto # "responding"
    BY <1>4
  <2> QED  BY <1>1, <1>2, <1>3, <2>3, <2>4, HsGoes
<1>5. CASE c = HsNoConn
  <2>1. hs' = hs /\ c.proto # "responding"
    BY <1>5 DEF HsClosed, HsNoConn
  <2> QED  BY <1>1, <1>2, <1>3, <1>5, <2>1, HsGoes
<1>6. CASE c # HsNoConn /\ c.proto \notin {"recv", "ws"}
  <2> DEFINE d == HsBroken(c)
  <2>1. hs' = [hs EXCEPT !.conn[t] = d]
    BY <1>1, <1>6 DEF HsClosed, HsBroken, HsState
  <2>2. c \in HsConnKind
    BY <1>1, <1>6
  <2>3. d \in HsConnKind /\ d.proto = c.proto
    BY <2>2, HsBrokenIs
  <2> HIDE DEF d
  <2>4. /\ hs' \in HsState /\ hs'.timers = hs.timers /\ hs'.kick = hs.kick /\ hs'.next = hs.next
        /\ hs'.conn[t] = d /\ \A u \in HsTrs \ {t} : hs'.conn[u] = hs.conn[u]
    BY <1>1, <2>1, <2>3, HsConnSet
  <2>5. HsTyped' /\ HsElsewhere(t)
    BY <1>1, <1>2, <1>3, <2>4 DEF HsInv, HsTyped, HsElsewhere
  <2>6. HsPlace(t, hs'.conn[t], hsNet'[t].st, hs'.timers, hs'.kick, hsApp')
    BY <1>1, <1>2, <1>3, <1>6, <2>3, <2>4 DEF HsPlace
  <2> QED  BY <2>5, <2>6, HsFrame
<1> QED  BY <1>4, <1>5, <1>6

LEMMA HsPauseIs ==
  ASSUME NEW c \in HsParsed
  PROVE  LET d == HsPause(c)
         IN  /\ d \in HsParsed /\ d.proto = c.proto /\ d.err = c.err /\ d.new = c.new
             /\ d.gen = c.gen /\ d.input = c.input
<1>1. CASE HsPause(c) = c
  BY <1>1
<1>2. CASE HsPause(c) = [c EXCEPT !.paused = TRUE]
  <2> DEFINE d == HsPause(c)
  <2>1. d = [c EXCEPT !.paused = TRUE]
    BY <1>2
  <2> HIDE DEF d
  <2>2. d = [proto |-> c.proto, input |-> c.input, chunks |-> c.chunks, ended |-> c.ended,
             err |-> c.err, paused |-> TRUE, gen |-> c.gen, new |-> c.new]
    BY <2>1 DEF HsParsed
  <2>3. /\ c.proto \in {"recv"} \cup HsBusy /\ c.input \in Seq(HsAll) /\ c.chunks \in Nat
        /\ c.ended \in BOOLEAN /\ c.err \in BOOLEAN /\ TRUE \in BOOLEAN /\ c.gen \in Nat
        /\ c.new \in {0, 1}
    BY DEF HsParsed
  <2>4. d \in HsParsed
    BY <2>2, <2>3, Zenon DEF HsParsed
  <2>5. /\ d.proto = c.proto /\ d.err = c.err /\ d.new = c.new
        /\ d.gen = c.gen /\ d.input = c.input
    BY <2>2, Zenon
  <2> QED  BY <2>4, <2>5 DEF d
<1> QED  BY <1>1, <1>2 DEF HsPause

LEMMA HsFedIs ==
  ASSUME NEW c \in HsConnKind, NEW input \in Seq(HsAll)
  PROVE  LET d == HsFed(c, input)
         IN  /\ d \in HsConnKind /\ d.proto = c.proto /\ d.err = c.err /\ d.gen = c.gen
<1> DEFINE in == IF c.proto = "ws" THEN c.input ELSE c.input \o input
           d == HsFed(c, input)
<1>1. in \in Seq(HsAll)
  BY DEF HsConnKind
<1>2. d = [c EXCEPT !.input = in]
  BY DEF HsFed
<1> HIDE DEF in, d
<1> QED  BY <1>1, <1>2 DEF HsConnKind, d

\* The connection of transport t has been processed: it is busy or waits as before, and
\* a request is handed out if it was waiting (data).
LEMMA HsTakeKeeps ==
  ASSUME HsAssumption, HsInv, NEW t \in HsTrs, NEW input \in Seq(HsAll), NEW n \in HsNets,
         \A u \in HsTrs : n[u].st = hsNet[u].st, hs.conn[t] # HsNoConn, HsTake(t, input, n),
         hsTok' \in Nat
  PROVE  HsInv'
<1> DEFINE o == hs.conn[t]
           f == HsFed(o, input)
           c == HsProcess(f)
           kick == IF input = <<>> THEN hs.kick \ {t} ELSE hs.kick
           w == [hs EXCEPT !.kick = kick]
<1>1. /\ hs \in HsState /\ hsNet \in HsNets /\ hsApp \in HsApps /\ hsNet[t].st # "none"
      /\ o \in HsConnKind /\ hs.next \in 1 .. HsMaxReq + 1 /\ HsMaxReq \in Nat
      /\ HsPlace(t, o, hsNet[t].st, hs.timers, hs.kick, hsApp)
  BY HsAtPlace DEF HsAssumption
<1>2. f \in HsConnKind /\ f.proto = o.proto /\ f.err = o.err /\ f.gen = o.gen
  BY <1>1, HsFedIs
<1>3. \/ /\ c.proto = "lost" /\ hs' = HsRemove(w, t) /\ hsNet' = HsClosing(n, {t}) /\ hsApp' = hsApp
      \/ /\ c.proto # "lost" /\ hs.next + c.new <= HsMaxReq + 1
         /\ HsHand([w EXCEPT !.conn[t] = HsPause(c)], t) /\ hsNet' = n
  BY DEF HsTake
<1>4. /\ w \in HsState /\ w.conn = hs.conn /\ w.timers = hs.timers /\ w.kick = kick
      /\ w.next = hs.next /\ \A u \in HsTrs \ {t} : u \in kick <=> u \in hs.kick
  BY <1>1 DEF HsState
<1> HIDE DEF w, kick, f
<1>5. /\ c \in HsParsed /\ c.err = f.err
      /\ f.proto = "recv" /\ f.input = <<>> => c = f
      /\ f.proto # "recv" => c.proto \in HsBusy /\ c.new = 0
      /\ f.proto = "responding" => c.proto = "responding"
      /\ f.proto = "recv" /\ f.input # <<>> =>
           c.proto \in HsBusy /\ (c.proto # "lost" => c.new = 1)
  BY <1>2, HsProcessIs
<1> HIDE DEF c
<1>6. CASE c.proto = "lost" /\ hs' = HsRemove(w, t) /\ hsNet' = HsClosing(n, {t}) /\ hsApp' = hsApp
  <2>1. /\ hs' \in HsState /\ hs'.timers = w.timers /\ hs'.kick = w.kick /\ hs'.next = w.next
        /\ hs'.conn[t] = HsNoConn /\ \A u \in HsTrs \ {t} : hs'.conn[u] = w.conn[u]
    BY <1>4, <1>6, HsRemoved
  <2>2. /\ hsNet' \in HsNets /\ hsNet'[t].st \notin {"up", "none"}
        /\ \A u \in HsTrs \ {t} : hsNet'[u].st = hsNet[u].st
    <3> DEFINE S == {t}
    <3>1. hsNet' = HsClosing(n, S) /\ t \in S /\ \A u \in HsTrs \ {t} : u \notin S
      BY <1>6
    <3> HIDE DEF S
    <3> QED  BY <1>1, <3>1, HsClosingIs, SMTT(30) DEF HsNets
  <2>3. hs.conn[t].proto # "responding"
    BY <1>2, <1>5, <1>6
  <2> QED  BY <1>1, <1>4, <1>6, <2>1, <2>2, <2>3, HsGoes, ZenonT(40)
<1>7. CASE /\ c.proto # "lost" /\ hs.next + c.new <= HsMaxReq + 1
           /\ HsHand([w EXCEPT !.conn[t] = HsPause(c)], t) /\ hsNet' = n
  <2> DEFINE e == HsPause(c)
             v == [w EXCEPT !.conn[t] = e]
             d == [e EXCEPT !.new = 0]
  <2>1. /\ e \in HsParsed /\ e.proto = c.proto /\ e.err = c.err /\ e.new = c.new
        /\ e.gen = c.gen /\ e.input = c.input
    BY <1>5, HsPauseIs
  <2> HIDE DEF e
  <2>2. /\ d \in HsConnKind /\ d.proto = c.proto /\ d.err = c.err /\ d.gen = c.gen
        /\ d.input = c.input
    BY <2>1 DEF HsParsed, HsConnKind
  <2>3. v.conn[t] = e /\ v.next = hs.next
    BY <1>4 DEF HsState
  <2>4. /\ hs' = [w EXCEPT !.conn = [w.conn EXCEPT ![t] = d], !.next = hs.next + c.new]
        /\ hsApp' = IF c.new = 0 THEN hsApp
                    ELSE [hsApp EXCEPT ![hs.next] = [t |-> t, in |-> "active", out |-> "responder",
                                                     step |-> "ready"]]
    <3>1. /\ hs' = [v EXCEPT !.conn[t].new = 0, !.next = @ + v.conn[t].new]
          /\ hsApp' = IF v.conn[t].new = 0 THEN hsApp
                      ELSE [hsApp EXCEPT ![v.next] = [t |-> t, in |-> "active",
                                                      out |-> "responder", step |-> "ready"]]
      BY <1>7 DEF HsHand, e
    <3>2. hs' = [w EXCEPT !.conn = [w.conn EXCEPT ![t] = d], !.next = hs.next + c.new]
      BY <1>4, <2>1, <2>3, <3>1 DEF HsState
    <3> QED  BY <2>1, <2>3, <3>1, <3>2
  <2> HIDE DEF d, v
  <2>5. /\ [w.conn EXCEPT ![t] = d] \in [HsTrs -> {HsNoConn} \cup HsConnKind]
        /\ hs.next + c.new \in 1 .. HsMaxReq + 1
    BY <1>1, <1>4, <1>5, <1>7, <2>2 DEF HsState, HsParsed
  <2>6. /\ hs' \in HsState /\ hs'.timers = hs.timers /\ hs'.kick = kick
        /\ hs'.next = hs.next + c.new
        /\ hs'.conn[t] = d /\ \A u \in HsTrs \ {t} : hs'.conn[u] = hs.conn[u]
    BY <1>4, <2>4, <2>5 DEF HsState
  <2>7. d # HsNoConn
    BY <2>2 DEF HsConnKind, HsNoConn, HsBusy
  <2>8. CASE c.new = 0
    <3>1. hsApp' = hsApp /\ hs'.next = hs.next
      BY <1>1, <2>4, <2>6, <2>8
    <3>2. HsTyped' /\ HsElsewhere(t)
      BY <1>1, <1>4, <1>7, <2>6, <3>1 DEF HsInv, HsTyped, HsElsewhere
    <3>3. \/ d.proto = "recv" /\ d.input = <<>> /\ d.gen = o.gen /\ o.proto = "recv"
          \/ /\ d.proto # "recv" /\ o.proto # "recv"
             /\ o.proto = "responding" => d.proto = "responding"
      BY <1>2, <1>5, <1>7, <2>2, <2>8 DEF HsBusy
    <3>4. HsPlace(t, hs'.conn[t], hsNet'[t].st, hs'.timers, hs'.kick, hsApp')
      BY <1>1, <1>2, <1>5, <1>7, <2>2, <2>6, <2>7, <3>1, <3>3 DEF HsPlace
    <3> QED  BY <3>2, <3>4, HsFrame
  <2>9. CASE c.new # 0
    <3> DEFINE k == hs.next
               q == [t |-> t, in |-> "active", out |-> "responder", step |-> "ready"]
    <3>1. c.new = 1 /\ hs'.next = k + 1 /\ k \in HsReqs
      BY <1>1, <1>5, <1>7, <2>6, <2>9 DEF HsParsed, HsReqs
    <3>2. hsApp' = [hsApp EXCEPT ![k] = q]
      BY <2>4, <2>9
    <3>3. hsApp[k] = HsNoReq /\ HsNoReq.t = 0 /\ q \in HsReqKind /\ q # HsNoReq
      BY <1>1, <3>1 DEF HsInv, HsTyped, HsNoReq, HsReqKind, HsAssumption
    <3>4. q.t = t /\ q.step = "ready"
      OBVIOUS
    <3> HIDE DEF q
    <3>5. hsApp' \in HsApps /\ hsApp'[k] = q /\ \A j \in HsReqs \ {k} : hsApp'[j] = hsApp[j]
      BY <1>1, <3>1, <3>2, <3>3 DEF HsApps
    <3>6. \A j \in HsReqs : hsApp'[j] = HsNoReq <=> hs'.next <= j
      <4>1. \A j \in HsReqs : hsApp[j] = HsNoReq <=> hs.next <= j
        BY DEF HsInv, HsTyped
      <4>2. \A j \in HsReqs : j # k => (hs.next <= j <=> hs'.next <= j)
        BY <1>1, <3>1 DEF HsReqs
      <4>3. ~(hs'.next <= k)
        BY <1>1, <3>1
      <4> QED  BY <3>3, <3>5, <4>1, <4>2, <4>3
    <3>7. HsTyped' /\ HsElsewhere(t)
      BY <1>1, <1>4, <1>7, <2>6, <3>1, <3>3, <3>4, <3>5, <3>6 DEF HsTyped, HsElsewhere
    <3>8. o.proto = "recv" /\ d.proto # "recv"
      BY <1>2, <1>5, <1>7, <2>2, <2>9 DEF HsBusy, HsConnKind
    <3>9. \A j \in HsReqs : (HsLive(hsApp'[j], t) <=> j = k) /\ ~HsEnding(hsApp'[j], t)
      BY <1>1, <3>1, <3>4, <3>5, <3>8 DEF HsPlace, HsLive, HsEnding
    <3>10. HsPlace(t, hs'.conn[t], hsNet'[t].st, hs'.timers, hs'.kick, hsApp')
      BY <1>1, <1>2, <1>5, <1>7, <2>2, <2>6, <2>7, <3>1, <3>8, <3>9 DEF HsPlace
    <3> QED  BY <3>7, <3>10, HsFrame
  <2> QED  BY <2>8, <2>9
<1> QED  BY <1>3, <1>6, <1>7

LEMMA HsDataKeeps ==
  ASSUME HsAssumption, HsInv, NEW t \in HsTrs, NEW tok \in HsTokens(hsNet[t].at), HsData(t, tok)
  PROVE  HsInv'
<1> DEFINE n == [hsNet EXCEPT ![t].at = HsAfter(@, tok)]
           input == <<tok>>
<1>1. /\ hs \in HsState /\ hsNet \in HsNets /\ hsApp \in HsApps /\ hsTok \in Nat
      /\ HsPlace(t, hs.conn[t], hsNet[t].st, hs.timers, hs.kick, hsApp)
  BY HsAtPlace
<1>2. /\ hsTok' = hsTok + 1 /\ hsNet[t].st # "none"
      /\ IF hs.conn[t] = HsNoConn THEN hsNet' = n /\ UNCHANGED <<hs, hsApp>>
         ELSE HsTake(t, input, n)
  BY DEF HsData
<1>3. hsTok' \in Nat /\ tok \in HsAll
  BY <1>1, <1>2 DEF HsTokens, HsAll
<1>4. input \in Seq(HsAll)
  BY <1>3
<1>5. HsAfter(hsNet[t].at, tok) \in {"start", "body"}
  BY <1>1 DEF HsNets, HsAfter
<1>6. n \in HsNets /\ \A u \in HsTrs : n[u].st = hsNet[u].st
  BY <1>1, <1>5 DEF HsNets
<1> HIDE DEF n, input
<1>7. CASE hs.conn[t] # HsNoConn
  BY <1>2, <1>3, <1>4, <1>6, <1>7, HsTakeKeeps
<1>8. CASE hs.conn[t] = HsNoConn
  <2>1. hsNet' = n /\ hs' = hs /\ hsApp' = hsApp
    BY <1>2, <1>8
  <2> QED  BY <1>3, <1>6, <2>1 DEF HsInv, HsTyped
<1> QED  BY <1>7, <1>8

LEMMA HsKickKeeps ==
  ASSUME HsAssumption, HsInv, NEW t \in HsTrs, HsKick(t)
  PROVE  HsInv'
<1>1. /\ hs \in HsState /\ hsNet \in HsNets /\ hsApp \in HsApps /\ hsTok \in Nat
      /\ HsPlace(t, hs.conn[t], hsNet[t].st, hs.timers, hs.kick, hsApp)
  BY HsAtPlace
<1>2. hsTok' = hsTok
  BY DEF HsKick
<1>3. CASE hs.conn[t] # HsNoConn
  <2> DEFINE input == <<>>
  <2>1. input \in Seq(HsAll) /\ HsTake(t, input, hsNet)
    BY <1>3 DEF HsKick
  <2> HIDE DEF input
  <2> QED  BY <1>1, <1>2, <1>3, <2>1, HsTakeKeeps
<1>4. CASE hs.conn[t] = HsNoConn
  <2>1. hs' = [hs EXCEPT !.kick = @ \ {t}] /\ hsApp' = hsApp /\ hsNet' = hsNet
    BY <1>4 DEF HsKick
  <2>2. /\ hs' \in HsState /\ hs'.conn = hs.conn /\ hs'.timers = hs.timers
        /\ hs'.kick = hs.kick \ {t} /\ hs'.next = hs.next
    BY <1>1, <2>1 DEF HsState
  <2>3. HsTyped' /\ HsElsewhere(t)
    BY <1>1, <1>2, <2>1, <2>2 DEF HsInv, HsTyped, HsElsewhere
  <2>4. HsPlace(t, hs'.conn[t], hsNet'[t].st, hs'.timers, hs'.kick, hsApp')
    BY <1>1, <1>4, <2>1, <2>2 DEF HsPlace
  <2> QED  BY <2>3, <2>4, HsFrame
<1> QED  BY <1>3, <1>4

LEMMA HsNetFlowKeeps ==
  ASSUME HsAssumption, HsInv, NEW t \in HsTrs, HsNetFlow(t)
  PROVE  HsInv'
<1>1. hs \in HsState /\ hsNet \in HsNets /\ hs.conn[t] \in HsConnKind
  BY HsAtPlace DEF HsNetFlow
<1>2. /\ hs' = hs /\ hsApp' = hsApp /\ hsTok' = hsTok
      /\ hsNet' = [hsNet EXCEPT ![t].quiet = hs.conn[t].paused]
  BY DEF HsNetFlow
<1>3. hs.conn[t].paused \in BOOLEAN
  BY <1>1 DEF HsConnKind
<1>4. hsNet' \in HsNets /\ \A u \in HsTrs : hsNet'[u].st = hsNet[u].st
  BY <1>1, <1>2, <1>3 DEF HsNets
<1> QED  BY <1>2, <1>4 DEF HsInv, HsTyped

(* The invariant of the HTTP server is inductive: every connection that is *)
(* busy has exactly one request that is not over, one that waits for a     *)
(* request has none, its timer, and an empty Data event for input that is  *)
(* there; while a request waits in finish, or was left there, its          *)
(* connection answers (process, finish_response, finish, abort, closed).   *)
THEOREM HsInductive == HsSpec => []HsInv
<1> USE HsAssumption
<1>1. HsInit => HsInv
  <2> SUFFICES ASSUME HsInit PROVE HsInv
    OBVIOUS
  <2>1. HsMaxReq \in Nat /\ 1 \in 1 .. HsMaxReq + 1
    BY DEF HsAssumption
  <2>2. HsTyped
    <3>1. hs \in HsState
      BY <2>1 DEF HsInit, HsState
    <3>2. hsNet \in HsNets /\ hsApp \in HsApps /\ hsTok \in Nat
      BY DEF HsInit, HsNets, HsApps
    <3>3. \A k \in HsReqs : hsApp[k] = HsNoReq <=> hs.next <= k
      BY <2>1 DEF HsInit, HsReqs
    <3> QED  BY <3>1, <3>2, <3>3 DEF HsTyped
  <2>3. \A t \in HsTrs : hs.conn[t] = HsNoConn /\ hsNet[t].st = "none"
    BY DEF HsInit
  <2>4. \A k \in HsReqs : hsApp[k].t = 0
    BY DEF HsInit, HsNoReq
  <2> QED  BY <2>2, <2>3, <2>4 DEF HsInv, HsPlace, HsLive, HsEnding, HsAssumption
<1>2. HsInv /\ [HsNext]_hsVars => HsInv'
  <2> SUFFICES ASSUME HsInv, [HsNext]_hsVars PROVE HsInv'
    OBVIOUS
  <2>1. CASE HsBind \/ HsListenerClosed \/ \E ok \in BOOLEAN : HsBound(ok)
    BY <2>1, HsListenerKeeps
  <2>2. CASE \E t \in HsTrs : HsAccept(t) \/ HsKick(t) \/ HsClosed(t) \/ HsNetFlow(t)
    BY <2>2, HsAcceptKeeps, HsKickKeeps, HsClosedKeeps, HsNetFlowKeeps
  <2>3. CASE \E t \in HsTrs : \E tok \in HsTokens(hsNet[t].at) : HsData(t, tok)
    BY <2>3, HsDataKeeps
  <2>4. CASE \E tm \in hs.timers : HsHeaderTimeout(tm)
    BY <2>4, HsHeaderTimeoutKeeps
  <2>5. CASE \E k \in 1 .. hs.next - 1 : \/ HsNextChunk(k) \/ HsRead(k) \/ HsBodyTimeout(k)
                                         \/ HsStopReading(k) \/ HsWriteChunk(k) \/ HsWrote(k)
                                         \/ HsFinish(k) \/ HsFinishLeft(k)
    BY <2>5, HsNextChunkKeeps, HsReadKeeps, HsBodyTimeoutKeeps, HsWriteKeeps, HsFinishKeeps,
       HsGivesUpKeeps
  <2>6. CASE \E k \in 1 .. hs.next - 1 :
               HsUpgrade(k) \/ HsSocketEnds(k) \/ HsDropIncoming(k) \/ HsDropOutgoing(k)
    BY <2>6, HsUpgradeKeeps, HsDropKeeps, HsDropIncomingKeeps
  <2>7. CASE \E k \in 1 .. hs.next - 1 :
               \/ \E body \in BOOLEAN : HsRespond(k, body)
               \/ \E ok \in BOOLEAN : HsContinued(k, ok) \/ HsUpgraded(k, ok)
               \/ \E ok, close \in BOOLEAN : HsResponded(k, ok, close) \/ HsFinished(k, ok, close)
    BY <2>7, HsRespondKeeps, HsContinuedKeeps, HsUpgradedKeeps, HsRespondedKeeps, HsFinishedKeeps
  <2>8. CASE UNCHANGED hsVars
    BY <2>8 DEF hsVars, HsInv, HsTyped
  <2> QED  BY <2>1, <2>2, <2>3, <2>4, <2>5, <2>6, <2>7, <2>8 DEF HsNext
<1> QED  BY <1>1, <1>2, PTL DEF HsSpec

(* Pipelined requests are served without more data from the client, an     *)
(* open transport has its connection, and every connection has somebody    *)
(* who ends it: its timer, or the one request whose handles are alive,     *)
(* but for a connection in the middle of a response whose finish was       *)
(* dropped while it waited.                                                *)
THEOREM HsAlways == HsSpec => []HsSafe
<1>1. HsInv => HsSafe
  <2> SUFFICES ASSUME HsInv, NEW t \in HsTrs
               PROVE  /\ hs.conn[t].proto = "recv" /\ HsParse(hs.conn[t]) # hs.conn[t] => t \in hs.kick
                      /\ hsNet[t].st = "up" => hs.conn[t] # HsNoConn
                      /\ hs.conn[t].proto = "recv" => [t |-> t, gen |-> hs.conn[t].gen] \in hs.timers
                      /\ hs.conn[t].proto \notin {"recv", "none"} =>
                           Cardinality(HsHeld(t) \cup HsLeft(t)) = 1
                      /\ HsLeft(t) # {} => hs.conn[t].proto = "responding"
    BY DEF HsSafe, HsServed, HsBooks
  <2>1. /\ HsPlace(t, hs.conn[t], hsNet[t].st, hs.timers, hs.kick, hsApp)
        /\ hs.conn[t] \in {HsNoConn} \cup HsConnKind
    BY HsAssumption, HsAtPlace
  <2>2. hs.conn[t].proto # "none" => hs.conn[t] # HsNoConn
    BY DEF HsNoConn
  <2>3. hs.conn[t].input = <<>> => HsParse(hs.conn[t]) = hs.conn[t]
    BY DEF HsParse
  <2>4. ASSUME hs.conn[t].proto \notin {"recv", "none"}
        PROVE  Cardinality(HsHeld(t) \cup HsLeft(t)) = 1
    <3>1. PICK k \in HsReqs : HsLive(hsApp[k], t)
      BY <2>1, <2>2, <2>4 DEF HsPlace
    <3>2. \A j \in HsReqs : HsLive(hsApp[j], t) => j = k
      BY <2>1, <3>1 DEF HsPlace
    <3>3. HsHeld(t) \cup HsLeft(t) = {k}
      BY <3>1, <3>2 DEF HsLive, HsHeld, HsLeft
    <3> QED  BY <3>3, FS_Singleton
  <2>5. HsLeft(t) # {} => hs.conn[t].proto = "responding"
    BY <2>1 DEF HsPlace, HsEnding, HsLeft
  <2> QED  BY <2>1, <2>2, <2>3, <2>4, <2>5 DEF HsPlace
<1> QED  BY <1>1, HsInductive, PTL
=============================================================================
