---------------------------- MODULE WebSocket ----------------------------
(***************************************************************************)
(* A WebSocket of a business service (crates/rskynet-http/src/websocket.rs):*)
(* connect of the client or the upgrade of the server, then messages in and *)
(* out, close and drop.  on_data, close and connect await calls to the      *)
(* socket service, so that events and other calls run between their halves. *)
(*                                                                         *)
(* The socket service, tungstenite and the peer are external: a Data event  *)
(* holds one frame, or the answer of the handshake with or without a frame  *)
(* behind it.                                                               *)
(***************************************************************************)
EXTENDS Integers, Sequences, FiniteSets

CONSTANTS
    WsHigh, WsLow,      \* input_high_water, input_low_water, in messages
    WsMaxData           \* bound: Data events

ASSUME WsAssumption == WsHigh \in Nat \ {0} /\ WsLow \in 1 .. WsHigh - 1 /\ WsMaxData \in Nat

VARIABLES
    ws,       \* SharedSocket, its entry with the client or server, and PendingHandshake
    wsOp,     \* what the service awaits: connect or upgrade, recv, close
    wsJobs,   \* handlers of on_data that await the socket service, by Data event (0: the upgrade)
    wsNet     \* the transport (external)

wsVars == <<ws, wsOp, wsJobs, wsNet>>

WsNoJob == [at |-> "none", pause |-> FALSE, wake |-> FALSE, shut |-> FALSE]

WsInit ==
    /\ ws = [there |-> FALSE, server |-> FALSE, entry |-> FALSE, msgs |-> 0, tail |-> 0, waker |-> FALSE,
             ended |-> FALSE, err |-> FALSE, paused |-> FALSE, lost |-> FALSE,
             pend |-> "none", shake |-> FALSE, waiter |-> FALSE, timer |-> FALSE]
    /\ wsOp = [open |-> "none", recv |-> "idle", close |-> "none", active |-> FALSE]
    /\ wsJobs = [n \in 0 .. WsMaxData |-> WsNoJob]
    /\ wsNet = [st |-> "none", data |-> 0]

WsShutdown == wsNet' = [wsNet EXCEPT !.st = IF @ = "up" THEN "closing" ELSE @]
WsDelivers == wsNet.st \in {"up", "closing"}
\* A call to the socket service that succeeds: the transport has not ended.
WsMaySend(ok) == ok => wsNet.st # "gone"
\* A call that failed: the transport has ended or its Close is on the way.
WsFailed == WsShutdown

----------------------------------------------------------------------------
(* SharedSocket *)

\* from_socket: a new socket, with the frames that came behind the handshake.
WsNew(w, tail) == [w EXCEPT !.there = TRUE, !.entry = TRUE, !.tail = tail]

\* Wake the task that waits in recv.
WsWoken(op, wake) == IF wake /\ op.recv = "waiting" THEN [op EXCEPT !.recv = "woken"] ELSE op

\* cleanup: the entry with the client or the server goes.
WsCleanup(w) == [w EXCEPT !.entry = FALSE]

\* Mutant: on_closed wakes nobody.
WsOnClosedQuiet(w, op, failed) ==
    /\ ws' = WsCleanup([w EXCEPT !.ended = TRUE, !.err = @ \/ failed, !.waker = FALSE])
    /\ wsOp' = op

\* on_closed: the end is recorded and recv woken.
WsOnClosed(w, op, failed) ==
    /\ ws' = WsCleanup([w EXCEPT !.ended = TRUE, !.err = @ \/ failed, !.waker = FALSE])
    /\ wsOp' = WsWoken(op, w.waker)

\* The loop of on_data over what tungstenite reads: messages (a ping is one and
\* leaves output), the close handshake, an error.
WsReadIn(w, tok) ==
    [w EXCEPT !.msgs = @ + w.tail + IF tok \in {"msg", "ping", "close"} THEN 1 ELSE 0,
              !.tail = 0, !.ended = tok \in {"close", "bad"}, !.err = tok = "bad",
              !.waker = FALSE]
WsPause(w) == IF ~w.paused /\ w.msgs >= WsHigh THEN [w EXCEPT !.paused = TRUE] ELSE w

\* The job of on_data: the output is sent, the transport paused, and only then
\* recv is woken and an ended socket shut down.
WsJob(w, v, tok) ==
    [at |-> IF tok \in {"ping", "close", "bad"} THEN "send" ELSE "pause",
     pause |-> v.paused /\ ~w.paused, wake |-> w.waker, shut |-> v.ended]

\* The end of the on_data that upgrade_websocket awaits.
WsDriven(n, op, ok) ==
    IF n # 0 THEN op ELSE [op EXCEPT !.open = IF ok THEN "done" ELSE "failed", !.active = ok]

\* on_data with frame tok: a job is left when something is to be awaited.
WsFeed(n, tok, op, net) ==
    \E v \in {WsPause(WsReadIn(ws, tok))} : \E j \in {WsJob(ws, v, tok)} :
       /\ ws' = v
       /\ wsNet' = net
       /\ \/ /\ j.at = "send" \/ j.pause
             /\ wsJobs' = [wsJobs EXCEPT ![n] = j] /\ wsOp' = op
          \/ /\ j.at # "send" /\ ~j.pause
             /\ wsOp' = WsDriven(n, WsWoken(op, j.wake), TRUE) /\ UNCHANGED wsJobs

\* Data may still arrive while the pause is on its way.
WsFlows == ws.paused => \E n \in DOMAIN wsJobs : wsJobs[n].pause

\* Data for an open socket; once the socket has ended it is dropped.
WsData(n, tok) ==
    /\ ws.entry /\ WsDelivers /\ WsFlows /\ n = wsNet.data + 1
    /\ IF ws.ended THEN wsNet' = [wsNet EXCEPT !.data = n] /\ UNCHANGED <<ws, wsOp, wsJobs>>
       ELSE WsFeed(n, tok, wsOp, [wsNet EXCEPT !.data = n])

\* on_data after send_wait or pause.  A failure returns at once: the waker that
\* was taken is dropped and the cleanup left to the end of the transport.
WsJobStep(n, ok) ==
    /\ wsJobs[n].at \in {"send", "pause"} /\ WsMaySend(ok)
    /\ LET j == wsJobs[n] IN
       \/ /\ ~ok
          /\ wsJobs' = [wsJobs EXCEPT ![n] = WsNoJob]
          /\ ws' = [ws EXCEPT !.lost = @ \/ j.wake]
          /\ wsOp' = WsDriven(n, wsOp, FALSE) /\ WsFailed
       \/ /\ ok /\ j.at = "send" /\ j.pause
          /\ wsJobs' = [wsJobs EXCEPT ![n].at = "pause"]
          /\ UNCHANGED <<ws, wsOp, wsNet>>
       \/ /\ ok /\ ~(j.at = "send" /\ j.pause)
          /\ wsJobs' = [wsJobs EXCEPT ![n] = WsNoJob]
          /\ ws' = IF j.shut THEN WsCleanup(ws) ELSE ws
          /\ wsOp' = WsDriven(n, WsWoken(wsOp, j.wake), TRUE)
          /\ IF j.shut THEN WsShutdown ELSE UNCHANGED wsNet

\* recv: its first poll, or the poll after a wake
WsRecv ==
    /\ wsOp.active /\ wsOp.recv \in {"idle", "woken"}
    /\ \/ /\ ws.msgs > 0
          /\ ws' = [ws EXCEPT !.msgs = @ - 1, !.paused = @ /\ ws.msgs - 1 > WsLow]
          /\ wsOp' = [wsOp EXCEPT !.recv = IF ws.paused /\ ~ws'.paused THEN "resuming" ELSE "idle"]
       \/ /\ ws.msgs = 0 /\ ws.err
          /\ ws' = [ws EXCEPT !.err = FALSE] /\ wsOp' = [wsOp EXCEPT !.recv = "idle"]
       \/ /\ ws.msgs = 0 /\ ~ws.err /\ ws.ended
          /\ wsOp' = [wsOp EXCEPT !.recv = "done", !.active = FALSE] /\ UNCHANGED ws
       \/ /\ ws.msgs = 0 /\ ~ws.err /\ ~ws.ended
          /\ ws' = [ws EXCEPT !.waker = TRUE] /\ wsOp' = [wsOp EXCEPT !.recv = "waiting"]
    /\ UNCHANGED <<wsJobs, wsNet>>

\* recv after resume; when that fails the message taken is lost with the error.
WsRecvResumed(ok) ==
    /\ wsOp.recv = "resuming" /\ WsMaySend(ok)
    /\ wsOp' = [wsOp EXCEPT !.recv = "idle"]
    /\ IF ok THEN UNCHANGED wsNet ELSE WsFailed
    /\ UNCHANGED <<ws, wsJobs>>

\* close of the socket or of a sender: the frame is sent, then the end awaited.
WsClose ==
    /\ ws.there /\ wsOp.active /\ wsOp.close = "none"
    /\ wsOp' = [wsOp EXCEPT !.close = IF ws.ended THEN "done" ELSE "sending"]
    /\ UNCHANGED <<ws, wsJobs, wsNet>>
WsCloseSent(ok) ==
    /\ wsOp.close = "sending" /\ WsMaySend(ok)
    /\ wsOp' = [wsOp EXCEPT !.close = IF ok THEN "polling" ELSE "none"]
    /\ IF ok THEN UNCHANGED wsNet ELSE WsFailed
    /\ UNCHANGED <<ws, wsJobs>>
WsCloseSeesEnd ==
    /\ wsOp.close = "polling" /\ ws.ended
    /\ wsOp' = [wsOp EXCEPT !.close = "done"] /\ UNCHANGED <<ws, wsJobs, wsNet>>
WsCloseTimeout ==
    /\ wsOp.close = "polling" /\ ~ws.ended
    /\ WsOnClosed(ws, [wsOp EXCEPT !.close = "done"], FALSE)
    /\ WsShutdown /\ UNCHANGED wsJobs

\* Drop of the WebSocket: abort, unless its own close or recv saw the end.
WsDrop ==
    /\ wsOp.active /\ wsOp.recv = "idle" /\ wsOp.close \in {"none", "done"}
    /\ \/ /\ wsOp.close = "done"
          /\ wsOp' = [wsOp EXCEPT !.active = FALSE] /\ UNCHANGED <<ws, wsNet>>
       \/ WsOnClosed(ws, [wsOp EXCEPT !.active = FALSE], FALSE) /\ WsShutdown
    /\ UNCHANGED wsJobs

----------------------------------------------------------------------------
(* The server: upgrade_websocket *)

\* The socket takes over what was read behind the request; 101 is sent.
WsUpgrade(tail) ==
    /\ wsOp.open = "none"
    /\ ws' = [WsNew(ws, tail) EXCEPT !.server = TRUE]
    /\ wsOp' = [wsOp EXCEPT !.open = "upgrading"]
    /\ wsNet' = [wsNet EXCEPT !.st = "up"]
    /\ UNCHANGED wsJobs

\* After 101 is sent the socket is driven once, for the frames behind the request.
WsUpgraded(ok, tok) ==
    /\ wsOp.open = "upgrading" /\ WsMaySend(ok)
    /\ \/ /\ ~ok
          /\ WsOnClosed(ws, [wsOp EXCEPT !.open = "failed"], FALSE)
          /\ WsShutdown /\ UNCHANGED wsJobs
       \/ /\ ok /\ ws.ended
          /\ wsOp' = WsDriven(0, wsOp, TRUE) /\ UNCHANGED <<ws, wsJobs, wsNet>>
       \/ /\ ok /\ ~ws.ended /\ (tok = "ping" => ws.tail > 0)
          /\ WsFeed(0, tok, [wsOp EXCEPT !.open = "driving"], wsNet)

----------------------------------------------------------------------------
(* The client: connect *)

WsConnect ==
    /\ wsOp.open = "none"
    /\ wsOp' = [wsOp EXCEPT !.open = "connecting"] /\ UNCHANGED <<ws, wsJobs, wsNet>>

\* After the transport is connected the handshake is registered and sent.
WsConnected(ok) ==
    /\ wsOp.open = "connecting"
    /\ IF ok THEN /\ ws' = [ws EXCEPT !.pend = "empty", !.shake = TRUE]
                  /\ wsOp' = [wsOp EXCEPT !.open = "greeting"]
                  /\ wsNet' = [wsNet EXCEPT !.st = "up"]
       ELSE wsOp' = [wsOp EXCEPT !.open = "failed"] /\ UNCHANGED <<ws, wsNet>>
    /\ UNCHANGED wsJobs

\* After the transport is connected ClientHandshake::start refuses the request, for
\* a header that is missing: connect returns at once and leaves the transport open.
WsConnectRefused ==
    /\ wsOp.open = "connecting"
    /\ wsOp' = [wsOp EXCEPT !.open = "refused"]
    /\ wsNet' = [wsNet EXCEPT !.st = "up"]
    /\ UNCHANGED <<ws, wsJobs>>

\* The poll of connect: a result ends it, else its waker is left.
WsTakeResult(w) ==
    \/ /\ w.pend = "ok"
       /\ ws' = [w EXCEPT !.pend = "none"]
       /\ wsOp' = [wsOp EXCEPT !.open = "done", !.active = TRUE] /\ UNCHANGED wsNet
    \/ /\ w.pend = "failed"
       /\ ws' = [w EXCEPT !.pend = "none"]
       /\ wsOp' = [wsOp EXCEPT !.open = "failed"] /\ WsShutdown
WsPollConnect(w) ==
    \/ /\ w.pend = "empty"
       /\ ws' = [w EXCEPT !.waiter = TRUE] /\ wsOp' = [wsOp EXCEPT !.open = "waiting"]
       /\ UNCHANGED wsNet
    \/ WsTakeResult(w)

\* Mutant: connect arms no timer.
WsGreetedUntimed(ok) ==
    /\ wsOp.open = "greeting" /\ WsMaySend(ok)
    /\ \/ /\ ~ok
          /\ ws' = [ws EXCEPT !.pend = "none", !.shake = FALSE]
          /\ wsOp' = [wsOp EXCEPT !.open = "failed"] /\ WsShutdown
       \/ ok /\ WsPollConnect(ws)
    /\ UNCHANGED wsJobs

\* After the request is sent the timer is armed and the result awaited.
WsGreeted(ok) ==
    /\ wsOp.open = "greeting" /\ WsMaySend(ok)
    /\ \/ /\ ~ok
          /\ ws' = [ws EXCEPT !.pend = "none", !.shake = FALSE]
          /\ wsOp' = [wsOp EXCEPT !.open = "failed"] /\ WsShutdown
       \/ ok /\ WsPollConnect([ws EXCEPT !.timer = TRUE])
    /\ UNCHANGED wsJobs

WsConnectWoken == wsOp.open = "woken" /\ WsTakeResult(ws) /\ UNCHANGED wsJobs

\* A result for connect: finish_handshake, and the result of on_closed and of the timer
WsResult(w, result) == IF w.pend = "none" THEN w ELSE [w EXCEPT !.pend = result, !.waiter = FALSE]
WsWakeConnect(w, op) == IF w.pend # "none" /\ w.waiter THEN [op EXCEPT !.open = "woken"] ELSE op

\* on_data of the client during the handshake: more to read, a refusal, or a
\* socket, with the frames that came behind the answer in its buffer.
WsHandshake(n, tok) ==
    /\ ws.pend # "none" /\ ~ws.entry /\ WsDelivers /\ n = wsNet.data + 1
    /\ wsNet' = [wsNet EXCEPT !.data = n]
    /\ IF ~ws.shake \/ tok = "more" THEN UNCHANGED <<ws, wsOp>>
       ELSE LET w == [ws EXCEPT !.shake = FALSE] IN
            /\ wsOp' = WsWakeConnect(ws, wsOp)
            /\ ws' = IF tok = "refuse" THEN WsResult(w, "failed")
                     ELSE WsResult(WsNew(w, IF tok = "accept" THEN 0 ELSE 1), "ok")
    /\ UNCHANGED wsJobs

\* arm_handshake_timeout
WsHandshakeTimeout ==
    /\ ws.timer
    /\ IF ws.pend = "empty"
       THEN /\ ws' = WsResult([ws EXCEPT !.timer = FALSE], "failed")
            /\ wsOp' = WsWakeConnect(ws, wsOp) /\ WsShutdown
       ELSE ws' = [ws EXCEPT !.timer = FALSE] /\ UNCHANGED <<wsOp, wsNet>>
    /\ UNCHANGED wsJobs

\* Close or Error of the transport: on_closed of the client or closed of the server
WsTransportEnds(failed) ==
    /\ WsDelivers
    /\ wsNet' = [wsNet EXCEPT !.st = "gone"]
    /\ LET w == WsResult(ws, "failed")
           op == WsWakeConnect(ws, wsOp)
       IN  IF ws.entry THEN WsOnClosed(w, op, failed) ELSE ws' = w /\ wsOp' = op
    /\ UNCHANGED wsJobs

WsNext ==
    \/ \E tail \in 0 .. 1 : WsUpgrade(tail)
    \/ WsConnect \/ WsConnectRefused \/ WsConnectWoken \/ WsHandshakeTimeout
    \/ WsRecv \/ WsClose \/ WsCloseSeesEnd \/ WsCloseTimeout \/ WsDrop
    \/ \E ok \in BOOLEAN :
          \/ WsConnected(ok) \/ WsGreeted(ok) \/ WsRecvResumed(ok) \/ WsCloseSent(ok)
          \/ WsTransportEnds(ok)
          \/ \E tok \in {"none", "ping"} : WsUpgraded(ok, tok)
    \/ \E n \in 0 .. WsMaxData, ok \in BOOLEAN : WsJobStep(n, ok)
    \/ \E n \in 1 .. WsMaxData :
          \/ \E tok \in {"msg", "ping", "close", "bad"} : WsData(n, tok)
          \/ \E tok \in {"more", "accept", "accept1", "refuse"} : WsHandshake(n, tok)

WsSpec == WsInit /\ [][WsNext]_wsVars

----------------------------------------------------------------------------
(* Properties *)

\* A service that waits in recv is woken: if a message, an error or the end is
\* there, on_data is on its way to wake it.  The exception is in the code: an
\* on_data whose output cannot be sent has dropped the waker.
WsReceiverWoken ==
    wsOp.recv = "waiting" /\ ~ws.lost =>
       \/ ws.waker /\ ws.msgs = 0 /\ ~ws.err /\ ~ws.ended
       \/ \E n \in DOMAIN wsJobs : wsJobs[n].wake

\* Nothing is forgotten half way: a connect that waits has a result to come from
\* its timer or from the end of its transport; an open transport is known by its
\* connect or by its entry, but for one exception in the code: the transport of a
\* request that ClientHandshake::start refused is nobody's; a socket that has ended
\* and still has its entry is about to be shut down; and the frames that came behind
\* a server's request do not wait for more (a client's do).
WsBooks ==
    /\ wsOp.open = "waiting" =>
          ws.pend = "empty" /\ ws.waiter /\ (ws.timer \/ wsNet.st = "closing")
    /\ wsNet.st = "up" => ws.entry \/ ws.pend # "none" \/ wsOp.open \in {"connecting", "refused"}
    /\ ws.entry /\ ws.ended => wsNet.st = "closing" \/ \E n \in DOMAIN wsJobs : wsJobs[n].shut
    /\ ws.server /\ ws.tail > 0 /\ wsOp.open = "done" => ws.ended

\* A socket's receiver is woken and no half-made socket is forgotten (on_data,
\* on_closed, connect, upgrade).
WsSafe == WsReceiverWoken /\ WsBooks
=============================================================================
