-------------------------------- MODULE Tls --------------------------------
(***************************************************************************)
(* The TLS service (crates/rskynet-tls): a shared service that runs rustls  *)
(* over sockets of the socket service.  Its commands await calls to that    *)
(* service, so other commands, socket events and timers run between two     *)
(* halves of a handler.  The socket service, the peers and rustls are       *)
(* external: a call is answered with success or failure, a socket that is   *)
(* up delivers data and at most one end, and a chunk of cipher text has one *)
(* of the effects a TLS connection can have.                                *)
(*                                                                         *)
(* SvcCell, the container of the service's state, grants one borrow at a    *)
(* time: a second borrow while the first is held is a panic, which ends the *)
(* process.                                                                 *)
(***************************************************************************)
EXTENDS Integers, Sequences, FiniteSets

CONSTANTS
    TlsMaxConn, TlsMaxHandshakes,   \* max_connections, max_handshakes
    TlsMaxId,                       \* bound: ids handed out
    TlsMaxSock,                     \* bound: sockets of the socket service
    TlsMaxReq,                      \* bound: calls made to the service
    TlsMaxData                      \* bound: chunks the peers send

ASSUME TlsAssumption ==
    {TlsMaxConn, TlsMaxHandshakes, TlsMaxId, TlsMaxSock, TlsMaxReq, TlsMaxData}
        \subseteq Nat \ {0}

VARIABLES
    tls,        \* state of the service, its answers, its events and its timers
    tlsTasks,   \* handlers that await a call to the socket service
    tlsIn,      \* mailbox: socket events and answers of the socket service
    tlsSock,    \* the socket service: each socket's state (external)
    tlsKill,    \* sockets told to shut down at once (external)
    tlsUsed     \* how much of the bounds is used

tlsVars == <<tls, tlsTasks, tlsIn, tlsSock, tlsKill, tlsUsed>>

TlsIds == 1 .. TlsMaxId
TlsSocks == 1 .. TlsMaxSock
TlsReqs == 1 .. TlsMaxReq
TlsNone == [kind |-> "none", sock |-> 0]

TlsInit ==
    /\ tls = [obj |-> [i \in TlsIds |-> TlsNone], next |-> 1, handshakes |-> 0,
              ans |-> [r \in TlsReqs |-> <<>>], told |-> [i \in TlsIds |-> <<>>],
              timers |-> {}, lost |-> {}, panic |-> FALSE]
    /\ tlsTasks = {}
    /\ tlsIn = <<>>
    /\ tlsSock = [s \in TlsSocks |-> "none"]
    /\ tlsKill = {}
    /\ tlsUsed = [req |-> 0, data |-> 0]

----------------------------------------------------------------------------

TlsConns(w) == {i \in TlsIds : w.obj[i].kind = "conn"}
TlsListeners(w) == {i \in TlsIds : w.obj[i].kind = "listener"}

\* listener_sockets and connection_sockets: the object of a socket, 0 if none
TlsOf(w, kind, s) ==
    LET ids == {i \in TlsIds : w.obj[i].kind = kind /\ w.obj[i].sock = s}
    IN  IF ids = {} THEN 0 ELSE CHOOSE i \in ids : TRUE

\* capacity_error
TlsFull(w, handshake) ==
    \/ Cardinality(TlsConns(w)) + Cardinality(TlsListeners(w)) >= TlsMaxConn
    \/ handshake /\ w.handshakes >= TlsMaxHandshakes

TlsReply(w, r, what) == IF r = 0 THEN w ELSE [w EXCEPT !.ans[r] = Append(@, what)]
TlsEmit(w, id, event) == [w EXCEPT !.told[id] = Append(@, event)]

TlsRemoveListener(w, id) == [w EXCEPT !.obj[id] = TlsNone]

\* Mutant: every removal gives a handshake's place back.
TlsRemoveAlways(w, id) ==
    [w EXCEPT !.obj[id] = TlsNone, !.handshakes = IF @ > 0 THEN @ - 1 ELSE @]

\* remove_connection: an unfinished handshake gives its place back.
TlsRemove(w, id) ==
    [w EXCEPT !.obj[id] = TlsNone,
              !.handshakes = IF ~w.obj[id].announced /\ @ > 0 THEN @ - 1 ELSE @]

\* A new connection: the tail of connect and of accept.
TlsInsert(w, s, server, r) ==
    [w EXCEPT !.obj[w.next] = [kind |-> "conn", sock |-> s, server |-> server,
                               announced |-> FALSE, hs |-> TRUE, closing |-> FALSE,
                               notify |-> FALSE, connectReq |-> r, closeReq |-> 0],
              !.next = @ + 1, !.handshakes = @ + 1]

\* Mutant: fail forgets the close that waits.
TlsFailForgets(w, id) ==
    IF id \notin TlsConns(w) THEN w
    ELSE LET c == w.obj[id]
             gone == TlsRemove(w, id)
         IN  IF c.connectReq # 0 THEN TlsReply(gone, c.connectReq, "failed")
             ELSE IF c.announced THEN TlsEmit(gone, id, "error") ELSE gone

\* fail: the caller of connect is answered, or the owner of an announced
\* connection is told; a close that waits is answered too.
TlsFail(w, id) ==
    IF id \notin TlsConns(w) THEN w
    ELSE LET c == w.obj[id]
             gone == TlsRemove(w, id)
             said == IF c.connectReq # 0 THEN TlsReply(gone, c.connectReq, "failed")
                     ELSE IF c.announced THEN TlsEmit(gone, id, "error") ELSE gone
         IN  TlsReply(said, c.closeReq, "failed")
TlsFailKill(w, id) == IF id \in TlsConns(w) THEN {w.obj[id].sock} ELSE {}

\* announce_if_ready
TlsAnnounce(w, id) ==
    LET c == w.obj[id]
    IN  IF c.announced \/ c.hs THEN w
        ELSE TlsEmit(TlsReply([w EXCEPT !.obj[id].announced = TRUE,
                                        !.obj[id].connectReq = 0,
                                        !.handshakes = IF @ > 0 THEN @ - 1 ELSE @],
                              c.connectReq, "id"),
                     id, "connected")

----------------------------------------------------------------------------
(* Commands.  The first half runs in the handler that takes the message; the *)
(* second half runs when the socket service has answered.                    *)

TlsRuns == ~tls.panic

TlsAsk(r) == tlsUsed.req + 1 = r /\ tlsUsed' = [tlsUsed EXCEPT !.req = r]

TlsAwait(task) == tlsTasks' = tlsTasks \cup {task}

TlsTask(op, r, id, s) == [op |-> op, r |-> r, id |-> id, sock |-> s]

\* connect up to its first await: the limits are checked and rustls may refuse
\* the server name.
TlsConnect(r) ==
    /\ TlsRuns /\ TlsAsk(r)
    /\ \/ tls' = TlsReply(tls, r, "failed") /\ UNCHANGED tlsTasks
       \/ ~TlsFull(tls, TRUE) /\ TlsAwait(TlsTask("connect", r, 0, 0)) /\ UNCHANGED tls
    /\ UNCHANGED <<tlsIn, tlsSock, tlsKill>>

\* listen up to its first await
TlsListen(r) ==
    /\ TlsRuns /\ TlsAsk(r)
    /\ IF TlsFull(tls, FALSE)
       THEN tls' = TlsReply(tls, r, "failed") /\ UNCHANGED tlsTasks
       ELSE TlsAwait(TlsTask("listen", r, 0, 0)) /\ UNCHANGED tls
    /\ UNCHANGED <<tlsIn, tlsSock, tlsKill>>

\* Ids a service knows: a listener's answer or a Connected event carried them.
TlsKnown == {i \in TlsIds : tls.told[i] # <<>>} \cup TlsListeners(tls)

\* start and pause of a connection or a listener, and send_plaintext_wait: the
\* socket service is called and its answer passed on.  A caller that is not the
\* owner, or an id that is gone, gets an error at once.
TlsForward(op, id, r) ==
    /\ TlsRuns /\ TlsAsk(r) /\ id \in TlsKnown
    /\ LET c == tls.obj[id]
           allowed == CASE op = "start" -> c.kind # "none"
                        [] op = "pause" -> c.kind = "conn"
                        [] op = "send" -> c.kind = "conn" /\ c.announced /\ ~c.closing
       IN  \/ tls' = TlsReply(tls, r, "failed") /\ UNCHANGED tlsTasks
           \/ /\ allowed
              /\ TlsAwait(TlsTask(op, r, id, c.sock))
              /\ UNCHANGED tls
    /\ UNCHANGED <<tlsIn, tlsSock, tlsKill>>

\* send_plaintext (nobody waits): only a failure to reach the socket service
\* has an effect on the connection.
TlsSend(id) ==
    /\ TlsRuns /\ id \in TlsConns(tls) /\ tls.obj[id].announced /\ ~tls.obj[id].closing
    /\ tls' = TlsFail(tls, id)
    /\ tlsKill' = tlsKill \cup TlsFailKill(tls, id)
    /\ UNCHANGED <<tlsTasks, tlsIn, tlsSock, tlsUsed>>

\* close: a listener is removed before its socket is closed; a connection sends
\* close_notify and waits for the end of its socket.
TlsClose(id, r) ==
    /\ TlsRuns /\ TlsAsk(r) /\ id \in TlsKnown
    /\ LET c == tls.obj[id] IN
       \/ tls' = TlsReply(tls, r, "failed") /\ UNCHANGED tlsTasks
       \/ /\ c.kind = "listener"
          /\ tls' = TlsRemoveListener(tls, id)
          /\ TlsAwait(TlsTask("close_listener", r, id, c.sock))
       \/ /\ c.kind = "conn" /\ ~c.closing
          /\ tls' = [tls EXCEPT !.obj[id].closing = TRUE, !.obj[id].closeReq = r]
          /\ TlsAwait(TlsTask("close", 0, id, c.sock))
    /\ UNCHANGED <<tlsIn, tlsSock, tlsKill>>

\* close whose close_notify cannot be sent (flush_tls fails)
TlsCloseFails(id, r) ==
    /\ TlsRuns /\ TlsAsk(r) /\ id \in TlsKnown \cap TlsConns(tls) /\ ~tls.obj[id].closing
    /\ tls' = TlsFail([tls EXCEPT !.obj[id].closing = TRUE, !.obj[id].closeReq = r], id)
    /\ tlsKill' = tlsKill \cup TlsFailKill(tls, id)
    /\ UNCHANGED <<tlsTasks, tlsIn, tlsSock>>

\* shutdown of a connection (nobody waits); a close that waits loses its answer
TlsShutdown(id) ==
    /\ TlsRuns /\ id \in TlsConns(tls) /\ tls.obj[id].announced
    /\ tls' = [TlsEmit(TlsRemove(tls, id), id, "close")
                  EXCEPT !.lost = @ \cup ({tls.obj[id].closeReq} \ {0})]
    /\ tlsKill' = tlsKill \cup {tls.obj[id].sock}
    /\ UNCHANGED <<tlsTasks, tlsIn, tlsSock, tlsUsed>>

\* shutdown of a listener: the borrow taken to look the listener up is still held
\* when remove_listener borrows again.
TlsShutdownListener(id) ==
    /\ TlsRuns /\ id \in TlsListeners(tls)
    /\ tls' = [tls EXCEPT !.panic = TRUE]
    /\ UNCHANGED <<tlsTasks, tlsIn, tlsSock, tlsKill, tlsUsed>>

\* handshake_timeout: the task that arm_timeout started has slept
TlsHandshakeTimeout(id) ==
    /\ TlsRuns /\ id \in tls.timers
    /\ LET w == [tls EXCEPT !.timers = @ \ {id}]
           late == id \in TlsConns(tls) /\ ~tls.obj[id].announced
       IN  /\ tls' = IF late THEN TlsFail(w, id) ELSE w
           /\ tlsKill' = tlsKill \cup IF late THEN TlsFailKill(tls, id) ELSE {}
    /\ UNCHANGED <<tlsTasks, tlsIn, tlsSock, tlsUsed>>

----------------------------------------------------------------------------
(* What the mailbox brings: the answers of the socket service. *)

TlsTake(kind) == TlsRuns /\ tlsIn # <<>> /\ Head(tlsIn).k = kind

TlsResume(op) ==
    /\ TlsTake("ans") /\ Head(tlsIn).task.op = op
    /\ tlsIn' = Tail(tlsIn)
    /\ UNCHANGED <<tlsSock, tlsUsed>>

\* connect after net::connect: the limits are checked again.
TlsConnected ==
    LET a == Head(tlsIn) IN
    /\ TlsResume("connect")
    /\ IF ~a.ok THEN /\ tls' = TlsReply(tls, a.task.r, "failed")
                     /\ UNCHANGED <<tlsTasks, tlsKill>>
       ELSE IF TlsFull(tls, TRUE)
       THEN /\ tls' = TlsReply(tls, a.task.r, "failed")
            /\ tlsKill' = tlsKill \cup {a.sock}
            /\ UNCHANGED tlsTasks
       ELSE /\ TlsAwait(TlsTask("connect_info", a.task.r, 0, a.sock))
            /\ UNCHANGED <<tls, tlsKill>>

\* Mutant: connect arms no timer.
TlsConnectInfoUntimed ==
    LET a == Head(tlsIn)
        w == TlsInsert(tls, a.task.sock, FALSE, a.task.r)
    IN  /\ TlsResume("connect_info") /\ tls.next \in TlsIds
        /\ tls' = w
        /\ UNCHANGED <<tlsTasks, tlsKill>>

\* connect after net::info: the connection exists, its first flight is sent and
\* the timer armed, also when the socket has ended meanwhile.
TlsConnectInfo ==
    LET a == Head(tlsIn)
        id == tls.next
        w == TlsInsert(tls, a.task.sock, FALSE, a.task.r)
    IN  /\ TlsResume("connect_info") /\ id \in TlsIds
        /\ \/ tls' = [w EXCEPT !.timers = @ \cup {id}] /\ UNCHANGED tlsKill
           \/ tls' = TlsFail(w, id) /\ tlsKill' = tlsKill \cup TlsFailKill(w, id)
        /\ UNCHANGED tlsTasks

\* listen after net::listen and net::info
TlsListening ==
    LET a == Head(tlsIn) IN
    /\ TlsResume("listen") /\ tls.next \in TlsIds
    /\ tls' = IF ~a.ok THEN TlsReply(tls, a.task.r, "failed")
              ELSE TlsReply([tls EXCEPT !.obj[tls.next] = [kind |-> "listener", sock |-> a.sock],
                                        !.next = @ + 1], a.task.r, "id")
    /\ UNCHANGED <<tlsTasks, tlsKill>>

\* start, pause and close of a listener, answered
TlsForwarded ==
    LET a == Head(tlsIn) IN
    /\ \E op \in {"start", "pause", "close_listener"} : TlsResume(op)
    /\ tls' = TlsReply(tls, a.task.r, IF a.ok THEN "done" ELSE "failed")
    /\ UNCHANGED <<tlsTasks, tlsKill>>

\* send_plaintext_wait after net::send_wait, and close_failed, the message that
\* a failing net::close leaves.
TlsSent ==
    LET a == Head(tlsIn) IN
    /\ \E op \in {"send", "close"} : TlsResume(op)
    /\ tls' = TlsReply(IF a.ok THEN tls ELSE TlsFail(tls, a.task.id), a.task.r,
                       IF a.ok THEN "done" ELSE "failed")
    /\ tlsKill' = tlsKill \cup IF a.ok THEN {} ELSE TlsFailKill(tls, a.task.id)
    /\ UNCHANGED tlsTasks

\* accept after net::start: the timer is armed, or the connection fails.
TlsStarted ==
    LET a == Head(tlsIn) IN
    /\ TlsResume("accept")
    /\ tls' = IF a.ok THEN [tls EXCEPT !.timers = @ \cup {a.task.id}]
              ELSE TlsFail(tls, a.task.id)
    /\ tlsKill' = tlsKill \cup IF a.ok THEN {} ELSE TlsFailKill(tls, a.task.id)
    /\ UNCHANGED tlsTasks

----------------------------------------------------------------------------
(* What the mailbox brings: socket events. *)

\* accept up to its await
TlsAccept ==
    LET e == Head(tlsIn) IN
    /\ TlsTake("accept")
    /\ tlsIn' = Tail(tlsIn)
    /\ \/ /\ tlsKill' = tlsKill \cup {e.sock}      \* rustls refuses, or no room
          /\ UNCHANGED <<tls, tlsTasks>>
       \/ /\ TlsOf(tls, "listener", e.listen) # 0 /\ ~TlsFull(tls, TRUE) /\ tls.next \in TlsIds
          /\ tls' = TlsInsert(tls, e.sock, TRUE, 0)
          /\ TlsAwait(TlsTask("accept", 0, tls.next, e.sock))
          /\ UNCHANGED tlsKill
    /\ UNCHANGED <<tlsSock, tlsUsed>>

\* What a chunk of cipher text does to a connection (rustls, external).
TlsEffects(c) == IF c.hs THEN {"more", "done", "bad"} ELSE {"more", "plain", "notify", "bad"}

\* receive_tls: the effect on rustls, the handshake announced, the plain text
\* handed over, and a peer's close_notify followed by a shutdown of the socket.
TlsReceive(effect) ==
    LET id == TlsOf(tls, "conn", Head(tlsIn).sock) IN
    /\ TlsTake("data") /\ id # 0 /\ effect \in TlsEffects(tls.obj[id])
    /\ tlsIn' = Tail(tlsIn)
    /\ LET heard == [tls EXCEPT !.obj[id].hs = @ /\ effect # "done",
                                !.obj[id].notify = @ \/ effect = "notify"]
           w == TlsAnnounce(heard, id)
       IN  IF effect = "bad"
           THEN /\ tls' = TlsFail(tls, id)
                /\ tlsKill' = tlsKill \cup TlsFailKill(tls, id)
           ELSE /\ tls' = IF effect = "plain" THEN TlsEmit(w, id, "data") ELSE w
                /\ tlsKill' = tlsKill \cup IF w.obj[id].notify THEN {w.obj[id].sock} ELSE {}
    /\ UNCHANGED <<tlsTasks, tlsSock, tlsUsed>>

\* receive_tls for a socket that has no connection (yet, or any more)
TlsReceiveNothing ==
    /\ TlsTake("data") /\ TlsOf(tls, "conn", Head(tlsIn).sock) = 0
    /\ tlsIn' = Tail(tlsIn)
    /\ UNCHANGED <<tls, tlsTasks, tlsSock, tlsKill, tlsUsed>>

\* socket_closed.  For a listener the lookup's borrow is still held when
\* remove_listener borrows again.
TlsSocketClosed ==
    LET e == Head(tlsIn)
        id == TlsOf(tls, "conn", e.sock)
        c == tls.obj[id]
        gone == TlsRemove(tls, id)
        w == TlsReply(gone, c.closeReq, IF e.bad THEN "failed" ELSE "done")
    IN  /\ TlsTake("closed")
        /\ tlsIn' = Tail(tlsIn)
        /\ tls' = IF TlsOf(tls, "listener", e.sock) # 0 THEN [tls EXCEPT !.panic = TRUE]
                  ELSE IF id = 0 THEN tls
                  ELSE IF c.connectReq # 0 THEN TlsReply(w, c.connectReq, "failed")
                  ELSE IF ~c.announced THEN w
                  ELSE TlsEmit(w, id, IF e.bad \/ ~(c.notify \/ c.closing)
                                      THEN "error" ELSE "close")
        /\ UNCHANGED <<tlsTasks, tlsSock, tlsKill, tlsUsed>>

----------------------------------------------------------------------------
(* The socket service (external). *)

TlsFresh == {s \in TlsSocks : tlsSock[s] = "none"}
TlsFirst == CHOOSE s \in TlsFresh : \A t \in TlsFresh : s <= t

\* The call of a task is answered; connect and listen make a socket, close ends
\* one and says so in an event before it answers, and fails only for one that is
\* gone.
TlsNetAnswer(t, ok) ==
    LET opens == t.op \in {"connect", "listen"} /\ ok
        ends == t.op \in {"close", "close_listener"} /\ ok /\ tlsSock[t.sock] = "up"
        a == [k |-> "ans", task |-> t, ok |-> ok, sock |-> IF opens THEN TlsFirst ELSE 0]
    IN  /\ TlsRuns /\ t \in tlsTasks
        /\ t.op = "connect_info" => ok
        /\ t.op \in {"close", "close_listener"} /\ tlsSock[t.sock] = "up" => ok
        /\ opens => TlsFresh # {}
        /\ tlsTasks' = tlsTasks \ {t}
        /\ tlsIn' = tlsIn \o (IF ends THEN <<[k |-> "closed", sock |-> t.sock, bad |-> FALSE]>>
                              ELSE <<>>) \o <<a>>
        /\ tlsSock' = [s \in TlsSocks |-> IF opens /\ s = TlsFirst THEN "up"
                                          ELSE IF ends /\ s = t.sock THEN "gone" ELSE tlsSock[s]]
        /\ UNCHANGED <<tls, tlsKill, tlsUsed>>

\* A shutdown is carried out.
TlsNetShutdown(s) ==
    /\ TlsRuns /\ s \in tlsKill
    /\ tlsKill' = tlsKill \ {s}
    /\ tlsSock' = [tlsSock EXCEPT ![s] = "gone"]
    /\ tlsIn' = IF tlsSock[s] = "up"
                THEN Append(tlsIn, [k |-> "closed", sock |-> s, bad |-> FALSE]) ELSE tlsIn
    /\ UNCHANGED <<tls, tlsTasks, tlsUsed>>

\* The peer of a connection sends, or the socket ends, cleanly or not.
TlsNetEvent(s, what) ==
    /\ TlsRuns /\ tlsSock[s] = "up" /\ TlsOf(tls, "listener", s) = 0
    /\ what = "data" => tlsUsed.data < TlsMaxData
    /\ tlsUsed' = [tlsUsed EXCEPT !.data = IF what = "data" THEN @ + 1 ELSE @]
    /\ tlsSock' = IF what = "data" THEN tlsSock ELSE [tlsSock EXCEPT ![s] = "gone"]
    /\ tlsIn' = Append(tlsIn, IF what = "data" THEN [k |-> "data", sock |-> s]
                              ELSE [k |-> "closed", sock |-> s, bad |-> what = "error"])
    /\ UNCHANGED <<tls, tlsTasks, tlsKill>>

\* A connection arrives at a listener, or the listener's socket fails.
TlsNetAccept(id) ==
    /\ TlsRuns /\ id \in TlsListeners(tls) /\ tlsSock[tls.obj[id].sock] = "up"
    /\ TlsFresh # {}
    /\ tlsSock' = [tlsSock EXCEPT ![TlsFirst] = "up"]
    /\ tlsIn' = Append(tlsIn, [k |-> "accept", sock |-> TlsFirst, listen |-> tls.obj[id].sock])
    /\ UNCHANGED <<tls, tlsTasks, tlsKill, tlsUsed>>

TlsNetListenerFails(id) ==
    /\ TlsRuns /\ id \in TlsListeners(tls) /\ tlsSock[tls.obj[id].sock] = "up"
    /\ tlsSock' = [tlsSock EXCEPT ![tls.obj[id].sock] = "gone"]
    /\ tlsIn' = Append(tlsIn, [k |-> "closed", sock |-> tls.obj[id].sock, bad |-> TRUE])
    /\ UNCHANGED <<tls, tlsTasks, tlsKill, tlsUsed>>

TlsUser ==
    \/ \E r \in TlsReqs : TlsConnect(r) \/ TlsListen(r)
    \/ \E id \in TlsIds, r \in TlsReqs :
          \/ TlsClose(id, r) \/ TlsCloseFails(id, r)
          \/ \E op \in {"start", "pause", "send"} : TlsForward(op, id, r)
    \/ \E id \in TlsIds : TlsSend(id) \/ TlsShutdown(id) \/ TlsShutdownListener(id)

TlsServe ==
    \/ TlsConnected \/ TlsConnectInfo \/ TlsListening \/ TlsForwarded \/ TlsSent
    \/ TlsStarted \/ TlsAccept \/ TlsReceiveNothing \/ TlsSocketClosed
    \/ \E effect \in {"more", "done", "plain", "notify", "bad"} : TlsReceive(effect)

TlsEnv ==
    \/ \E t \in tlsTasks, ok \in BOOLEAN : TlsNetAnswer(t, ok)
    \/ \E s \in TlsSocks : \/ TlsNetShutdown(s)
                           \/ \E what \in {"data", "close", "error"} : TlsNetEvent(s, what)
    \/ \E id \in TlsIds : TlsNetAccept(id) \/ TlsNetListenerFails(id)

TlsNext ==
    \/ TlsUser
    \/ TlsServe
    \/ \E id \in TlsIds : TlsHandshakeTimeout(id)
    \/ TlsEnv

\* The runtime runs every message and timer, and the socket service answers every
\* call (NetAnswered) and carries out every shutdown.
TlsSpec == TlsInit /\ [][TlsNext]_tlsVars

----------------------------------------------------------------------------
(* Properties. *)

TlsAnsTasks == {tlsIn[i].task : i \in {j \in DOMAIN tlsIn : tlsIn[j].k = "ans"}}

TlsPlaces(r) ==
    {<<"task", t>> : t \in {u \in tlsTasks \cup TlsAnsTasks : u.r = r}}
    \cup {<<"connect", i>> : i \in {j \in TlsConns(tls) : tls.obj[j].connectReq = r}}
    \cup {<<"close", i>> : i \in {j \in TlsConns(tls) : tls.obj[j].closeReq = r}}

\* Each call has its one answer or waits at one place, however handshakes,
\* timeouts, closes and ends of sockets meet.  (lost, history: a shutdown drops
\* the answer of a close that waits.)
TlsAnswered ==
    \A r \in 1 .. tlsUsed.req :
        Cardinality(TlsPlaces(r)) + Len(tls.ans[r]) = IF r \in tls.lost THEN 0 ELSE 1

\* The owner hears of a connection first that it is connected and last, once, that
\* it ended; and handshakes counts exactly the connections not announced.
TlsHeard ==
    /\ \A id \in TlsIds :
           LET t == tls.told[id]
               ends == {i \in DOMAIN t : t[i] \in {"close", "error"}}
           IN  /\ t # <<>> => t[1] = "connected"
               /\ ends \subseteq {Len(t)}
               /\ (t # <<>> /\ ends = {}) <=> (id \in TlsConns(tls) /\ tls.obj[id].announced)
    /\ tls.handshakes = Cardinality({i \in TlsConns(tls) : ~tls.obj[i].announced})

\* A socket that is up belongs to a listener or a connection, is in the hands of a
\* handler or an Accept event, or is about to be shut down.
TlsOwned ==
    \A s \in TlsSocks : tlsSock[s] = "up" =>
        \/ \E i \in TlsIds : tls.obj[i].sock = s
        \/ s \in tlsKill
        \/ \E t \in tlsTasks \cup TlsAnsTasks : t.sock = s
        \/ \E i \in DOMAIN tlsIn : tlsIn[i].k \in {"ans", "accept"} /\ tlsIn[i].sock = s

\* A connection whose handshake is not over has its timer, or its acceptor is about
\* to arm it, so a peer that falls silent, or a socket that ended before the
\* connection was known, cannot keep it.
TlsTimed ==
    \A i \in TlsConns(tls) : ~tls.obj[i].announced =>
        i \in tls.timers \/ \E t \in tlsTasks \cup TlsAnsTasks : t.op = "accept" /\ t.id = i

\* Every call is answered once; the owner's view, the count of handshakes, the
\* timers and the sockets agree with the objects (remove_connection,
\* announce_if_ready, socket_closed, fail and every early return that must shut a
\* socket down): no socket is leaked, no end told twice, no handshake untimed.
TlsSafe == TlsAnswered /\ TlsHeard /\ TlsOwned /\ TlsTimed

\* service.rs shutdown: the owner may shut a listener down; the service survives.
TlsNoPanic == ~tls.panic
=============================================================================
