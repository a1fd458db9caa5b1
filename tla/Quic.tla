-------------------------------- MODULE Quic --------------------------------
(***************************************************************************)
(* The QUIC service (crates/rskynet-quic): it drives the sans-I/O state     *)
(* machine of quinn-proto (external) over UDP sockets of the socket service *)
(* (external).  Every handler changes the service's state without an await, *)
(* collects packets, events, answers and a timer in a DriveOutput, and then *)
(* emits it: the packets first, each awaited, and only then the rest.  So   *)
(* the outputs of two handlers may leave in either order.                   *)
(*                                                                         *)
(* Each connection has one stream; writes are counted in units, and room is *)
(* what quinn would take at once.  A connection closed by this side reports *)
(* nothing more and takes no more data; it is forgotten once it is drained. *)
(***************************************************************************)
EXTENDS Integers, Sequences, FiniteSets, SequencesExt

CONSTANTS
    QuicMaxConn, QuicMaxHandshakes,   \* max_connections, max_handshakes
    QuicHigh, QuicLow,                \* write_high_water, write_low_water
    QuicMaxId, QuicMaxSock, QuicMaxReq, \* bounds: connections, sockets, calls
    QuicMenus                         \* bounds on the rest: set of [net, gen, size, hold]

ASSUME QuicAssumption ==
    /\ {QuicMaxConn, QuicMaxHandshakes, QuicHigh, QuicMaxId, QuicMaxSock, QuicMaxReq} \subseteq Nat \ {0}
    /\ QuicLow \in Nat /\ QuicLow < QuicHigh
    /\ QuicMenus \subseteq [net : Nat, gen : Nat, size : Nat, hold : Nat]

VARIABLES
    quic,        \* state of the service; answers, events and timers it has produced
    quicTasks,   \* listen and connect that await the socket service
    quicEmits,   \* outputs whose packets are not all sent
    quicSock,    \* the socket service: each socket's state (external)
    quicUsed     \* the menu and how much of it is used

quicVars == <<quic, quicTasks, quicEmits, quicSock, quicUsed>>

QuicIds == 1 .. QuicMaxId
QuicSocks == 1 .. QuicMaxSock
QuicReqs == 1 .. QuicMaxReq
QuicNoConn == [q |-> "none", sock |-> 0]
QuicNoEp == [up |-> FALSE, listener |-> FALSE, gen |-> 0, deadline |-> 0]

QuicInit ==
    /\ \E m \in QuicMenus :
          /\ quicUsed = [menu |-> m, req |-> 0, net |-> 0]
          /\ quic = [conn |-> [i \in QuicIds |-> QuicNoConn], next |-> 1,
                     ep |-> [s \in QuicSocks |-> QuicNoEp], reserved |-> 0,
                     timers |-> {}, connectTimers |-> {},
                     ans |-> [r \in QuicReqs |-> 0],
                     told |-> [i \in QuicIds |-> <<>>], lost |-> {}]
    /\ quicTasks = {}
    /\ quicEmits = <<>>
    /\ quicSock = [s \in QuicSocks |-> "none"]

----------------------------------------------------------------------------

QuicConns(w) == {i \in QuicIds : w.conn[i].q # "none"}
QuicOn(w, s) == {i \in QuicConns(w) : w.conn[i].sock = s}

\* handshake_count
QuicHandshakes(w) == Cardinality({i \in QuicConns(w) : w.conn[i].q = "hs"}) + w.reserved

\* Mutant: connects that are under way are not counted.
QuicHasCapacityNow(w) ==
    /\ Cardinality(QuicConns(w)) < QuicMaxConn
    /\ QuicHandshakes(w) - w.reserved < QuicMaxHandshakes

\* has_connection_capacity: connects under way have reserved their place.
QuicHasCapacity(w) ==
    /\ Cardinality(QuicConns(w)) + w.reserved < QuicMaxConn
    /\ QuicHandshakes(w) < QuicMaxHandshakes

\* DriveOutput
QuicOut == [close |-> {}, ev |-> <<>>, rep |-> <<>>, timer |-> <<>>]

\* A handler's work: the state of the service and the output collected so far.
QuicWork(w) == [w |-> w, out |-> QuicOut]

QuicRep(k, r) == IF r = 0 THEN k ELSE [k EXCEPT !.out.rep = Append(@, r)]

\* Of the events only a stream's data and end are recorded.
QuicEv(k, i, event) ==
    IF event \in {"data", "fin"} THEN [k EXCEPT !.out.ev = Append(@, <<i, event>>)] ELSE k

\* queue_event: what a connection that is not started yet tells is kept.
QuicQueueEvent(k, i, event) ==
    IF k.w.conn[i].started \/ event \notin {"data", "fin"} THEN QuicEv(k, i, event)
    ELSE [k EXCEPT !.w.conn[i].queued = Append(@, event)]

QuicInsert(w, s, accepted, r) ==
    [w EXCEPT !.conn[w.next] = [q |-> "hs", sock |-> s, started |-> ~accepted,
                                announced |-> FALSE, connectReq |-> r, queued |-> <<>>,
                                writes |-> <<>>, finish |-> 0, buffered |-> 0,
                                warned |-> FALSE, room |-> 1, dead |-> FALSE, rx |-> "open"],
              !.next = @ + 1]

QuicWaiters(c) ==
    ({c.writes[j].r : j \in DOMAIN c.writes} \cup {c.finish}) \ {0}

QuicWaits(c) == QuicWaiters(c) \cup ({c.connectReq} \ {0})

\* Mutant: a finish that waits is forgotten.
QuicFailPendingWritesOnly(k, i) ==
    [k EXCEPT !.out.rep = @ \o SetToSeq(QuicWaiters(k.w.conn[i]) \ {k.w.conn[i].finish}),
              !.w.conn[i].writes = <<>>, !.w.conn[i].finish = 0,
              !.w.conn[i].buffered = 0, !.w.conn[i].warned = FALSE]

\* fail_pending_writes
QuicFailPendingWrites(k, i) ==
    [k EXCEPT !.out.rep = @ \o SetToSeq(QuicWaiters(k.w.conn[i])),
              !.w.conn[i].writes = <<>>, !.w.conn[i].finish = 0,
              !.w.conn[i].buffered = 0, !.w.conn[i].warned = FALSE]

\* The units of the queued writes
QuicUnits(writes) == Cardinality(UNION {{j} \X (1 .. writes[j].left) : j \in DOMAIN writes})

\* How many of the writes fit into room as a whole
QuicWhole(writes, room) ==
    Cardinality({j \in DOMAIN writes : QuicUnits(SubSeq(writes, 1, j)) <= room})

\* The end of flush_stream_writes, n writes whole and part of the next written
\* (sent units in all): their callers are answered, then a finish that waited.
QuicFlushed(k, i, c, n, part, sent) ==
    LET left == SubSeq(c.writes, n + 1, Len(c.writes))
        done == {c.writes[j].r : j \in 1 .. n} \cup IF left = <<>> THEN {c.finish} ELSE {}
    IN  [k EXCEPT !.out.rep = @ \o SetToSeq(done \ {0}),
                  !.w.conn[i] = [c EXCEPT
                      !.writes = IF part = 0 THEN left ELSE [left EXCEPT ![1].left = @ - part],
                      !.room = IF c.dead THEN @ ELSE @ - sent,
                      !.finish = IF left = <<>> THEN 0 ELSE @,
                      !.dead = @ \/ (left = <<>> /\ c.finish # 0),
                      !.buffered = @ - sent,
                      !.warned = @ /\ c.buffered - sent > QuicLow]]

\* flush_stream_writes: as many queued writes as quinn takes, the last perhaps in
\* part; a stream that was reset or stopped refuses them all.
QuicFlushWith(k, i, c, room, n) ==
    IF c.writes = <<>> THEN k
    ELSE IF c.dead THEN QuicFlushed(k, i, c, Len(c.writes), 0, c.buffered)
    ELSE QuicFlushed(k, i, c, n,
                     IF n = Len(c.writes) THEN 0 ELSE room - QuicUnits(SubSeq(c.writes, 1, n)),
                     IF n = Len(c.writes) THEN c.buffered ELSE room)

QuicFlushRoom(k, i, c, room) == QuicFlushWith(k, i, c, room, QuicWhole(c.writes, room))
QuicRoom(c) == IF c.q \in {"hs", "up"} THEN c.room ELSE 0
QuicFlush(k, i) == QuicFlushRoom(k, i, k.w.conn[i], QuicRoom(k.w.conn[i]))

\* poll_application, for what quinn (external) reports of connection i.  The writes
\* that Writable and Stopped concern are flushed by drive, in the same step.
QuicPoll(k, i, event) ==
    LET c == k.w.conn[i] IN
    CASE event = "connected" ->
            QuicEv(QuicRep([k EXCEPT !.w.conn[i].q = "up", !.w.conn[i].announced = TRUE,
                                     !.w.conn[i].connectReq = 0], c.connectReq), i, "connected")
      [] event = "lost" ->
            QuicFailPendingWrites(
                QuicEv(QuicRep([k EXCEPT !.w.conn[i].q = "closed", !.w.conn[i].connectReq = 0],
                               c.connectReq),
                       i, "close"), i)
      [] event = "fin" -> QuicQueueEvent([k EXCEPT !.w.conn[i].rx = "fin"], i, "fin")
      [] event = "stopped" -> [k EXCEPT !.w.conn[i].dead = TRUE]
      [] event = "room" -> [k EXCEPT !.w.conn[i].room = @ + 1]
      [] event = "data" -> QuicQueueEvent(k, i, "data")
      [] OTHER -> k

\* What quinn can report of a connection in this state
QuicReports(c) ==
    CASE c.q = "hs" -> {"none", "connected", "lost"}
      [] c.q = "up" -> {"none", "lost", "room"} \cup (IF c.rx = "open" THEN {"data", "fin"} ELSE {})
                       \cup (IF c.dead THEN {} ELSE {"stopped"})
      [] OTHER -> {"none"}

\* The timer of an endpoint follows quinn's deadline.
QuicRetime(e, deadline) ==
    IF e.deadline = deadline THEN e ELSE [e EXCEPT !.gen = @ + 1, !.deadline = deadline]

\* The end of drive: the drained connections are forgotten, the timer follows the
\* deadline, and an endpoint nobody needs is closed.  (lost, history: calls that
\* waited on a connection that is forgotten.)
QuicSettle(k, s, drained, unused, e) ==
    [k EXCEPT !.w.conn = [i \in QuicIds |-> IF i \in drained THEN QuicNoConn ELSE @[i]],
              !.w.lost = @ \cup UNION {QuicWaits(k.w.conn[i]) : i \in drained},
              !.w.ep[s] = IF unused THEN QuicNoEp ELSE e,
              !.out.close = IF unused THEN @ \cup {s} ELSE @,
              !.out.timer = IF ~unused /\ e.gen # k.w.ep[s].gen /\ e.deadline # 0
                            THEN <<s, e.gen>> ELSE <<>>]

\* drive, after the application events of one connection: the writes of every
\* connection of the endpoint are flushed; quinn says what is drained.
QuicDrive(k, s, drained, deadline) ==
    IF ~k.w.ep[s].up THEN k
    ELSE QuicSettle(FoldSet(LAMBDA i, a : QuicFlush(a, i), k,
                            {i \in QuicOn(k.w, s) : k.w.conn[i].writes # <<>>}),
                    s, drained, ~k.w.ep[s].listener /\ QuicOn(k.w, s) \subseteq drained,
                    QuicRetime(k.w.ep[s], deadline))

----------------------------------------------------------------------------
(* emit: without packets the output leaves at once; otherwise when they are  *)
(* sent (udp_send_wait).  A socket that is shut down is gone; its last event *)
(* finds no endpoint.                                                        *)

QuicLeave(w, out) ==
    LET to(i) == SelectSeq(out.ev, LAMBDA x : x[1] = i)
    IN  [w EXCEPT !.told = [i \in QuicIds |-> @[i] \o [n \in DOMAIN to(i) |-> to(i)[n][2]]],
                  !.ans = [r \in QuicReqs |->
                              @[r] + Cardinality({n \in DOMAIN out.rep : out.rep[n] = r})],
                  !.timers = IF out.timer = <<>> THEN @ ELSE @ \cup {out.timer}]

QuicShut(out) == [s \in QuicSocks |-> IF s \in out.close THEN "gone" ELSE quicSock[s]]

QuicEmit(k) ==
    \/ quic' = QuicLeave(k.w, k.out) /\ quicSock' = QuicShut(k.out) /\ UNCHANGED quicEmits
    \/ /\ Len(quicEmits) < quicUsed.menu.hold
       /\ quic' = k.w
       /\ quicEmits' = Append(quicEmits, k.out)
       /\ UNCHANGED quicSock

\* The handler that waits for the packets of output n goes on.
QuicSent(n) ==
    /\ n \in DOMAIN quicEmits
    /\ quic' = QuicLeave(quic, quicEmits[n])
    /\ quicSock' = QuicShut(quicEmits[n])
    /\ quicEmits' = RemoveAt(quicEmits, n)
    /\ UNCHANGED <<quicTasks, quicUsed>>

\* A handler ends by driving its endpoint and emitting; quinn chooses what is
\* drained and when it wants to be called again.
QuicDriveAndEmit(work, s) ==
    \E k \in {work}, d \in 0 .. 2 :
        \E drained \in SUBSET {i \in QuicOn(k.w, s) : k.w.conn[i].q = "closed"} :
            /\ d # 0 => QuicOn(k.w, s) \ drained # {}
            /\ d \notin {0, k.w.ep[s].deadline} => k.w.ep[s].gen < quicUsed.menu.gen
            /\ \E driven \in {QuicDrive(k, s, drained, d)} : QuicEmit(driven)

----------------------------------------------------------------------------
(* Commands. *)

QuicAsk(r) == r = quicUsed.req + 1 /\ quicUsed' = [quicUsed EXCEPT !.req = r]
QuicAnswerNow(r) == quic' = [quic EXCEPT !.ans[r] = @ + 1]
QuicTask(op, r, s) == [op |-> op, r |-> r, sock |-> s]

\* listen and connect up to the first await; connect reserves its place.
QuicListen(r) ==
    /\ QuicAsk(r)
    /\ \/ QuicAnswerNow(r) /\ UNCHANGED quicTasks
       \/ quicTasks' = quicTasks \cup {QuicTask("listen", r, 0)} /\ UNCHANGED quic
    /\ UNCHANGED <<quicEmits, quicSock>>

QuicConnect(r) ==
    /\ QuicAsk(r)
    /\ \/ QuicAnswerNow(r) /\ UNCHANGED quicTasks
       \/ /\ QuicHasCapacity(quic)
          /\ quic' = [quic EXCEPT !.reserved = @ + 1]
          /\ quicTasks' = quicTasks \cup {QuicTask("connect", r, 0)}
    /\ UNCHANGED <<quicEmits, quicSock>>

QuicFresh == {s \in QuicSocks : quicSock[s] = "none"}
QuicFirst == CHOOSE s \in QuicFresh : \A t \in QuicFresh : s <= t

\* listen after udp and info: a wildcard address is refused.
QuicListening(t, ok) ==
    /\ t \in quicTasks /\ t.op = "listen"
    /\ quicTasks' = quicTasks \ {t}
    /\ \/ /\ ok /\ QuicFresh # {}
          /\ quicSock' = [quicSock EXCEPT ![QuicFirst] = "up"]
          /\ quic' = [quic EXCEPT !.ep[QuicFirst] = [QuicNoEp EXCEPT !.up = TRUE, !.listener = TRUE],
                                  !.ans[t.r] = @ + 1]
       \/ ~ok /\ QuicAnswerNow(t.r) /\ UNCHANGED quicSock
    /\ UNCHANGED <<quicEmits, quicUsed>>

\* connect after udp or udp_for_peer
QuicConnectUdp(t, ok) ==
    /\ t \in quicTasks /\ t.op = "connect"
    /\ \/ /\ ok /\ QuicFresh # {}
          /\ quicSock' = [quicSock EXCEPT ![QuicFirst] = "up"]
          /\ quicTasks' = (quicTasks \ {t}) \cup {QuicTask("info", t.r, QuicFirst)}
          /\ UNCHANGED quic
       \/ /\ ~ok
          /\ quicTasks' = quicTasks \ {t}
          /\ quic' = [quic EXCEPT !.reserved = @ - 1, !.ans[t.r] = @ + 1]
          /\ UNCHANGED quicSock
    /\ UNCHANGED <<quicEmits, quicUsed>>

\* connect after udp_connect and info: the reservation becomes a connection, and
\* its timeout starts.
QuicConnectInfo(t, ok) ==
    /\ t \in quicTasks /\ t.op = "info"
    /\ quicTasks' = quicTasks \ {t}
    /\ \/ /\ ok /\ quicSock[t.sock] = "up" /\ quic.next \in QuicIds
          /\ LET free == [quic EXCEPT !.reserved = @ - 1,
                                      !.ep[t.sock] = [QuicNoEp EXCEPT !.up = TRUE],
                                      !.connectTimers = @ \cup {quic.next}]
             IN  QuicDriveAndEmit(QuicWork(QuicInsert(free, t.sock, FALSE, t.r)), t.sock)
       \/ /\ ~ok
          /\ quic' = [quic EXCEPT !.reserved = @ - 1, !.ans[t.r] = @ + 1]
          /\ quicSock' = [quicSock EXCEPT ![t.sock] = "gone"]
          /\ UNCHANGED quicEmits
    /\ UNCHANGED quicUsed

\* owned_connection, for a caller that is the owner
QuicOwned(i) == i \in QuicConns(quic) /\ quic.conn[i].started

\* Commands that are refused: no such connection, not the owner's, not started, a
\* bad error code, a write too long.  An unawaited one says nothing.
QuicRefuse(r) ==
    /\ QuicAsk(r)
    /\ QuicAnswerNow(r)
    /\ UNCHANGED <<quicTasks, quicEmits, quicSock>>

\* Mutant: the kept events stay where they are.
QuicStartsKeeping(w, i, r) == QuicRep(QuicWork([w EXCEPT !.conn[i].started = TRUE]), r)

\* start: what was kept is handed over.
QuicStarts(w, i, r) ==
    LET kept == w.conn[i].queued
        k == QuicWork([w EXCEPT !.conn[i].started = TRUE, !.conn[i].queued = <<>>])
    IN  QuicRep([k EXCEPT !.out.ev = [j \in DOMAIN kept |-> <<i, kept[j]>>]], r)

QuicStart(i, r) ==
    /\ QuicAsk(r) /\ i \in QuicConns(quic)
    /\ QuicDriveAndEmit(QuicStarts(quic, i, r), quic.conn[i].sock)
    /\ UNCHANGED quicTasks

\* close_listener: the endpoint goes with its last connection.
QuicClosesListener(w, s, r) ==
    IF QuicOn(w, s) = {}
    THEN [QuicRep(QuicWork([w EXCEPT !.ep[s] = QuicNoEp]), r) EXCEPT !.out.close = {s}]
    ELSE QuicRep(QuicWork([w EXCEPT !.ep[s].listener = FALSE]), r)

QuicCloseListener(s, r) ==
    /\ QuicAsk(r) /\ quic.ep[s].listener
    /\ \E k \in {QuicClosesListener(quic, s, r)} : QuicEmit(k)
    /\ UNCHANGED quicTasks

\* open_bi, open_uni, stop, send_datagram: quinn accepts or refuses.
QuicQuinnOp(i, r) ==
    /\ QuicAsk(r) /\ QuicOwned(i)
    /\ QuicDriveAndEmit(QuicRep(QuicWork(quic), r), quic.conn[i].sock)
    /\ UNCHANGED quicTasks

\* info, netstat and local_addr: an answer without a drive
QuicQuery(r) ==
    /\ QuicAsk(r) /\ QuicConns(quic) # {}
    /\ QuicEmit(QuicRep(QuicWork(quic), r))
    /\ UNCHANGED quicTasks

\* send and send_wait (r = 0 when nobody waits): quinn takes what it can, although
\* earlier writes may be queued; the rest is queued.
QuicTakes(w, i, c, n, now, r) ==
    IF c.finish # 0 \/ c.dead THEN QuicRep(QuicWork(w), r)
    ELSE IF now = n THEN QuicRep(QuicWork([w EXCEPT !.conn[i].room = @ - now]), r)
    ELSE QuicWork([w EXCEPT !.conn[i].room = @ - now,
                            !.conn[i].buffered = @ + n - now,
                            !.conn[i].writes = Append(@, [left |-> n - now, r |-> r]),
                            !.conn[i].warned = @ \/ c.buffered + n - now >= QuicHigh])

QuicSends(w, i, n, r) ==
    QuicTakes(w, i, w.conn[i], n, IF n <= QuicRoom(w.conn[i]) THEN n ELSE QuicRoom(w.conn[i]), r)

QuicSend(i, n, r) ==
    /\ QuicOwned(i) /\ n \in 1 .. quicUsed.menu.size
    /\ \/ QuicAsk(r)
       \/ /\ r = 0 /\ quicUsed.net < quicUsed.menu.net
          /\ quicUsed' = [quicUsed EXCEPT !.net = @ + 1]
    /\ QuicDriveAndEmit(QuicSends(quic, i, n, r), quic.conn[i].sock)
    /\ UNCHANGED quicTasks

\* finish: at once, or after the writes that are queued
QuicFinishes(w, i, r) ==
    LET c == w.conn[i]
    IN  IF c.finish = 0 /\ c.writes # <<>> THEN QuicWork([w EXCEPT !.conn[i].finish = r])
        ELSE QuicRep(QuicWork([w EXCEPT !.conn[i].dead = @ \/ c.finish = 0]), r)

QuicFinish(i, r) ==
    /\ QuicAsk(r) /\ QuicOwned(i)
    /\ QuicDriveAndEmit(QuicFinishes(quic, i, r), quic.conn[i].sock)
    /\ UNCHANGED quicTasks

\* reset: the queued writes are refused when drive flushes them.
QuicReset(i, r) ==
    /\ QuicAsk(r) /\ QuicOwned(i)
    /\ QuicDriveAndEmit(QuicRep(QuicWork([quic EXCEPT !.conn[i].dead = TRUE]), r),
                        quic.conn[i].sock)
    /\ UNCHANGED quicTasks

\* close (r answered) and shutdown (r = 0): quinn closes the connection and says
\* nothing to its own side.
QuicClose(i, r) ==
    /\ QuicOwned(i)
    /\ \/ QuicAsk(r)
       \/ r = 0 /\ quic.conn[i].q # "closed" /\ UNCHANGED quicUsed
    /\ QuicDriveAndEmit(QuicRep(QuicWork([quic EXCEPT !.conn[i].q = "closed"]), r),
                        quic.conn[i].sock)
    /\ UNCHANGED quicTasks

----------------------------------------------------------------------------
(* Packets, ends of sockets, timers. *)

\* on_socket, a packet for a connection: quinn reports something or nothing.
QuicPacket(i, event) ==
    /\ i \in QuicConns(quic) /\ quicSock[quic.conn[i].sock] = "up"
    /\ quic.ep[quic.conn[i].sock].up /\ event \in QuicReports(quic.conn[i])
    /\ quicUsed.net < quicUsed.menu.net
    /\ quicUsed' = [quicUsed EXCEPT !.net = @ + 1]
    /\ QuicDriveAndEmit(QuicPoll(QuicWork(quic), i, event), quic.conn[i].sock)
    /\ UNCHANGED quicTasks

\* on_socket, a new connection: accepted, or refused (no listener, no capacity).
QuicIncoming(s) ==
    /\ quicSock[s] = "up" /\ quic.ep[s].up /\ quic.next \in QuicIds
    /\ quicUsed.net < quicUsed.menu.net
    /\ quicUsed' = [quicUsed EXCEPT !.net = @ + 1]
    /\ QuicDriveAndEmit(QuicWork(IF quic.ep[s].listener /\ QuicHasCapacity(quic)
                                 THEN QuicInsert(quic, s, TRUE, 0) ELSE quic), s)
    /\ UNCHANGED quicTasks

\* endpoint_failed: the socket ended by itself.
QuicFailEndpoint(w, s) ==
    LET fail(i, k) ==
            [QuicFailPendingWrites(QuicEv(QuicRep(k, k.w.conn[i].connectReq), i, "error"), i)
                EXCEPT !.w.conn[i] = QuicNoConn]
    IN  FoldSet(fail, QuicWork([w EXCEPT !.ep[s] = QuicNoEp]), QuicOn(w, s))

QuicEndpointFailed(s) ==
    /\ quicSock[s] = "up"
    /\ \E k \in {QuicFailEndpoint(quic, s)} : quic' = QuicLeave(k.w, k.out)
    /\ quicSock' = [quicSock EXCEPT ![s] = "gone"]
    /\ UNCHANGED <<quicTasks, quicEmits, quicUsed>>

\* Mutant: the passed deadline is kept, so the same deadline arms nothing.
QuicTickKeeps(s, gen, event, i) ==
    /\ <<s, gen>> \in quic.timers /\ quic.ep[s].up /\ quic.ep[s].gen = gen
    /\ event \in {"none"} /\ i \in QuicIds
    /\ QuicDriveAndEmit(QuicWork([quic EXCEPT !.timers = @ \ {<<s, gen>>}]), s)
    /\ UNCHANGED <<quicTasks, quicUsed>>

\* Tick of the current generation: quinn's timers fire (a connection may be lost).
QuicTick(s, gen, event, i) ==
    /\ <<s, gen>> \in quic.timers /\ quic.ep[s].up /\ quic.ep[s].gen = gen
    /\ i \in QuicOn(quic, s)
    /\ event \in QuicReports(quic.conn[i]) \cap {"none", "lost"}
    /\ QuicDriveAndEmit(QuicPoll(QuicWork([quic EXCEPT !.timers = @ \ {<<s, gen>>},
                                                       !.ep[s].deadline = 0]), i, event), s)
    /\ UNCHANGED <<quicTasks, quicUsed>>

\* Tick of an older generation or of an endpoint that is gone
QuicTickStale(s, gen) ==
    /\ <<s, gen>> \in quic.timers /\ (~quic.ep[s].up \/ quic.ep[s].gen # gen)
    /\ quic' = [quic EXCEPT !.timers = @ \ {<<s, gen>>}]
    /\ UNCHANGED <<quicTasks, quicEmits, quicSock, quicUsed>>

\* connect_timeout
QuicConnectTimeout(i) ==
    /\ i \in quic.connectTimers
    /\ LET w == [quic EXCEPT !.connectTimers = @ \ {i}]
           c == quic.conn[i]
       IN  IF c.q = "hs" /\ c.connectReq # 0
           THEN QuicDriveAndEmit(
                    QuicWork([w EXCEPT !.conn[i].q = "closed", !.conn[i].connectReq = 0,
                                       !.ans[c.connectReq] = @ + 1]), c.sock)
           ELSE quic' = w /\ UNCHANGED <<quicEmits, quicSock>>
    /\ UNCHANGED <<quicTasks, quicUsed>>

QuicCommand ==
    \E r \in QuicReqs :
        \/ QuicListen(r) \/ QuicConnect(r) \/ QuicRefuse(r) \/ QuicQuery(r)
        \/ \E s \in QuicSocks : QuicCloseListener(s, r)
        \/ \E i \in QuicIds : \/ QuicStart(i, r) \/ QuicFinish(i, r) \/ QuicReset(i, r)
                              \/ QuicClose(i, r) \/ QuicQuinnOp(i, r)

QuicAwaited ==
    \/ \E t \in quicTasks, ok \in BOOLEAN :
          QuicListening(t, ok) \/ QuicConnectUdp(t, ok) \/ QuicConnectInfo(t, ok)
    \/ \E n \in DOMAIN quicEmits : QuicSent(n)

QuicNext ==
    \/ QuicCommand
    \/ \E i \in QuicIds : \/ QuicClose(i, 0)
                          \/ \E n \in 1 .. 2, r \in {0} \cup QuicReqs : QuicSend(i, n, r)
    \/ QuicAwaited
    \/ \E i \in QuicIds :
          \E event \in {"none", "connected", "lost", "room", "data", "fin", "stopped"} :
              QuicPacket(i, event)
    \/ \E s \in QuicSocks : QuicIncoming(s) \/ QuicEndpointFailed(s)
    \/ \E t \in quic.timers : \/ QuicTickStale(t[1], t[2])
                              \/ \E event \in {"none", "lost"}, i \in QuicIds :
                                    QuicTick(t[1], t[2], event, i)
    \/ \E i \in QuicIds : QuicConnectTimeout(i)

\* The socket service answers every call and the timer service every sleep.
QuicSpec == QuicInit /\ [][QuicNext]_quicVars

----------------------------------------------------------------------------
(* Properties. *)

QuicPending(r) ==
    {<<"task", t>> : t \in {u \in quicTasks : u.r = r}}
    \cup {<<"emit", n>> : n \in {x \in DOMAIN quicEmits :
              \E y \in DOMAIN quicEmits[x].rep : quicEmits[x].rep[y] = r}}
    \cup {<<"conn", i>> : i \in {j \in QuicConns(quic) :
              r \in QuicWaits(quic.conn[j])}}

\* Each call has one answer, or waits at one place: at the socket service, on a
\* connection (a connect, a write, a finish), or in an output whose packets are not
\* sent; ends, resets, timeouts and failing sockets may come in any order.
QuicAnswered ==
    \A r \in 1 .. quicUsed.req :
        Cardinality(QuicPending(r)) + quic.ans[r] = IF r \in quic.lost THEN 0 ELSE 1

\* max_connections and max_handshakes hold, although a connect awaits the socket
\* service three times after the check.
QuicLimits ==
    /\ Cardinality(QuicConns(quic)) + quic.reserved <= QuicMaxConn
    /\ QuicHandshakes(quic) <= QuicMaxHandshakes

\* buffered_bytes counts the queued units, the warning latch follows the two marks,
\* a finish waits only behind writes, and while writes are queued quinn takes no
\* more: a later send cannot overtake them.
QuicWriteBooks ==
    \A i \in QuicConns(quic) :
        LET c == quic.conn[i] IN
        /\ c.buffered = QuicUnits(c.writes)
        /\ c.buffered >= QuicHigh => c.warned
        /\ c.warned => c.buffered > QuicLow
        /\ c.finish # 0 => c.writes # <<>>
        /\ c.writes # <<>> => (c.room = 0 \/ c.q = "closed")

\* The deadline quinn asked for has a timer of the current generation, sleeping or
\* about to be started; sockets that are up belong to an endpoint or to a connect.
QuicTimed ==
    /\ \A s \in QuicSocks :
           quic.ep[s].deadline # 0 =>
               LET t == <<s, quic.ep[s].gen>>
               IN  t \in quic.timers \/ \E n \in DOMAIN quicEmits : quicEmits[n].timer = t
    /\ \A s \in QuicSocks :
           quicSock[s] = "up" =>
               \/ quic.ep[s].up
               \/ \E t \in quicTasks : t.sock = s
               \/ \E n \in DOMAIN quicEmits : s \in quicEmits[n].close

\* A connect that waits for its peer has its timeout.
QuicConnectTimed ==
    \A i \in QuicConns(quic) :
        quic.conn[i].connectReq # 0 /\ quic.conn[i].q # "closed" => i \in quic.connectTimers

\* An accepted connection tells its owner nothing of its stream before it is
\* started, keeps nothing back afterwards, and tells of the stream's end once.
QuicHandedOver ==
    \A i \in QuicIds :
        /\ quic.conn[i].q # "none" =>
               IF quic.conn[i].started THEN quic.conn[i].queued = <<>> ELSE quic.told[i] = <<>>
        /\ Cardinality({n \in DOMAIN quic.told[i] : quic.told[i][n] = "fin"}) <= 1

\* Every call is answered once, and the service's books are right: limits, buffered
\* writes, timers, sockets and kept events (perform, drive, emit, endpoint_failed).
QuicSafe ==
    /\ QuicAnswered /\ QuicLimits /\ QuicWriteBooks /\ QuicTimed /\ QuicConnectTimed
    /\ QuicHandedOver
=============================================================================
