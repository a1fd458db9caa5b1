-------------------------------- MODULE Net --------------------------------
(***************************************************************************)
(* The socket service (crates/rskynet-net).  It is an exclusive service:   *)
(* one thread alternates between the commands in its mailbox and a poll of *)
(* the kernel, so a handler is one step.  Readiness is edge triggered: the *)
(* kernel reports a change once, and what a handler leaves unread is not   *)
(* reported again.                                                         *)
(*                                                                         *)
(* A handler of the code is an operator from the state of the service (net) *)
(* to the state, or the set of states, it may leave; an action runs one    *)
(* command, one event of a batch, or one step of the kernel (external).    *)
(* Names carry the prefix Net so that the module can be extended next to   *)
(* the other components.                                                   *)
(***************************************************************************)
EXTENDS Integers, Sequences, FiniteSets, SequencesExt, TLC

CONSTANTS
    NetOwners,        \* services that own sockets
    NetCapacity,      \* max_socket: slots of the table
    NetMaxId,         \* bound: ids handed out (a u32 in the code)
    NetMaxReq,        \* bound: calls made to the service
    NetMenus,         \* bounds of a behaviour: [ops, open, send, rx], the opening
                      \* commands that meet, how many of them, how many chunks
                      \* are sent and how many arrivals the peers make
    NetRoom,          \* units the kernel's send buffer of a socket takes
    NetWarn,          \* warn_size
    NetHigh, NetLow   \* write_high_water, write_low_water

ASSUME NetAssumption ==
    /\ NetOwners # {}
    /\ {NetCapacity, NetMaxId, NetMaxReq, NetRoom, NetWarn} \subseteq Nat \ {0}
    /\ \A m \in NetMenus : {m.open, m.send, m.rx} \subseteq Nat
    \* NetConfig::validate
    /\ NetLow \in Nat /\ NetHigh \in Nat /\ 0 < NetLow /\ NetLow < NetHigh

VARIABLES
    net,         \* the service: slot table, next id, answers, events told, timers
    netTasks,    \* commands waiting for the resolver thread, by request
    netJobs,     \* the resolver's queue of requests
    netBatch,    \* events returned by the last poll and not handled yet
    netUsed      \* how much of each bound is used, and the menu of the behaviour

netVars == <<net, netTasks, netJobs, netBatch, netUsed>>

NetIds == 1 .. NetMaxId
NetAllIds == 1 .. NetMaxId + 2 * NetCapacity   \* one step may pass the bound
NetReqs == 1 .. NetMaxReq
NetSlots == 0 .. NetCapacity - 1

NetFree == [id |-> 0]

\* A fresh socket: Socket::new, and what the kernel keeps for its descriptor
\* (rx unread arrivals, eof, err, room in the send buffer, the two edges).
NetSocket(id, owner, kind, state) ==
    [id |-> id, owner |-> owner, kind |-> kind, state |-> state,
     paused |-> FALSE, interest |-> {}, high |-> <<>>, low |-> <<>>,
     warnAt |-> 0, peer |-> FALSE, pending |-> 0, waiters |-> <<>>,
     fallbacks |-> 0, deadline |-> FALSE,
     conn |-> IF state = "Connecting" THEN "wait" ELSE "ok",
     rx |-> 0, eof |-> FALSE, err |-> FALSE, room |-> NetRoom,
     redge |-> FALSE, wedge |-> FALSE, stalled |-> FALSE]

NetInit ==
    /\ net = [sock |-> [s \in NetSlots |-> NetFree], next |-> 1,
              ans |-> [r \in NetReqs |-> <<>>], told |-> [i \in NetAllIds |-> <<>>],
              timers |-> {}, dropped |-> {}, twice |-> {}]
    /\ netTasks = [r \in {} |-> {}]
    /\ netJobs = <<>>
    /\ netBatch = {}
    /\ \E menu \in NetMenus : netUsed = [req |-> 0, open |-> 0, send |-> 0, rx |-> 0,
                                               menu |-> menu]

----------------------------------------------------------------------------
(* The slot table, the write queue and the registration with poll. *)

\* Mutant: the slot is trusted without comparing the id.
NetHasSlot(w, id) == w.sock[id % NetCapacity].id # 0

NetHas(w, id) == w.sock[id % NetCapacity].id = id
NetGet(w, id) == w.sock[id % NetCapacity]
NetPut(w, s) == [w EXCEPT !.sock[s.id % NetCapacity] = s]

\* Sockets::insert: the first free slot at or after next; a full table moves
\* next round once and inserts nothing (id 0).
NetInsert(w, owner, kind, state) ==
    LET free == {k \in 0 .. NetCapacity - 1 :
                    w.sock[(w.next + k) % NetCapacity] = NetFree}
        k == CHOOSE k \in free : \A j \in free : k <= j
    IN  IF free = {}
        THEN [id |-> 0, w |-> [w EXCEPT !.next = @ + NetCapacity]]
        ELSE [id |-> w.next + k,
              w |-> NetPut([w EXCEPT !.next = @ + k + 1],
                           NetSocket(w.next + k, owner, kind, state))]

NetBounded == net'.next <= NetMaxId + 1

\* A chunk is [rest, off, to]: units left, units written, addressed or not.
NetUnits(q) == Cardinality(UNION {{i} \X (1 .. q[i].rest) : i \in DOMAIN q})
NetSize(s) == NetUnits(s.high) + NetUnits(s.low)

NetWritable(state) == state \in {"Connected", "HalfCloseRead"}

\* Socket::desired
NetDesired(s) ==
    CASE s.state \in {"PreListen", "PreAccept"} -> {}
      [] s.state = "Listen" -> {"r"}
      [] s.state = "Connected" -> IF NetSize(s) = 0 THEN {"r"} ELSE {"r", "w"}
      [] OTHER -> {"w"}

NetReadReady(s) == s.rx > 0 \/ s.eof \/ s.err
NetWriteReady(s) == s.conn # "wait" /\ (s.room > 0 \/ s.err)

\* Socket::apply.  A change of the registration makes the kernel report again
\* what is ready now.
NetApply(s) ==
    LET want == NetDesired(s)
    IN  IF want = s.interest THEN s
        ELSE [s EXCEPT !.interest = want,
                       !.redge = "r" \in want /\ NetReadReady(s),
                       !.wedge = "w" \in want /\ NetWriteReady(s)]

\* fn reply: an answer is what it says and the id it carries.
NetAnswer(w, r, what, id) ==
    IF r = 0 THEN w ELSE [w EXCEPT !.ans[r] = Append(@, <<what, id>>)]
NetReply(w, r, what) == NetAnswer(w, r, what, 0)

NetReplyAll(w, rs, what) ==
    [w EXCEPT !.ans = [r \in NetReqs |->
        IF r \in ToSet(rs) THEN Append(@[r], <<what, 0>>) ELSE @[r]]]

NetTell(w, id, event) == [w EXCEPT !.told[id] = Append(@, event)]

\* Mutant: the callers of send_wait are forgotten.
NetCloseForgets(w, id, farewell) ==
    IF ~NetHas(w, id) THEN w
    ELSE LET s == NetGet(w, id)
             gone == [w EXCEPT !.sock[id % NetCapacity] = NetFree]
             answered == NetReply(gone, s.pending,
                                  IF farewell = "failed" THEN "failed" ELSE "done")
         IN  IF farewell = "silent" THEN answered ELSE NetTell(answered, id, "end")

\* NetService::close: the slot is freed, whoever waits on the socket is
\* answered, and the owner is told unless the farewell is silent.
NetClose(w, id, farewell) ==
    IF ~NetHas(w, id) THEN w
    ELSE LET s == NetGet(w, id)
             gone == [w EXCEPT !.sock[id % NetCapacity] = NetFree]
             answered == NetReplyAll(
                             NetReply(gone, s.pending,
                                      IF farewell = "failed" THEN "failed" ELSE "done"),
                             s.waiters, "failed")
         IN  IF farewell = "silent" THEN answered ELSE NetTell(answered, id, "end")

\* Mutant: a high chunk goes to the front.
NetPushFront(s, chunk, high) ==
    [warn |-> FALSE,
     s |-> [s EXCEPT !.high = IF high THEN <<chunk>> \o @ ELSE @,
                     !.low = IF high THEN @ ELSE Append(@, chunk)]]

\* WriteQueue::push: the queue grows, and a warning is due each time the
\* backlog passes the threshold, which then doubles.
NetPush(s, chunk, high) ==
    LET size == NetSize(s) + chunk.rest
        warn == size >= NetWarn /\ size >= s.warnAt
    IN  [warn |-> warn,
         s |-> [s EXCEPT !.high = IF high THEN Append(@, chunk) ELSE @,
                         !.low = IF high THEN @ ELSE Append(@, chunk),
                         !.warnAt = IF ~warn THEN @
                                    ELSE IF @ = 0 THEN 2 * NetWarn ELSE 2 * @]]

\* WriteQueue::next and consume, n units of the queue in a row.
NetDrop(q, n) ==
    LET after[k \in 0 .. n] ==
            IF k = 0 THEN q
            ELSE LET p == after[k - 1]
                 IN  IF p[1].rest = 1 THEN Tail(p)
                     ELSE [p EXCEPT ![1].rest = @ - 1, ![1].off = @ + 1]
    IN  after[n]

\* What the socket takes before a write fails: a datagram without an address
\* is refused, a reset connection takes nothing.
NetAccepts(s) ==
    LET q == s.high \o s.low
        bad == {i \in 1 .. Len(q) : s.kind = "udp" /\ ~q[i].to}
    IN  IF s.err THEN 0
        ELSE IF bad = {} THEN NetUnits(q)
        ELSE NetUnits(SubSeq(q, 1, (CHOOSE i \in bad : \A j \in bad : i <= j) - 1))

\* The socket after n units are written and left remains: a low chunk is raised
\* to the head of the high queue as soon as the high queue is empty.
NetWritten(s, n, left) ==
    IF left = <<>> THEN [s EXCEPT !.high = <<>>, !.low = <<>>, !.room = @ - n, !.warnAt = 0]
    ELSE [s EXCEPT !.high = IF n >= NetUnits(s.high) THEN SubSeq(left, 1, 1)
                            ELSE SubSeq(left, 1, Len(left) - Len(s.low)),
                   !.low = IF n >= NetUnits(s.high) THEN Tail(left) ELSE @,
                   !.room = @ - n]

\* release_send_waiters, once the backlog is down to the low water mark
NetRelease(w, s, n) ==
    IF n > 0 /\ NetSize(s) <= NetLow
    THEN NetPut(NetReplyAll(w, s.waiters, "done"), [s EXCEPT !.waiters = <<>>])
    ELSE NetPut(w, s)

\* The end of flush: a failed write closes the socket, an empty queue ends a half
\* close, otherwise the registration follows.
NetAfterWrite(w, id, s, failed) ==
    IF failed THEN NetClose(w, id, "failed")
    ELSE IF s.high \o s.low = <<>> /\ s.state \in {"HalfCloseRead", "HalfCloseWrite"}
    THEN NetClose(w, id, "closed")
    ELSE NetPut(w, NetApply(NetGet(w, id)))

\* NetService::flush: write until the queue is empty, the kernel is full, or a
\* write fails (limit units go through before).
NetWriteOut(w, s, limit, n) ==
    LET written == NetWritten(s, n, NetDrop(s.high \o s.low, n))
    IN  NetAfterWrite(NetRelease(w, written, n), s.id, written, limit < NetSize(s) /\ n = limit)

NetFlushSocket(w, s, limit) == NetWriteOut(w, s, limit, IF limit < s.room THEN limit ELSE s.room)

NetFlush(w, id) ==
    IF ~NetHas(w, id) THEN w
    ELSE IF NetGet(w, id).kind = "listener" THEN NetPut(w, NetApply(NetGet(w, id)))
    ELSE NetFlushSocket(w, NetGet(w, id), NetAccepts(NetGet(w, id)))

----------------------------------------------------------------------------
(* Events. *)

\* do_connect_candidates with n addresses left; the set of outcomes: the
\* deadline has passed, every address is refused at once, the table is full,
\* the registration fails, or a connect is under way with some addresses left.
NetConnecting(f, r, left, deadline, ok) ==
    LET s == [NetGet(f.w, f.id) EXCEPT !.pending = r, !.fallbacks = left, !.deadline = deadline]
    IN  IF f.id = 0 THEN NetReply(f.w, r, "failed")
        ELSE IF ok THEN [NetPut(f.w, NetApply(s)) EXCEPT
                            !.timers = IF deadline THEN @ \cup {f.id} ELSE @]
        ELSE NetReply(NetClose([NetPut(f.w, s) EXCEPT !.twice = @ \cup {r}],
                               f.id, "silent"), r, "failed")

NetConnectCandidates(w, n, owner, r, deadline) ==
    {NetReply(w, r, "failed")} \cup
    {NetConnecting(NetInsert(w, owner, "stream", "Connecting"), r, left, deadline, ok)
        : left \in 0 .. n - 1, ok \in BOOLEAN}

\* finish_connect: the set of outcomes.  A connection reset before its result was
\* looked at has not been made (take_error); the registration may fail as well.
NetConnectFailed(closed, s) ==
    IF s.pending = 0 THEN {closed}
    ELSE IF s.fallbacks = 0 THEN {NetReply(closed, s.pending, "failed")}
    ELSE NetConnectCandidates(closed, s.fallbacks, s.owner, s.pending, s.deadline)

NetFinish(w, id, s, taken) ==
    IF s.conn = "ok" /\ ~s.err
    THEN {NetAnswer(NetPut(w, NetApply([taken EXCEPT !.state = "Connected"])),
                    s.pending, "id", id),
          NetReply(NetClose(NetPut(w, taken), id, "silent"), s.pending, "failed")}
    ELSE NetConnectFailed(NetClose(NetPut(w, taken), id, "silent"), s)

NetFinishConnect(w, id) ==
    NetFinish(w, id, NetGet(w, id), [NetGet(w, id) EXCEPT !.pending = 0, !.fallbacks = 0])

\* on_writable
NetOnWritable(w, id) ==
    IF NetHas(w, id) /\ NetGet(w, id).state = "Connecting"
    THEN NetFinishConnect(w, id)
    ELSE {NetFlush(w, id)}

\* peer_closed
NetPeerClosed(w, id) ==
    LET s == NetGet(w, id)
    IN  IF NetSize(s) = 0 THEN NetClose(w, id, "closed")
        ELSE NetPut(w, NetApply([s EXCEPT !.state = "HalfCloseRead"]))

NetTellMany(w, id, event, n) ==
    [w EXCEPT !.told[id] = @ \o [i \in 1 .. n |-> event]]

\* on_readable: everything the kernel holds, then the end of the stream or the
\* error.  A read on a socket that is not connected is an error.
NetOnReadable(w, id) ==
    LET s == NetGet(w, id)
        read == NetTellMany(NetPut(w, [s EXCEPT !.rx = 0]), id, "data", s.rx)
    IN  IF s.paused THEN w
        ELSE IF s.conn # "ok" THEN NetClose(w, id, "failed")
        ELSE IF s.err THEN NetClose(read, id, "failed")
        ELSE IF s.eof THEN NetPeerClosed(read, id)
        ELSE read

\* on_acceptable: n connections of the backlog are taken (a table without a
\* free slot drops the connection); an accept that fails leaves the rest.
NetOnAcceptable(w, id, n) ==
    LET s == NetGet(w, id)
        taken == NetPut(w, [s EXCEPT !.rx = @ - n, !.stalled = n < s.rx])
        after[k \in 0 .. n] ==
            IF k = 0 THEN taken
            ELSE LET f == NetInsert(after[k - 1], s.owner, "stream", "PreAccept")
                 IN  IF f.id = 0 THEN f.w ELSE NetTell(f.w, f.id, "accept")
    IN  IF s.paused THEN w ELSE after[n]

\* on_udp: n datagrams become events; a failing receive leaves the rest.
NetOnUdp(w, id, n) ==
    LET s == NetGet(w, id)
    IN  IF s.paused THEN w
        ELSE NetTellMany(NetPut(w, [s EXCEPT !.rx = @ - n, !.stalled = n < s.rx]),
                         id, "data", n)

\* The readable half of on_event and the catch-up of do_start, by role.
NetReadable(w, id) ==
    IF ~NetHas(w, id) THEN {w}
    ELSE LET s == NetGet(w, id)
         IN  CASE s.kind = "stream" -> {NetOnReadable(w, id)}
               [] s.kind = "listener" -> {NetOnAcceptable(w, id, n) : n \in 0 .. s.rx}
               [] OTHER -> {NetOnUdp(w, id, n) : n \in 0 .. s.rx}

\* on_event for a token: the socket now in that slot is the one that is served.
NetServe(w, ev, id) ==
    LET written == IF ev.w THEN NetOnWritable(w, id) ELSE {w}
        read == UNION {IF ev.r THEN NetReadable(v, id) ELSE {v} : v \in written}
    IN  {IF ev.e THEN NetClose(v, id, "failed") ELSE v : v \in read}

NetOnEvent(w, ev) ==
    IF w.sock[ev.slot].id = 0 THEN {w} ELSE NetServe(w, ev, w.sock[ev.slot].id)

----------------------------------------------------------------------------
(* Commands.  A call takes a request number and is answered by NetReply; a  *)
(* command that nobody waits for has request 0.                             *)

NetQuiet == netBatch = {}      \* commands run between two polls

\* A command names a socket that some service was told of, alive or long gone: an
\* answer carried its id or an Accept event did.
NetKnown ==
    {id \in NetIds :
        \/ "accept" \in ToSet(net.told[id])
        \/ \E r \in NetReqs : \E i \in DOMAIN net.ans[r] : net.ans[r][i][2] = id}

NetCall(n) == netUsed.req + 1 = n /\ netUsed' = [netUsed EXCEPT !.req = n]

\* do_listen
NetDoListen(w, owner, r) ==
    LET f == NetInsert(w, owner, "listener", "PreListen")
    IN  {NetReply(w, r, "failed"),
         NetAnswer(f.w, r, IF f.id = 0 THEN "failed" ELSE "id", f.id)}

\* do_udp, do_udp_for_peer (peer) and do_udp_with_peer; a registration that
\* fails removes the socket again.
NetDoUdp(w, owner, r, peer) ==
    LET f == NetInsert(w, owner, "udp", "Connected")
        s == [NetGet(f.w, f.id) EXCEPT !.peer = peer]
    IN  {NetReply(w, r, "failed")} \cup
        IF f.id = 0 THEN {NetReply(f.w, r, "failed")}
        ELSE {NetAnswer(NetPut(f.w, NetApply(s)), r, "id", f.id),
              NetReply([f.w EXCEPT !.sock[f.id % NetCapacity] = NetFree], r, "failed")}

\* do_udp_connect
NetDoUdpConnect(w, id, r) ==
    IF NetHas(w, id) /\ NetGet(w, id).kind = "udp"
    THEN {NetReply(NetPut(w, [NetGet(w, id) EXCEPT !.peer = TRUE]), r, "done")}
    ELSE {NetReply(w, r, "failed")}

\* perform for the commands that name an address, and after_resolve: n
\* addresses are known.
NetOpen(w, cmd, n, owner, r) ==
    CASE cmd.op = "listen" -> NetDoListen(w, owner, r)
      [] cmd.op \in {"connect", "connect_timeout"} -> NetConnectCandidates(w, n, owner, r, cmd.deadline)
      [] cmd.op = "udp" -> NetDoUdp(w, owner, r, FALSE)
      [] cmd.op = "udp_for_peer" -> NetDoUdp(w, owner, r, TRUE)
      [] cmd.op = "udp_connect" -> NetDoUdpConnect(w, cmd.id, r)

NetOpenCmds ==
    {[op |-> o, deadline |-> FALSE, id |-> 0]
        : o \in {"listen", "connect", "udp", "udp_for_peer"}}
    \cup {[op |-> "connect_timeout", deadline |-> TRUE, id |-> 0]}
    \cup {[op |-> "udp_connect", deadline |-> FALSE, id |-> i] : i \in NetIds}

NetCallOpen(cmd, n) ==
    /\ cmd.op \in netUsed.menu.ops /\ cmd.id \in {0} \cup NetKnown
    /\ netUsed.req + 1 = n /\ netUsed.open < netUsed.menu.open
    /\ netUsed' = [netUsed EXCEPT !.req = n, !.open = @ + 1]

\* perform with a literal address
NetPerformOpen(cmd, owner, r) ==
    /\ NetQuiet /\ NetCallOpen(cmd, r)
    /\ net' \in NetOpen(net, cmd, 1, owner, r) /\ NetBounded
    /\ UNCHANGED <<netTasks, netJobs, netBatch>>

\* perform with a host name: defer and the first half of resolve
NetDefer(cmd, owner, r) ==
    /\ NetQuiet /\ NetCallOpen(cmd, r)
    /\ netTasks' = netTasks @@ (r :> [cmd |-> cmd, owner |-> owner])
    /\ netJobs' = Append(netJobs, r)
    /\ UNCHANGED <<net, netBatch>>

NetForget(r) == netTasks' = [q \in DOMAIN netTasks \ {r} |-> netTasks[q]]

\* The resolver thread answers the oldest job with n addresses or an error (0),
\* and the task resumes: after_resolve.  A task that gave up ignores the answer.
NetResolved(n) ==
    /\ NetQuiet /\ netJobs # <<>>
    /\ LET r == Head(netJobs) IN
       /\ IF r \notin DOMAIN netTasks THEN net' = net
          ELSE IF n = 0 THEN net' = NetReply(net, r, "failed")
          ELSE net' \in NetOpen(net, netTasks[r].cmd, n, netTasks[r].owner, r)
       /\ NetForget(r)
    /\ NetBounded
    /\ netJobs' = Tail(netJobs)
    /\ UNCHANGED <<netBatch, netUsed>>

\* The deadline of a connect passes while its name is being resolved.
NetResolveTimeout(r) ==
    /\ NetQuiet /\ r \in DOMAIN netTasks /\ netTasks[r].cmd.deadline
    /\ net' = NetReply(net, r, "failed")
    /\ NetForget(r)
    /\ UNCHANGED <<netJobs, netBatch, netUsed>>

\* connect_timeout_elapsed, posted by the task that slept until the deadline
NetConnectTimeoutElapsed(id) ==
    /\ NetQuiet /\ id \in net.timers
    /\ LET w == [net EXCEPT !.timers = @ \ {id}]
           s == NetGet(net, id)
       IN  net' = IF NetHas(net, id) /\ s.state = "Connecting"
                  THEN NetReply(NetClose(NetPut(w, [s EXCEPT !.pending = 0]), id, "silent"),
                                s.pending, "failed")
                  ELSE w
    /\ UNCHANGED <<netTasks, netJobs, netBatch, netUsed>>

\* Mutant: the catch-up read after a pause is missing.
NetStartOnly(id, owner, r) ==
    /\ NetQuiet /\ NetCall(r) /\ id \in NetKnown
    /\ LET s == NetGet(net, id)
           s1 == [s EXCEPT !.owner = owner, !.paused = FALSE,
                           !.state = IF @ = "PreListen" THEN "Listen"
                                     ELSE IF @ = "PreAccept" THEN "Connected" ELSE @]
       IN  net' = IF NetHas(net, id) THEN NetReply(NetPut(net, NetApply(s1)), r, "done")
                  ELSE NetReply(net, r, "failed")
    /\ UNCHANGED <<netTasks, netJobs, netBatch>>

\* do_start: the caller becomes the owner, and what arrived while the socket
\* was paused is read now, since its edge is gone.
NetDoStart(id, owner, r) ==
    /\ NetQuiet /\ NetCall(r) /\ id \in NetKnown
    /\ LET s == NetGet(net, id)
           s1 == [s EXCEPT !.owner = owner, !.paused = FALSE,
                           !.state = IF @ = "PreListen" THEN "Listen"
                                     ELSE IF @ = "PreAccept" THEN "Connected" ELSE @]
           applied == NetPut(net, NetApply(s1))
           read == IF s.paused THEN NetReadable(applied, id) ELSE {applied}
           unregistered == IF s.interest = {}
                           THEN {NetReply(NetClose(net, id, "failed"), r, "failed")} ELSE {}
       IN  net' \in IF NetHas(net, id)
                    THEN {NetReply(w, r, "done") : w \in read} \cup unregistered
                    ELSE {NetReply(net, r, "failed")}
    /\ NetBounded
    /\ UNCHANGED <<netTasks, netJobs, netBatch>>

\* do_pause: nothing is deregistered, the handlers stop reading.
NetDoPause(id, r) ==
    /\ NetQuiet /\ NetCall(r) /\ id \in NetKnown
    /\ net' = IF NetHas(net, id)
              THEN NetReply(NetPut(net, NetApply([NetGet(net, id) EXCEPT !.paused = TRUE])),
                            r, "done")
              ELSE NetReply(net, r, "failed")
    /\ UNCHANGED <<netTasks, netJobs, netBatch>>

\* do_send: queue the chunk, warn the owner, and write at once what goes.  The
\* answer says whether the chunk was taken.
NetQueued(w, id, p) ==
    NetFlush(IF p.warn THEN NetTell(NetPut(w, p.s), id, "warn") ELSE NetPut(w, p.s), id)

NetDoSend(w, id, chunk, high) ==
    IF ~NetHas(w, id) THEN [w |-> w, ok |-> FALSE]
    ELSE IF chunk.rest = 0 THEN [w |-> w, ok |-> TRUE]
    ELSE IF ~NetWritable(NetGet(w, id).state) THEN [w |-> w, ok |-> FALSE]
    ELSE [w |-> NetQueued(w, id, NetPush(NetGet(w, id), chunk, high)), ok |-> TRUE]

\* The chunk a send command makes: tcp data, a datagram with an address, or one
\* for the default peer.  A datagram is one unit and goes to the high queue.
NetSends == [mode : {"tcp"}, n : {0, 2}, high : BOOLEAN]
            \cup [mode : {"to", "peer"}, n : {1}, high : {TRUE}]

\* do_send, and do_udp_send for the datagrams
NetTake(w, id, c) ==
    IF c.mode = "peer" /\ ~(NetHas(w, id) /\ NetGet(w, id).peer)
    THEN [w |-> w, ok |-> FALSE]
    ELSE NetDoSend(w, id, [rest |-> c.n, off |-> 0, to |-> c.mode # "tcp"], c.high)

\* perform Send and UdpSend: nobody waits
NetSend(id, c) ==
    /\ NetQuiet /\ id \in NetKnown /\ netUsed.send < netUsed.menu.send
    /\ netUsed' = [netUsed EXCEPT !.send = @ + 1]
    /\ net' = NetTake(net, id, c).w
    /\ UNCHANGED <<netTasks, netJobs, netBatch>>

\* do_send_wait and do_udp_send_wait: the caller is answered at once below the
\* high water mark and waits otherwise.
NetThenWait(d, id, r) ==
    IF ~d.ok \/ ~NetHas(d.w, id) THEN NetReply(d.w, r, "failed")
    ELSE IF NetSize(NetGet(d.w, id)) < NetHigh THEN NetReply(d.w, r, "done")
    ELSE NetPut(d.w, [NetGet(d.w, id) EXCEPT !.waiters = Append(@, r)])

NetSendWait(id, c, r) ==
    /\ NetQuiet /\ id \in NetKnown /\ netUsed.send < netUsed.menu.send /\ netUsed.req + 1 = r
    /\ netUsed' = [netUsed EXCEPT !.send = @ + 1, !.req = r]
    /\ net' = NetThenWait(NetTake(net, id, c), id, r)
    /\ UNCHANGED <<netTasks, netJobs, netBatch>>

\* do_close: flush, then close at once or when the rest is written.  A second
\* close that also has to wait takes the place of the first.
NetThenClose(w, id, r) ==
    IF ~NetHas(w, id) THEN NetReply(w, r, "done")
    ELSE IF NetSize(NetGet(w, id)) = 0 THEN NetReply(NetClose(w, id, "closed"), r, "done")
    ELSE [NetPut(w, NetApply([NetGet(w, id) EXCEPT !.state = "HalfCloseWrite", !.pending = r]))
             EXCEPT !.dropped = @ \cup ({NetGet(w, id).pending} \ {0})]

NetDoClose(id, r) ==
    /\ NetQuiet /\ NetCall(r) /\ id \in NetKnown
    /\ net' = NetThenClose(NetFlush(net, id), id, r)
    /\ UNCHANGED <<netTasks, netJobs, netBatch>>

\* perform Shutdown (nobody waits)
NetShutdown(id) ==
    /\ NetQuiet /\ id \in NetKnown /\ NetHas(net, id)
    /\ net' = NetClose(net, id, "closed")
    /\ UNCHANGED <<netTasks, netJobs, netBatch, netUsed>>

\* perform NoDelay, Info and Netstat, and dispatch of a message that is no
\* command: answered at once (not recorded), the service does not change.
NetQuery == NetQuiet /\ UNCHANGED netVars

----------------------------------------------------------------------------
(* The poll, and the kernel and the peers (external). *)

\* idle: the poll returns the edges that are pending.
NetPoll ==
    LET ready == {k \in NetSlots : net.sock[k] # NetFree /\
                                   (net.sock[k].redge \/ net.sock[k].wedge)}
    IN  /\ NetQuiet /\ ready # {}
        /\ netBatch' = {[slot |-> k, r |-> net.sock[k].redge, w |-> net.sock[k].wedge,
                         e |-> net.sock[k].err] : k \in ready}
        /\ net' = [net EXCEPT !.sock = [k \in NetSlots |->
                      IF k \in ready THEN [@[k] EXCEPT !.redge = FALSE, !.wedge = FALSE]
                                     ELSE @[k]]]
        /\ UNCHANGED <<netTasks, netJobs, netUsed>>

\* idle: one event of the batch is dispatched.
NetDispatchEvent(ev) ==
    /\ ev \in netBatch
    /\ net' \in NetOnEvent(net, ev) /\ NetBounded
    /\ netBatch' = netBatch \ {ev}
    /\ UNCHANGED <<netTasks, netJobs, netUsed>>

NetKernel(k, s) ==
    /\ net' = [net EXCEPT !.sock[k] = s]
    /\ UNCHANGED <<netTasks, netJobs, netBatch>>

NetUp(k) == net.sock[k] # NetFree /\ net.sock[k].conn = "ok" /\ ~net.sock[k].err

\* Data, a connection or a datagram arrives.
NetArrive(k) ==
    /\ NetUp(k) /\ netUsed.rx < netUsed.menu.rx /\ ~net.sock[k].eof
    /\ netUsed' = [netUsed EXCEPT !.rx = @ + 1]
    /\ NetKernel(k, [net.sock[k] EXCEPT !.rx = @ + 1, !.stalled = FALSE,
                                        !.redge = @ \/ "r" \in net.sock[k].interest])

\* The peer closes its side, or resets the connection.
NetPeerEnds(k, reset) ==
    /\ NetUp(k) /\ net.sock[k].kind = "stream" /\ ~net.sock[k].eof
    /\ UNCHANGED netUsed
    /\ LET s == net.sock[k]
       IN  NetKernel(k, IF reset
                        THEN [s EXCEPT !.err = TRUE, !.redge = s.interest # {},
                                       !.wedge = s.interest # {}]
                        ELSE [s EXCEPT !.eof = TRUE, !.redge = @ \/ "r" \in s.interest])

\* The kernel's send buffer drains.
NetDrain(k) ==
    /\ NetUp(k) /\ net.sock[k].room < NetRoom
    /\ UNCHANGED netUsed
    /\ NetKernel(k, [net.sock[k] EXCEPT !.room = NetRoom,
                                        !.wedge = @ \/ "w" \in net.sock[k].interest])

\* A connect succeeds or fails.
NetConnectSettles(k, how) ==
    /\ net.sock[k] # NetFree /\ net.sock[k].conn = "wait"
    /\ UNCHANGED netUsed
    /\ NetKernel(k, [net.sock[k] EXCEPT !.conn = how, !.wedge = TRUE,
                                        !.err = how = "bad", !.redge = how = "bad"])

NetCommand ==
    \/ \E r \in NetReqs, o \in NetOwners, cmd \in NetOpenCmds :
          NetPerformOpen(cmd, o, r) \/ NetDefer(cmd, o, r)
    \/ \E n \in 0 .. 2 : NetResolved(n)
    \/ NetQuery
    \/ \E r \in NetReqs : NetResolveTimeout(r)
    \/ \E id \in NetIds : NetConnectTimeoutElapsed(id) \/ NetShutdown(id)
    \/ \E id \in NetIds, r \in NetReqs :
          \/ \E o \in NetOwners : NetDoStart(id, o, r)
          \/ NetDoPause(id, r)
          \/ NetDoClose(id, r)
    \/ \E id \in NetIds, c \in NetSends :
          NetSend(id, c) \/ \E r \in NetReqs : NetSendWait(id, c, r)

NetNext ==
    \/ NetCommand
    \/ NetPoll
    \/ \E ev \in netBatch : NetDispatchEvent(ev)
    \/ \E k \in NetSlots :
          \/ NetArrive(k)
          \/ \E reset \in BOOLEAN : NetPeerEnds(k, reset)
          \/ NetDrain(k)
          \/ \E how \in {"ok", "bad"} : NetConnectSettles(k, how)

NetSpec == NetInit /\ [][NetNext]_netVars

----------------------------------------------------------------------------
(* Properties. *)

NetLive == {k \in NetSlots : net.sock[k] # NetFree}

NetPlaces(r) ==
    {<<"task", 0>> : q \in {r} \cap DOMAIN netTasks}
    \cup {<<"pending", k>> : k \in {j \in NetLive : net.sock[j].pending = r}}
    \cup {<<"waiter", k>> : k \in {j \in NetLive : r \in ToSet(net.sock[j].waiters)}}

\* Each call of the service is waiting at one place or has its one answer, over
\* name resolution, fallback addresses, timeouts, half closes and sockets torn
\* down under the caller.  Two paths of the code are exempt and recorded as
\* history: a second close that takes the first one's place (dropped) and a
\* connect whose registration fails, which is answered twice (twice).
NetAnswered ==
    \A r \in 1 .. netUsed.req :
        Cardinality(NetPlaces(r)) + Len(net.ans[r]) =
            IF r \in net.dropped THEN 0 ELSE IF r \in net.twice THEN 2 ELSE 1

\* Readiness is never lost: whenever a socket that is read has something to read,
\* or owed data could be written, or a connect is decided, the edge that says so
\* is pending or in the batch.  (stalled: an accept or receive failed and the
\* handler gave up on that edge.)
NetNoLostEdge ==
    \A k \in NetLive :
        LET s == net.sock[k]
            r == s.redge \/ \E ev \in netBatch : ev.slot = k /\ ev.r
            w == s.wedge \/ \E ev \in netBatch : ev.slot = k /\ ev.w
        IN  /\ (s.state \in {"Listen", "Connected"} /\ ~s.paused /\ ~s.stalled
                 /\ NetReadReady(s)) => r
            /\ (NetSize(s) > 0 /\ NetWriteReady(s)) => w
            /\ (s.state = "Connecting" /\ s.conn # "wait") => w

\* The owner of a socket that is gone has been told so exactly once, last, also
\* when it closed the socket itself; a live socket was never declared gone; and
\* an accepted connection delivers no byte before it is started.
NetFarewell ==
    /\ \A id \in 1 .. net.next - 1 :
           LET t == net.told[id]
               ends == {i \in DOMAIN t : t[i] = "end"}
           IN  /\ ends \subseteq {Len(t)}
               /\ NetHas(net, id) => ends = {}
               /\ (~NetHas(net, id) /\ t # <<>>) => ends # {}
    /\ \A r \in NetReqs : \A i \in DOMAIN net.ans[r] :
           LET id == net.ans[r][i][2]
           IN  (id # 0 /\ ~NetHas(net, id)) => Contains(net.told[id], "end")
    /\ \A k \in NetLive : net.sock[k].state = "PreAccept"
                            => net.told[net.sock[k].id] = <<"accept">>

\* Back pressure: a caller only waits while the backlog is above the low water
\* mark, a chunk that is partly written stays at the head of the high queue (a
\* later high chunk never cuts into it), and an empty queue warns afresh.
NetBackpressure ==
    \A k \in NetLive :
        LET s == net.sock[k]
        IN  /\ s.waiters # <<>> => NetSize(s) > NetLow
            /\ \A i \in DOMAIN s.high : s.high[i].off > 0 => i = 1
            /\ \A i \in DOMAIN s.low : s.low[i].off = 0
            /\ NetSize(s) = 0 => s.warnAt = 0

\* The socket service answers every call, loses no readiness, takes leave of every
\* owner and keeps its write queues in order (perform, on_event, flush, close).
NetSafe == NetAnswered /\ NetNoLostEdge /\ NetFarewell /\ NetBackpressure
=============================================================================
