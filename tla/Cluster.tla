----------------------------- MODULE Cluster -----------------------------
(***************************************************************************)
(* The cluster services of two nodes and the sockets between them           *)
(* (crates/rskynet-cluster/src/lib.rs): dialling the seeds, Hello and the   *)
(* choice between connections opened from both sides, remote requests and   *)
(* their answers, disconnection, retry.  A node may be restarted.           *)
(*                                                                         *)
(* The socket service is external: a connection delivers to each end, in    *)
(* order, the frames of the other and at last one Close; what is on its way *)
(* when an end is shut down may be lost.  One frame is one Data event.      *)
(***************************************************************************)
EXTENDS Integers, Sequences, FiniteSets

CONSTANTS
    ClConns,        \* bound: connections that exist at once
    ClMaxDials,     \* bound: Connect commands and retries of a node at once
    ClMaxOps,       \* bound: requests and sends of a node
    ClMenus         \* configurations: [seeded, the nodes that have the other one as a seed;
                    \* ops, bound on their requests and sends; faults, bound on the
                    \* connections cut, restarts and bad frames]

ClNodes == {1, 2}

ASSUME ClAssumption ==
    /\ ClConns \in Nat \ {0} /\ ClMaxDials \in Nat /\ ClMaxOps \in Nat
    /\ \A menu \in ClMenus :
          menu.seeded \subseteq ClNodes /\ menu.ops \in [ClNodes -> 0 .. ClMaxOps] /\ menu.faults \in Nat

VARIABLES
    clMenu,     \* the configuration
    clNode,     \* State of each node, and its Connect commands and retries
    clConn,     \* the connections (external)
    clTasks,    \* handlers that wait: for net::connect, net::start, a handler of the user
    clCalls,    \* the answers that each request got
    clFaults    \* the faults so far (bound)

clVars == <<clMenu, clNode, clConn, clTasks, clCalls, clFaults>>

ClIds == 1 .. ClMaxOps
ClOther(n) == 3 - n
ClNoPeer == [there |-> FALSE, out |-> FALSE, claimed |-> FALSE]
ClFree == [by |-> 0, open |-> [n \in ClNodes |-> FALSE], q |-> [n \in ClNodes |-> <<>>]]

\* A cluster service after init; epoch tells the lives of a node apart, retried
\* that a connection in use was lost (both for the properties).
ClFresh(n, seeded, epoch) ==
    [active |-> 0, peers |-> [c \in 1 .. ClConns |-> ClNoPeer], next |-> 0, ops |-> 0,
     pending |-> {}, timers |-> {}, dial |-> IF n \in seeded THEN 1 ELSE 0, retried |-> FALSE, epoch |-> epoch]

ClInit ==
    /\ clMenu \in ClMenus
    /\ clNode = [n \in ClNodes |-> ClFresh(n, clMenu.seeded, 0)]
    /\ clConn = [c \in 1 .. ClConns |-> ClFree]
    /\ clTasks = {}
    /\ clCalls = [n \in ClNodes |-> [i \in ClIds |-> <<>>]]
    /\ clFaults = 0

----------------------------------------------------------------------------
(* The socket service *)

\* transmit: what is sent to a socket that has ended is lost.
ClSent(conn, n, c, frame) ==
    IF conn[c].open[n] /\ conn[c].open[ClOther(n)]
    THEN [conn EXCEPT ![c].q[ClOther(n)] = Append(@, frame)] ELSE conn

\* The ways a connection may end: each end is told, and loses what is on its way or not.
ClEnded(conn, c, keep) ==
    [conn EXCEPT ![c] = [by |-> @.by, open |-> [n \in ClNodes |-> FALSE],
        q |-> [n \in ClNodes |-> IF ~conn[c].open[n] THEN conn[c].q[n]
                                 ELSE Append(IF n \in keep THEN conn[c].q[n] ELSE <<>>,
                                             [kind |-> "close"])]]]
\* net::shutdown by one end
ClShut(conn, c, keep) == IF \E n \in ClNodes : conn[c].open[n] THEN ClEnded(conn, c, keep) ELSE conn

\* A connection that nobody refers to: its place may be used again.
ClUnused(c) ==
    /\ \A n \in ClNodes : ~clConn[c].open[n] /\ clConn[c].q[n] = <<>> /\ ~clNode[n].peers[c].there
    /\ \A t \in clTasks : t.c # c

\* A woken task is polled before the next event, as long as fewer than
\* READY_BURST tasks are ready: the answer of net::connect or net::start is first.
ClHead(n, c) ==
    /\ clConn[c].q[n] # <<>>
    /\ ~\E t \in clTasks : t.c = c /\ t.n = n /\ t.kind \in {"dial", "start"}
ClPop(n, c) == [clConn EXCEPT ![c].q[n] = Tail(@)]
ClEvent(n, c, kind) == ClHead(n, c) /\ Head(clConn[c].q[n]).kind = kind

ClFault == clFaults < clMenu.faults /\ clFaults' = clFaults + 1

ClCut(c, keep) ==
    /\ ClFault /\ \E n \in ClNodes : clConn[c].open[n]
    /\ clConn' = ClEnded(clConn, c, keep)
    /\ UNCHANGED <<clMenu, clNode, clTasks, clCalls>>

\* A node is started again: its sockets, tasks and callers are gone.
ClRestart(n) ==
    /\ ClFault
    /\ clNode' = [clNode EXCEPT ![n] = ClFresh(n, clMenu.seeded, @.epoch + 1)]
    /\ clConn' = [c \in 1 .. ClConns |->
         [ClShut(clConn, c, ClNodes)[c] EXCEPT !.q[n] = <<>>]]
    /\ clTasks' = {t \in clTasks : t.n # n}
    /\ clCalls' = [clCalls EXCEPT ![n] = [i \in ClIds |-> <<>>]]
    /\ UNCHANGED clMenu

----------------------------------------------------------------------------
(* Connections *)

\* Command::Connect of init or of retry, up to net::connect; a connect that fails
\* is tried again, and changes nothing.
ClConnect(n, c) ==
    /\ clNode[n].dial > 0
    /\ \/ /\ clNode[n].active # 0
          /\ clNode' = [clNode EXCEPT ![n].dial = @ - 1]
          /\ UNCHANGED <<clConn, clTasks>>
       \/ /\ clNode[n].active = 0
          /\ ClUnused(c) /\ \A d \in 1 .. c - 1 : ~ClUnused(d)
          /\ clNode' = [clNode EXCEPT ![n].dial = @ - 1]
          /\ clConn' = [clConn EXCEPT ![c] =
               [by |-> n, open |-> [m \in ClNodes |-> TRUE],
                q |-> [m \in ClNodes |-> IF m = n THEN <<>> ELSE <<[kind |-> "accept"]>>]]]
          /\ clTasks' = clTasks \cup {[kind |-> "dial", n |-> n, c |-> c, id |-> 0, epoch |-> 0]}
    /\ UNCHANGED <<clMenu, clCalls, clFaults>>

\* connect after the await: the peer is entered and greeted.
ClConnected(t) ==
    /\ t.kind = "dial"
    /\ clNode' = [clNode EXCEPT ![t.n].peers[t.c] = [there |-> TRUE, out |-> TRUE, claimed |-> FALSE]]
    /\ clConn' = ClSent(clConn, t.n, t.c, [kind |-> "hello"])
    /\ clTasks' = clTasks \ {t}
    /\ UNCHANGED <<clMenu, clCalls, clFaults>>

\* on_socket, Accept: the peer is entered and net::start awaited
ClAccept(n, c) ==
    /\ ClEvent(n, c, "accept")
    /\ clNode' = [clNode EXCEPT ![n].peers[c] = [there |-> TRUE, out |-> FALSE, claimed |-> FALSE]]
    /\ clConn' = ClPop(n, c)
    /\ clTasks' = clTasks \cup {[kind |-> "start", n |-> n, c |-> c, id |-> 0, epoch |-> 0]}
    /\ UNCHANGED <<clMenu, clCalls, clFaults>>

ClStarted(t) ==
    /\ t.kind = "start"
    /\ clConn' = ClSent(clConn, t.n, t.c, [kind |-> "hello"])
    /\ clTasks' = clTasks \ {t}
    /\ UNCHANGED <<clMenu, clNode, clCalls, clFaults>>

\* The node that opened connection c, as node n sees it.
ClInitiator(n, c) == IF clNode[n].peers[c].out THEN n ELSE ClOther(n)

\* Mutant: the connection that was there first stays.
ClKeepsFirst(n, c) == clNode[n].active # 0

\* accept_hello keeps the old connection when its initiator is not the larger node.
ClKeepsOld(n, c) ==
    /\ clNode[n].active # 0
    /\ ClInitiator(n, clNode[n].active) <= ClInitiator(n, c)

\* accept_hello: shut the new connection, or take it and shut the old one.
ClHello(n, c, keep) ==
    /\ ClEvent(n, c, "hello") /\ clNode[n].peers[c].there
    /\ LET old == clNode[n].active
           claimed == [clNode EXCEPT ![n].peers[c].claimed = TRUE]
       IN  \/ /\ ClKeepsOld(n, c)
              /\ clNode' = claimed /\ clConn' = ClShut(ClPop(n, c), c, keep)
           \/ /\ ~ClKeepsOld(n, c) /\ old = 0
              /\ clNode' = [claimed EXCEPT ![n].active = c] /\ clConn' = ClPop(n, c)
           \/ /\ ~ClKeepsOld(n, c) /\ old # 0
              /\ clNode' = [claimed EXCEPT ![n].active = c, ![n].peers[old] = ClNoPeer]
              /\ clConn' = ClShut(ClPop(n, c), old, keep)
    /\ UNCHANGED <<clMenu, clTasks, clCalls, clFaults>>

\* A frame that cannot be read, of another version, of a node that was not expected
\* or has not said Hello: net::shutdown.
ClBadFrame(n, c, keep) ==
    /\ ClFault /\ clNode[n].peers[c].there /\ clConn[c].open[n]
    /\ clConn' = ClEnded(clConn, c, keep)
    /\ UNCHANGED <<clMenu, clNode, clTasks, clCalls>>

ClAnswer(calls, n, ids, answer) ==
    [calls EXCEPT ![n] = [i \in ClIds |-> IF i \in ids THEN Append(@[i], answer) ELSE @[i]]]

\* The peer's requests are given up only when no other connection is active.
ClWasActive(n, c) ==
    /\ clNode[n].peers[c].out \/ clNode[n].peers[c].claimed
    /\ clNode[n].active \in {0, c}

\* Mutant: the requests of the lost connection are forgotten.
ClFailNone(n) == clCalls
\* disconnected answers every request to the node.
ClFailPending(n) == ClAnswer(clCalls, n, clNode[n].pending, "failed")

\* Mutant: a lost connection is not dialled again.
ClNoRetry(n) == 0
\* disconnected dials the node again if it is a seed.
ClRetry(n) == IF n \in clMenu.seeded THEN 1 ELSE 0

\* disconnected: Close or Error
ClDisconnected(n, c) ==
    /\ ClEvent(n, c, "close")
    /\ clConn' = ClPop(n, c)
    /\ LET gone == [clNode[n] EXCEPT !.peers[c] = ClNoPeer]
       IN  IF ~ClWasActive(n, c)
           THEN clNode' = [clNode EXCEPT ![n] = gone] /\ UNCHANGED clCalls
           ELSE /\ clNode[n].dial + ClRetry(n) <= ClMaxDials
                /\ clNode' = [clNode EXCEPT ![n] = [gone EXCEPT !.active = 0, !.pending = {},
                                !.dial = @ + ClRetry(n), !.retried = TRUE]]
                /\ clCalls' = ClFailPending(n)
    /\ UNCHANGED <<clMenu, clTasks, clFaults>>

----------------------------------------------------------------------------
(* Requests *)

ClFrame(kind, id, epoch) == [kind |-> kind, id |-> id, epoch |-> epoch]

\* Command::Request: without a connection it fails at once, else it is pending
\* with a timer.
ClRequest(n) ==
    /\ clNode[n].ops < clMenu.ops[n]
    /\ LET id == clNode[n].next + 1
           a == clNode[n].active
           asked == [clNode[n] EXCEPT !.next = id, !.ops = @ + 1]
       IN  \/ /\ a = 0
              /\ clNode' = [clNode EXCEPT ![n] = asked]
              /\ clCalls' = ClAnswer(clCalls, n, {id}, "failed")
              /\ UNCHANGED clConn
           \/ /\ a # 0
              /\ clNode' = [clNode EXCEPT ![n] = [asked EXCEPT !.pending = @ \cup {id}, !.timers = @ \cup {id}]]
              /\ clConn' = ClSent(clConn, n, a, ClFrame("request", id, clNode[n].epoch))
              /\ UNCHANGED clCalls
    /\ UNCHANGED <<clMenu, clTasks, clFaults>>

\* Command::Send
ClSend(n) ==
    /\ clNode[n].ops < clMenu.ops[n] /\ clNode[n].active # 0
    /\ clNode' = [clNode EXCEPT ![n].ops = @ + 1]
    /\ clConn' = ClSent(clConn, n, clNode[n].active, ClFrame("send", 0, 0))
    /\ UNCHANGED <<clMenu, clTasks, clCalls, clFaults>>

\* timeout
ClTimeout(n, id) ==
    /\ id \in clNode[n].timers
    /\ clNode' = [clNode EXCEPT ![n].timers = @ \ {id}, ![n].pending = @ \ {id}]
    /\ clCalls' = ClAnswer(clCalls, n, {id} \cap clNode[n].pending, "failed")
    /\ UNCHANGED <<clMenu, clConn, clTasks, clFaults>>

\* on_envelope of a request, a send or an answer; its peer has said Hello before.
ClEnvelope(n, c) ==
    /\ ClHead(n, c)
    /\ \E f \in {Head(clConn[c].q[n])} :
       /\ f.kind \in {"request", "send", "ok", "failed"}
       /\ \/ /\ ~clNode[n].peers[c].there
             /\ clConn' = ClPop(n, c) /\ UNCHANGED <<clNode, clTasks, clCalls>>
          \/ /\ clNode[n].peers[c].claimed /\ f.kind \in {"request", "send"}
             /\ clConn' = ClPop(n, c)
             /\ clTasks' = clTasks \cup
                  {[kind |-> f.kind, n |-> n, c |-> c, id |-> f.id, epoch |-> f.epoch]}
             /\ UNCHANGED <<clNode, clCalls>>
          \/ /\ clNode[n].peers[c].claimed /\ f.kind \in {"ok", "failed"}
             /\ clConn' = ClPop(n, c)
             /\ clNode' = [clNode EXCEPT ![n].pending = @ \ {f.id}]
             /\ clCalls' = ClAnswer(clCalls, n, {f.id} \cap clNode[n].pending,
                             IF f.epoch # clNode[n].epoch THEN "stale" ELSE f.kind)
             /\ UNCHANGED clTasks
    /\ UNCHANGED <<clMenu, clFaults>>

ClReply(t, kind) == ClSent(clConn, t.n, t.c, ClFrame(kind, t.id, t.epoch))

\* invoke after the handler: a request is answered on its own connection.
ClInvoked(t, kind) ==
    /\ t.kind \in {"request", "send"}
    /\ clTasks' = clTasks \ {t}
    /\ clConn' = IF t.kind = "request" THEN ClReply(t, kind) ELSE clConn
    /\ UNCHANGED <<clMenu, clNode, clCalls, clFaults>>

\* Some task of the service goes on.
ClTaskStep ==
    \E t \in clTasks : ClConnected(t) \/ ClStarted(t) \/ \E kind \in {"ok", "failed"} : ClInvoked(t, kind)

\* Node n reads what connection c has for it.
ClInput(n, c) == \E keep \in {{}, ClNodes} : ClHello(n, c, keep) \/ ClEnvelope(n, c)

ClNext ==
    \/ \E n \in ClNodes : ClRestart(n) \/ ClRequest(n) \/ ClSend(n)
    \/ \E n \in ClNodes, id \in ClIds : ClTimeout(n, id)
    \/ \E n \in ClNodes, c \in 1 .. ClConns :
          \/ ClConnect(n, c) \/ ClAccept(n, c) \/ ClDisconnected(n, c) \/ ClEnvelope(n, c)
          \/ \E keep \in {{}, ClNodes} : ClHello(n, c, keep) \/ ClBadFrame(n, c, keep)
    \/ \E c \in 1 .. ClConns, keep \in {{}, ClNodes} : ClCut(c, keep)
    \/ ClTaskStep

\* The scheduler runs every service that has work; timers and sleeps end.
ClFair ==
    /\ \A n \in ClNodes, c \in 1 .. ClConns :
         /\ WF_clVars(ClConnect(n, c)) /\ WF_clVars(ClAccept(n, c))
         /\ WF_clVars(ClDisconnected(n, c)) /\ WF_clVars(ClInput(n, c))
    /\ WF_clVars(ClTaskStep)

ClSpec == ClInit /\ [][ClNext]_clVars /\ ClFair

----------------------------------------------------------------------------
(* Properties *)

\* Every remote request is answered exactly once, whatever is cut, reordered or
\* restarted: while it is pending it has a timer and no answer, then one answer,
\* and never the answer to a request of an earlier life of its node (complete,
\* timeout, disconnected).
ClAnswered ==
    \A n \in ClNodes : \A id \in 1 .. clNode[n].next :
       IF id \in clNode[n].pending
       THEN id \in clNode[n].timers /\ clCalls[n][id] = <<>>
       ELSE Len(clCalls[n][id]) = 1 /\ clCalls[n][id] # <<"stale">>

ClQuiet ==
    /\ \A c \in 1 .. ClConns, n \in ClNodes : clConn[c].q[n] = <<>>
    /\ clTasks = {} /\ \A n \in ClNodes : clNode[n].dial = 0

\* Each node has chosen a connection that has been shut, and not the same one.
ClBothShut ==
    LET a == clNode[1].active
        b == clNode[2].active
    IN  0 \notin {a, b} /\ a # b /\ ~clConn[a].open[1] /\ ~clConn[b].open[2]

\* Once every event has been handled both nodes use the same connection, and no
\* node keeps a peer whose connection has gone.  Until a connection is lost and
\* dialled again, the nodes do not each shut the connection that the other has
\* chosen (accept_hello).
ClAgree ==
    /\ ClQuiet =>
         /\ clNode[1].active = clNode[2].active
         /\ clNode[1].active # 0 <=> clMenu.seeded # {}
         /\ \A c \in 1 .. ClConns, n \in ClNodes : clNode[n].peers[c].there => c = clNode[n].active
    /\ clFaults = 0 /\ ~clNode[1].retried /\ ~clNode[2].retried => ~ClBothShut

\* A node whose only way to the other is its seed comes back to it after every
\* disconnection and restart.
ClReconnects == clMenu.seeded = {1} ~> []<>(clNode[1].active # 0 /\ clNode[1].active = clNode[2].active)
=============================================================================
