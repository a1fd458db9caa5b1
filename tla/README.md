# rskynet: TLA+ models, checks and proofs

rskynet is a Rust actor runtime in the manner of skynet. A node runs many
*services*; a service has a mailbox, is executed by one thread at a time, and
talks to others by messages, some of which are calls that wait for an answer.
The kernel (`crates/rskynet-core`) is lock-free where it is hot. Everything above
it (timer, logger, sockets, TLS, QUIC, HTTP, WebSocket, cluster, plugins) is built
out of services that await each other and of threads that hold a `ReplyToken`.

This directory models both. Of the kernel it asks what must be true for every
service to be run by one thread at a time, for no message, wake-up, kill or answer
to be lost, and for a node to end. Of each service it asks whether every caller
is answered once, whoever fails, closes or times out first, and whether its books
(limits, buffers, timers, owned sockets) are right in every state between two of
its awaits.

Paths below are relative to `src/crates/rskynet-core/src/` unless they name
another crate.

## 1. The system

| part | state | operations | hard because | correct when |
|---|---|---|---|---|
| mailbox (`mq.rs`) | two lock-free queues, `state` (IDLE, QUEUED, RUNNING, NOTIFIED), `len`, `ready_streak` | `push_message`, `push_ready`, `notify`, `take_work`, `mark_*`, `drain`, `release` | any thread posts while the holder gives the service up | one executor; no work or kill lost; no panic |
| run queues (`mq.rs`, `handoff.rs`) | injector, a local queue and a handoff slot per worker, `pending`, `idle` and `stealable` bitmaps, `searching`, `quit` | `push`, `pop`, `steal`, `wait`, `set_quit`, `flush_local` | a push and a worker going to sleep look at each other without a lock | a queued service is taken; a worker never sleeps on it; nothing is doubled |
| local queue (`bwos.rs`) | a ring of blocks with owner and thief positions and generations | `push_back`, `pop_back`, `steal_front` | owner and thieves meet at block boundaries | each value comes out once, pops are last in first out, calls return |
| node (`server.rs`, `start.rs`) | `total`, `booted`, the lifecycle gate, `quit`, init tickets | launch, `retire`, `abort`, `destroy`, boot, `drain`, shutdown | the last exit, a launch, an abort and the end of boot race | start returns; everything launched is destroyed; the logger goes last |
| exclusive service (`exclusive.rs`) | a thread of its own, an idle hook that can be interrupted | `exclusive_loop`, `wake`, `drain_service` | it sleeps in a hook that is not the scheduler's | it never sleeps on work and handles its backlog before it ends |
| calls (`context.rs`, `session.rs`, `task.rs`, `ext.rs`) | session table, task set with wake signals, messages kept until init ends | `call`, `send`, `reply`, `call_external`, `sleep`, `spawn`, `exit`, `kill`, `cleanup` | either side may end at any moment; answers come late or twice | a call waits for somebody who answers; an answer goes to its own call |
| handle table (`handle.rs`) | an array of slots that doubles, a name table, a lock for writers | `register`, `retire`, `grab`, `contexts`, names | readers take no lock and may hold a replaced array | a reader finds what was registered, an old handle never a new service |
| monitor (`monitor.rs`) | a version and a route under a sequence lock per worker | `begin`, `finish`, `check` | reads while the worker writes | reports an endless poll and no other |
| timer (`rskynet-timer`) | wheel, queue of arms and cancels, thread that advances it | arm, cancel, `update`, cascade | cancel races expiry; the thread is late | ends once, never early, never forgotten |
| sockets (`rskynet-net`) | slots of sockets, write queues with marks, pending callers | listen, connect, start, pause, send, close, UDP; edges from the kernel | readiness is told once; batches name sockets already closed | every call answered, no edge lost, owners told of the end once |
| TLS (`rskynet-tls`) | connections and listeners over sockets, handshake count, timers | listen, connect, start, send, close, shutdown; socket events | commands await the socket service between check and use | calls answered once, no socket or handshake leaked |
| QUIC (`rskynet-quic`) | endpoints, connections, queued writes and finishes, timers | listen, connect, streams, datagrams, close; packets, ticks | outputs wait for their packets and may leave in another order | calls answered once, limits and buffers exact, deadlines timed |
| HTTP client (`rskynet-http/client.rs`) | pool of transports, queue of starts, exchanges | start, body reads and writes, cancel; data, ends, timers | starts wait for a place that anyone may give back | calls answered, pool limits hold, no start left waiting beside room |
| HTTP server (`rskynet-http/server.rs`) | connections, header timers, requests handed out | data, respond, body writes, aborts, drops of handles | pipelined requests need no more data to be served | each connection has somebody who ends it |
| WebSocket (`rskynet-http/websocket.rs`) | message queue, waker, marks, close state | connect, upgrade, recv, send, close | a waker is taken across an await | the receiver is woken |
| cluster (`rskynet-cluster`) | peers, active connection, pending requests with timers | dial, hello, request, invoke, timeout, disconnect, retry | both dial at once; cuts; restarts with the same numbers | one answer per request; both settle on one connection |
| logger (`rskynet-logger`) | open file, length, date, dropped count | write, rotate, reopen, back pressure | opens and writes fail; midnight and SIGHUP meet | lines accounted for, files bounded |
| plugins (`rskynet-plugin`) | registry, init order, runtime of a host | resolve, mount, init, dispatch | init awaits, a second caller comes, one init fails | dependency order, no half-made runtime, requests answered |
| signal, bootstrap | a signal mask; a start list | | shutdown order | see node |
| dashboard, macros, facade, schemas, examples | | | | section 7 |

How they interact: a post (`ServiceContext::push`) puts a message into the
mailbox, `notify` decides who gets the right to run the service, and that thread
pushes it to the run queues (shared services) or interrupts its thread
(exclusive ones). A worker pops it, `run_service` takes items until there are
none, `destroy` cleans up what is dead. Everything inside a service (`SvcCell`)
is unlocked and relies on that. Every message a service handles is a task of its
own: a handler that awaits another service leaves room for the next one, which is
where the services above the kernel go wrong if they do. TLS, QUIC, HTTP and the
cluster call the socket service and receive its events; all of them sleep through
the timer. The main thread boots, waits for `quit`, drains what is left and
retires the rest in order.

Every part is listed in `PROJECT.json` under `components`, and the hazards that
weigh most under `hazards`, with the properties aimed at them. Others, and the
paths of the code that a property exempts, are in section 4.

## 2. The modules

| module | models | depends on |
|---|---|---|
| `RunToken` | the promise: the right to touch a service is one token | |
| `Mailbox` | the mailbox of one shared service, the threads around it, destruction | instance of `RunToken` |
| `MailboxProofs` | theorems about `Mailbox` | `Mailbox` |
| `Scheduler` | run queues, sleeping and waking of workers, quit, flush, final drain | |
| `SchedulerProofs` | theorems about `Scheduler` | `Scheduler` |
| `StealQueue` | the promise of a local queue | |
| `Bwos` | a worker's local queue | instance of `StealQueue` |
| `BwosProofs` | theorems about `Bwos` | `Bwos` |
| `Node` | boot, launch, retire, abort, exit count, shutdown | |
| `NodeProofs` | theorems about `Node` | `Node` |
| `ExclusiveService` | a service with its own thread | extends `Mailbox` |
| `ExclusiveProofs` | theorems about `ExclusiveService` | `ExclusiveService` |
| `Rpc` | calls, sessions, tasks, kept messages, exit, cleanup | |
| `RpcProofs` | theorems about `Rpc` | `Rpc` |
| `HandleTable`, `Monitor`, `TimerWheel` | the rest of the kernel | |
| `KernelProofs` | theorems about `HandleTable`, `Monitor`, `TimerWheel` and `Logger` | the four |
| `Net`, `Tls`, `Quic` | the transports | |
| `HttpClient`, `HttpServer`, `WebSocket` | the HTTP library | |
| `Cluster`, `Logger`, `Plugins` | the other services | |
| `ServiceProofs` | theorems about `WebSocket`, `Cluster`, `Tls` and `HttpServer` | the four |
| `MCScheduler`, `MCNode` | symmetry, and boot orders, for TLC | |
| `MCPlatform`, `MCProgress` | safety, and progress, of several models in one run | the models they run |

The layers rest on one another. `Mailbox` sees the run queues as a counter of
entries, and shows that there is at most one; `Scheduler` sees a service as its
token and shows that a token that is queued is taken; it sees a local queue as a
set, which `Bwos` shows it to be. `Node` and `Rpc` take for granted that a
service is executed by one thread and is executed when it has something to do.
The modules of services take for granted that a call is answered or fails and
that a sleep ends, which `Rpc` and `TimerWheel` show, and that one task of a
service runs at a time.

**Mailbox.** One action is one access to shared memory. `notify` is three of
them (load, swap from IDLE, swap from RUNNING), a post two (count, insert),
`take_work` up to five, `push` two (mark, insert). `pc[t]` names the place in
the code; `"out"` is a thread that has nothing to do with the service. Messages
are counted, not told apart: order inside a queue is module `Rpc`'s. What the
service posts to itself is the same sequence of accesses by another thread while
the holder stands at `work`. The overload threshold only chooses what is logged.

**Scheduler.** Workers are numbers, as in the bitmaps; a bitmap is a set. `push`
is split at every look at shared state (is there a searcher, claim of the idle
bit, offer to the slot, placing, wake-up), `wait` at the order that matters (idle
bit, then `searching`, then the last look, then park). A park token (`permit`)
is std's. A local queue is an atomic set of which a steal may miss an element;
capacity overflow goes to the injector as in the code.

**Bwos.** A position is a generation and a slot, as in the code's packed words.
Each load and store that another thread can observe is a step; the owner's private
words move with the step next to them. `BwSound` maps the blocks to the set of
values in them: a push takes effect when the tail moves, a steal when the thief
wins its slot, a pop when the owner has taken the value out of the thieves' reach.
A step to a sequence number whose generation exceeds `BwMaxGen` is not taken:
`next_sequence` panics there and the process ends.

**Node.** A thread has a stack, because retire, destroy and launch are called
from each other and from user code. `gate` is the lifecycle gate where it is
held across steps. `token` says where a shared service is, without the
scheduler's detail. What user code does is a choice limited by `MaxCalls`.

**ExclusiveService.** Posting is `Mailbox`'s; claiming, running, parking, the
budgeted drain and the end are the owner thread's. It starts after init. The budget
is taken as in the code: twice the messages, the live tasks and the slack. Of the
ready entries `task_count()` covers those whose task still lives; which of them do
is a choice, since a task may finish with an entry of its own left in the queue.

**Rpc.** Two or more shared services. The executor of a service is the `pc[s]`
of that service: free, inside user code, about to push, failing requests,
cleaning. The look-up of a receiver and the push are separate steps, as are
taking a service out of the table and marking it dead, and the two halves of a
foreign waker. An answer is looked up and queued in one step: one that reaches a
service just retired is dropped by its clean-up as it would be by the look-up.
A sleep is a `ReplyToken` held by the timer. A handler answers its request at
most once; handing a request to another task is left out.

**HandleTable.** Every load and store of a swappable pointer is a step; writers
hold the lock across theirs. A replaced array stays with whoever loaded it.
`htLive` records which handles were registered and not retired while a reader was
under way, which is what the reader's answer is measured by.

**Monitor.** `begin` and `finish` are a script of stores, `check` a script of
loads with the sequence lock's retry. A poll may last for ever.

**TimerWheel.** The wheel of the code with fewer slots and levels, its buckets as
sequences (because `cancel` moves the last element into the gap) and `locations`
as a function. Arms and cancels travel through a queue; the thread may wake
several ticks late. The clock is external.

**Net.** An exclusive service, so a handler is one step: an operator from the
service's state to the state, or the states, it may leave. Kernel steps (a peer
connects, sends, reads, fails; a resolver answers) are separate and set edges; a
batch of events is fetched at once and handled one by one. Slots are reused with
new generations. Bytes are units, addresses the position in a list.

**Tls.** Commands are split at every await of the socket service; socket events
arrive in order in `tlsIn`, answers among them. `SvcCell` is modelled: a second
borrow is a panic. What rustls makes of a piece of cipher text is a choice.

**Quic.** A handler changes the state, drives its endpoint (flush, events, timer)
in one step and emits: at once, or later when its packets have been sent. The
protocol machine chooses what it reports, takes, drains and when it wants to be
called. One stream per connection stands for all, as streams share no queue; of
the events a stream's data and end are recorded.

**HttpClient, HttpServer.** Input is a sequence of tokens (a head, a piece of
body, the end, something broken), one per event. A chunked end may come by itself or
behind a last piece. In the client the callers' futures and guards are actors of their
own, which drop at any moment; in the server the business service holds the handles
and gives them up at any moment, also while one of their calls waits. A pause takes
effect when the socket service has handled it: Data sent before still arrives.

**WebSocket.** One socket, of either side. `on_data`, `close` and `connect` are
split where they await; jobs in `wsJobs` are the second halves. A connect may fail
before its transport is up, or be refused by the handshake's start when it is.

**Cluster.** Two nodes, their sockets and the tasks between awaits. A connection
delivers frames in order and one close; a cut loses what is under way; a restart
forgets a node's state and counts requests from one again. `clMenu` says who has a
seed, how many requests are made and how many faults happen.

**Logger.** One message is one step. The disk is a sequence of files under
whatever names; opening may fail, and writing too, after any part of the line has
reached the disk.

**Plugins.** `PlResolve` is the code's depth-first visit, `PlResolveCorrect` says
what it should return by the transitive closure of the dependencies. Mounting and
the inits of a call are split at awaits, a second caller may call at any time.

Names of a module that is run together with others carry a prefix (`Tw`, `Ht`,
`Net`, ...). A constant ending in `Menus` bounds what one behaviour tries; the
sets are in the MC modules.

### Assumptions

- **Sequential consistency.** The code uses acquire, release and relaxed
  orderings and two fences. The models interleave whole accesses; what weaker
  orderings permit is the subject of the repository's loom tests
  (`loom_*.rs`).
- User code does not panic (the runtime lets the process die) and every poll
  ends, except in `Monitor`.
- `std::thread::park`, the queues of `crossbeam` and the epoch reclamation behind
  the handle table do what they document.
- User code leaves the services a node reserves alone (`Ctx::kill` and
  `NodeRef::kill` retire any handle, `context.rs:309`, `ext.rs:114`) and ends a node
  by `abort` or by its last exit, not by `NodeRef::quit` (`ext.rs:138`), which sets
  the same flag from outside.
- A task made ready by an answer is polled before the next message of its service:
  `take_work` prefers ready tasks up to `READY_BURST` in a row (`mq.rs:63`), and
  `Cluster` (`ClHead`) assumes that fewer than that are ready at once. Otherwise a
  hello or a close that follows the answer could be dropped
  (`rskynet-cluster/src/lib.rs:755`).
- External: the operating system's sockets, files and clock, rustls, quinn-proto,
  ureq-proto, tungstenite, the peers. Each may do whatever its interface allows,
  failing included.

## 3. The runs

| run | instance | shows |
|---|---|---|
| `mailbox` | 3 threads, 2 posts, 1 wake-up, burst and yield interval 1 | the invariants of the mailbox, settlement of every message and kill under fairness, and refinement of `RunToken` |
| `scheduler` | 2 workers, an outside thread, 2 services made runnable (or yielding) 3 times, quit at any time | a token is in one place and the counters are exact (`Accounted`); no wake-up is lost (`NobodySleepsOnWork`) |
| `scheduler_live` | the same with 1 service, 2 times | a queued service is taken; all workers leave after quit |
| `scheduler_strand` | the same, violated | a service handed to a worker that has flushed is stranded |
| `exclusive` | owner and 2 posters, 2 posts, 1 wake-up, a kill, budget slack 0 | no sleep on work; backlog handled; ends when killed |
| `exclusive_late` | 1 post, a kill, violated | a late message is never settled |
| `rpc` | 2 services, 2 events out of calls, external calls, posts, spawns and foreign wake-ups; exit, kill and failing init at any time | no orphaned, doubled or crossed answer; requests in order; the dead answer |
| `platform` | node, timer, handle table, sockets, TLS, QUIC, HTTP client and server, WebSocket, cluster, logger, plugins, each by itself | one safety property per part, three for the node and two for the cluster |
| `progress` | node, local queue, cluster, monitor, each by itself | what must happen: the node ends in order, calls on the queue return, a cluster node finds its peer again, an endless poll is reported; and the local queue's books and refinement |
| `node_abort` | abort during boot, violated | boot waits for ever |
| `node_logger` | a reserved exclusive service aborts, violated | a service is destroyed after the logger |
| `tls_panic` | a TLS listener is shut down, violated | the service borrows its state twice |

`platform` and `progress` choose a `part` in the initial state; the variables of
the other parts never move, so the states are the sum and not the product of the
parts, and the run is the runs of its parts side by side. A part that was not chosen
rests in an initial state, where its properties hold, or, if it has many of them, is
off with every variable at zero; a property of such a part (`SocketsSafe`,
`QuicKept`, ...) is stated of the behaviours that chose it. The property of a part
is a conjunction of named invariants of its module:

| property | of | says |
|---|---|---|
| `TwIndexed`, `TwPunctual` | `TwSafe` | `locations` is exact after every swap; a sleep ends once, not early, and none is left behind by a late thread |
| `HtReadsTrue`, `HtTable` | `HtSafe` | no reader's answer was false during its whole call; growing and retiring leave the array and the names whole |
| `NetAnswered`, `NetNoLostEdge`, `NetFarewell`, `NetBackpressure` | `SocketsSafe` | one answer per call; work that can be done has an edge pending; the owner hears of the end once, last; waiters, marks and partly written chunks |
| `TlsAnswered`, `TlsHeard`, `TlsOwned`, `TlsTimed` | `TlsSafe` | one answer per call; connected first and one end last; no socket without somebody; no handshake without a timer |
| `QuicAnswered`, `QuicLimits`, `QuicWriteBooks`, `QuicTimed`, `QuicConnectTimed`, `QuicHandedOver` | `QuicKept` | one answer per call; limits across three awaits; buffers, latch and order of writes; a deadline has a timer of its generation; kept events are handed over |
| `HcAnswered`, `HcPool`, `HcReleased` | `ClientSafe` | one answer per call whose caller is there; limits, idle list, transports, and no start waiting beside room; an exchange whose reader heard of the end is let go (the last two with an exception each, section 4) |
| `HsServed`, `HsBooks` | `HsSafe` | a pipelined request is served without more data; each connection has a timer or one request that ends it, except behind a `finish` given up while it waited |
| `WsReceiverWoken`, `WsBooks` | `WsSafe` | a receiver with something to receive is woken; nothing is forgotten half way, but for the transport of a connect refused at its start |
| `ClAnswered` | itself | one answer per remote request, none from an earlier life |
| `ClAgree` | itself | at rest both nodes use one connection |
| `LgAccount`, `LgBounded` | `LgKept` | every dropped line is in one notice at its place; files stay bounded; `len` is never above the disk and equals it unless a write failed since the file was opened |
| `PlResolveCorrect`, `PlLentReady`, `PlWhole`, `PlAnswered` | `PluginsSafe` | the resolution equals its reference; capabilities come from initialised plugins; no half-made runtime; one answer |

**Why the bounds are enough.** A race in the mailbox is between its holder and
posters: three threads give a holder, a post and a kill or second post at once.
Two posts show an item queued behind another and one arriving late; a burst of 1
makes overtaking stop at once, and is not special otherwise (the proof has any).
In the scheduler two workers and an outsider give a searcher, a sleeper and a
pusher; local capacity 1 makes overflow happen with two services. In the node,
two ordinary services are needed for the last exit to differ from an exit. The
slack of an exclusive service's last drain is 16 in the code and 0 in the run: the
less slack, the easier it is for two messages and a wake-up to use the budget up
(the proof has any slack). In `Rpc` two events are enough for a call with a nested or a second call, a call
abandoned and its number used again, a kept and a later request, and a wake-up
against an answer.

The wheel has 2 near slots and 2 levels of 2 with 8 ticks of 2 milliseconds: every
level wraps and cascades, two timers share a bucket, a delay ends inside a tick.
Two writers, a reader and three handles in an array that begins with one slot
make it grow twice under a reader. The local queue has 2 blocks of 2, two thieves
and 5 pushes: it fills, wraps into the second generation and goes back over a
boundary. Sockets have two slots and up to four ids, so that a slot is used again
while commands and timers still carry the id of its last socket (a batch has one event
per slot, so none names a socket that the batch itself has closed); two open, three calls, and marks of 1 and 2 units
against chunks that are written in part. TLS and QUIC have a limit of one
handshake and two connections, which two calls reach; a QUIC output may be held
while another leaves, a deadline changes twice, and data and end may come before
start. The HTTP client has one place in its pool, two origins and three starts: a
start waits, another is cancelled, an idle transport is taken again or ends and
gives its place to the other origin. The server has one connection with two pipelined requests out of four
tokens. Two cluster nodes with one or both dialling, and one cut or restart, see
every choice between two connections. The plugin part tries every dependency
graph of three plugins under six orders of enabling, and kits that fail in each
place. Where a bound stops new events only, what is under way always finishes:
`CHECK_DEADLOCK FALSE` is set because a system that has used up its events, or
has shut down, rightly stops.

**Fairness.** Threads that have begun something go on with it (weak fairness of
each thread's steps): the operating system schedules them. In `Mailbox` a
service in the run queue is popped by some thread: module `Scheduler` shows that.
In `Scheduler` and `Node` workers loop for ever. Nobody has to post, wake, kill,
launch or quit. In `exclusive` the owner's steps and the posters' are fair. `Rpc`
uses none: all its work is finite, so "the dead answer" is stated of the states
in which no executor has anything to do. In `progress` the owner of a local queue
and each thief go on with the call they are in; the monitor thread looks again and
again (its loop sleeps and checks); a cluster node's tasks, the dial of its retry
timer, and the delivery of what a connection holds are fair, while cuts, restarts
and requests need not happen. A retry dials after a sleep, which the timer
ends; delivery is the socket service's. `ClReconnects` says nothing of a network
that is cut for ever: the bound on faults is what makes it heal.

**Mutants.** Each property has at least one mutant, a conjunction usually several:
a definition with a plausible mistake (an operator above it, marked in a comment)
under which TLC finds the property violated.

## 4. What the runs found

Five runs end in a violation; `findings` in `PROJECT.json` quotes the comment or
assertion each contradicts.

- *Abort during boot* (`start.rs:358`): `abort` sets quit, workers leave, and the
  main thread waits for the init ticket of a shared service that no thread
  executes any more. `start` does not return.
- *Late message for an exclusive service* (`exclusive.rs:145`): a poster between
  its insertion and its notification while the thread releases the mailbox and
  ends. The message is neither handled nor refused; a caller waits for ever.
- *Service stranded in a handoff slot* (`mq.rs:553`): a push claims the idle bit
  of a worker, which is then woken by quit, flushes and leaves before the service
  is put into its slot. Nobody looks there again.
- *Logger not last* (`start.rs:385`): an abort on a reserved exclusive thread
  stands between taking a service out of the table and marking it dead, while
  shutdown finds the table empty and retires the logger.
- *TLS listener* (`rskynet-tls/src/service.rs:436` and `892`): `shutdown` of a
  listener, or the end of its socket, calls `remove_listener` inside an `if let`
  whose condition still borrows the state. `SvcCell` asserts that this does not
  happen, and the process ends.

Paths of the code that a property exempts, each recorded as history in the state
or stated in the property:

- a second close of a socket that is still writing replaces the first one's
  answer, which is never given (`rskynet-net/src/service.rs:1078`, `net.dropped`);
- a connect whose registration fails is answered twice; the second answer finds no
  session (`785`, `net.twice`);
- after an accept or receive that fails, the rest of that edge waits for the next
  (`263`, `stalled`);
- a TLS shutdown drops the answer of a close that waits
  (`rskynet-tls/src/service.rs:456`, `tls.lost`);
- a QUIC connection that is forgotten takes the calls that wait on it along
  (`quic.lost`), and events of one stream may change places, data arriving behind
  the stream's end (`rskynet-quic/src/service.rs:1305`, against the comment at
  `event.rs:65`): `emit` awaits packets first;
- the end of a chunked body that arrives by itself while the reader waits is told to
  the reader by `drive_input`, where nothing is recycled
  (`rskynet-http/src/client.rs:1073`): the reader asks no more, its handle cancels
  nothing, and the exchange keeps its transport and its place in the pool
  (`HcReleased`);
- a body of the HTTP client that ends with its connection gives its place back without
  a look at the queue (`client.rs:1134`); a reader that already waited is answered
  there and asks no more, so a start waits beside a free place until another exchange
  ends (`HcPool`);
- two calls of a plugin host's `init` at once pass the check for a runtime together and
  both install one, the second replacing the first, against the words of the check's
  own error (`rskynet-plugin/src/lib.rs:509`, `580`). Plugins that register debug
  messages are safe by accident: the second registration fails (`context.rs:343`).
  `PlWhole` holds of each runtime;
- a `finish` of a response that is given up while it waits has taken the driver out of
  its handle (`rskynet-http/src/body.rs:118`), so dropping it aborts nothing; `closed`
  only records the end of a connection that is responding (`server.rs:986`). Such a
  connection (`HsLeft`) is nobody's;
- a WebSocket connect whose handshake is refused at its start returns with its
  transport open and known to nobody (`websocket.rs:650`);
- a log line that was written in part is on disk and not in `len` until the file is
  opened again, so a file may grow beyond its limit by what failed writes left
  (`rskynet-logger/src/lib.rs:224`, `torn`);
- an HTTP server transport paused for a full body is not resumed when the response
  ends the exchange (`server.rs:1002`); the header timer ends the connection;
- a WebSocket whose output cannot be sent drops the receiver's waker
  (`websocket.rs:302`, `ws.lost`), and a frame that came with the peer's 101 answer
  waits for the next data (`845`);
- cluster nodes that both dial again after a loss may each choose a connection the
  other has just shut, and dial once more (`rskynet-cluster/src/lib.rs:832`);
- a log file reopened after midnight takes the new date, so that day's rotation
  does not happen (`rskynet-logger/src/lib.rs:205`);
- an exclusive service that exits in its init refuses the requests it kept
  (`server.rs:1187`);
- wake-ups that come during the last drain of an exclusive service are paid from
  the budget that was fixed when it began (`server.rs:1187`), and so are ready entries
  of tasks that have finished, which `task_count()` leaves out; with more of both
  than the slack and one, part of the backlog is refused and not handled
  (`BacklogHandled`; the history variable `covered` counts the wake-ups the budget
  accounts for).

## 5. The proofs

Each theorem below holds for every value of the constants its module's assumption
allows: any number of threads, services, messages and rounds where the run has two
or three. Every part of an inductive invariant was checked by TLC on the run's
instance, and larger ones, before it was proved.

### `MailboxProofs`

- `Inductive`: `Spec => []IInv`. From it `OneExecutor`,
  `PanicUnreachable` (with the types of the mailbox), `NothingLost`, `LenNeverWraps`, `MessagesNotStarved`.
- `DestroyedIsFinal`: no step runs user code of a destroyed service.
- `ImplementsRunToken`: `Mailbox` implements `RunToken`.

The assumption is `MailboxAssumption`: at least one and finitely many threads,
`READY_BURST` and `YIELD_INTERVAL` positive.

*The argument.* That two threads never run a service is not inductive by itself.
The strengthening says where the token is: at most one thread stands at a place
of `TokenPC`, or one entry is in the run queue, never both (`OneToken`); the
holder's place determines `state` (`OwnerKnowsState`), and a state other than
IDLE has an owner (`NoOrphan`). Lost work needs more than `NoLostWork`: between
the last look at the queues and the swap to IDLE the holder has missed what came
meanwhile, so the invariant says that whatever a scan has already passed is
announced, by NOTIFIED or by a thread still in `notify` (`MissedWorkAnnounced`).
`CleaningEndsWork` and `OvertakingFollowsStreak` support the last two theorems.
The step proof has one lemma per action and under it one step per part. The
refinement maps the token's owner to the thread in `TokenPC`, to the run queue,
or to nobody, and shows that each action moves it as `RunToken` allows or not at
all.

### `SchedulerProofs`

- `Invariance`: `Spec => []Inv`.
- `AccountedAlways`: `Spec => []Accounted`: a service is in exactly one place and
  `pending` and `searching` are exact.
- `NobodySleepsAlways`: `Spec => []NobodySleepsOnWork`: no wake-up is lost.

`SchedulerAssumption`: a worker at least, finitely many workers, outside threads
and services, and they are told apart; `MAX_SEARCHERS` positive, any capacity of a
local queue, any number of pushes.

*The argument.* `Shape` says where each kind of thread can stand, where it returns
to and whether it has a service in hand. `PlacesInv` divides the services between
six kinds of places (at rest, injector, local queues, slots, hands of a pusher,
hands of a worker), each kind without repetition; that `Places(s)` has one element
follows. `Exact` and `SearchExact` are the counters as sizes of named sets, which
every step changes by one element or not at all. Only then does `WatchInv` make
sense, the strengthening of "no wake-up is lost": a worker that has set its idle
bit and goes to sleep still has the bit, has a park token, or somebody has claimed
it and is going to wake it (`WakeDue`); what is put into its slot
after its last look there comes with a wake-up (`SlotWatched`); its local queue,
which only it fills, is empty after its last look (`LocalWatched`); and while the
injector holds something, some worker has not had its last look, has a park token,
or a thread is still going to look for a sleeper (`InjectorWatched`). The last
needs the order of the code: the idle bit, then `searching`, then the last look.

### `ExclusiveProofs`

- `ExclInductive`: `ExclSpec => []ExclInv`.
- `ExclusiveSound`: `ExclSpec => []ExclSound`: no panic, a budget that never wraps,
  and the backlog handled before the end.
- `ExclusiveNeverSleeps`: `ExclSpec => []NeverSleepsOnWork`.

`ExclusiveAssumption`, with `MailboxAssumption`: the owner is a thread, the slack a
natural number.

*The argument.* The owner's place determines whether it has the mailbox
(`Positions`) and whether its loop is over (`Phases`). `Announcements` is the
mailbox's argument for a thread that sleeps by itself: what its scan has missed is
announced, and a service that was claimed while its owner was idle has a park token
or a thread about to give it one. `Backlog` is about arithmetic: the budget left
is at least the ready items, two for each message of the backlog not handled yet
(it and the task it opens), and the slack, less the ready entries the budget does not
cover: those of finished tasks, and those of wake-ups that came during the drain.

### `NodeProofs`

- `NodeInductive`: `Spec => []NodeInv`.
- `CountedAlways`: `Spec => []Counted`: `total` is exact and never wraps.
- `ShutdownSealedAlways`: `Spec => []ShutdownSealed`: no launch slips in behind
  the shutdown.
- `QuitHasReasonAlways`: `Spec => QuitHasReason`, an action property: the node ends
  by itself only when the last ordinary service is destroyed and boot is complete.

`NodeAssumption`: a worker at least (`start.rs:148` refuses none), finitely many
threads and services, told apart; boot launches no service twice; reserved services
are among those it launches and waits for, the logger among them.

*The argument.* Procedures call each other, so the first part is about stacks
(`Control`): a thread is at home, or in a procedure called from home, or in one
that `retire_all` or `exit` has called there. `Publication`: one thread at a time,
the one that has the gate, is between admission and publication, with a service
nobody has executed. `Mortality`: a service leaves the table once, is marked dead
once after that by the thread that took it out, and is destroyed after that.
`Holding`: an exclusive thread executes its own service, the others one that nobody
else holds; so a service is destroyed, and accounted for, once, which
`TotalCountsOrdinary` needs. `Booting`: what boot has still to launch is not born.
`Ending`: from the stage of the shutdown follows what is left in the table, since
nothing is admitted after quit and whoever was admitted before is published before
`retire_all` gets the gate.

### `RpcProofs`

- `RpcInductive`: `Spec => []RpcInv`.
- `TasksSoundAlways`: `Spec => []TasksSound`: no wake-up is lost or queued twice.
- `CallsSettledAlways`: `Spec => []CallsSettled`: the first answer stands, and a call
  that waits can still be answered, unless its handler forgot it.
- `NoCrossTalkAlways`: `Spec => []NoCrossTalk`: a late answer never meets another
  call.
- `FifoDispatchAlways`: `Spec => FifoDispatch`, an action property.

`RpcAssumption`: finitely many services and at least one, `Outside` is none of them,
and the bound on outside events is a natural number.

*The argument.* `Control` says where an executor may stand and what is left of a
service at each point: a destroyed one has no task and, once it has refused what it
kept, no kept message.
`TaskBooks` and `SessionBooks` relate the tasks to the sessions they wait for, one
each way. `Signals`: one ready entry or one waker, exactly while a signal is set;
`Results`, that the task of a settled call is on its way to be polled, follows only
with it. `Book`: wherever a call is mentioned (a session, a message, a task that
owes the answer) it is with the same session of the same caller, which is what
`NoCrossTalk` needs. `Firsts`: the first answer sent is the first the caller finds
in its inbox, and it is there as long as the caller is in the table. `Pending`: an
unanswered request is with a caller about to push it, in an inbox or a kept queue,
held by a token or owed by a task, or it was forgotten; `CallsSettled` needs both.
`Order`: kept and then queued requests rise above the last dispatched.

### `KernelProofs`

- `TableInductive`: `HtSpec => []HtInv`.
- `TableAlways`: `HtSpec => []HtSafe`: what `grab` and `contexts` answer without a
  lock was true at some moment of the call, and writers leave the table whole.
- `MnNoFalseAlarmAlways`: `MnSpec => []MnNoFalseAlarm`: the monitor reports one poll's
  own route, and only a poll that was under way at the check before.
- `TwInductiveAlways`: `TwSpec => []TwInductive`.
- `TwAlways`: `TwSpec => []TwSafe`: a sleep is answered once, not early, not after its
  cancel was handled, and no late thread leaves one behind.
- `LgInductive`: `LgSpec => []LgInv`, and `LgAlways`: `LgSpec => []LgKept`: every line is
  accounted for and log files stay bounded.

`HtAssumption`: the array has a slot at first, there is a handle to give out, and
"free" is not the name of a writer. The proof does not need that lengths are powers
of two; it needs that a handle's slot is its remainder (`ModTwice`: handles that
share a slot of the doubled array shared one before, so `grow` loses nobody).

*The table.* `Locked`: one writer is inside. `Placed`: the current array holds
exactly the live services at every moment, not only when the lock is free, and so
does the copy `grow` has made, since nobody is registered or retired between the
copy and the swap. `Named`: a name leads to a live service or to the one being
retired. `Reading`: the array a reader has loaded, replaced or not, holds whoever
was registered throughout and nobody the reader did not meet: an array is written
only while it is current, and a reader that has it then meets who is stored.

*The monitor.* `MnAssumption`: the number of polls is a natural number. What the
worker has stored is a function of where it stands (`Words`): a sequence number of
the form 4n - 2 says that the route of poll n is complete. What the monitor has
loaded is pinned by the sequence number it loaded first (`Loaded`), and lies
between the two versions it loaded around it (`Dated`); a version that has not
changed since the check before means the same poll (`OpenThen`).

*The timer.* `TwAssumption`: the sizes of the wheels, the number of levels and the
tick are positive, any number of timers, and a run lasts at most one revolution of the
highest level (in the code 2^68 ticks, more than the `u64` of a tick can count, so that
its wrap is all that is left out). The numbers of the code, 256 near slots, 10 levels of
64 and ticks of 10 milliseconds, are one instance. `TwFits`
is the heart: a timer is on the lowest level on which its slot is not yet the current
one, in the slot its expiry names there, so its slot comes up on the tick that begins
its last revolution one level down, which is when `shift` moves that bucket. Of the
levels that begin a slot on a tick, `shift` moves one bucket only; `TwShiftIs` shows that
the other levels, whose slot is 0, hold nothing that would have to move, because such
a timer would sit one level higher. `TwExactBut` is the index while `move_list` runs:
exact, but for the timers still to be added again; `cancel` needs it exact to take out
the timer it means. The rest is the way of one timer: `TwQueued` (its arm, and behind it
at most one cancel, in incoming), `TwWaiting` (in the wheel), `TwExpired` (taken out, not
answered), never in two of them, and pending in each. `TwTimes` says that nothing in the
wheel is overdue except while the queue is drained, so one execute, shift, execute per
tick is enough. The span of a level and the loop of `move_list` are recursive functions;
that they are what their definitions say is proved here too (`RecursionHas`, `SpanRec`),
by induction over a set, which the provers can use.

*The log.* `LgAssumption`: the limits of the queue and of a file are natural numbers;
any number of lines, days, SIGHUPs and failures. Lines are numbered as they are posted.
`LgQueued`: the mailbox holds the numbers that follow the last one taken from it, one by
one up to the last posted, whatever SIGHUPs stand between them. `LgAccount`: lines came out in order, between two
of them stands one notice with exactly the number of lines that are missing there, or
none, and what was dropped since the last line is what `dropped` holds. `LgFiles`: the
open file's `len` is at most its length on disk, and is that length unless a write
failed since it was opened (`torn`); a file without bytes has no line, and a file over
the limit has a single line unless a failure spoilt it.

### `BwosProofs`

- `BwInductive`: `BwSpec => []BwInv`.
- `BwExactAlways`: `BwSpec => []BwExact`: between the owner's calls every value
  pushed is in one place, live, claimed by one thief, handed out once or refused.
- `BwSoundAlways`: `BwSpec => BwSound`: the block queue implements `StealQueue`, step
  by step, and refuses a push only while the next block holds something unclaimed.

`BwAssumption`: finitely many thieves, two blocks or more, a slot or more in each,
any number of generations and of pushes. That the number of blocks is a power of
two is not needed, only division with remainder (`DivModIs`, `Apart`, `NextRound`).

*The argument.* The sequence numbers in use are a window of at most `BwBlocks`
numbers, so each physical block stands for one of them. A block is in one hand: the
owner's (`Owned`), the thieves' (`Granted`), half-way between them while the owner
moves (`Halved`), or free (`Free`), and the hand fixes what its `head`, `tail` and
`stealTail` say (`Hand`). `Counted` says that the claimed slots of a round are those
whose thief has finished, which `count` counts, and one for each thief that still
holds a slot; therefore the guard of the spin in `reclaim` means that nobody holds a
slot, and the block can be reused. `Claims` ties what a thief read (sequence,
position, generation) to the block: its compare-and-swap succeeds only on a block
that is still granted in the same round. `Places`: a value not refused is somewhere,
in one place, and nowhere twice. `Order`: live values rise by sequence number and
slot, so the one `pop_back` takes is the newest. The refinement maps each action to a
push, pop, "none", steal or stutter of `StealQueue`.

Before the proof the invariant was checked by TLC on four complete instances (two
and three blocks, one and two slots, up to three generations and eight pushes, two
thieves).

### `ServiceProofs`

- `WsInductive`: `WsSpec => []WsInv`, and `WsAlways`: `WsSpec => []WsSafe`.
- `ClInductive`: `ClSpec => []ClInv`, and `ClAnsweredAlways`:
  `ClSpec => []ClAnswered`.
- `TlsInductive`: `TlsSpec => []TlsInv`, and `TlsAlways`: `TlsSpec => []TlsSafe`.
- `HsInductive`: `HsSpec => []HsInv`, and `HsAlways`: `HsSpec => []HsSafe`.

`WsAssumption`: the low mark lies below the high one and is positive, any number of
Data events. `ClAssumption`: a connection at least, and menus that name who dials, how many requests each node makes and how
often the network fails, each any number. `TlsAssumption`: every limit is a positive
natural number. `HsAssumption`: the low mark lies below the high one, and 0, which
stands for no transport, is none.

*WebSocket.* `WsHandlers`: a handler of `on_data` that awaits the socket service has a
place of its own, one for each Data event so far and one for the upgrade. `WsMade`: a
socket is made once, by the handshake or by the upgrade, and has its entry only while
the transport delivers. `WsHeld` is about the result of a handshake that nobody has
taken yet and about frames that came behind a server's request. With them a receiver
that waits keeps its waker until a handler, the end of the transport or an error has
taken it, and whoever has taken it is still going to wake (`WsReceiverWoken`, except
after the failed send of section 4).

*Cluster.* `ClBook`: a pending request was asked in this life of the node, has a timer
and no answer, and each one that is not pending has one answer. `ClCarried` says why no
answer of an earlier life settles a request: an answer on its way is for the life its
addressee is in, and a request on its way, or in the hands of a task, is of the life
its sender is in as long as the connection is open on both sides. A restart closes
the node's connections, and with them what they would have delivered to it.

*TLS.* A handler is a row of helpers (reply, insert, announce, remove, shut a socket
down, await), and in the middle of it the invariant does not hold: a request has left
its task and is not answered, a socket has no object yet. `TlsMidway` is the invariant
with one request, one socket and one connection in the hands of the handler that runs,
and `TlsInv` is `TlsMidway` with empty hands. Each helper has a lemma that says what it
takes from the hands and what it leaves there; the proof of a handler composes them
along the code, and must end with nothing in hand on every path. The parts: `TlsWorld`
(the life of each object and what its owner has heard of it; the handshake count is the
number of connections not announced), `TlsPlaced` (a request is at exactly one stage:
not made, with a task, in an answer on its way, held by a connection as its connect or
its close, answered once, or lost with a shutdown as in section 4), `TlsFits` (tasks and
messages name sockets that exist, and an end that was announced has happened),
`TlsHeld` (each socket that is up belongs to an object, a task or a message that is
answerable for it, or is being shut down), `TlsTimers` (each unfinished handshake has
its timer, or a task that is about to arm it). That a connection is removed by one
handler while another awaits is the case the early returns are for; each of them is a
case of the proof.

*HTTP server.* `HsPlace` says of each transport how its connection and the requests
handed out for it belong together: at most one request has handles that are alive;
a connection that waits for a request (`recv`) has none, any other has one, also one
that is lost or broken; one that waits has the timer of its generation, and an empty
Data event is on its way if it has input; an error is only there once the transport is
gone, so that whoever removes a connection for its error leaves no transport open. A
request that waits in `finish`, or was left there, has a connection that is responding
and that nothing but `finish` itself takes away (`HsEnding`). A
connection may go before its request, and then the request's handles find none; a
transport is accepted once, so they never find another's. Every step concerns one
transport (`HsElsewhere`), and what it does there is one of four things: the request
goes on (`HsWorks`), the connection goes (`HsEnds`, `HsGoes`), it is used again
(`HsAgain`), or a request is handed out (`HsTakeKeeps`).

### Only model-checked

- Liveness (`Settles`, `WorkersProgress`, `ExclSettles`, `NodeEnds`, `BwReturns`,
  `ClReconnects`, `MnReported`): it needs fairness and ENABLED.
- `OrderlyEnd`: it does not hold for all constants. With a reserved exclusive
  service that aborts the logger is not last (run `node_logger`), so it is a
  property of the instances without one.
- `ClAgree`: at rest both nodes use one connection. It speaks of states in which
  nothing is under way; why these are settled depends on the whole history of both
  choices, and an inductive form was not found.
- `SocketsSafe`, `QuicKept` and `ClientSafe`. `HttpClient` and `Plugins` declare
  RECURSIVE operators, which the prover cannot use; `Net` and `Quic` are within reach,
  and their size is the reason.
- `PluginsSafe`: what the recursive visit of `Plugins` computes.

### What proving changed

An invariant that is not inductive asks for more states than the instance has, and
two properties turned out to be too strong as they were stated:

- `NoLostWakeup` listed the places from which a thread still wakes a sleeper, and
  the list left out a pusher that has claimed an idle bit and stands before its
  offer (`mq.rs:553`). With one worker and two pushers it is the only waker.
- `BacklogHandled` said that an exclusive service always handles its backlog. With
  more wake-ups than the run has, it need not (section 4).

`Bwos` used to rely on its bound on pushes to stay below the last generation. For
every value of the constants that is wrong: a queue that passed `MAX_GENERATION`
would see its oldest generation again. The code panics before that, and so the model
now has `next_sequence`'s limit as a guard of the two steps that advance.

`LgAccount` counted the lines of a file with a filter over a sequence, about which
nothing can be proved without induction over data. It now says of each place in the
log what stands before it, which is the same account and says where a line is missing.
`ClAnswered` and `ClAgree` are two properties and no longer one: the first is proved.

`HttpServer` parsed four tokens in a go, which is all there is in the run but not for
every value of the constants. `HsProcess` now takes the head of a request and then all
of its body that is there, as the loop of `process` does.

`TimerWheel` computed the span of a level as a power and the outcome of `move_list` in
one go, from counts of where each timer goes. Both are now what the code does, step by
step: a level's span is that of the level below times its slots, and `move_list` adds the
timers of a bucket one after the other. The properties, and the states of the run, are
the same.

## 6. Plan

What was planned as a model is modelled. What is left is proof: the transports
`Net` and `Quic`, whose properties have the form of those proved (one answer per call,
nobody waits for nobody). `HttpClient` would first need
its RECURSIVE operator replaced by a recursive function. `Plugins` stays with TLC.

## 7. Not modelled

- Formatting, logging text, statistics, schemas, debug descriptors, payload and
  error conversions; module registration (fixed before start).
- The contents of configuration files and the choice of services bootstrap makes
  of them; signal registration and crash dumps (calls of the operating system);
  parsing of certificates and identities; names of log files.
- The dashboard: it reads counters and answers HTTP requests, which is the HTTP
  server's matter. Macros and the facade crate: code generation and re-exports.
- Encodings on the wire, and the protocols of rustls, quinn-proto, ureq-proto and
  tungstenite.
- Weak memory orderings (see the assumptions).
- Endless user code: after a failed boot two services that wake each other for
  ever keep the first drain going (`start.rs:459`); `Node` bounds wake-ups.
- Futures of a WebSocket's `connect` and `recv` that are dropped while they wait.
- Steps merged or narrowed because no property tells the difference: `listen` of TLS and
  QUIC awaits the socket service twice in a row with nothing decided between
  (`rskynet-tls/src/service.rs:291`, `rskynet-quic/src/service.rs:289`); of the addresses
  a UDP connect tries one stands for all, as a failure leaves nothing behind but a used id
  (`rskynet-net/src/service.rs:830`); a plugin's own mount error and empty identifiers
  are refused in the same place as the conflicts that are modelled
  (`rskynet-plugin/src/lib.rs:47`, `192`).
- Examples and tests.

## 8. Running

    tlc -workers 2 -config MCPlatform.cfg MCPlatform
    tlapm SchedulerProofs.tla

and likewise for each entry of `runs` in `PROJECT.json` and each module of
theorems. `SchedulerProofs` takes about five minutes, `NodeProofs` and `RpcProofs`
about half of that each, `BwosProofs` too, `KernelProofs` about six, `ServiceProofs`
about twelve.
