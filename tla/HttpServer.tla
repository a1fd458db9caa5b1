---------------------------- MODULE HttpServer ----------------------------
(***************************************************************************)
(* The HTTP server driver (crates/rskynet-http/src/server.rs and body.rs)   *)
(* inside a business service: connections, the requests it hands to the     *)
(* service, the bodies and responders the service holds, the timer of the   *)
(* request head.                                                            *)
(*                                                                         *)
(* The socket service, the clients, ureq-proto and the business service are *)
(* external.  A client sends the tokens of requests, pipelined or not, one  *)
(* per Data event.  The business service reads the body or not, responds,   *)
(* and gives its handles up, between two calls or while one of them waits;  *)
(* it keeps the incoming body of a request no longer than the response.     *)
(* Data that was under way when a transport is paused or shut down may      *)
(* still come.                                                              *)
(***************************************************************************)
EXTENDS Integers, Sequences, FiniteSets

CONSTANTS
    HsTrs,                   \* transports the listener may accept
    HsHigh, HsLow,           \* input_high_water, input_low_water, in tokens
    HsMaxReq, HsMaxTok       \* bounds: requests handed out, tokens sent

ASSUME HsAssumption ==
    /\ 0 \notin HsTrs
    /\ {HsHigh, HsMaxReq, HsMaxTok} \subseteq Nat \ {0} /\ HsLow \in 0 .. HsHigh - 1

VARIABLES
    hs,        \* connections, timers, empty Data events the server sent itself
    hsApp,     \* the handles and the step of the business service, by request
    hsNet,     \* transports: state, where the client's stream is, paused or not (external)
    hsTok      \* tokens sent

hsVars == <<hs, hsApp, hsNet, hsTok>>

HsReqs == 1 .. HsMaxReq
HsNoConn == [proto |-> "none"]
HsNoReq == [t |-> 0, in |-> "none", out |-> "none", step |-> "none"]

HsInit ==
    /\ hs = [conn |-> [t \in HsTrs |-> HsNoConn], timers |-> {}, kick |-> {}, next |-> 1,
             listener |-> "none"]
    /\ hsApp = [k \in HsReqs |-> HsNoReq]
    /\ hsNet = [t \in HsTrs |-> [st |-> "none", at |-> "start", quiet |-> FALSE]]
    /\ hsTok = 0

----------------------------------------------------------------------------
(* ServerCore *)

HsRemove(w, t) == [w EXCEPT !.conn[t] = HsNoConn]

\* insert_connection and arm_header_timeout
HsInsert(w, t) ==
    [w EXCEPT !.conn[t] = [proto |-> "recv", input |-> <<>>, chunks |-> 0, ended |-> FALSE,
                           err |-> FALSE, paused |-> FALSE, gen |-> 1, new |-> 0],
              !.timers = @ \cup {[t |-> t, gen |-> 1]}]

\* The loop of process: first the head of a request, if one is due (new counts the
\* requests it hands out) ...
HsParse(c) ==
    LET tok == Head(c.input)
        got == [c EXCEPT !.input = Tail(@), !.new = 1]
    IN  IF c.input = <<>> \/ c.proto # "recv" THEN c
        ELSE CASE tok = "get"    -> [got EXCEPT !.proto = "provide", !.ended = TRUE]
               [] tok = "post"   -> [got EXCEPT !.proto = "body", !.ended = FALSE]
               [] tok = "expect" -> [got EXCEPT !.proto = "await100", !.ended = FALSE]
               [] OTHER -> [c EXCEPT !.proto = "lost"]
\* ... then a body, as far as it is there: its parts, and its end, with a last part
\* or alone.
HsParts(input) == Cardinality({i \in DOMAIN input : \A j \in 1 .. i : input[j] = "part"})
HsReadBody(c) ==
    LET n == HsParts(c.input)
        rest == SubSeq(c.input, n + 1, Len(c.input))
        got == [c EXCEPT !.input = rest, !.chunks = @ + n]
    IN  IF c.proto # "body" THEN c
        ELSE IF rest = <<>> THEN got
        ELSE IF Head(rest) \in {"end", "term"}
        THEN [got EXCEPT !.input = Tail(@), !.proto = "provide", !.ended = TRUE,
                         !.chunks = IF Head(rest) = "end" THEN @ + 1 ELSE @]
        ELSE [got EXCEPT !.proto = "lost"]
HsProcess(c) == HsReadBody(HsParse(c))

\* The pause of data: not once the body has ended.
HsPause(c) ==
    IF ~c.ended /\ ~c.paused /\ Len(c.input) + c.chunks >= HsHigh THEN [c EXCEPT !.paused = TRUE]
    ELSE c

\* Requests that process hands to the business service (at most one: the loop
\* stops in the states a response leaves).
HsHand(w, t) ==
    /\ hs' = [w EXCEPT !.conn[t].new = 0, !.next = @ + w.conn[t].new]
    /\ hsApp' = IF w.conn[t].new = 0 THEN hsApp
                ELSE [hsApp EXCEPT ![w.next] = [t |-> t, in |-> "active", out |-> "responder",
                                                step |-> "ready"]]

\* Mutant: a pipelined request waits for more data.
HsFinishResponseQuiet(w, t, close) ==
    IF close \/ w.conn[t] = HsNoConn THEN HsRemove(w, t)
    ELSE LET g == w.conn[t].gen + 1
         IN  [w EXCEPT !.conn[t] = [@ EXCEPT !.proto = "recv", !.ended = FALSE, !.chunks = 0,
                                             !.err = FALSE, !.gen = g],
                       !.timers = @ \cup {[t |-> t, gen |-> g]}]

\* finish_response: the connection is closed, or waits for its next request with
\* a new timer; input that is there already is announced by an empty Data event.
HsFinishResponse(w, t, close) ==
    IF close \/ w.conn[t] = HsNoConn THEN HsRemove(w, t)
    ELSE LET g == w.conn[t].gen + 1
         IN  [w EXCEPT !.conn[t] = [@ EXCEPT !.proto = "recv", !.ended = FALSE, !.chunks = 0,
                                             !.err = FALSE, !.gen = g],
                       !.timers = @ \cup {[t |-> t, gen |-> g]},
                       !.kick = IF w.conn[t].input = <<>> THEN @ ELSE @ \cup {t}]

HsClosing(net, S) ==
    [t \in HsTrs |-> IF t \in S /\ net[t].st = "up" THEN [net[t] EXCEPT !.st = "closing"] ELSE net[t]]
HsShut(S) == hsNet' = HsClosing(hsNet, S)

----------------------------------------------------------------------------
(* Socket events *)

\* bind_http, bind_https: the listener is known before it is started, so that no
\* Accept can come before it; if start fails it is forgotten.
HsBind ==
    /\ hs.listener = "none" /\ hs' = [hs EXCEPT !.listener = "bound"]
    /\ UNCHANGED <<hsApp, hsNet, hsTok>>
HsBound(ok) ==
    /\ hs.listener = "bound" /\ hs' = [hs EXCEPT !.listener = IF ok THEN "started" ELSE "gone"]
    /\ UNCHANGED <<hsApp, hsNet, hsTok>>
\* closed of the listener: its connections go on.
HsListenerClosed ==
    /\ hs.listener = "started" /\ hs' = [hs EXCEPT !.listener = "gone"]
    /\ UNCHANGED <<hsApp, hsNet, hsTok>>

\* on_socket Accept, on_tls Connected; the start of a plain socket may fail, and
\* then the socket service has ended the transport.
HsAccept(t) ==
    /\ hsNet[t].st = "none" /\ hs.listener = "started"
    /\ \/ hs' = HsInsert(hs, t) /\ hsNet' = [hsNet EXCEPT ![t].st = "up"]
       \/ hs' = HsRemove(HsInsert(hs, t), t) /\ hsNet' = [hsNet EXCEPT ![t].st = "gone"]
    /\ UNCHANGED <<hsApp, hsTok>>

\* The input of a connection grows; the bytes of a WebSocket are not HTTP's.
HsFed(c, input) == [c EXCEPT !.input = IF c.proto = "ws" THEN @ ELSE @ \o input]

\* data: a broken request ends the connection, a request is handed out, the
\* transport is paused.
HsTake(t, input, net) ==
    \E c \in {HsProcess(HsFed(hs.conn[t], input))} :
    \E w \in {[hs EXCEPT !.kick = IF input = <<>> THEN @ \ {t} ELSE @]} :
       \/ /\ c.proto = "lost"
          /\ hs' = HsRemove(w, t) /\ hsNet' = HsClosing(net, {t})
          /\ UNCHANGED hsApp
       \/ /\ c.proto # "lost" /\ hs.next + c.new <= HsMaxReq + 1
          /\ HsHand([w EXCEPT !.conn[t] = HsPause(c)], t) /\ hsNet' = net

\* The tokens a client may send, and where they leave its stream
HsTokens(at) == IF at = "body" THEN {"part", "end", "term", "bad"} ELSE {"get", "post", "expect", "bad"}
HsAfter(at, tok) ==
    CASE tok \in {"post", "expect"} -> "body" [] tok \in {"end", "term"} -> "start" [] OTHER -> at

HsData(t, tok) ==
    /\ hsNet[t].st \in {"up", "closing"} /\ ~hsNet[t].quiet
    /\ tok \in HsTokens(hsNet[t].at) /\ hsTok < HsMaxTok
    /\ hsTok' = hsTok + 1
    /\ \E net \in {[hsNet EXCEPT ![t].at = HsAfter(@, tok)]} :
       IF hs.conn[t] = HsNoConn THEN hsNet' = net /\ UNCHANGED <<hs, hsApp>>
       ELSE HsTake(t, <<tok>>, net)

\* The socket service carries out a pause or a resume.
HsNetFlow(t) ==
    /\ hs.conn[t] # HsNoConn /\ hsNet[t].quiet # hs.conn[t].paused
    /\ hsNet' = [hsNet EXCEPT ![t].quiet = hs.conn[t].paused]
    /\ UNCHANGED <<hs, hsApp, hsTok>>

\* The empty Data event of finish_response
HsKick(t) ==
    /\ t \in hs.kick
    /\ IF hs.conn[t] = HsNoConn
       THEN hs' = [hs EXCEPT !.kick = @ \ {t}] /\ UNCHANGED <<hsApp, hsNet>>
       ELSE HsTake(t, <<>>, hsNet)
    /\ UNCHANGED hsTok

\* closed: an idle connection and a WebSocket go; else the request finds the error.
HsClosed(t) ==
    /\ hsNet[t].st \in {"up", "closing"}
    /\ hsNet' = [hsNet EXCEPT ![t].st = "gone"]
    /\ hs' = CASE hs.conn[t].proto \in {"recv", "ws"} -> HsRemove(hs, t)
               [] hs.conn[t] = HsNoConn -> hs
               [] OTHER -> [hs EXCEPT !.conn[t].err = TRUE, !.conn[t].ended = TRUE]
    /\ UNCHANGED <<hsApp, hsTok>>

\* The timer of the request head
HsHeaderTimeout(tm) ==
    /\ tm \in hs.timers
    /\ LET w == [hs EXCEPT !.timers = @ \ {tm}]
           late == hs.conn[tm.t].proto = "recv" /\ hs.conn[tm.t].gen = tm.gen
       IN  /\ hs' = IF late THEN HsRemove(w, tm.t) ELSE w
           /\ HsShut(IF late THEN {tm.t} ELSE {})
    /\ UNCHANGED <<hsApp, hsTok>>

----------------------------------------------------------------------------
(* The handles of request k: ServerBodyHandle, ServerResponder, IncomingBody *)
(* and OutgoingBody.  step says what the business service awaits.            *)

HsAt(k, step) == hsApp[k].step = step /\ UNCHANGED hsTok
HsTr(k) == hsApp[k].t
HsConn(k) == hs.conn[HsTr(k)]

HsStep(k, step) == hsApp' = [hsApp EXCEPT ![k].step = step]
\* The response is over: the service has given up all handles of the request.
HsOver(k) == hsApp' = [hsApp EXCEPT ![k] = [@ EXCEPT !.in = "gone", !.out = "done", !.step = "over"]]

\* Mutant: abort forgets the transport.
HsAbortQuiet(k) == hs' = HsRemove(hs, HsTr(k)) /\ UNCHANGED hsNet

\* abort: the connection is removed and its transport shut down.
HsAbort(k) ==
    /\ hs' = HsRemove(hs, HsTr(k))
    /\ HsShut(IF HsConn(k) = HsNoConn THEN {} ELSE {HsTr(k)})

\* next_chunk up to its first await: the client that waits for 100 gets it.
HsNextChunk(k) ==
    /\ HsAt(k, "ready") /\ hsApp[k].in = "active" /\ HsConn(k) # HsNoConn
    /\ IF HsConn(k).proto = "await100"
       THEN hs' = [hs EXCEPT !.conn[HsTr(k)].proto = "body"] /\ HsStep(k, "continue")
       ELSE HsStep(k, "reading") /\ UNCHANGED hs
    /\ UNCHANGED hsNet

\* ensure_continue after send_wait: input that came meanwhile is processed.
HsContinued(k, ok) ==
    /\ HsAt(k, "continue")
    /\ ok => hsNet[HsTr(k)].st # "gone"
    /\ hs' = IF ok /\ HsConn(k) # HsNoConn
             THEN [hs EXCEPT !.conn[HsTr(k)] = HsProcess(@)] ELSE hs
    /\ HsStep(k, IF ok /\ hs'.conn[HsTr(k)].proto \notin {"lost", "none"} THEN "reading" ELSE "ready")
    /\ UNCHANGED hsNet

\* One turn of the loop of next_chunk that gives an answer: a chunk, an error that
\* ends the connection, or the end.
HsRead(k) ==
    /\ HsAt(k, "reading")
    /\ \E c \in {HsConn(k)} :
       \/ /\ c = HsNoConn
          /\ HsStep(k, "ready") /\ UNCHANGED hs
       \/ /\ c # HsNoConn /\ c.chunks > 0
          /\ LET resume == c.paused /\ Len(c.input) + c.chunks - 1 <= HsLow
             IN  hs' = [hs EXCEPT !.conn[HsTr(k)].chunks = @ - 1,
                                  !.conn[HsTr(k)].paused = @ /\ ~resume]
          /\ HsStep(k, "ready")
       \/ /\ c # HsNoConn /\ c.chunks = 0 /\ c.err
          /\ hs' = HsRemove(hs, HsTr(k)) /\ HsStep(k, "ready")
       \/ /\ c # HsNoConn /\ c.chunks = 0 /\ ~c.err /\ c.ended
          /\ hsApp' = [hsApp EXCEPT ![k].step = "ready", ![k].in = "ended"] /\ UNCHANGED hs
    /\ UNCHANGED hsNet

\* The future of next_chunk is dropped; the body stays with the service.
HsStopReading(k) ==
    /\ hsApp[k].step \in {"continue", "reading"} /\ HsStep(k, "ready")
    /\ UNCHANGED <<hs, hsNet, hsTok>>

\* A turn that finds nothing after the time allowed for the body
HsBodyTimeout(k) ==
    /\ HsAt(k, "reading") /\ HsConn(k) # HsNoConn
    /\ HsConn(k).chunks = 0 /\ ~HsConn(k).ended
    /\ HsAbort(k) /\ HsStep(k, "ready")

\* respond up to send_wait.  A response that cannot be given, or not yet, fails;
\* the responder is dropped with it and aborts the connection.
HsRespond(k, body) ==
    /\ HsAt(k, "ready") /\ hsApp[k].out = "responder"
    /\ \/ /\ HsConn(k).proto \in {"await100", "provide"}
          /\ hs' = [hs EXCEPT !.conn[HsTr(k)].proto = IF body THEN "sendbody" ELSE "responding"]
          /\ HsStep(k, IF body THEN "head" ELSE "whole") /\ UNCHANGED hsNet
       \/ HsAbort(k) /\ HsOver(k)
HsResponded(k, ok, close) ==
    /\ hsApp[k].step \in {"head", "whole"} /\ UNCHANGED hsTok
    /\ ok => hsNet[HsTr(k)].st # "gone"
    /\ \/ ~ok /\ HsAbort(k) /\ HsOver(k)
       \/ /\ ok /\ hsApp[k].step = "head"
          /\ hsApp' = [hsApp EXCEPT ![k].out = "body", ![k].step = "ready"]
          /\ UNCHANGED <<hs, hsNet>>
       \/ /\ ok /\ hsApp[k].step = "whole"
          /\ hs' = HsFinishResponse(hs, HsTr(k), close)
          /\ HsShut(IF close THEN {HsTr(k)} ELSE {})
          /\ HsOver(k)

\* write_chunk: a failure is told, the connection stays until the body is dropped.
HsWriteChunk(k) ==
    /\ HsAt(k, "ready") /\ hsApp[k].out = "body" /\ HsConn(k).proto = "sendbody"
    /\ HsStep(k, "writing") /\ UNCHANGED <<hs, hsNet>>
HsWrote(k) == HsAt(k, "writing") /\ HsStep(k, "ready") /\ UNCHANGED <<hs, hsNet>>

\* finish: a body that is not complete, or a connection that is gone, is aborted.
HsFinish(k) ==
    /\ HsAt(k, "ready") /\ hsApp[k].out = "body"
    /\ \/ /\ HsConn(k).proto = "sendbody"
          /\ hs' = [hs EXCEPT !.conn[HsTr(k)].proto = "responding"]
          /\ HsStep(k, "finishing") /\ UNCHANGED hsNet
       \/ HsAbort(k) /\ HsOver(k)
HsFinished(k, ok, close) ==
    /\ HsAt(k, "finishing")
    /\ ok => hsNet[HsTr(k)].st # "gone"
    /\ IF ok THEN /\ hs' = HsFinishResponse(hs, HsTr(k), close)
                  /\ HsShut(IF close THEN {HsTr(k)} ELSE {})
       ELSE HsAbort(k)
    /\ HsOver(k)
\* The future of finish is dropped while it waits: it has taken the driver out of the
\* body, so that nothing is aborted, and what was to follow does not.
HsFinishLeft(k) == HsAt(k, "finishing") /\ HsStep(k, "left") /\ UNCHANGED <<hs, hsNet>>

\* upgrade_websocket: 101 is sent, and the connection is the WebSocket's until
\* the socket's end removes it.
HsUpgrade(k) ==
    /\ HsAt(k, "ready") /\ hsApp[k].out = "responder" /\ HsConn(k).proto = "provide"
    /\ hs' = [hs EXCEPT !.conn[HsTr(k)] = [@ EXCEPT !.proto = "ws", !.input = <<>>,
                                                    !.ended = TRUE, !.chunks = 0]]
    /\ HsStep(k, "upgrading") /\ UNCHANGED hsNet
HsUpgraded(k, ok) ==
    /\ HsAt(k, "upgrading")
    /\ ok => hsNet[HsTr(k)].st # "gone"
    /\ \/ ~ok /\ HsAbort(k) /\ HsOver(k)
       \/ /\ ok
          /\ hsApp' = [hsApp EXCEPT ![k].in = "gone", ![k].out = "ws", ![k].step = "ws"]
          /\ UNCHANGED <<hs, hsNet>>
HsSocketEnds(k) == HsAt(k, "ws") /\ HsAbort(k) /\ HsOver(k)

\* Drop of the incoming body: a body that is not at its end ends the connection.
HsDropIncoming(k) ==
    /\ HsAt(k, "ready") /\ hsApp[k].in = "active"
    /\ hsApp' = [hsApp EXCEPT ![k].in = "gone"]
    /\ IF HsConn(k).proto \in {"await100", "body"} /\ ~HsConn(k).ended THEN HsAbort(k)
       ELSE UNCHANGED <<hs, hsNet>>

\* Drop of the responder, with the future of respond or upgrade_websocket that holds
\* it or without, or of the outgoing body
HsDropOutgoing(k) ==
    /\ hsApp[k].step \in {"ready", "head", "whole", "upgrading"} /\ UNCHANGED hsTok
    /\ hsApp[k].out \in {"responder", "body"}
    /\ HsAbort(k) /\ HsOver(k)

HsNext ==
    \/ HsBind \/ HsListenerClosed \/ \E ok \in BOOLEAN : HsBound(ok)
    \/ \E t \in HsTrs :
          \/ HsAccept(t) \/ HsKick(t) \/ HsClosed(t) \/ HsNetFlow(t)
          \/ \E tok \in HsTokens(hsNet[t].at) : HsData(t, tok)
    \/ \E tm \in hs.timers : HsHeaderTimeout(tm)
    \/ \E k \in 1 .. hs.next - 1 :
          \/ HsNextChunk(k) \/ HsRead(k) \/ HsBodyTimeout(k) \/ HsStopReading(k)
          \/ HsWriteChunk(k) \/ HsWrote(k) \/ HsFinish(k) \/ HsFinishLeft(k)
          \/ HsUpgrade(k) \/ HsSocketEnds(k) \/ HsDropIncoming(k) \/ HsDropOutgoing(k)
          \/ \E body \in BOOLEAN : HsRespond(k, body)
          \/ \E ok \in BOOLEAN : HsContinued(k, ok) \/ HsUpgraded(k, ok)
          \/ \E ok, close \in BOOLEAN : HsResponded(k, ok, close) \/ HsFinished(k, ok, close)

HsSpec == HsInit /\ [][HsNext]_hsVars

----------------------------------------------------------------------------
(* Properties *)

\* A request that is complete in the input of a connection that waits for one is
\* about to be processed, without more data from the client: finish_response
\* sends the service an empty Data event for what was pipelined.
HsServed ==
    \A t \in HsTrs :
       hs.conn[t].proto = "recv" /\ HsParse(hs.conn[t]) # hs.conn[t] => t \in hs.kick

\* The requests of a transport with somebody who ends them, and those whose finish
\* was dropped midway.
HsHeld(t) == {k \in HsReqs : hsApp[k].t = t /\ hsApp[k].step \notin {"over", "left"}}
HsLeft(t) == {k \in HsReqs : hsApp[k].t = t /\ hsApp[k].step = "left"}

\* The books of the server: an open transport has its connection, a connection
\* that waits for a request has the timer of its generation running, and any
\* other has exactly one request whose handles are alive, so that somebody will
\* end it (insert_connection, abort, remove_connection, arm_header_timeout).  The
\* exception is in the code: a finish that was dropped midway, exactly one, has
\* left its connection to nobody.
HsBooks ==
    \A t \in HsTrs :
       /\ hsNet[t].st = "up" => hs.conn[t] # HsNoConn
       /\ hs.conn[t].proto = "recv" => [t |-> t, gen |-> hs.conn[t].gen] \in hs.timers
       /\ hs.conn[t].proto \notin {"recv", "none"} => Cardinality(HsHeld(t) \cup HsLeft(t)) = 1
       /\ HsLeft(t) # {} => hs.conn[t].proto = "responding"

\* Pipelined requests are served and every connection has somebody who ends it, but
\* for a response whose finish was dropped midway (process, finish_response, abort).
HsSafe == HsServed /\ HsBooks
=============================================================================
