---------------------------- MODULE HttpClient ----------------------------
(***************************************************************************)
(* The HTTP client service (crates/rskynet-http/src/client.rs): exchanges,  *)
(* the pool of transports with its limits, the queue of starts that wait    *)
(* for a place, and the guards a caller drops.                              *)
(*                                                                         *)
(* The socket service, ureq-proto and the servers are external.  A          *)
(* transport delivers the tokens of well-formed or broken responses, one    *)
(* per Data event, and one end; after a shutdown a Data event that was      *)
(* under way may still come before the end.  Messages of different senders  *)
(* reach the mailbox in any order, so a message is handled when its action  *)
(* is taken and there is no queue in front of the service.                  *)
(*                                                                         *)
(* An exchange is named by the call that starts it: token and id of the     *)
(* code are both numbers used once.                                         *)
(***************************************************************************)
EXTENDS Integers, Sequences, FiniteSets, SequencesExt

CONSTANTS
    HcOrigins,
    HcMaxConn, HcPerOrigin,       \* max_connections(_per_origin)
    HcMaxIdle, HcIdlePerOrigin,   \* max_idle_connections(_per_origin)
    HcHigh, HcLow,                \* input_high_water, input_low_water, in tokens
    HcMaxTr, HcMaxReq,            \* bounds: transports, calls
    HcMenus                       \* bounds: starts, calls, tokens and kinds of one behaviour

ASSUME HcAssumption ==
    /\ {HcMaxConn, HcPerOrigin, HcHigh, HcMaxTr, HcMaxReq} \subseteq Nat \ {0}
    /\ {HcMaxIdle, HcIdlePerOrigin, HcLow} \subseteq Nat
    /\ HcPerOrigin <= HcMaxConn /\ HcMaxIdle <= HcMaxConn
    /\ HcIdlePerOrigin <= HcPerOrigin /\ HcLow < HcHigh

VARIABLES
    hc,        \* state of the service, the answers it gave, and of which
               \* exchanges it told the end
    hcTasks,   \* handlers that await an answer of the socket service
    hcNet,     \* transports: their state and where the server's stream is (external)
    hcCaller,  \* the callers of start, by call
    hcUsed     \* how much of the bounds is used

hcVars == <<hc, hcTasks, hcNet, hcCaller, hcUsed>>

HcReqs == 1 .. HcMaxReq
HcTrs == 1 .. HcMaxTr
HcNoOrigin == "none"
HcNoEx == [proto |-> "none"]

HcInit ==
    /\ hc = [ex |-> [s \in HcReqs |-> HcNoEx], active |-> [t \in HcTrs |-> 0],
             origins |-> [t \in HcTrs |-> HcNoOrigin],
             idle |-> [o \in HcOrigins |-> <<>>], gen |-> [t \in HcTrs |-> 0],
             nextGen |-> 0, pend |-> <<>>, resume |-> <<>>,
             connecting |-> [o \in HcOrigins |-> 0], tokens |-> {}, told |-> {},
             timers |-> {}, ans |-> [r \in HcReqs |-> <<>>]]
    /\ hcTasks = {}
    /\ hcNet = [t \in HcTrs |-> [st |-> "none", at |-> "start"]]
    /\ hcCaller = [s \in HcReqs |-> "none"]
    /\ hcUsed \in {[req |-> 0, starts |-> 0, tok |-> 0, menu |-> m] : m \in HcMenus}

----------------------------------------------------------------------------
(* The pool. *)

HcReply(w, r, what) == IF r = 0 THEN w ELSE [w EXCEPT !.ans[r] = Append(@, what)]

HcSame(w, o) ==
    Cardinality({t \in HcTrs : w.origins[t] = o}) + w.connecting[o]

RECURSIVE HcSum(_, _)
HcSum(f, S) == IF S = {} THEN 0 ELSE LET x == CHOOSE x \in S : TRUE IN f[x] + HcSum(f, S \ {x})

HcTotal(w) ==
    Cardinality({t \in HcTrs : w.origins[t] # HcNoOrigin}) + HcSum(w.connecting, HcOrigins)

\* should_queue: no idle transport of the origin and a limit is reached.
HcShouldQueue(w, o) ==
    /\ w.idle[o] = <<>>
    /\ HcTotal(w) >= HcMaxConn \/ HcSame(w, o) >= HcPerOrigin

\* Callers whose `alive` is dropped
HcDead(s) == hcCaller[s] = "gone"

\* wake_queued: starts whose caller is gone leave the queue, and the first start
\* there is room for is sent to the service again.
HcWakeIn(w, live) ==
    LET fit == {k \in DOMAIN live : ~HcShouldQueue(w, live[k].org)}
        k == CHOOSE k \in fit : \A j \in fit : k <= j
    IN  IF fit = {} THEN [w EXCEPT !.pend = live]
        ELSE [w EXCEPT !.pend = RemoveAt(live, k), !.resume = Append(@, live[k])]
HcWake(w) == HcWakeIn(w, SelectSeq(w.pend, LAMBDA j : ~HcDead(j.s)))

HcForget(w, t) ==
    [w EXCEPT !.origins[t] = HcNoOrigin, !.active[t] = 0, !.gen[t] = 0,
              !.idle = [o \in HcOrigins |-> SelectSeq(@[o], LAMBDA i : i # t)]]

\* Mutant: a transport that becomes idle wakes nobody.
HcRecycleQuiet(w, t, o, reusable) ==
    LET w1 == [w EXCEPT !.active[t] = 0]
        total == HcSum([p \in HcOrigins |-> Len(w.idle[p])], HcOrigins)
    IN  IF ~reusable \/ total >= HcMaxIdle \/ Len(w.idle[o]) >= HcIdlePerOrigin
        THEN HcForget(w1, t)
        ELSE [w1 EXCEPT !.idle[o] = Append(@, t), !.nextGen = @ + 1,
                        !.gen[t] = w.nextGen + 1,
                        !.timers = @ \cup {[k |-> "idle", t |-> t, n |-> w.nextGen + 1]}]

\* recycle: the transport becomes idle and its timer starts, or it is shut down.
HcRecycle(w, t, o, reusable) ==
    LET w1 == [w EXCEPT !.active[t] = 0]
        total == HcSum([p \in HcOrigins |-> Len(w.idle[p])], HcOrigins)
    IN  HcWake(IF ~reusable \/ total >= HcMaxIdle \/ Len(w.idle[o]) >= HcIdlePerOrigin
               THEN HcForget(w1, t)
               ELSE [w1 EXCEPT !.idle[o] = Append(@, t), !.nextGen = @ + 1,
                               !.gen[t] = w.nextGen + 1,
                               !.timers = @ \cup {[k |-> "idle", t |-> t, n |-> w.nextGen + 1]}])

\* Mutant: the body write that waits for 100 Continue is forgotten.
HcCancelForgets(w, s) ==
    IF w.ex[s] = HcNoEx THEN w
    ELSE LET e == w.ex[s]
             gone == HcForget([w EXCEPT !.ex[s] = HcNoEx, !.tokens = @ \ {s}], e.tr)
         IN  HcWake(HcReply(HcReply(gone, e.rw, "failed"), e.bw, "failed"))

\* cancel: the exchange goes, its transport is shut down, its waiters are answered.
HcCancel(w, s) ==
    IF w.ex[s] = HcNoEx THEN w
    ELSE LET e == w.ex[s]
             gone == HcForget([w EXCEPT !.ex[s] = HcNoEx, !.tokens = @ \ {s}], e.tr)
         IN  HcWake(HcReply(HcReply(HcReply(gone, e.rw, "failed"), e.bw, "failed"),
                            e.ww, "failed"))

\* Transports that the state w' no longer keeps and w did: shut down by the step.
\* A transport told to shut down delivers its end later.
HcShut(w, v, more) ==
    hcNet' = [t \in HcTrs |->
                IF /\ hcNet[t].st = "up"
                   /\ t \in more \/ (w.origins[t] # HcNoOrigin /\ v.origins[t] = HcNoOrigin)
                THEN [hcNet[t] EXCEPT !.st = "closing"] ELSE hcNet[t]]

----------------------------------------------------------------------------
(* Reading a response: drive_input. *)

\* One turn of the loop of drive_input.  said collects the answers to send.  The
\* end of a body comes with data, or as a terminator alone, which is no chunk.
HcParse(e) ==
    LET tok == Head(e.input)
        rest == [e EXCEPT !.input = Tail(@)]
        bad == [e EXCEPT !.proto = "lost", !.err = TRUE]
        answered(x) == IF e.rw = 0 THEN [x EXCEPT !.resp = TRUE]
                       ELSE [x EXCEPT !.taken = TRUE, !.rw = 0,
                                      !.said = Append(@, <<e.rw, "response">>)]
    IN  IF e.input = <<>> THEN e
        ELSE CASE e.proto = "await100" /\ tok = "100" ->
                    [rest EXCEPT !.proto = "send", !.job = e.ww, !.ww = 0]
               [] e.proto = "await100" /\ tok \in {"head", "headn", "headc"} ->
                    [e EXCEPT !.proto = "recv", !.fin = TRUE, !.ww = 0,
                              !.said = IF e.ww = 0 THEN @ ELSE Append(@, <<e.ww, "failed">>)]
               [] e.proto = "await100" -> bad
               [] e.proto = "recv" /\ tok = "head" -> answered([rest EXCEPT !.proto = "body"])
               [] e.proto = "recv" /\ tok = "headc" -> answered([rest EXCEPT !.proto = "bodyc"])
               [] e.proto = "recv" /\ tok = "headn" ->
                    answered([rest EXCEPT !.proto = "done", !.ended = TRUE, !.reuse = "yes"])
               [] e.proto = "recv" /\ tok = "100" -> e   \* no response, input not drained
               [] e.proto = "recv" -> bad
               [] e.proto \in {"body", "bodyc"} /\ tok = "part" -> [rest EXCEPT !.chunks = @ + 1]
               [] e.proto = "body" /\ tok \in {"end", "endx", "term"} ->
                    [rest EXCEPT !.chunks = IF tok = "term" THEN @ ELSE @ + 1,
                                 !.proto = "done", !.ended = TRUE,
                                 !.reuse = IF tok = "endx" THEN "no" ELSE "yes"]
               [] e.proto \in {"body", "bodyc"} -> bad
               [] OTHER -> e

\* The reader that waits gets a chunk, the error or the end; nothing is recycled.
HcServeBody(e) ==
    IF e.bw # 0 /\ e.chunks > 0
    THEN [e EXCEPT !.chunks = @ - 1, !.bw = 0, !.said = Append(@, <<e.bw, "chunk">>)]
    ELSE IF e.bw # 0 /\ e.err THEN [e EXCEPT !.bw = 0, !.said = Append(@, <<e.bw, "failed">>)]
    ELSE IF e.bw # 0 /\ e.ended THEN [e EXCEPT !.bw = 0, !.said = Append(@, <<e.bw, "end">>)]
    ELSE e

\* An error is told to who waits for the response.
HcServeError(e) ==
    IF e.err /\ e.rw # 0 THEN [e EXCEPT !.rw = 0, !.said = Append(@, <<e.rw, "failed">>)] ELSE e

\* The input limit: the transport is paused.
HcPause(e) ==
    IF ~e.ended /\ ~e.paused /\ Len(e.input) + e.chunks >= HcHigh
    THEN [e EXCEPT !.paused = TRUE, !.stop = TRUE] ELSE e

HcRead(e) == HcServeError(HcPause(HcServeBody(HcParse(HcParse(HcParse(HcParse(e)))))))

\* What drive_input leaves in the state: its answers are sent.
HcSay(w, said) ==
    [w EXCEPT !.ans = [r \in HcReqs |->
        @[r] \o [k \in 1 .. Cardinality({j \in DOMAIN said : said[j][1] = r}) |->
                    said[CHOOSE j \in DOMAIN said : said[j][1] = r][2]]]]
HcKeep(w, s, e) ==
    HcSay([w EXCEPT !.ex[s] = [e EXCEPT !.said = <<>>, !.job = 0, !.stop = FALSE],
                    !.told = @ \cup {x \in {s} : \E j \in DOMAIN e.said : e.said[j][2] = "end"}],
          e.said)

HcTask(op, r, s, t) == [op |-> op, r |-> r, s |-> s, t |-> t, then |-> FALSE]
HcAwait(S) == hcTasks' = hcTasks \cup S

\* drive_input from the state e of exchange s: the write that waited for
\* 100 Continue is sent first, then the transport is paused.
HcDrive(w, s, e) ==
    \E d \in {HcRead(e)} :
       /\ hc' = [HcKeep(w, s, d) EXCEPT !.ex[s].written = @ \/ d.job # 0]
       /\ HcAwait(IF d.job # 0 THEN {[HcTask("write", d.job, s, d.tr) EXCEPT !.then = d.stop]}
                  ELSE IF d.stop THEN {HcTask("pause", 0, s, d.tr)} ELSE {})

----------------------------------------------------------------------------
(* start_exchange *)

HcAsk(r) ==
    /\ r = hcUsed.req + 1 /\ hcUsed.req - hcUsed.starts < hcUsed.menu.calls
    /\ hcUsed' = [hcUsed EXCEPT !.req = r]

\* Up to acquire: the URI or the headers are refused, or the start waits in the
\* queue, or it connects.
HcBegin(w, job) ==
    \/ /\ hc' = HcWake(HcReply(w, job.s, "failed")) /\ UNCHANGED hcTasks
    \/ /\ HcShouldQueue(w, job.org)
       /\ hc' = [w EXCEPT !.pend = Append(@, job)] /\ UNCHANGED hcTasks
    \/ /\ ~HcShouldQueue(w, job.org) /\ w.idle[job.org] = <<>>
       /\ hc' = [w EXCEPT !.connecting[job.org] = @ + 1]
       /\ HcAwait({[op |-> "connect", r |-> job.s, s |-> job.s, t |-> 0, job |-> job]})

\* The exchange exists, its head is on its way.
HcInsert(w, job, t) ==
    [w EXCEPT !.active[t] = job.s, !.tokens = @ \cup {job.s},
              !.ex[job.s] =
                 [tr |-> t, org |-> job.org, input |-> <<>>, resp |-> FALSE, taken |-> FALSE,
                  rw |-> 0, ww |-> 0, bw |-> 0, chunks |-> 0, ended |-> FALSE, err |-> FALSE,
                  paused |-> FALSE, fin |-> job.kind = "empty", written |-> job.kind = "empty",
                  reuse |-> "none", said |-> <<>>, job |-> 0, stop |-> FALSE,
                  proto |-> CASE job.kind = "empty" -> "recv" [] job.kind = "fixed" -> "send"
                              [] job.kind = "expect" -> "await100"]]

\* acquire of an idle transport; nothing is awaited between it and the exchange.
\* A head that is too long gives the transport up.
HcReuse(w, job) ==
    /\ w.idle[job.org] # <<>>
    /\ \E t \in {Head(w.idle[job.org])} :
       \E w1 \in {[w EXCEPT !.idle[job.org] = Tail(@), !.gen[t] = 0]} :
          \/ /\ hc' = HcWake(HcForget(HcReply(w1, job.s, "failed"), t))
             /\ HcShut(w, hc', {t}) /\ UNCHANGED hcTasks
          \/ /\ hc' = HcInsert(w1, job, t) /\ HcAwait({HcTask("start", job.s, job.s, t)})
             /\ UNCHANGED hcNet

\* Command::Start; its caller may be gone when it is handled.
HcStart(s, o, kind) ==
    /\ s = hcUsed.req + 1 /\ hcUsed.starts < hcUsed.menu.starts
    /\ hcUsed' = [hcUsed EXCEPT !.req = s, !.starts = @ + 1]
    /\ kind \in hcUsed.menu.kinds
    /\ hcCaller' = [hcCaller EXCEPT ![s] = "calling"]
    /\ LET job == [s |-> s, org |-> o, kind |-> kind] IN
       \/ HcBegin(hc, job) /\ UNCHANGED hcNet
       \/ HcReuse(hc, job)

HcStartDropped(s) ==
    /\ s = hcUsed.req + 1 /\ hcUsed.starts < hcUsed.menu.starts
    /\ hcUsed' = [hcUsed EXCEPT !.req = s, !.starts = @ + 1]
    /\ hcCaller' = [hcCaller EXCEPT ![s] = "gone"]
    /\ hc' = HcWake(hc)
    /\ UNCHANGED <<hcTasks, hcNet>>

\* Command::ResumeStart
HcResumeStart ==
    /\ hc.resume # <<>>
    /\ LET w == [hc EXCEPT !.resume = Tail(@)]
           job == Head(hc.resume)
       IN  \/ HcDead(job.s) /\ hc' = HcWake(w) /\ UNCHANGED <<hcTasks, hcNet>>
           \/ ~HcDead(job.s) /\ HcBegin(w, job) /\ UNCHANGED hcNet
           \/ ~HcDead(job.s) /\ HcReuse(w, job)
    /\ UNCHANGED <<hcCaller, hcUsed>>

HcDone(t) == hcTasks' = hcTasks \ {t}
HcCounted(w, o) == [w EXCEPT !.connecting[o] = @ - 1]

\* acquire after connect has failed
HcConnectFails(task) ==
    /\ task.op = "connect" /\ HcDone(task)
    /\ hc' = HcWake(HcReply(HcCounted(hc, task.job.org), task.s, "failed"))
    /\ UNCHANGED <<hcNet, hcCaller, hcUsed>>

\* acquire after connect has given a transport
HcConnected(task, t) ==
    /\ task.op = "connect" /\ hcNet[t].st = "none" /\ \A u \in 1 .. t - 1 : hcNet[u].st # "none"
    /\ LET w == [HcCounted(hc, task.job.org) EXCEPT !.origins[t] = task.job.org]
       IN  \/ /\ hc' = HcWake(HcForget(IF HcDead(task.s) THEN w
                                       ELSE HcReply(w, task.s, "failed"), t))
              /\ hcNet' = [hcNet EXCEPT ![t].st = "closing"]
              /\ HcDone(task)
           \/ /\ ~HcDead(task.s)
              /\ hc' = HcInsert(w, task.job, t)
              /\ hcNet' = [hcNet EXCEPT ![t].st = "up"]
              /\ hcTasks' = (hcTasks \ {task}) \cup {HcTask("start", task.s, task.s, t)}
    /\ UNCHANGED <<hcCaller, hcUsed>>

\* start_exchange after send_wait: the exchange is cancelled when the head could
\* not be sent or the caller is gone; else the caller gets the id, and an
\* exchange that still waits for 100 Continue gets a timer.
HcStarted(task, ok) ==
    /\ task.op = "start" /\ HcDone(task)
    /\ LET s == task.s
           timed == IF hc.ex[s].proto = "await100"
                    THEN [hc EXCEPT !.timers = @ \cup {[k |-> "continue", t |-> s, n |-> 0]}]
                    ELSE hc
       IN  hc' = IF ~ok THEN HcReply(HcCancel(hc, s), s, "failed")
                 ELSE IF HcDead(s) THEN HcCancel(hc, s)
                 ELSE HcReply(timed, s, "id")
    /\ HcShut(hc, hc', {})
    /\ UNCHANGED <<hcCaller, hcUsed>>

----------------------------------------------------------------------------
(* The other commands. *)

\* Command::Write: it waits while 100 Continue is undecided; only one may.
HcWrite(s, r) ==
    /\ HcAsk(r) /\ hcCaller[s] = "owner"
    /\ LET e == hc.ex[s] IN
       \/ /\ e.proto = "await100" /\ e.ww = 0
          /\ hc' = [hc EXCEPT !.ex[s].ww = r] /\ UNCHANGED hcTasks
       \/ /\ e.proto = "send" /\ ~e.fin /\ ~e.written
          /\ hc' = [hc EXCEPT !.ex[s].written = TRUE]
          /\ HcAwait({HcTask("write", r, s, e.tr)})
       \/ /\ e.proto = "await100" => e.ww # 0
          /\ e.proto = "send" => e.fin \/ e.written
          /\ hc' = HcReply(hc, r, "failed") /\ UNCHANGED hcTasks
    /\ UNCHANGED <<hcNet, hcCaller>>

\* Command::Finish.  A proto that continue_timeout took away is an error for ever;
\* an exchange that reads its response has finished its request.
HcFinish(s, r) ==
    /\ HcAsk(r) /\ hcCaller[s] = "owner"
    /\ LET e == hc.ex[s] IN
       IF e = HcNoEx THEN hc' = HcReply(hc, r, "failed") /\ UNCHANGED hcTasks
       ELSE IF ~e.fin /\ (~e.written \/ e.proto \in {"lost", "await100"})
       THEN hc' = HcReply(hc, r, "failed") /\ UNCHANGED hcTasks
       ELSE IF e.fin THEN hc' = HcReply(hc, r, "done") /\ UNCHANGED hcTasks
       ELSE /\ hc' = [hc EXCEPT !.ex[s].proto = "recv", !.ex[s].fin = TRUE]
            /\ HcAwait({HcTask("write", r, s, e.tr)})
    /\ UNCHANGED <<hcNet, hcCaller>>

\* write_request and finish_request after send_wait; drive_input goes on
HcWritten(task, ok) ==
    /\ task.op = "write"
    /\ hcTasks' = (hcTasks \ {task})
                     \cup IF task.then THEN {HcTask("pause", 0, task.s, task.t)} ELSE {}
    /\ hc' = HcReply(hc, task.r, IF ok THEN "done" ELSE "failed")
    /\ UNCHANGED <<hcNet, hcCaller, hcUsed>>

\* Command::Response: wait_response
HcResponse(s, r) ==
    /\ HcAsk(r) /\ hcCaller[s] = "owner"
    /\ LET e == hc.ex[s] IN
       hc' = IF e = HcNoEx \/ e.taken \/ e.err THEN HcReply(hc, r, "failed")
             ELSE IF e.resp THEN HcReply([hc EXCEPT !.ex[s].resp = FALSE, !.ex[s].taken = TRUE],
                                         r, "response")
             ELSE IF e.rw # 0 THEN HcReply(hc, r, "failed")
             ELSE [hc EXCEPT !.ex[s].rw = r, !.timers = @ \cup {[k |-> "wait", t |-> s, n |-> r]}]
    /\ UNCHANGED <<hcTasks, hcNet, hcCaller>>

\* Mutant: the last answer is given and the transport not recycled.
HcRepliedOnly(w, s, r, what, org, reuse, t) ==
    IF what = "wait" THEN [w EXCEPT !.timers = @ \cup {[k |-> "wait", t |-> s, n |-> r]}]
    ELSE [HcReply(w, r, what) EXCEPT !.told = IF what = "end" THEN @ \cup {s} ELSE @]

\* The tail of next_body: at the end of the body the transport is recycled and
\* the exchange forgotten; any other answer, and a wait, starts a timer.
HcReplied(w, s, r, what, org, reuse, t) ==
    LET said == IF what = "wait" THEN w
                ELSE [HcReply(w, r, what) EXCEPT
                         !.told = IF what = "end" THEN @ \cup {s} ELSE @]
    IN  IF what = "end" /\ reuse # "none"
        THEN [HcRecycle(said, t, org, reuse = "yes") EXCEPT !.ex[s] = HcNoEx]
        ELSE [said EXCEPT !.timers = @ \cup IF what = "wait" THEN {[k |-> "wait", t |-> s, n |-> r]}
                                            ELSE {}]

\* next_body up to its await: the call gets what is there or waits; a transport
\* that was paused is resumed first.  The body comes with the response.
HcNextBody(s, r) ==
    /\ HcAsk(r) /\ hcCaller[s] \in {"owner", "through"}
    /\ hc.ex[s] # HcNoEx => hc.ex[s].taken
    /\ \E e \in {hc.ex[s]} :
       IF e = HcNoEx THEN hc' = HcReply(hc, r, "failed") /\ UNCHANGED <<hcTasks, hcNet>>
       ELSE \E what \in {IF e.chunks > 0 THEN "chunk" ELSE IF e.err THEN "failed"
                         ELSE IF e.ended THEN "end" ELSE IF e.bw # 0 THEN "failed" ELSE "wait"},
               left \in {IF e.chunks > 0 THEN e.chunks - 1 ELSE 0} :
            LET resume == e.paused /\ Len(e.input) + left <= HcLow
                w == [hc EXCEPT !.ex[s].chunks = left,
                                !.ex[s].bw = IF what = "wait" THEN r ELSE @,
                                !.ex[s].paused = @ /\ ~resume,
                                !.ex[s].reuse = IF what = "end" THEN "none" ELSE @]
            IN  \/ /\ resume
                   /\ hc' = w
                   /\ HcAwait({[op |-> "resume", r |-> r, s |-> s, t |-> e.tr, then |-> FALSE,
                                what |-> what, org |-> e.org, reuse |-> e.reuse]})
                   /\ UNCHANGED hcNet
                \/ /\ ~resume
                   /\ hc' = HcReplied(w, s, r, what, e.org, e.reuse, e.tr)
                   /\ HcShut(hc, hc', {})
                   /\ UNCHANGED hcTasks
    /\ UNCHANGED hcCaller

\* next_body after resume, which cancels the exchange when it fails
HcResumed(task, ok) ==
    /\ task.op = "resume" /\ HcDone(task)
    /\ \E w \in {IF ok THEN hc ELSE HcCancel(hc, task.s)} :
          hc' = HcReplied(w, task.s, task.r, task.what, task.org, task.reuse, task.t)
    /\ HcShut(hc, hc', {})
    /\ UNCHANGED <<hcCaller, hcUsed>>

\* drive_input after pause
HcPaused(task, ok) ==
    /\ task.op = "pause" /\ HcDone(task)
    /\ hc' = IF ok THEN hc ELSE HcCancel(hc, task.s)
    /\ HcShut(hc, hc', {})
    /\ UNCHANGED <<hcCaller, hcUsed>>

----------------------------------------------------------------------------
(* Timers: each is a task that sleeps and then sends the service a command. *)

HcFire(k) == hc.timers \cap [k : {k}, t : HcReqs \cup HcTrs, n : 0 .. HcMaxReq]
HcFired(tm) == [hc EXCEPT !.timers = @ \ {tm}]

\* continue_timeout: the state of the exchange is taken out and only put back
\* when it still waits for 100 Continue.
HcContinueTimeout(tm) ==
    /\ tm \in HcFire("continue")
    /\ LET e == hc.ex[tm.t] IN
       \/ /\ e = HcNoEx
          /\ hc' = HcFired(tm) /\ UNCHANGED hcTasks
       \/ /\ e # HcNoEx /\ e.proto # "await100"
          /\ hc' = [HcFired(tm) EXCEPT !.ex[tm.t].proto = "lost"] /\ UNCHANGED hcTasks
       \/ /\ e.proto = "await100"
          /\ hc' = [HcFired(tm) EXCEPT !.ex[tm.t].proto = "send", !.ex[tm.t].ww = 0,
                                       !.ex[tm.t].written = e.ww # 0]
          /\ HcAwait(IF e.ww = 0 THEN {} ELSE {HcTask("write", e.ww, tm.t, e.tr)})
    /\ UNCHANGED <<hcNet, hcCaller, hcUsed>>

\* wait_timeout: only the call the timer was started for is ended by it.
HcWaitTimeout(tm) ==
    /\ tm \in HcFire("wait")
    /\ LET e == hc.ex[tm.t]
           mine == e # HcNoEx /\ tm.n \in {e.rw, e.bw}
           w == [HcFired(tm) EXCEPT !.ex[tm.t] =
                    IF mine THEN [e EXCEPT !.rw = IF @ = tm.n THEN 0 ELSE @,
                                           !.bw = IF @ = tm.n THEN 0 ELSE @] ELSE e]
       IN  hc' = IF mine THEN HcCancel(HcReply(w, tm.n, "failed"), tm.t) ELSE w
    /\ HcShut(hc, hc', {})
    /\ UNCHANGED <<hcTasks, hcCaller, hcUsed>>

\* idle_timeout: a transport taken and given back since has another generation.
HcIdleTimeout(tm) ==
    /\ tm \in HcFire("idle")
    /\ hc' = IF hc.gen[tm.t] = tm.n THEN HcWake(HcForget(HcFired(tm), tm.t)) ELSE HcFired(tm)
    /\ HcShut(hc, hc', {})
    /\ UNCHANGED <<hcTasks, hcCaller, hcUsed>>

----------------------------------------------------------------------------
(* What the transports bring. *)

\* Data may come: not while the socket service knows that the transport is paused.
HcFlows(t) ==
    \A s \in {hc.active[t]} \ {0} :
       /\ hc.ex[s].paused => \E task \in hcTasks : task.s = s /\ (task.op = "pause" \/ task.then)
       /\ ~\E task \in hcTasks : task.s = s /\ task.op = "resume"

\* The tokens a server may send next, and where that leaves its stream
HcTokens(at) ==
    CASE at = "start" -> {"100", "head", "headc", "headn", "bad"}
      [] at = "body" -> {"part", "end", "endx", "term", "bad"}
      [] at = "bodyc" -> {"part"}
HcAfter(at, tok) ==
    CASE tok = "head" -> "body" [] tok = "headc" -> "bodyc"
      [] tok \in {"end", "endx", "term"} -> "start" [] OTHER -> at

\* on_data: data nobody waits for ends the transport.
HcData(t, tok) ==
    /\ hcNet[t].st \in {"up", "closing"} /\ tok \in HcTokens(hcNet[t].at)
    /\ hcUsed.tok < hcUsed.menu.tok /\ HcFlows(t)
    /\ hcUsed' = [hcUsed EXCEPT !.tok = @ + 1]
    /\ LET s == hc.active[t]
           net == [hcNet EXCEPT ![t].at = HcAfter(@, tok)]
       IN  \/ /\ s = 0
              /\ hc' = HcForget(hc, t)
              /\ hcNet' = [net EXCEPT ![t].st = "closing"]
              /\ UNCHANGED hcTasks
           \/ /\ s # 0
              /\ HcDrive(hc, s, [hc.ex[s] EXCEPT !.input = Append(@, tok)])
              /\ hcNet' = net
    /\ UNCHANGED hcCaller

\* on_closed: the end of the transport is the end of a body without length;
\* else the exchange is cancelled.
HcClosed(t, failed) ==
    /\ hcNet[t].st \in {"up", "closing"}
    /\ hcNet' = [hcNet EXCEPT ![t].st = "gone"]
    /\ LET s == hc.active[t]
           w == HcForget(hc, t)
       IN  \/ s = 0 /\ hc' = HcWake(w) /\ UNCHANGED hcTasks
           \/ /\ s # 0 /\ hc.ex[s].proto = "bodyc" /\ ~failed
              /\ HcDrive(w, s, [hc.ex[s] EXCEPT !.ended = TRUE, !.proto = "done", !.reuse = "no"])
           \/ /\ s # 0 /\ ~(hc.ex[s].proto = "bodyc" /\ ~failed)
              /\ hc' = HcCancel(w, s) /\ UNCHANGED hcTasks
    /\ UNCHANGED <<hcCaller, hcUsed>>

----------------------------------------------------------------------------
(* The callers: start, StartGuard, ClientExchange and ClientBodyHandle. *)

\* start returns: the guard is disarmed and the start confirmed.
HcConfirm(s) ==
    /\ hcCaller[s] = "calling" /\ hc.ans[s] # <<>>
    /\ hcCaller' = [hcCaller EXCEPT ![s] = IF hc.ans[s] = <<"id">> THEN "owner" ELSE "done"]
    /\ hc' = [hc EXCEPT !.tokens = @ \ {s}]
    /\ UNCHANGED <<hcTasks, hcNet, hcUsed>>

\* The future of start is dropped: the guard sends CancelStart and then `alive`
\* goes; the service may handle the message before that.
HcDropStart(s) ==
    /\ hcCaller[s] = "calling"
    /\ hcCaller' = [hcCaller EXCEPT ![s] = "dropping"]
    /\ \E w \in {[hc EXCEPT !.pend = SelectSeq(@, LAMBDA j : j.s # s)]} :
          hc' = IF s \in hc.tokens THEN HcCancel(w, s) ELSE HcWake(w)
    /\ HcShut(hc, hc', {})
    /\ UNCHANGED <<hcTasks, hcUsed>>
HcAliveGone(s) ==
    /\ hcCaller[s] = "dropping"
    /\ hcCaller' = [hcCaller EXCEPT ![s] = "gone"]
    /\ UNCHANGED <<hc, hcTasks, hcNet, hcUsed>>

\* The exchange or the body is dropped before its end: Command::Cancel
HcDropExchange(s) ==
    /\ hcCaller[s] = "owner"
    /\ hcCaller' = [hcCaller EXCEPT ![s] = "done"]
    /\ hc' = HcCancel(hc, s)
    /\ HcShut(hc, hc', {})
    /\ UNCHANGED <<hcTasks, hcUsed>>

\* The body's reader sees the end: it may read on, but its drop cancels nothing.
HcSeesEnd(s) ==
    /\ hcCaller[s] = "owner" /\ s \in hc.told
    /\ hcCaller' = [hcCaller EXCEPT ![s] = "through"]
    /\ UNCHANGED <<hc, hcTasks, hcNet, hcUsed>>

HcNext ==
    \/ HcResumeStart
    \/ \E s \in HcReqs :
          \/ \E o \in HcOrigins, kind \in {"empty", "fixed", "expect"} : HcStart(s, o, kind)
          \/ HcStartDropped(s) \/ HcConfirm(s) \/ HcDropStart(s) \/ HcAliveGone(s)
          \/ HcDropExchange(s) \/ HcSeesEnd(s)
          \/ \E r \in HcReqs : HcWrite(s, r) \/ HcFinish(s, r) \/ HcResponse(s, r) \/ HcNextBody(s, r)
    \/ \E task \in hcTasks :
          \/ HcConnectFails(task) \/ \E t \in HcTrs : HcConnected(task, t)
          \/ \E ok \in BOOLEAN : HcStarted(task, ok) \/ HcWritten(task, ok) \/ HcResumed(task, ok)
                                   \/ HcPaused(task, ok)
    \/ \E tm \in hc.timers : HcContinueTimeout(tm) \/ HcWaitTimeout(tm) \/ HcIdleTimeout(tm)
    \/ \E t \in HcTrs :
          \/ \E tok \in HcTokens(hcNet[t].at) : HcData(t, tok)
          \/ \E failed \in BOOLEAN : HcClosed(t, failed)

HcSpec == HcInit /\ [][HcNext]_hcVars

----------------------------------------------------------------------------
(* Properties *)

\* The places where a call that has no answer waits
HcWaits(r) ==
    (IF \E k \in DOMAIN hc.pend : hc.pend[k].s = r THEN 1 ELSE 0)
    + (IF \E k \in DOMAIN hc.resume : hc.resume[k].s = r THEN 1 ELSE 0)
    + Cardinality({task \in hcTasks : task.r = r /\
                       ~(task.op = "resume" /\ task.what = "wait")})
    + Cardinality({s \in HcReqs : hc.ex[s] # HcNoEx /\
                       r \in {hc.ex[s].rw, hc.ex[s].ww, hc.ex[s].bw}})

\* Every call of the HTTP client is answered at most once, and one that has no
\* answer waits in one place of the service; only a start whose caller dropped
\* it may be left without an answer (reply, cancel, drive_input, wake_queued).
HcAnswered ==
    \A r \in 1 .. hcUsed.req :
       /\ Len(hc.ans[r]) + HcWaits(r) <= 1
       /\ Len(hc.ans[r]) + HcWaits(r) = 0 => hcCaller[r] \in {"dropping", "gone"}

\* The books of the pool (acquire, recycle, forget_transport): the limits hold, an
\* idle transport is counted, is used by nobody and has one place; a transport
\* in use belongs to its exchange; an open transport nobody counts is being
\* shut down; and a start is not left in the queue while there is room for it,
\* unless a step that looks at the queue again is to come (the start that was
\* woken, the end of a transport) or a body ended with its transport: its place is
\* given back without a look at the queue, and a start waits for the next that looks.
HcPool ==
    /\ HcTotal(hc) <= HcMaxConn
    /\ \A o \in HcOrigins :
          /\ HcSame(hc, o) <= HcPerOrigin
          /\ IsInjective(hc.idle[o])
          /\ \A k \in DOMAIN hc.idle[o] : LET t == hc.idle[o][k] IN
                hc.origins[t] = o /\ hc.active[t] = 0 /\ hc.gen[t] # 0
    /\ \A t \in HcTrs :
          /\ hc.active[t] # 0 => hc.ex[hc.active[t]] # HcNoEx /\ hc.ex[hc.active[t]].tr = t
          /\ hcNet[t].st = "up" => hc.origins[t] # HcNoOrigin
          /\ hc.origins[t] # HcNoOrigin /\ hc.active[t] = 0 =>
                \E o \in HcOrigins : t \in Range(hc.idle[o])
    /\ \A k \in DOMAIN hc.pend :
          ~HcDead(hc.pend[k].s) /\ ~HcShouldQueue(hc, hc.pend[k].org) =>
             \/ hc.resume # <<>>
             \/ \E t \in HcTrs : hcNet[t].st = "closing"
             \/ \E s \in HcReqs : hc.ex[s] # HcNoEx /\ hc.active[hc.ex[s].tr] # s

\* An exchange whose reader was told of the end is gone, with its place given back or
\* its transport idle, or next_body is about to let it go.  The exception is in the
\* code: drive_input tells a reader that waits of the end and recycles nothing, so the
\* exchange stays, complete, until its reader should ask once more (next_body, recycle).
HcReleased ==
    \A s \in hc.told :
       \/ hc.ex[s] = HcNoEx
       \/ hc.ex[s].ended /\ hc.ex[s].bw = 0 /\ hc.ex[s].reuse # "none"
       \/ \E task \in hcTasks : task.op = "resume" /\ task.s = s /\ task.reuse # "none"

\* Exchanges are answered and the pool's books are right (acquire, start_exchange, cancel,
\* recycle, drive_input).
HcSafe == HcAnswered /\ HcPool /\ HcReleased
=============================================================================
