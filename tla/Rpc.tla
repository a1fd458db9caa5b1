--------------------------------- MODULE Rpc ---------------------------------
(***************************************************************************)
(* Calls between services (crates/rskynet-core/src context.rs, session.rs, *)
(* task.rs, ext.rs `ReplyToken`, and the parts of server.rs that handle a  *)
(* message, poll a task, exit and clean up).                               *)
(*                                                                         *)
(* A service is executed by one thread at a time and handles one item at a *)
(* time (module Mailbox), so its own state changes in steps of its         *)
(* executor; what other services and threads do to it is to append to its  *)
(* inbox, to wake its tasks and to kill it.  Items are taken in any order  *)
(* between the two queues (Mailbox has the burst rule).  All services are  *)
(* shared ones; what user code does inside a poll is its own choice.       *)
(***************************************************************************)
EXTENDS Naturals, Sequences, FiniteSets

CONSTANTS Services,
          Outside,     (* source 0: the timer and threads with a ReplyToken   *)
          MaxEvents    (* bound: calls (external ones and sleeps included),   *)
                       (* posts, spawned tasks and foreign wake-ups, together *)

ASSUME RpcAssumption ==
    /\ Services # {} /\ IsFiniteSet(Services) /\ Outside \notin Services
    /\ MaxEvents \in Nat

VARIABLES
    table,      (* services in Node.handles                                  *)
    dead, destroyed, selfExit,   (* ServiceContext flags                     *)
    life,       (* ServiceContext.lifecycle                                  *)
    inbox,      (* Mailbox.queue                                             *)
    ready,      (* Mailbox.ready                                             *)
    kept,       (* ServiceContext.pending_messages                           *)
    tasks,      (* TaskSet.slots, by generation                              *)
    signal,     (* generations whose TaskSignal.queued is set                *)
    generation, (* TaskSet.next_generation                                   *)
    slots,      (* SessionTable.slots                                        *)
    next,       (* SessionTable.next                                         *)
    pc,         (* where the executor of a service stands                    *)
    run,        (* the task being polled, 0 if none                          *)
    out,        (* the message it has looked up a receiver for               *)
    tokens,     (* ReplyTokens held outside, and sleeps known to the timer   *)
    waking,     (* wakers that have set the signal and not yet queued        *)
    calls, others,   (* what MaxEvents bounds *)
    first,      (* history: the first answer sent to each call               *)
    forgotten,  (* history: calls whose handler returned without an answer   *)
    sent, last  (* history: messages for a service; the last one dispatched  *)

lives == <<table, dead, destroyed, selfExit, life>>
boxes == <<inbox, ready, kept>>
sets  == <<tasks, signal, generation, slots, next>>
execs == <<pc, run, out, tokens, waking>>
count == <<calls, others>>
hist  == <<first, forgotten, sent, last>>
vars  == <<lives, boxes, sets, execs, count, hist>>

INIT_TASK == 1
Requests == {"call", "post"}
Answers  == {"RESPONSE", "ERROR"}

OtherEvent == calls + others < MaxEvents /\ others' = others + 1
Goto(s, from, to) == pc[s] = from /\ pc' = [pc EXCEPT ![s] = to]
Task(s, id) == CHOOSE k \in tasks[s] : k.id = id
Slot(s, n)  == {k \in slots[s] : k.session = n}
HasSlot(s, n) == Slot(s, n) # {}
TheSlot(s, n) == CHOOSE k \in slots[s] : k.session = n
Update(s, id, k) == [tasks EXCEPT ![s] = {j \in @ : j.id # id} \cup {k}]

(* The message a task handles; the init task and spawned ones have none.   *)
NoMessage == [kind |-> "none", from |-> Outside, session |-> 0, call |-> 0, seq |-> 0]
Nothing   == [to |-> Outside, msg |-> NoMessage]
-----------------------------------------------------------------------------
(* Sending.  send_raw finds the receiver in the table or drops the message *)
(* (the caller of a request learns of it).                                 *)

Deliver(box, to, m) == IF to \in table THEN [box EXCEPT ![to] = Append(@, m)] ELSE box

Reply(kind, m) == [kind |-> kind, from |-> Outside, session |-> m.session,
                   call |-> m.call, seq |-> 0]

Answered(m, kind) == [first EXCEPT ![m.call] = IF @ = "none" THEN kind ELSE @]

(* Answer the request m with kind. *)
SendReply(kind, m) ==
    /\ inbox' = Deliver(inbox, m.from, Reply(kind, m))
    /\ first' = Answered(m, kind)

(* wake_task, through the signal that keeps a task's entry single.         *)
WakeTask(s, id) ==
    IF id \in signal[s] THEN UNCHANGED <<ready, signal>>
    ELSE /\ ready' = [ready EXCEPT ![s] = Append(@, id)]
         /\ signal' = [signal EXCEPT ![s] = @ \cup {id}]

(* A waker kept by somebody else, whose task may be long gone: it sets the *)
(* signal, then queues the entry.                                          *)
ForeignWake(s) ==
    /\ OtherEvent
    /\ \E id \in 1..generation[s] \ signal[s] :
         /\ signal' = [signal EXCEPT ![s] = @ \cup {id}]
         /\ waking' = waking \cup {<<s, id>>}
    /\ UNCHANGED <<lives, boxes, tasks, generation, slots, next, pc, run, out, tokens,
                   calls, hist>>

ForeignPush(s) ==
    /\ \E id \in 1..generation[s] :
         /\ <<s, id>> \in waking
         /\ waking' = waking \ {<<s, id>>}
         /\ ready' = [ready EXCEPT ![s] = Append(@, id)]
    /\ UNCHANGED <<lives, inbox, kept, sets, pc, run, out, tokens, count, hist>>

(* A ReplyToken answers once; dropping it is an error answer.              *)
ExternalReply(token, kind) ==
    /\ tokens' = tokens \ {token}
    /\ SendReply(kind, token)
    /\ UNCHANGED <<lives, ready, kept, sets, pc, run, out, waking, count, forgotten,
                   sent, last>>

(* kill from another thread: out of the table, then dead.                  *)
Kill(s) ==
    /\ s \in table
    /\ table' = table \ {s}
    /\ UNCHANGED <<dead, destroyed, selfExit, life, boxes, sets, execs, count, hist>>

MarkDead(s) ==
    /\ s \notin table \cup dead
    /\ dead' = dead \cup {s}
    /\ UNCHANGED <<table, destroyed, selfExit, life, boxes, sets, execs, count, hist>>
-----------------------------------------------------------------------------
(* Taking an item. *)

Runnable(s) == pc[s] = "free" /\ s \notin dead
KeptFirst(s) == life[s] = "RUNNING" /\ kept[s] # <<>>

(* install_task: a new task is queued for its first poll.                  *)
InstallTask(s, m) ==
    LET id == generation[s] + 1 IN
      /\ generation' = [generation EXCEPT ![s] = id]
      /\ tasks' = [tasks EXCEPT ![s] = @ \cup
            {[id |-> id, msg |-> m, owed |-> m.kind = "call",
             replied |-> FALSE, wait |-> 0]}]
      /\ ready' = [ready EXCEPT ![s] = Append(@, id)]
      /\ signal' = [signal EXCEPT ![s] = @ \cup {id}]

Dispatch(s, m) ==
    /\ InstallTask(s, m)
    /\ last' = [last EXCEPT ![s] = m.seq]

(* The session of answer m is settled, and the task that waits is woken.   *)
Settle(s, m) ==
    /\ slots' = [slots EXCEPT ![s] = (@ \ Slot(s, m.session)) \cup
          {[k EXCEPT !.result = m.kind] : k \in Slot(s, m.session)}]
    /\ \/ \E k \in tasks[s] : k.wait = m.session /\ WakeTask(s, k.id)
       \/ (\A k \in tasks[s] : k.wait # m.session) /\ UNCHANGED <<ready, signal>>

WaitsFor(s, m) == \E k \in Slot(s, m.session) : k.result = "none"

(* Mutants: an answer replaces the one before it; nobody is woken.         *)
CompleteOverwrites(s, m) == Settle(s, m)

CompleteSilently(s, m) ==
    /\ slots' = [slots EXCEPT ![s] = (@ \ Slot(s, m.session)) \cup
          {[k EXCEPT !.result = m.kind] : k \in Slot(s, m.session)}]
    /\ UNCHANGED <<ready, signal>>

(* SessionTable::complete: the first answer settles a waiting session; any *)
(* other is dropped.                                                       *)
Complete(s, m) ==
    \/ WaitsFor(s, m) /\ Settle(s, m)
    \/ ~WaitsFor(s, m) /\ UNCHANGED <<slots, ready, signal>>

(* Mutant: messages kept during init do not go first. *)
MayTakeAtOnce(s) == Runnable(s)

MayTake(s) == Runnable(s) /\ ~KeptFirst(s)

(* handle_message *)
TakeMessage(s) ==
    /\ MayTake(s) /\ inbox[s] # <<>>
    /\ inbox' = [inbox EXCEPT ![s] = Tail(@)]
    /\ LET m == Head(inbox[s]) IN
         \/ /\ m.kind \in Answers
            /\ Complete(s, m)
            /\ UNCHANGED <<kept, tasks, generation, last>>
         \/ /\ m.kind \in Requests /\ life[s] # "RUNNING"
            /\ kept' = [kept EXCEPT ![s] = Append(@, m)]
            /\ UNCHANGED <<ready, tasks, signal, generation, slots, last>>
         \/ /\ m.kind \in Requests /\ life[s] = "RUNNING"
            /\ Dispatch(s, m)
            /\ UNCHANGED <<kept, slots>>
    /\ UNCHANGED <<lives, next, execs, count, first, forgotten, sent>>

TakePending(s) ==
    /\ Runnable(s) /\ KeptFirst(s)
    /\ kept' = [kept EXCEPT ![s] = Tail(@)]
    /\ Dispatch(s, Head(kept[s]))
    /\ UNCHANGED <<lives, inbox, slots, next, execs, count, first, forgotten, sent>>

(* A task that waits for a session polls it first. *)
PollFrom(s, id) == IF Task(s, id).wait = 0 THEN "user" ELSE "poll"

(* Mutant: the signal stays set when the entry is taken. *)
TakeReadyKeepsSignal(s) ==
    /\ MayTake(s) /\ ready[s] # <<>>
    /\ ready' = [ready EXCEPT ![s] = Tail(@)]
    /\ IF \E k \in tasks[s] : k.id = Head(ready[s])
         THEN run' = [run EXCEPT ![s] = Head(ready[s])] /\ Goto(s, "free", PollFrom(s, Head(ready[s])))
         ELSE UNCHANGED <<pc, run>>
    /\ UNCHANGED <<lives, inbox, kept, sets, out, tokens, waking, count, hist>>

(* poll_task: an entry of a finished task is ignored.  The signal is       *)
(* cleared before the poll, so that a wake-up during it counts.            *)
TakeReady(s) ==
    /\ MayTake(s) /\ ready[s] # <<>>
    /\ ready' = [ready EXCEPT ![s] = Tail(@)]
    /\ IF \E k \in tasks[s] : k.id = Head(ready[s])
         THEN /\ signal' = [signal EXCEPT ![s] = @ \ {Head(ready[s])}]
              /\ run' = [run EXCEPT ![s] = Head(ready[s])]
              /\ Goto(s, "free", PollFrom(s, Head(ready[s])))
         ELSE UNCHANGED <<signal, pc, run>>
    /\ UNCHANGED <<lives, inbox, kept, tasks, generation, slots, next, out, tokens,
                   waking, count, hist>>
-----------------------------------------------------------------------------
(* Inside a poll. *)

Current(s) == Task(s, run[s])

(* Call::poll, for the session the task waits for.                         *)
PollCall(s) ==
    LET n == Current(s).wait IN
      /\ pc[s] = "poll"
      /\ IF n # 0 /\ HasSlot(s, n) /\ TheSlot(s, n).result = "none"
           THEN /\ pc' = [pc EXCEPT ![s] = "free"]     (* Pending: restore *)
                /\ run' = [run EXCEPT ![s] = 0]
                /\ UNCHANGED <<slots, tasks>>
           ELSE /\ pc' = [pc EXCEPT ![s] = "user"]
                /\ slots' = [slots EXCEPT ![s] = @ \ Slot(s, n)]
                /\ tasks' = Update(s, run[s], [Current(s) EXCEPT !.wait = 0])
                /\ UNCHANGED run
      /\ UNCHANGED <<lives, boxes, signal, generation, next, out, tokens, waking, count, hist>>

(* Drop for Call: the user's code gives up waiting.  A sleep is taken from *)
(* the timer; a ReplyToken stays with its holder.                          *)
Abandon(s) ==
    /\ Goto(s, "poll", "user")
    /\ Current(s).wait # 0
    /\ slots' = [slots EXCEPT ![s] = @ \ Slot(s, Current(s).wait)]
    /\ tasks' = Update(s, run[s], [Current(s) EXCEPT !.wait = 0])
    /\ tokens' \in {tokens, {t \in tokens : t.from # s \/ t.session # Current(s).wait}}
    /\ UNCHANGED <<lives, boxes, signal, generation, next, run, out, waking, count, hist>>

(* Mutant: numbers are used again as soon as they are free. *)
AllocLowest(s) == CHOOSE n \in 1..(MaxEvents + 1) :
                    /\ ~HasSlot(s, n)
                    /\ \A k \in 1..(n - 1) : HasSlot(s, k)

(* alloc: numbers grow; a u64 does not wrap.                               *)
Alloc(s) == next[s] + 1

NewCall(s) ==
    /\ calls + others < MaxEvents /\ calls' = calls + 1
    /\ next' = [next EXCEPT ![s] = Alloc(s)]

Waiting(s) ==
    /\ slots' = [slots EXCEPT ![s] = @ \cup
          {[session |-> Alloc(s), result |-> "none", call |-> calls']}]
    /\ tasks' = Update(s, run[s], [Current(s) EXCEPT !.wait = Alloc(s)])

(* Ctx::call: a session, then a look into the table; without a receiver    *)
(* the session is dropped again and the call fails.                        *)
Call(s, d) ==
    /\ pc[s] = "user"
    /\ NewCall(s)
    /\ IF d \in table
         THEN /\ Waiting(s)
              /\ out' = [out EXCEPT ![s] = [to |-> d, msg |-> [kind |-> "call", from |-> s,
                            session |-> Alloc(s), call |-> calls', seq |-> 0]]]
              /\ pc' = [pc EXCEPT ![s] = "push"]
         ELSE UNCHANGED <<slots, tasks, out, pc>>
    /\ UNCHANGED <<lives, boxes, signal, generation, run, tokens, waking, others, hist>>

(* Ctx::send *)
Post(s, d) ==
    /\ OtherEvent
    /\ d \in table
    /\ Goto(s, "user", "push")
    /\ out' = [out EXCEPT ![s] = [to |-> d, msg |-> [NoMessage EXCEPT !.kind = "post"]]]
    /\ UNCHANGED <<lives, boxes, sets, run, tokens, waking, calls, hist>>

(* The push, some time after the receiver was found in the table.          *)
Push(s) ==
    /\ Goto(s, "push", IF out[s].msg.kind = "call" THEN "poll" ELSE "user")
    /\ LET d == out[s].to IN
         /\ sent' = [sent EXCEPT ![d] = @ + 1]
         /\ inbox' = [inbox EXCEPT ![d] = Append(@, [out[s].msg EXCEPT !.seq = sent[d] + 1])]
    /\ out' = [out EXCEPT ![s] = Nothing]
    /\ UNCHANGED <<lives, ready, kept, sets, run, tokens, waking, count, first, forgotten, last>>

(* Ctx::call_external, and sleep, whose answer comes from the timer.       *)
CallExternal(s) ==
    /\ Goto(s, "user", "poll")
    /\ NewCall(s)
    /\ Waiting(s)
    /\ tokens' = tokens \cup {[from |-> s, session |-> Alloc(s), call |-> calls']}
    /\ UNCHANGED <<lives, boxes, signal, generation, run, out, waking, others, hist>>

(* Ctx::reply and reply_error.  A handler answers its request at most once *)
(* but may do so after it has called exit.                                 *)
UserReply(s, kind) ==
    /\ pc[s] = "user"
    /\ Current(s).msg.kind = "call"
    /\ ~Current(s).replied
    /\ SendReply(kind, Current(s).msg)
    /\ tasks' = Update(s, run[s], [Current(s) EXCEPT !.replied = TRUE])
    /\ UNCHANGED <<lives, ready, kept, signal, generation, slots, next, execs, count,
                   forgotten, sent, last>>

Spawn(s) ==
    /\ pc[s] = "user"
    /\ OtherEvent
    /\ InstallTask(s, NoMessage)
    /\ UNCHANGED <<lives, inbox, kept, slots, next, execs, calls, hist>>

Retired(s) == table' = table \ {s} /\ dead' = dead \cup {s}

(* Ctx::exit, or kill of oneself: the requests in hand are failed at once. *)
Exit(s) ==
    /\ s \in table
    /\ Goto(s, "user", "exit")
    /\ Retired(s)
    /\ \/ selfExit' = IF life[s] = "INITIALIZING" THEN selfExit \cup {s} ELSE selfExit
       \/ UNCHANGED selfExit          (* kill with its own handle *)
    /\ UNCHANGED <<destroyed, life, boxes, sets, run, out, tokens, waking, count, hist>>

(* fail_inflight: one error per request still owed an answer, also if the  *)
(* handler has answered already.                                           *)
FailOne(s) ==
    \E k \in tasks[s] :
        /\ k.owed
        /\ SendReply("ERROR", k.msg)
        /\ tasks' = Update(s, k.id, [k EXCEPT !.owed = FALSE])
        /\ UNCHANGED <<lives, ready, kept, signal, generation, slots, next, execs,
                       count, forgotten, sent, last>>

NoneOwed(s) == \A k \in tasks[s] : ~k.owed

ExitFails(s) ==
    \/ pc[s] = "exit" /\ FailOne(s)
    \/ /\ NoneOwed(s)
       /\ Goto(s, "exit", IF life[s] = "FAILED" THEN "return" ELSE "user")
       /\ UNCHANGED <<lives, boxes, sets, run, out, tokens, waking, count, hist>>

Killed(s) == s \in dead /\ s \notin selfExit

(* The init future fails: the service exits.                               *)
InitFails(s) ==
    /\ run[s] = INIT_TASK /\ life[s] = "INITIALIZING"
    /\ life' = [life EXCEPT ![s] = "FAILED"]
    /\ IF s \in table THEN Retired(s) ELSE UNCHANGED <<table, dead>>
    /\ Goto(s, "user", IF s \in table THEN "exit" ELSE "return")
    /\ UNCHANGED <<destroyed, selfExit, boxes, sets, run, out, tokens, waking, count, hist>>

(* The future is Ready: its task is removed, and with it the request.      *)
Return(s) ==
    /\ \E from \in {"user", "return"} : Goto(s, from, "free")
    /\ run' = [run EXCEPT ![s] = 0]
    /\ tasks' = [tasks EXCEPT ![s] = @ \ {Current(s)}]
    /\ forgotten' = IF Current(s).owed /\ first[Current(s).msg.call] = "none"
                      THEN forgotten \cup {Current(s).msg.call} ELSE forgotten
    /\ life' = IF run[s] = INIT_TASK /\ life[s] = "INITIALIZING"
                 THEN [life EXCEPT ![s] = IF Killed(s) THEN "FAILED" ELSE "RUNNING"]
                 ELSE life
    /\ UNCHANGED <<table, dead, destroyed, selfExit, boxes, signal, generation, slots,
                   next, out, tokens, waking, count, first, sent, last>>
-----------------------------------------------------------------------------
(* cleanup, by the executor that finds the service dead; a destroyed one   *)
(* is cleaned again when something arrives late.                           *)

(* Mutant: a destroyed service is not looked at again. *)
NeedsCleanupOnce(s) == s \notin destroyed

NeedsCleanup(s) == s \notin destroyed \/ inbox[s] # <<>> \/ ready[s] # <<>>

Cleanup(s) ==
    /\ s \in dead /\ NeedsCleanup(s)
    /\ Goto(s, "free", "fail")
    /\ UNCHANGED <<lives, boxes, sets, run, out, tokens, waking, count, hist>>

CleanFails(s) == pc[s] = "fail" /\ FailOne(s)

(* Tasks and sessions go, and the mailbox is emptied: what was queued is   *)
(* refused first, then what was kept for after init.                       *)
DropAll(s) ==
    /\ Goto(s, "fail", "refuse")
    /\ tasks' = [tasks EXCEPT ![s] = {}]
    /\ slots' = [slots EXCEPT ![s] = {}]
    /\ ready' = [ready EXCEPT ![s] = <<>>]
    /\ inbox' = [inbox EXCEPT ![s] = <<>>]
    /\ kept' = [kept EXCEPT ![s] = inbox[s] \o @]
    /\ UNCHANGED <<lives, signal, generation, next, run, out, tokens, waking, count, hist>>

(* Mutant: the requests in hand are dropped with their tasks. *)
DropsUnanswered(s) == DropAll(s)

CleanDrops(s) == NoneOwed(s) /\ DropAll(s)

CleanRefuses(s) ==
    /\ pc[s] = "refuse" /\ kept[s] # <<>>
    /\ kept' = [kept EXCEPT ![s] = Tail(@)]
    /\ LET m == Head(kept[s]) IN
         IF m.kind = "call" THEN SendReply("ERROR", m) ELSE UNCHANGED <<inbox, first>>
    /\ UNCHANGED <<lives, ready, sets, execs, count, forgotten, sent, last>>

(* An unfinished init fails; release succeeds if nothing came meanwhile.   *)
CleanReleases(s) ==
    /\ kept[s] = <<>>
    /\ life' = IF life[s] = "INITIALIZING" THEN [life EXCEPT ![s] = "FAILED"] ELSE life
    /\ IF inbox[s] = <<>> /\ ready[s] = <<>>
         THEN Goto(s, "refuse", "free") /\ destroyed' = destroyed \cup {s}
         ELSE Goto(s, "refuse", "fail") /\ UNCHANGED destroyed
    /\ UNCHANGED <<table, dead, selfExit, boxes, sets, run, out, tokens, waking, count, hist>>
-----------------------------------------------------------------------------
(* new_service_inner: the init task is installed and queued.               *)
Init ==
    /\ table = Services /\ dead = {} /\ destroyed = {} /\ selfExit = {}
    /\ life = [s \in Services |-> "INITIALIZING"]
    /\ inbox = [s \in Services |-> <<>>]
    /\ ready = [s \in Services |-> <<INIT_TASK>>]
    /\ kept = [s \in Services |-> <<>>]
    /\ tasks = [s \in Services |->
          {[id |-> INIT_TASK, msg |-> NoMessage, owed |-> FALSE,
            replied |-> FALSE, wait |-> 0]}]
    /\ signal = [s \in Services |-> {INIT_TASK}]
    /\ generation = [s \in Services |-> INIT_TASK]
    /\ slots = [s \in Services |-> {}] /\ next = [s \in Services |-> 0]
    /\ pc = [s \in Services |-> "free"] /\ run = [s \in Services |-> 0]
    /\ out = [s \in Services |-> Nothing]
    /\ tokens = {} /\ waking = {}
    /\ calls = 0 /\ others = 0
    /\ first = [c \in 1..MaxEvents |-> "none"]
    /\ forgotten = {}
    /\ sent = [s \in Services |-> 0] /\ last = [s \in Services |-> 0]

User(s) == \/ \E d \in Services : Call(s, d) \/ Post(s, d)
           \/ CallExternal(s) \/ (\E kind \in Answers : UserReply(s, kind))
           \/ Spawn(s) \/ Exit(s) \/ InitFails(s) \/ Return(s)
           \/ Abandon(s)

(* What the executor of s does. *)
Execute(s) == \/ TakeMessage(s) \/ TakePending(s) \/ TakeReady(s)
              \/ PollCall(s) \/ Push(s) \/ ExitFails(s) \/ User(s)
              \/ Cleanup(s) \/ CleanFails(s) \/ CleanDrops(s)
              \/ CleanRefuses(s) \/ CleanReleases(s)

Environment == \/ \E s \in Services : Kill(s) \/ ForeignWake(s)
               \/ \E token \in tokens, kind \in Answers : ExternalReply(token, kind)

Next == Environment \/ \E s \in Services : MarkDead(s) \/ ForeignPush(s) \/ Execute(s)

Spec == Init /\ [][Next]_vars
-----------------------------------------------------------------------------

(* The state has its types; a polled task exists, tasks differ in their    *)
(* generation (task.rs TaskId), and a session is in the table once.        *)
TypeOK ==
    /\ dead \subseteq Services \ table /\ destroyed \subseteq dead /\ selfExit \subseteq dead
    /\ \A s \in Services :
         /\ life[s] \in {"INITIALIZING", "RUNNING", "FAILED"}
         /\ pc[s] \in {"free", "poll", "user", "push", "exit", "return", "fail", "refuse"}
         /\ run[s] # 0 => \E k \in tasks[s] : k.id = run[s]
         /\ \A k \in tasks[s] : k.id \in 1..generation[s]
         /\ \A j, k \in tasks[s] : j.id = k.id => j = k
         /\ \A j, k \in slots[s] : j.session = k.session => j = k

In(q, kinds, c) == \E i \in DOMAIN q : q[i].kind \in kinds /\ q[i].call = c

(* d has the request of call c and has not finished with it. *)
Holds(d, c) ==
    \/ In(inbox[d], {"call"}, c) \/ In(kept[d], {"call"}, c)
    \/ \E k \in tasks[d] : k.owed /\ k.msg.call = c /\ first[c] = "none"

UnderWay(s, c) ==
    \/ \E t \in tokens : t.call = c
    \/ out[s].msg.call = c
    \/ \E d \in Services : Holds(d, c)
    \/ In(inbox[s], Answers, c)

(* A call that waits is waited for: its request is with somebody who has   *)
(* to answer it, or the answer is on its way.  Only a handler that returns *)
(* without an answer leaves its caller waiting.  fail_inflight and cleanup *)
(* (server.rs) answer for a service that ends, whenever it ends.           *)
NoOrphanedCall ==
    \A s \in table : \A k \in slots[s] :
        k.result = "none" => k.call \in forgotten \/ UnderWay(s, k.call)

(* A call returns the first answer that was sent to it: an error sent by   *)
(* exit after the handler's answer, or an answer after it, changes nothing *)
(* (SessionTable::complete).                                               *)
AnswerStands ==
    \A s \in Services : \A k \in slots[s] : k.result \in {"none", first[k.call]}

(* An answer, however late, never reaches a session of another call        *)
(* (alloc; abandon keeps no tombstone).                                    *)
NoCrossTalk ==
    \A s \in Services : \A i \in DOMAIN inbox[s] : \A k \in slots[s] :
        inbox[s][i].kind \in Answers /\ inbox[s][i].session = k.session
            => inbox[s][i].call = k.call

Entries(s, id) == {i \in DOMAIN ready[s] : ready[s][i] = id}

(* A task whose call is settled is about to be polled: the wake-up of      *)
(* complete is not lost to a waker at the same moment, or during a poll.   *)
NoLostResult ==
    \A s \in Services : \A k \in slots[s] : \A j \in tasks[s] :
        k.result # "none" /\ j.wait = k.session
            => Entries(s, j.id) # {} \/ <<s, j.id>> \in waking \/ run[s] = j.id

(* A task has at most one entry in the ready queue, and one exactly while  *)
(* its signal is set and the waker has queued it (TaskSignal).             *)
ReadyOnce ==
    \A s \in Services : \A j \in tasks[s] : 
        Cardinality(Entries(s, j.id)) + (IF <<s, j.id>> \in waking THEN 1 ELSE 0)
            = (IF j.id \in signal[s] THEN 1 ELSE 0)

(* Requests open their tasks in the order in which they were queued, also  *)
(* those kept until init ended (run_service, take_pending).                *)
FifoDispatch == [][\A s \in Services : last'[s] >= last[s]]_last

(* A dead service has a request that nobody has answered. *)
DeadOwes == \E c \in 1..MaxEvents, d \in dead :
                Holds(d, c) /\ first[c] = "none" /\ c \notin forgotten

(* No executor has anything to do. *)
AtRest == /\ waking = {}
          /\ \A s \in Services :
               /\ s \in table \cup dead /\ pc[s] = "free"
               /\ IF s \in dead THEN ~NeedsCleanup(s)
                                ELSE inbox[s] = <<>> /\ ready[s] = <<>> /\ ~KeptFirst(s)

(* When the executors have come to rest, the dead owe nobody an answer:    *)
(* what a service worked on, had queued or kept has been answered, also a  *)
(* request that came after its last clean-up (destroy, cleanup).           *)
DeadAnswers == AtRest => ~DeadOwes

(* A task is queued exactly while its signal is set, and a settled call's  *)
(* task is about to be polled, whoever wakes it when (TaskSignal,          *)
(* SessionTable::complete); the types hold.                                *)
TasksSound == TypeOK /\ ReadyOnce /\ NoLostResult

(* Every call that waits is waited for, keeps the first answer it got, and *)
(* has one from the dead (fail_inflight, cleanup, complete).               *)
CallsSettled == NoOrphanedCall /\ AnswerStands /\ DeadAnswers
=============================================================================
