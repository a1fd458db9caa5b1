------------------------------- MODULE Mailbox -------------------------------
(***************************************************************************)
(* The mailbox of one shared service and the threads that post to it, run  *)
(* it, kill it and destroy it (crates/rskynet-core/src/mq.rs `Mailbox`,    *)
(* and the dispatch and destruction paths of server.rs that drive it).     *)
(*                                                                         *)
(* One action is one access to shared memory.  A thread is "out" when it   *)
(* is not touching this service; from there it may post a message, wake a  *)
(* task, kill the service, or pop the service off a run queue.  Work done  *)
(* by the service itself that posts to its own mailbox (a self-wake, its   *)
(* own exit) is the same sequence of accesses, taken by another thread     *)
(* while the holder stands at "work".  The run queues are the counter      *)
(* `runq` here; module Scheduler opens them.  The service's init has ended *)
(* and nothing is left of the messages kept during it (module Rpc).        *)
(***************************************************************************)
EXTENDS Naturals, FiniteSets

CONSTANTS Threads,         (* threads of the process                           *)
          READY_BURST,     (* ready items that may overtake a waiting message  *)
          YIELD_INTERVAL,  (* items run before should_yield is asked           *)
          MaxPosts,        (* bound: messages posted                           *)
          MaxWakes,        (* bound: task wake-ups                             *)
          Nobody, RunQueue (* owners of the run token that are no thread       *)

ASSUME MailboxAssumption ==
    /\ Threads # {} /\ IsFiniteSet(Threads)
    /\ Nobody \notin Threads /\ RunQueue \notin Threads /\ Nobody # RunQueue
    /\ READY_BURST \in Nat \ {0}
    /\ YIELD_INTERVAL \in Nat \ {0}
    /\ MaxPosts \in Nat
    /\ MaxWakes \in Nat

VARIABLES
    state,      (* Mailbox.state                                             *)
    queue,      (* messages in Mailbox.queue, which is first in first out    *)
    ready,      (* entries of Mailbox.ready                                  *)
    len,        (* Mailbox.len                                               *)
    streak,     (* Mailbox.ready_streak                                      *)
    dead,       (* ServiceContext.dead (set once, by the retire that wins)   *)
    destroyed,  (* ServiceContext.destroyed                                  *)
    runq,       (* entries of this service in the scheduler's queues         *)
    pc,         (* where each thread stands                                  *)
    done,       (* `done` of the run_service that holds the service          *)
    posted,     (* number of messages posted so far                          *)
    woken,      (* number of wake-ups so far                                 *)
    handled,    (* history: messages handed to handle_message                *)
    refused,    (* history: messages drained by cleanup (answered ERROR)     *)
    overtaken   (* history: ready items taken while a message was waiting    *)

box   == <<state, queue, ready, len, streak>>
life  == <<dead, destroyed>>
hist  == <<posted, woken, handled, refused, overtaken>>
vars  == <<box, life, runq, pc, done, hist>>

States == {"IDLE", "QUEUED", "RUNNING", "NOTIFIED"}

(* Where a thread notifies; where it has the token but not yet, or no      *)
(* longer, runs the service; where it runs it; where it destroys it.       *)
NotifyPC == {"load", "swap_idle", "swap_running"}
PushPC   == {"mark_queued", "insert"}
ScanPC   == {"burst", "ready", "message", "empty", "reset"}
CleanPC  == {"drain_ready", "drain_queue", "release", "release_reset"}
RunPC    == {"run_service", "work", "ran"} \cup ScanPC
TokenPC  == PushPC \cup {"mark_running", "yielded"} \cup RunPC \cup CleanPC
PC       == {"out", "enqueue", "idle", "account"} \cup NotifyPC \cup TokenPC

Goto(t, from, to) == pc[t] = from /\ pc' = [pc EXCEPT ![t] = to]
-----------------------------------------------------------------------------
(* Posting: push_message, push_ready, retire; then notify; then push. *)

(* push_message counts the message before it is in the queue. *)
PostMessage(t) ==
    /\ posted < MaxPosts
    /\ Goto(t, "out", "enqueue")
    /\ len' = len + 1
    /\ posted' = posted + 1
    /\ UNCHANGED <<state, queue, ready, streak, life, runq, done,
                   woken, handled, refused, overtaken>>

Enqueue(t) ==
    /\ Goto(t, "enqueue", "load")
    /\ queue' = queue + 1
    /\ UNCHANGED <<state, ready, len, streak, life, runq, done, hist>>

WakeTask(t) ==
    /\ woken < MaxWakes
    /\ Goto(t, "out", "load")
    /\ ready' = ready + 1
    /\ woken' = woken + 1
    /\ UNCHANGED <<state, queue, len, streak, life, runq, done,
                   posted, handled, refused, overtaken>>

(* Mutant: the service is marked dead and nobody is told. *)
RetireSilently(t) ==
    /\ ~dead /\ pc[t] = "out"
    /\ dead' = TRUE
    /\ UNCHANGED <<box, destroyed, runq, pc, done, hist>>

(* Only the first retire of a handle finds it in the table. *)
Retire(t) ==
    /\ ~dead
    /\ Goto(t, "out", "load")
    /\ dead' = TRUE
    /\ UNCHANGED <<box, destroyed, runq, done, hist>>

(* notify's loop: what it saw decides what it tries to swap; QUEUED and    *)
(* NOTIFIED need nothing more.                                             *)
Looked == IF state = "IDLE" THEN "swap_idle"
          ELSE IF state = "RUNNING" THEN "swap_running" ELSE "out"

NotifyLoad(t) ==
    /\ Goto(t, "load", Looked)
    /\ UNCHANGED <<box, life, runq, done, hist>>

(* Mutant: a plain store in place of the compare-and-swap from IDLE. *)
SwapIdleBlindly(t) ==
    /\ Goto(t, "swap_idle", "mark_queued")
    /\ state' = "QUEUED"
    /\ UNCHANGED <<queue, ready, len, streak, life, runq, done, hist>>

(* The swap from IDLE makes this thread responsible for queueing.          *)
SwapIdle(t) ==
    /\ \/ state = "IDLE" /\ state' = "QUEUED" /\ Goto(t, "swap_idle", "mark_queued")
       \/ state # "IDLE" /\ UNCHANGED state /\ Goto(t, "swap_idle", Looked)
    /\ UNCHANGED <<queue, ready, len, streak, life, runq, done, hist>>

(* Mutant: a poster that sees RUNNING trusts the holder to find its work. *)
SwapRunningSkipped(t) ==
    /\ Goto(t, "swap_running", "out")
    /\ UNCHANGED <<box, life, runq, done, hist>>

(* The swap from RUNNING tells the holder to look again.                   *)
SwapRunning(t) ==
    /\ \/ state = "RUNNING" /\ state' = "NOTIFIED" /\ Goto(t, "swap_running", "out")
       \/ state # "RUNNING" /\ UNCHANGED state /\ Goto(t, "swap_running", Looked)
    /\ UNCHANGED <<queue, ready, len, streak, life, runq, done, hist>>

(* Scheduler::push announces QUEUED with a plain store, then inserts. *)
MarkQueued(t) ==
    /\ Goto(t, "mark_queued", "insert")
    /\ state' = "QUEUED"
    /\ UNCHANGED <<queue, ready, len, streak, life, runq, done, hist>>

Insert(t) ==
    /\ Goto(t, "insert", "out")
    /\ runq' = runq + 1
    /\ UNCHANGED <<box, life, done, hist>>
-----------------------------------------------------------------------------
(* Running: pop, run_service around take_work, and what follows each item. *)

Pop(t) ==
    /\ runq > 0
    /\ Goto(t, "out", "mark_running")
    /\ runq' = runq - 1
    /\ UNCHANGED <<box, life, done, hist>>

(* Mutant: a popped service is run without being marked as running. *)
MarkRunningForgotten(t) ==
    /\ Goto(t, "mark_running", "run_service")
    /\ UNCHANGED <<box, life, runq, done, hist>>

MarkRunning(t) ==
    /\ Goto(t, "mark_running", "run_service")
    /\ state' = "RUNNING"
    /\ UNCHANGED <<queue, ready, len, streak, life, runq, done, hist>>

(* Mutant: a service is run without looking whether it is dead. *)
RunServiceAnyway(t) ==
    /\ Goto(t, "run_service", "burst")
    /\ done' = 0
    /\ UNCHANGED <<box, life, runq, hist>>

RunService(t) ==
    /\ Goto(t, "run_service", IF dead THEN "drain_ready" ELSE "burst")
    /\ done' = 0
    /\ UNCHANGED <<box, life, runq, hist>>

(* Both queue.pop sites of take_work: the streak starts again. *)
TakeMessage(t) ==
    /\ queue > 0
    /\ queue' = queue - 1
    /\ len' = len - 1
    /\ streak' = 0
    /\ handled' = handled + 1
    /\ overtaken' = 0
    /\ UNCHANGED <<state, ready, life, runq, done, posted, woken, refused>>

(* Mutant: ready items always go first. *)
TakeBurstNever(t) ==
    /\ Goto(t, "burst", "ready")
    /\ UNCHANGED <<box, life, runq, done, hist>>

(* After a burst of ready items a waiting message goes first. *)
TakeBurst(t) ==
    \/ streak >= READY_BURST /\ TakeMessage(t) /\ Goto(t, "burst", "work")
    \/ /\ streak < READY_BURST \/ queue = 0
       /\ Goto(t, "burst", "ready")
       /\ UNCHANGED <<box, life, runq, done, hist>>

(* Mutant: the streak is not capped. *)
TakeReadyUncapped(t) ==
    \/ /\ ready > 0
       /\ Goto(t, "ready", "work")
       /\ ready' = ready - 1
       /\ streak' = streak + 1
       /\ overtaken' = IF queue = 0 THEN 0 ELSE overtaken + 1
       /\ UNCHANGED <<state, queue, len, life, runq, done,
                      posted, woken, handled, refused>>
    \/ ready = 0 /\ Goto(t, "ready", "message") /\ UNCHANGED <<box, life, runq, done, hist>>

TakeReady(t) ==
    \/ /\ ready > 0
       /\ Goto(t, "ready", "work")
       /\ ready' = ready - 1
       /\ streak' = IF streak < READY_BURST THEN streak + 1 ELSE READY_BURST
       /\ overtaken' = IF queue = 0 THEN 0 ELSE overtaken + 1
       /\ UNCHANGED <<state, queue, len, life, runq, done,
                      posted, woken, handled, refused>>
    \/ /\ ready = 0
       /\ Goto(t, "ready", "message")
       /\ UNCHANGED <<box, life, runq, done, hist>>

TakeQueue(t) ==
    \/ TakeMessage(t) /\ Goto(t, "message", "work")
    \/ queue = 0 /\ Goto(t, "message", "empty")
         /\ UNCHANGED <<box, life, runq, done, hist>>

(* Mutant: the service is given up with a plain store, NOTIFIED or not. *)
TakeNothingBlindly(t) ==
    /\ Goto(t, "empty", "idle")
    /\ state' = "IDLE"
    /\ UNCHANGED <<queue, ready, len, streak, life, runq, done, hist>>

(* Both queues looked empty: RUNNING -> IDLE gives the service up, while   *)
(* NOTIFIED means somebody posted meanwhile.  Any other state panics.      *)
TakeNothing(t) ==
    /\ \/ state = "RUNNING" /\ state' = "IDLE" /\ Goto(t, "empty", "idle")
       \/ state = "NOTIFIED" /\ Goto(t, "empty", "reset") /\ UNCHANGED state
    /\ UNCHANGED <<queue, ready, len, streak, life, runq, done, hist>>

ResetAndRescan(t) ==
    /\ Goto(t, "reset", "burst")
    /\ state' = "RUNNING"
    /\ UNCHANGED <<queue, ready, len, streak, life, runq, done, hist>>

(* run_work: the user's code runs here; the item counts when it returns.   *)
RunWork(t) ==
    /\ Goto(t, "work", "ran")
    /\ done' = done + 1
    /\ UNCHANGED <<box, life, runq, hist>>

(* After every item: dead ends the visit; a full interval may end it too   *)
(* (should_yield reads other services' pending count and the quit flag);   *)
(* with nobody waiting the count starts again.                             *)
AfterWork(t) ==
    /\ \/ dead /\ Goto(t, "ran", "drain_ready") /\ UNCHANGED done
       \/ ~dead /\ done >= YIELD_INTERVAL
                /\ Goto(t, "ran", "yielded") /\ UNCHANGED done
       \/ ~dead /\ Goto(t, "ran", "burst")
                /\ done' = IF done >= YIELD_INTERVAL THEN 0 ELSE done
    /\ UNCHANGED <<box, life, runq, hist>>

(* dispatch_step, Yielded: another service to run means this one goes back *)
(* to a run queue; otherwise the thread keeps it.                          *)
Yield(t) ==
    /\ \E to \in {"mark_queued", "run_service"} : Goto(t, "yielded", to)
    /\ UNCHANGED <<box, life, runq, done, hist>>

(* dispatch_step, Idle: a service killed while being given up is notified  *)
(* once more, by the thread that gave it up.                               *)
RecheckDead(t) ==
    /\ Goto(t, "idle", IF dead THEN "load" ELSE "out")
    /\ UNCHANGED <<box, life, runq, done, hist>>
-----------------------------------------------------------------------------
(* Destroying.  cleanup answers the requests in flight, drops the tasks    *)
(* and sessions (module Rpc) and drains both queues, again and again until *)
(* release succeeds.                                                       *)

DrainReady(t) ==
    \/ /\ ready > 0 /\ pc[t] = "drain_ready"
       /\ ready' = ready - 1
       /\ UNCHANGED <<state, queue, len, streak, life, runq, pc, done, hist>>
    \/ /\ ready = 0
       /\ Goto(t, "drain_ready", "drain_queue")
       /\ UNCHANGED <<box, life, runq, done, hist>>

DrainQueue(t) ==
    \/ /\ queue > 0 /\ pc[t] = "drain_queue"
       /\ queue' = queue - 1
       /\ len' = len - 1
       /\ refused' = refused + 1
       /\ overtaken' = 0
       /\ UNCHANGED <<state, ready, streak, life, runq, pc, done,
                      posted, woken, handled>>
    \/ /\ queue = 0
       /\ Goto(t, "drain_queue", "release")
       /\ UNCHANGED <<box, life, runq, done, hist>>

(* release: the same swap as take_work's; losing it means cleaning again.  *)
Release(t) ==
    /\ \/ state = "RUNNING" /\ state' = "IDLE" /\ Goto(t, "release", "account")
       \/ /\ state = "NOTIFIED" /\ UNCHANGED state
          /\ Goto(t, "release", "release_reset")
    /\ UNCHANGED <<queue, ready, len, streak, life, runq, done, hist>>

ReleaseReset(t) ==
    /\ Goto(t, "release_reset", "drain_ready")
    /\ state' = "RUNNING"
    /\ UNCHANGED <<queue, ready, len, streak, life, runq, done, hist>>

(* destroy's accounting, once per service. *)
Account(t) ==
    /\ Goto(t, "account", "out")
    /\ destroyed' = TRUE
    /\ UNCHANGED <<box, dead, runq, done, hist>>
-----------------------------------------------------------------------------
(* Mailbox::new plus new_service: the creating thread holds a QUEUED       *)
(* service with the init task ready and is about to publish it.            *)
Init ==
    /\ state = "QUEUED" /\ queue = 0 /\ ready = 1 /\ len = 0 /\ streak = 0
    /\ dead = FALSE /\ destroyed = FALSE
    /\ runq = 0
    /\ \E creator \in Threads :
         pc = [t \in Threads |-> IF t = creator THEN "mark_queued" ELSE "out"]
    /\ done = 0
    /\ posted = 0 /\ woken = 0
    /\ handled = 0 /\ refused = 0 /\ overtaken = 0

Notify(t)  == NotifyLoad(t) \/ SwapIdle(t) \/ SwapRunning(t)
(* Mutant: the service is inserted first and marked as queued afterwards. *)
PushThenMark(t) ==
    \/ /\ Goto(t, "mark_queued", "insert") /\ runq' = runq + 1
       /\ UNCHANGED <<box, life, done, hist>>
    \/ /\ Goto(t, "insert", "out") /\ state' = "QUEUED"
       /\ UNCHANGED <<queue, ready, len, streak, life, runq, done, hist>>

Push(t)    == MarkQueued(t) \/ Insert(t)
TakeWork(t) == \/ TakeBurst(t) \/ TakeReady(t) \/ TakeQueue(t)
               \/ TakeNothing(t) \/ ResetAndRescan(t)
Run(t)     == \/ MarkRunning(t) \/ RunService(t) \/ TakeWork(t) \/ RunWork(t)
              \/ AfterWork(t) \/ Yield(t) \/ RecheckDead(t)
Destroy(t) == \/ DrainReady(t) \/ DrainQueue(t)
              \/ Release(t) \/ ReleaseReset(t) \/ Account(t)

(* The steps a thread that has started something goes on to take. *)
Continue(t) == Enqueue(t) \/ Notify(t) \/ Push(t) \/ Run(t) \/ Destroy(t)
Start(t)    == PostMessage(t) \/ WakeTask(t) \/ Retire(t) \/ Pop(t)

Next == \E t \in Threads : Start(t) \/ Continue(t)

Spec == Init /\ [][Next]_vars

(* Threads keep running, and a queued service is popped by some thread     *)
(* (module Scheduler); nobody has to post, wake or kill.                   *)
FairSpec ==
    /\ Spec
    /\ \A t \in Threads : WF_vars(Continue(t))
    /\ WF_vars(\E t \in Threads : Pop(t))
-----------------------------------------------------------------------------
(* The variables have their types.  The counters are unsigned in mq.rs: len *)
(* and the ready streak stay in Nat, the streak within its burst.           *)
TypeOK ==
    /\ state \in States
    /\ queue \in Nat /\ ready \in Nat /\ len \in Nat /\ streak \in 0..READY_BURST
    /\ dead \in BOOLEAN /\ destroyed \in BOOLEAN
    /\ runq \in Nat
    /\ pc \in [Threads -> PC]
    /\ done \in 0..YIELD_INTERVAL
    /\ posted \in Nat /\ woken \in Nat /\ handled \in Nat /\ refused \in Nat
    /\ overtaken \in Nat

Holds(t) == pc[t] \in TokenPC

(* The invariant the whole runtime rests on (mq.rs module comment, task.rs *)
(* SvcCell): no two threads ever run, or clean up, the same service.       *)
SingleExecutor ==
    \A t, u \in Threads :
        pc[t] \in RunPC \cup CleanPC /\ pc[u] \in RunPC \cup CleanPC => t = u

(* take_work and release panic on any state but RUNNING and NOTIFIED; no   *)
(* interleaving of posts, yields, kills and late messages gets there.      *)
NoStatePanic ==
    \A t \in Threads :
        pc[t] \in {"empty", "release"} => state \in {"RUNNING", "NOTIFIED"}

(* Neither a counter that wraps nor a state that take_work and release do  *)
(* not expect is ever met (Mailbox::take_work, Mailbox::release).          *)
MailboxSound == TypeOK /\ NoStatePanic

(* A service whose state says that somebody has it is really in a run      *)
(* queue or in some thread's hands; mark_queued after the insertion would  *)
(* leave it "marked as queued, held by nobody" (comment on mark_queued).   *)
NoOrphan ==
    state # "IDLE" => runq > 0 \/ \E t \in Threads : Holds(t)

(* The lost-work race described at the top of mq.rs does not happen: when  *)
(* the service is idle with something in its mailbox, the thread that put  *)
(* it there, or another, is still on its way to queue the service.         *)
NoLostWork ==
    state = "IDLE" /\ (queue > 0 \/ ready > 0) =>
        \E t \in Threads : pc[t] \in NotifyPC

(* The race between a kill and take_work giving the service up (comment in *)
(* dispatch_step): a killed service at rest is about to be queued again,   *)
(* or its destruction is being accounted for.                              *)
NoLostKill ==
    state = "IDLE" /\ dead /\ ~destroyed =>
        \E t \in Threads : pc[t] \in NotifyPC \cup {"idle", "account"}

(* Neither a message or wake-up, nor a kill, nor the service itself is     *)
(* lost, whatever happens while its holder gives it up.                    *)
NoLoss == NoOrphan /\ NoLostWork /\ NoLostKill

(* The threads that have counted a message and not yet queued it. *)
Enqueuing == {t \in Threads : pc[t] = "enqueue"}

(* `len` never falls below the queue, so its unsigned fetch_sub in         *)
(* check_overload and drain never wraps.                                   *)
LenCoversQueue == len = queue + Cardinality(Enqueuing)

(* A self-waking task cannot starve the messages of its service: at most   *)
(* READY_BURST ready items go before a message that is already waiting.    *)
BoundedOvertaking == overtaken <= READY_BURST

(* A destroyed service never runs user code again, however late a message  *)
(* or a wake-up arrives; it is only cleaned once more.                     *)
NoWorkAfterDestroy ==
    [][destroyed => handled' = handled /\ \A t \in Threads : pc'[t] # "work"]_vars

(* Every message posted is eventually handled or refused, kills and late   *)
(* posts included.                                                         *)
EveryMessageSettled ==
    \A n \in 1..MaxPosts : (posted >= n) ~> (handled + refused >= n)

(* A killed service is eventually destroyed. *)
KillDestroys == dead ~> destroyed

(* Every message is settled and every kill carried out (run_service,       *)
(* destroy): the two promises together.                                    *)
Settles == EveryMessageSettled /\ KillDestroys

(* The inductive strengthening of the invariants above. *)

(* One token: in a run queue or with one thread, and only when not idle.   *)
OneToken ==
    /\ runq <= 1
    /\ runq = 1 => \A t \in Threads : ~Holds(t)
    /\ \A t, u \in Threads : Holds(t) /\ Holds(u) => t = u
    /\ state = "IDLE" => runq = 0 /\ \A t \in Threads : ~Holds(t)

(* What the owner may conclude about the state from where it stands. *)
OwnerKnowsState ==
    /\ runq = 1 => state = "QUEUED"
    /\ \A t \in Threads :
         /\ pc[t] \in {"insert", "mark_running"} => state = "QUEUED"
         /\ pc[t] \in {"reset", "release_reset"} => state = "NOTIFIED"
         /\ pc[t] \in RunPC \cup CleanPC \cup {"yielded"}
              => state \in {"RUNNING", "NOTIFIED"}

(* Work that arrived behind the holder's back is announced or about to be. *)
Announced == state = "NOTIFIED" \/ \E t \in Threads : pc[t] \in NotifyPC

MissedWorkAnnounced ==
    \A t \in Threads :
        /\ pc[t] \in {"message", "drain_queue"} /\ ready > 0 => Announced
        /\ pc[t] \in {"empty", "release"} /\ (ready > 0 \/ queue > 0) => Announced

(* Once a thread cleans up, nobody works for the service any more. *)
WorkPC == ScanPC \cup {"work", "ran"}

CleaningEndsWork ==
    destroyed \/ (\E t \in Threads : pc[t] \in CleanPC \cup {"account"})
        => dead /\ \A t \in Threads : pc[t] \notin WorkPC

OvertakingFollowsStreak ==
    /\ overtaken <= streak
    /\ overtaken > 0 => queue > 0
    /\ \A t \in Threads : pc[t] = "ready" /\ streak = READY_BURST => overtaken = 0

CountBelowInterval ==
    \A t \in Threads : pc[t] \in ScanPC \cup {"work"} => done < YIELD_INTERVAL

IInv ==
    /\ TypeOK /\ LenCoversQueue /\ CountBelowInterval
    /\ OneToken /\ OwnerKnowsState /\ NoOrphan
    /\ MissedWorkAnnounced /\ NoLostWork /\ NoLostKill
    /\ CleaningEndsWork /\ OvertakingFollowsStreak

(* The owner of the run token: the thread that holds the service, a run    *)
(* queue, or nobody.                                                       *)
TokenOwner ==
    IF \E t \in Threads : Holds(t) THEN CHOOSE t \in Threads : Holds(t)
    ELSE IF runq > 0 THEN RunQueue ELSE Nobody

Token == INSTANCE RunToken WITH owner <- TokenOwner

(* The four mailbox states implement the token: the service changes hands  *)
(* only through a run queue, and is given up only by its holder.           *)
RefinesRunToken == Token!Spec
=============================================================================
