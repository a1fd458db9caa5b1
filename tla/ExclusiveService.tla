--------------------------- MODULE ExclusiveService ---------------------------
(***************************************************************************)
(* A service with a thread of its own (crates/rskynet-core/src/            *)
(* exclusive.rs, and drain_service in server.rs).  Posting, and the        *)
(* mailbox's scans, are those of module Mailbox; what differs is who runs  *)
(* the service: always Owner, which waits in the service's idle hook and   *)
(* is interrupted there, and which works off the mailbox before it         *)
(* destroys the service and ends.                                          *)
(*                                                                         *)
(* The model starts when the init of the service has finished.  A message  *)
(* opens a task, which is polled once.                                     *)
(***************************************************************************)
EXTENDS Mailbox

CONSTANTS Owner,       (* the exclusive thread                                *)
          DRAIN_SLACK  (* what drain_service adds to its budget               *)

ASSUME ExclusiveAssumption == Owner \in Threads /\ DRAIN_SLACK \in Nat

VARIABLES
    permit,   (* std's park token of Owner, and what interrupt leaves behind *)
    closing,  (* exclusive_loop has left its loop                            *)
    budget,   (* what drain_service may still run                            *)
    opened,   (* the item in hand is a message, and opens a task             *)
    backlog,  (* history: messages handled or waiting when the kill came     *)
    covered   (* history: the wake-ups that budget accounts for              *)

own == <<permit, closing, budget, opened, backlog, covered>>
exclVars == <<vars, own>>

Others == Threads \ {Owner}
-----------------------------------------------------------------------------
(* Other threads: as in Mailbox, but a claimed service is not queued.      *)

Post(t) ==
    /\ \/ PostMessage(t) \/ Enqueue(t) \/ WakeTask(t)
       \/ NotifyLoad(t) \/ SwapIdle(t) \/ SwapRunning(t)
    /\ UNCHANGED own

RetireExclusive(t) ==
    /\ Retire(t)
    /\ backlog' = handled + queue
    /\ UNCHANGED <<permit, closing, budget, opened, covered>>

(* Mutant: the thread is told only if it has nothing to do with a kill. *)
InterruptLiving(t) ==
    /\ Goto(t, "mark_queued", "out")
    /\ permit' = (permit \/ ~dead)
    /\ UNCHANGED <<box, life, runq, done, hist, closing, budget, opened, backlog, covered>>

(* wake: unpark and Exclusive::interrupt.  A thread that has ended does    *)
(* not care.                                                               *)
Interrupt(t) ==
    /\ Goto(t, "mark_queued", "out")
    /\ permit' = TRUE
    /\ UNCHANGED <<box, life, runq, done, hist, closing, budget, opened, backlog, covered>>
-----------------------------------------------------------------------------
(* exclusive_loop *)

Claim ==
    /\ MarkRunning(Owner)
    /\ UNCHANGED own

(* run_service, not preemptible. *)
RunExclusive ==
    /\ Goto(Owner, "run_service", IF dead THEN "final" ELSE "burst")
    /\ UNCHANGED <<box, life, runq, done, hist, own>>

Scan ==
    /\ TakeWork(Owner)
    /\ opened' = (handled' # handled)
    /\ UNCHANGED <<permit, closing, budget, backlog, covered>>

(* handle_message puts the new task into the ready queue and notifies.     *)
Work ==
    /\ Goto(Owner, "work", "ran")
    /\ IF opened THEN /\ ready' = ready + 1
                      /\ state' = "NOTIFIED"
                 ELSE UNCHANGED <<ready, state>>
    /\ opened' = FALSE
    /\ UNCHANGED <<queue, len, streak, life, runq, done, hist,
                   permit, closing, budget, backlog, covered>>

AfterItem ==
    /\ Goto(Owner, "ran", IF closing THEN "final_check" ELSE IF dead THEN "final" ELSE "burst")
    /\ UNCHANGED <<box, life, runq, done, hist, own>>

(* The scan found nothing: look at dead, then call the idle hook; or       *)
(* drain_service is over.                                                  *)
Idle ==
    /\ Goto(Owner, "idle", IF closing THEN "final_end" ELSE IF dead THEN "final" ELSE "park")
    /\ UNCHANGED <<box, life, runq, done, hist, own>>

Unpark ==
    /\ permit
    /\ Goto(Owner, "park", "mark_running")
    /\ permit' = FALSE
    /\ UNCHANGED <<box, life, runq, done, hist, closing, budget, opened, backlog, covered>>

(* The idle hook returns for reasons of its own (park_timeout, an event).  *)
IdleHookReturns ==
    /\ Goto(Owner, "park", "mark_running")
    /\ UNCHANGED <<box, life, runq, done, hist, own>>

(* mark_running, then the budget of drain_service. *)
Final ==
    /\ Goto(Owner, "final", "final_budget")
    /\ state' = "RUNNING" /\ closing' = TRUE
    /\ UNCHANGED <<queue, ready, len, streak, life, runq, done, hist,
                   permit, budget, opened, backlog, covered>>

(* Mutant: one item per message, forgetting the tasks they open. *)
DrainBudgetPerMessage(tasks) == len

(* Every message costs two items; so may a task there is already.          *)
DrainBudget(tasks) == 2 * len + 2 * tasks + DRAIN_SLACK

(* task_count: the live tasks, some of which wait.  A task that was woken  *)
(* while it was polled for the last time is finished and not counted, and  *)
(* its entry is still in the ready queue (TaskSet::take finds no task).    *)
FinalBudget ==
    /\ Goto(Owner, "final_budget", "final_check")
    /\ \E finished \in 0..ready, waiting \in 0..MaxWakes :
           /\ finished <= woken
           /\ budget' = DrainBudget(ready - finished + waiting)
           /\ covered' = woken - finished
    /\ UNCHANGED <<box, life, runq, done, hist, permit, closing, opened, backlog>>

FinalCheck ==
    /\ \/ budget > 0 /\ Goto(Owner, "final_check", "burst") /\ budget' = budget - 1
       \/ budget = 0 /\ Goto(Owner, "final_check", "final_end") /\ UNCHANGED budget
    /\ UNCHANGED <<box, life, runq, done, hist, permit, closing, opened, backlog, covered>>

(* Mutant: the state the drain left behind is handed to destroy. *)
FinalEndUnmarked ==
    /\ Goto(Owner, "final_end", "drain_ready")
    /\ UNCHANGED <<box, life, runq, done, hist, own>>

(* The drain may have left IDLE behind; destroy must find RUNNING.         *)
FinalEnd ==
    /\ Goto(Owner, "final_end", "drain_ready")
    /\ state' = "RUNNING"
    /\ UNCHANGED <<queue, ready, len, streak, life, runq, done, hist, own>>

Cleanup ==
    /\ \/ DrainReady(Owner) \/ DrainQueue(Owner) \/ Release(Owner) \/ ReleaseReset(Owner)
    /\ UNCHANGED own

End ==
    /\ Goto(Owner, "account", "gone")
    /\ destroyed' = TRUE
    /\ UNCHANGED <<box, dead, runq, done, hist, own>>
-----------------------------------------------------------------------------
ExclInit ==
    /\ state = "QUEUED" /\ queue = 0 /\ ready = 0 /\ len = 0 /\ streak = 0
    /\ dead = FALSE /\ destroyed = FALSE /\ runq = 0 /\ done = 0
    /\ pc = [t \in Threads |-> IF t = Owner THEN "mark_running" ELSE "out"]
    /\ posted = 0 /\ woken = 0 /\ handled = 0 /\ refused = 0 /\ overtaken = 0
    /\ permit = FALSE /\ closing = FALSE /\ budget = 0 /\ opened = FALSE /\ backlog = 0
    /\ covered = 0

OwnerStep == \/ Claim \/ RunExclusive \/ Scan \/ Work \/ AfterItem \/ Idle \/ Unpark
             \/ Final \/ FinalBudget \/ FinalCheck \/ FinalEnd \/ Cleanup \/ End

ExclNext == OwnerStep \/ IdleHookReturns
              \/ \E t \in Others : Post(t) \/ RetireExclusive(t) \/ Interrupt(t)

ExclSpec == ExclInit /\ [][ExclNext]_exclVars

(* The exclusive thread runs, and a post that has begun is completed.      *)
FairExclSpec ==
    /\ ExclSpec
    /\ WF_exclVars(OwnerStep)
    /\ \A t \in Others : WF_exclVars(pc[t] # "out" /\ (Post(t) \/ Interrupt(t)))
-----------------------------------------------------------------------------
(* The variables have their types; the budget of drain_service (a usize)    *)
(* never goes below zero.                                                   *)
ExclTypeOK ==
    /\ state \in States
    /\ queue \in Nat /\ ready \in Nat /\ len \in Nat /\ streak \in 0..READY_BURST
    /\ pc \in [Threads -> PC \cup {"park", "final", "final_budget", "final_check",
                                   "final_end", "gone"}]
    /\ {permit, closing, opened, dead, destroyed} \subseteq BOOLEAN
    /\ budget \in Nat /\ backlog \in Nat

(* The thread never sleeps on work, nor on its own death, unless somebody  *)
(* is about to interrupt it; a post reaches it only through the swap from  *)
(* IDLE, whose outcome decides who interrupts (comment on wake).           *)
NeverSleepsOnWork ==
    pc[Owner] = "park" /\ ~permit /\ (queue > 0 \/ ready > 0 \/ dead) =>
        \E t \in Others : pc[t] \in NotifyPC \cup {"mark_queued"}

(* What was in the mailbox when the kill came is handled, not refused: the *)
(* logger gets its last lines out (comment on drain_service).  The budget  *)
(* is fixed when the drain begins and counts live tasks only, so this      *)
(* needs wake-ups that do not use it up: no more than DRAIN_SLACK + 1      *)
(* during the drain, or before it for tasks that have finished since.      *)
BacklogHandled ==
    destroyed /\ woken - covered <= DRAIN_SLACK + 1 => handled >= backlog

(* Messages for a living service are handled. *)
LivingServiceHandles ==
    \A n \in 1..MaxPosts : (posted >= n) ~> (handled >= n \/ dead)

(* The exclusive thread keeps its types, never meets a mailbox state that  *)
(* take_work or release panics on, and works its backlog off before it     *)
(* destroys the service (exclusive_loop, drain_service).                   *)
ExclSound == ExclTypeOK /\ NoStatePanic /\ BacklogHandled

(* A living exclusive service handles what it is sent, a killed one ends   *)
(* (exclusive_loop, wake).                                                 *)
ExclSettles == LivingServiceHandles /\ KillDestroys
=============================================================================
