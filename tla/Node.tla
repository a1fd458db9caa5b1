-------------------------------- MODULE Node --------------------------------
(***************************************************************************)
(* The life of a node and of its services (crates/rskynet-core/src         *)
(* start.rs, and `Node` in server.rs): booting, launching under the        *)
(* lifecycle gate, init tickets, retiring, destroying, the count of        *)
(* ordinary services whose last exit ends the node, abort, and the         *)
(* shutdown sequence of the main thread.                                   *)
(*                                                                         *)
(* Calls into the node run on some thread: a worker or the main thread     *)
(* inside a shared service, an exclusive service's own thread, or a        *)
(* foreign thread with a NodeRef.  What user code chooses to do (finish    *)
(* its init, exit, launch, kill, abort, message a service, stay runnable)  *)
(* is nondeterministic.  A shared service is idle, queued or held (modules *)
(* Mailbox and Scheduler open that up); a service is launched once.        *)
(***************************************************************************)
EXTENDS Integers, Sequences, FiniteSets

CONSTANTS Workers, Callers, Main,   (* threads; exclusive services are threads too *)
          Shared, Exclusive,        (* services, by how they are executed          *)
          Users,                    (* threads whose user code launches and retires *)
          Reserved, Logger,         (* services outside the exit condition         *)
          BootOrder, Awaited,       (* what boot launches, and waits for           *)
          None,
          DRAIN_BUDGET,
          MaxWakes,                 (* bound: wake-ups of idle services            *)
          MaxCalls,                 (* bound: kills, exits and launches by users   *)
          MayAbort, AbortInBoot     (* whether abort is called; before boot ends   *)

Services == Shared \cup Exclusive
Threads  == Workers \cup Callers \cup Exclusive \cup {Main}
Ordinary == Services \ Reserved
Boot     == {BootOrder[i] : i \in DOMAIN BootOrder}

ASSUME NodeAssumption ==
    /\ Shared \cap Exclusive = {} /\ Reserved \subseteq Boot /\ Boot \subseteq Services
    /\ Logger \in Reserved /\ Awaited \subseteq Boot /\ Reserved \subseteq Awaited
    /\ BootOrder \in Seq(Services)
    /\ \A i, j \in DOMAIN BootOrder : BootOrder[i] = BootOrder[j] => i = j
    /\ Workers # {} /\ IsFiniteSet(Threads) /\ IsFiniteSet(Services)
    /\ Workers \cap Callers = {} /\ Main \notin Workers \cup Callers
    /\ Services \cap (Workers \cup Callers \cup {Main}) = {}
    /\ Users \subseteq Threads /\ None \notin Services \cup Threads
    /\ DRAIN_BUDGET \in Nat \ {0} /\ MaxWakes \in Nat /\ MaxCalls \in Nat
    /\ {MayAbort, AbortInBoot} \subseteq BOOLEAN

VARIABLES
    quit,       (* Scheduler.quit                                            *)
    booted,     (* Node.booted                                               *)
    total,      (* Node.total                                                *)
    gate,       (* holder of Node.lifecycle_gate across steps, or None       *)
    logger,     (* Node.logger                                               *)
    born,       (* services registered so far                                *)
    table,      (* services in Node.handles                                  *)
    dead, destroyed, selfExit,      (* ServiceContext flags                  *)
    life,       (* ServiceContext.lifecycle                                  *)
    ticket,     (* InitShared.result                                         *)
    token,      (* where a shared service is                                 *)
    permit,     (* exclusive services with an interrupt not yet seen         *)
    pc, stack,  (* where a thread stands, and returns to                     *)
    hold,       (* the service a thread executes                             *)
    todo,       (* services a thread is still to retire or to join           *)
    victim,     (* the service it has just taken out of the table            *)
    stage,      (* progress of Main: boot entries, then steps of shutdown    *)
    budgets,    (* Ran::Yielded counts of drain                              *)
    wakes, calls

flags    == <<quit, booted, total, gate, logger>>
services == <<born, table, dead, destroyed, selfExit, life, ticket>>
exec     == <<token, permit, hold, budgets>>
control  == <<pc, stack, todo, victim, stage>>
bounds   == <<wakes, calls>>
vars     == <<flags, services, exec, control, bounds>>

Goto(t, from, to) == pc[t] = from /\ pc' = [pc EXCEPT ![t] = to]

(* Calls: push where to go on, and return there. *)
Call(t, proc, back) ==
    /\ pc' = [pc EXCEPT ![t] = proc]
    /\ stack' = [stack EXCEPT ![t] = <<back>> \o @]
Return(t) ==
    /\ pc' = [pc EXCEPT ![t] = Head(stack[t])]
    /\ stack' = [stack EXCEPT ![t] = Tail(@)]

(* Where user code runs on thread t, and where it may change the node.     *)
InUserCode(t) == \/ pc[t] \in {"free", "work"}
                 \/ pc[t] = "final_drain" /\ life[t] = "RUNNING"
UserCall(t)   == t \in Users /\ InUserCode(t)
-----------------------------------------------------------------------------
(* Launching *)

(* Mutants: reserved services count as well; a launch is admitted after    *)
(* the node has quit.                                                      *)
AdmitCountsReserved(t, s, back) ==
    /\ gate = None /\ ~quit
    /\ gate' = t
    /\ born' = born \cup {s} /\ table' = table \cup {s}
    /\ total' = total + 1
    /\ todo' = [todo EXCEPT ![t] = {s}]
    /\ Call(t, "publish", back)
    /\ UNCHANGED <<quit, booted, logger, dead, destroyed, selfExit, life, ticket,
                   exec, victim, stage>>

AdmitAnytime(t, s, back) ==
    /\ gate = None
    /\ gate' = t
    /\ born' = born \cup {s} /\ table' = table \cup {s}
    /\ total' = IF s \in Reserved THEN total ELSE total + 1
    /\ todo' = [todo EXCEPT ![t] = {s}]
    /\ Call(t, "publish", back)
    /\ UNCHANGED <<quit, booted, logger, dead, destroyed, selfExit, life, ticket,
                   exec, victim, stage>>

(* Admission, registration and counting; the gate stays held.  None when   *)
(* the node has quit.                                                      *)
Admit(t, s, back) ==
    /\ gate = None /\ ~quit
    /\ gate' = t
    /\ born' = born \cup {s}
    /\ table' = table \cup {s}
    /\ total' = IF s \in Reserved THEN total ELSE total + 1
    /\ todo' = [todo EXCEPT ![t] = {s}]
    /\ Call(t, "publish", back)
    /\ UNCHANGED <<quit, booted, logger, dead, destroyed, selfExit, life, ticket,
                   exec, stage, victim>>

(* The service goes to its executor: a run queue, or its own new thread.   *)
Publish(t) ==
    /\ pc[t] = "publish"
    /\ token' = [s \in Shared |-> IF s \in todo[t] THEN "queued" ELSE token[s]]
    /\ pc' = [u \in Threads |-> IF u = t THEN Head(stack[t])
                                ELSE IF u \in todo[t] THEN "resume" ELSE pc[u]]
    /\ stack' = [stack EXCEPT ![t] = Tail(@)]
    /\ gate' = None
    /\ todo' = [todo EXCEPT ![t] = {}]
    /\ UNCHANGED <<quit, booted, total, logger, services, permit, hold, budgets,
                   victim, stage, bounds>>

(* Ctx::launch from user code. *)
Launch(t, s) ==
    /\ UserCall(t)
    /\ s \notin Boot \cup born
    /\ calls < MaxCalls /\ calls' = calls + 1
    /\ Admit(t, s, pc[t])
    /\ UNCHANGED wakes
-----------------------------------------------------------------------------
(* Retiring.  `todo` is what the thread still has to retire: one service   *)
(* for kill and exit, a snapshot of the table for the bulk forms.          *)

Sweep(t) ==
    /\ pc[t] = "sweep"
    /\ \/ /\ todo[t] = {}
          /\ Return(t)
          /\ UNCHANGED <<todo, table, victim>>
       \/ \E s \in todo[t] \ table :
            /\ todo' = [todo EXCEPT ![t] = @ \ {s}]
            /\ UNCHANGED <<pc, stack, table, victim>>
       \/ \E s \in todo[t] \cap table :   (* HandleStorage::retire finds it *)
            /\ table' = table \ {s}
            /\ victim' = [victim EXCEPT ![t] = s]
            /\ pc' = [pc EXCEPT ![t] = "mark_dead"]
            /\ todo' = [todo EXCEPT ![t] = @ \ {s}]
            /\ UNCHANGED stack
    /\ UNCHANGED <<flags, born, dead, destroyed, selfExit, life, ticket,
                   exec, stage, bounds>>

(* mark_dead, then a notification, so that the executor comes by once more *)
(* (an interrupt if it is an exclusive thread waiting in its idle hook).   *)
MarkDead(t) ==
    /\ Goto(t, "mark_dead", "sweep")
    /\ LET s == victim[t] IN
         /\ dead' = dead \cup {s}
         /\ IF s \in Shared
              THEN /\ token' = [token EXCEPT ![s] = IF @ = "idle" THEN "queued" ELSE @]
                   /\ UNCHANGED permit
              ELSE /\ permit' = IF pc[s] = "idle" THEN permit \cup {s} ELSE permit
                   /\ UNCHANGED token
    /\ UNCHANGED <<flags, born, table, destroyed, selfExit, life, ticket, hold,
                   budgets, stack, todo, victim, stage, bounds>>

(* Ctx::kill of an ordinary service. *)
Kill(t, s) ==
    /\ UserCall(t)
    /\ s \in table \cap Ordinary
    /\ calls < MaxCalls /\ calls' = calls + 1
    /\ todo' = [todo EXCEPT ![t] = {s}]
    /\ Call(t, "sweep", pc[t])
    /\ UNCHANGED <<flags, services, exec, victim, stage, wakes>>

(* Ctx::exit (request_exit): the same for the service that is running; if  *)
(* this call is the one that retires it, an init may still succeed.        *)
Exit(t) ==
    /\ UserCall(t) /\ t \notin Callers
    /\ hold[t] \in table \cap Ordinary
    /\ calls < MaxCalls /\ calls' = calls + 1
    /\ table' = table \ {hold[t]}
    /\ victim' = [victim EXCEPT ![t] = hold[t]]
    /\ pc' = [pc EXCEPT ![t] = "mark_dead"]
    /\ stack' = [stack EXCEPT ![t] = (IF life[hold[t]] = "INITIALIZING"
                                        THEN <<"self_exit">> ELSE <<>>) \o <<pc[t]>> \o @]
    /\ UNCHANGED <<flags, born, dead, destroyed, selfExit, life, ticket, exec,
                   todo, stage, wakes>>

MarkSelfExit(t) ==
    /\ pc[t] = "self_exit"
    /\ selfExit' = selfExit \cup {hold[t]}
    /\ Return(t)
    /\ UNCHANGED <<flags, born, table, dead, destroyed, life, ticket, exec,
                   todo, victim, stage, bounds>>

(* retire_all: snapshots of the ordinary services until one is empty.      *)
RetireAll(t) ==
    /\ pc[t] = "retire_all"
    /\ IF table \ Reserved = {}
         THEN Return(t) /\ UNCHANGED todo
         ELSE /\ todo' = [todo EXCEPT ![t] = table \ Reserved]
              /\ Call(t, "sweep", "retire_all")
    /\ UNCHANGED <<flags, services, exec, victim, stage, bounds>>

(* The part of quit, mark_booted and destroy inside the gate: the first    *)
(* one to set the flag also interrupts the exclusive threads, outside it.  *)
SetQuitAndCall(t, back) ==
    /\ quit' = TRUE
    /\ IF quit THEN pc' = [pc EXCEPT ![t] = back] /\ UNCHANGED stack
               ELSE Call(t, "interrupt_all", back)

InterruptAll(t) ==
    /\ pc[t] = "interrupt_all"
    /\ permit' = permit \cup {s \in table \cap Exclusive : pc[s] # "absent"}
    /\ Return(t)
    /\ UNCHANGED <<flags, services, token, hold, budgets, todo, victim, stage, bounds>>

(* abort: quit, then retire_all, whether or not the node had quit before.  *)
Abort(t) ==
    /\ MayAbort /\ (AbortInBoot \/ booted) /\ UserCall(t)
    /\ calls < MaxCalls /\ calls' = calls + 1
    /\ gate = None
    /\ quit' = TRUE
    /\ pc' = [pc EXCEPT ![t] = IF quit THEN "retire_all" ELSE "interrupt_all"]
    /\ stack' = [stack EXCEPT ![t] =
                    (IF quit THEN <<>> ELSE <<"retire_all">>) \o <<pc[t]>> \o @]
    /\ UNCHANGED <<booted, total, gate, logger, services, exec, todo, victim, stage, wakes>>
-----------------------------------------------------------------------------
(* User code *)

(* finish_init: a service killed by somebody else meanwhile has failed.    *)
FinishInit(s, ok) ==
    LET good == ok /\ (s \notin dead \/ s \in selfExit) IN
      /\ life' = [life EXCEPT ![s] = IF good THEN "RUNNING" ELSE "FAILED"]
      /\ ticket' = [ticket EXCEPT ![s] = IF @ # "none" THEN @
                                         ELSE IF good THEN "ok" ELSE "err"]

(* The init future returns; on an error the service exits.                 *)
InitReturns(t, ok) ==
    /\ pc[t] = "work"
    /\ life[hold[t]] = "INITIALIZING"
    /\ FinishInit(hold[t], ok)
    /\ IF ok THEN UNCHANGED <<pc, stack, todo>>
             ELSE /\ todo' = [todo EXCEPT ![t] = {hold[t]}]
                  /\ Call(t, "sweep", "work")
    /\ UNCHANGED <<flags, born, table, dead, destroyed, selfExit, exec, victim, stage, bounds>>

(* A message, or the wake-up of one of its tasks, for an idle service.     *)
Wake(t, s) ==
    /\ InUserCode(t)
    /\ s \in table
    /\ wakes < MaxWakes /\ wakes' = wakes + 1
    /\ \/ s \in Shared /\ token[s] = "idle"
            /\ token' = [token EXCEPT ![s] = "queued"] /\ UNCHANGED permit
       \/ s \in Exclusive /\ pc[s] = "idle" /\ s \notin permit
            /\ permit' = permit \cup {s} /\ UNCHANGED token
    /\ UNCHANGED <<flags, services, hold, budgets, control, calls>>
-----------------------------------------------------------------------------
(* Executing.  Workers, and Main while it drains, look for queued services *)
(* at "look"; a worker comes there past its check of the quit flag.        *)

Runners == Workers \cup {Main}
Loop(t) == IF t \in Workers THEN "next" ELSE "look"
Waiting == {s \in Shared : token[s] = "queued"}

WorkerLoop(t) ==
    /\ t \in Workers
    /\ Goto(t, "next", IF quit THEN "exited" ELSE "look")
    /\ UNCHANGED <<flags, services, exec, stack, todo, victim, stage, bounds>>

Take(t) ==
    /\ \E s \in Waiting :
         /\ token' = [token EXCEPT ![s] = "held"]
         /\ hold' = [hold EXCEPT ![t] = s]
         /\ Goto(t, "look", IF s \in dead THEN "clean" ELSE "work")
    /\ UNCHANGED <<flags, services, permit, budgets, stack, todo, victim, stage, bounds>>

(* Nothing queued: a worker looks again, Main's drain is over. *)
TakeNothing(t) ==
    /\ pc[t] = "look" /\ Waiting = {}
    /\ IF t \in Workers THEN pc' = [pc EXCEPT ![t] = "next"] /\ UNCHANGED stack
                        ELSE Return(t)
    /\ UNCHANGED <<flags, services, exec, todo, victim, stage, bounds>>

(* The mailbox is empty: the service goes idle, or is destroyed if it was  *)
(* killed; an exclusive thread drains its mailbox first, or waits.         *)
EndVisit(t) ==
    /\ pc[t] = "work"
    /\ \/ /\ t \in Exclusive
          /\ pc' = [pc EXCEPT ![t] = IF t \in dead THEN "final_drain" ELSE "idle"]
          /\ UNCHANGED <<token, hold>>
       \/ /\ t \in Runners /\ hold[t] \in dead
          /\ pc' = [pc EXCEPT ![t] = "clean"]
          /\ UNCHANGED <<token, hold>>
       \/ /\ t \in Runners /\ hold[t] \notin dead
          /\ pc' = [pc EXCEPT ![t] = Loop(t)]
          /\ token' = [token EXCEPT ![hold[t]] = "idle"]
          /\ hold' = [hold EXCEPT ![t] = None]
    /\ UNCHANGED <<flags, services, permit, budgets, stack, todo, victim, stage, bounds>>

(* Ran::Yielded: still runnable, and somebody waits or the node has quit.  *)
(* Another queued service takes its place, if there is one.  Main counts,  *)
(* and retires a service that has used up its budget.                      *)
Yield(t) ==
    /\ pc[t] = "work" /\ t \in Runners /\ hold[t] \notin dead
    /\ quit \/ Waiting # {}
    /\ \/ Waiting = {} /\ UNCHANGED <<token, hold>>
       \/ \E s \in Waiting :
            /\ token' = [token EXCEPT ![s] = "held", ![hold[t]] = "queued"]
            /\ hold' = [hold EXCEPT ![t] = s]
    /\ IF t = Main
         THEN /\ budgets' = [budgets EXCEPT ![hold[t]] =
                               IF @ + 1 = DRAIN_BUDGET THEN 0 ELSE @ + 1]
              /\ IF budgets[hold[t]] + 1 = DRAIN_BUDGET
                   THEN /\ todo' = [todo EXCEPT ![t] = {hold[t]}]
                        /\ Call(t, "sweep", "resume")
                   ELSE pc' = [pc EXCEPT ![t] = "resume"] /\ UNCHANGED <<stack, todo>>
         ELSE pc' = [pc EXCEPT ![t] = "resume"] /\ UNCHANGED <<stack, todo, budgets>>
    /\ UNCHANGED <<flags, services, permit, victim, stage, bounds>>

Resumed(t) == IF hold[t] \notin dead THEN "work"
              ELSE IF t \in Exclusive THEN "final_drain" ELSE "clean"

(* Mutant: a leaving worker does not put the service in its hands back. *)
ResumeDrops(t) ==
    /\ Goto(t, "resume", IF t \in Workers /\ quit THEN "next" ELSE Resumed(t))
    /\ hold' = [hold EXCEPT ![t] = IF t \in Workers /\ quit THEN None ELSE @]
    /\ UNCHANGED <<flags, services, token, permit, budgets, stack, todo, victim, stage, bounds>>

(* The loop comes round with a service in hand: worker_loop looks at the   *)
(* quit flag and puts it back, run_service looks at dead.                  *)
Resume(t) ==
    /\ \/ /\ t \in Workers /\ quit
          /\ Goto(t, "resume", "next")
          /\ token' = [token EXCEPT ![hold[t]] = "queued"]
          /\ hold' = [hold EXCEPT ![t] = None]
       \/ /\ t \notin Workers \/ ~quit
          /\ Goto(t, "resume", Resumed(t))
          /\ UNCHANGED <<token, hold>>
    /\ UNCHANGED <<flags, services, permit, budgets, stack, todo, victim, stage, bounds>>

(* An exclusive thread: its idle hook returns when interrupted; killed, it *)
(* works off its mailbox before it is destroyed.                           *)
IdleReturns(t) ==
    /\ t \in permit
    /\ Goto(t, "idle", "resume")
    /\ permit' = permit \ {t}
    /\ UNCHANGED <<flags, services, token, hold, budgets, stack, todo, victim, stage, bounds>>

FinalDrain(t) ==
    /\ Goto(t, "final_drain", "clean")
    /\ UNCHANGED <<flags, services, exec, stack, todo, victim, stage, bounds>>
-----------------------------------------------------------------------------
(* Destroying *)

Gone(t) == IF t \in Exclusive THEN "gone" ELSE Loop(t)

(* Mutant: an unfinished init is dropped without a word to its launcher. *)
CleanForgetsInit(t) ==
    /\ Goto(t, "clean", "account")
    /\ destroyed' = destroyed \cup {hold[t]}
    /\ token' = [s \in Shared |-> IF s = hold[t] THEN "idle" ELSE token[s]]
    /\ UNCHANGED <<flags, born, table, dead, selfExit, life, ticket, permit, hold,
                   budgets, stack, todo, victim, stage, bounds>>

(* cleanup (an unfinished init fails here), then the destroyed flag.       *)
Clean(t) ==
    /\ Goto(t, "clean", "account")
    /\ IF life[hold[t]] = "INITIALIZING"
         THEN FinishInit(hold[t], FALSE) ELSE UNCHANGED <<life, ticket>>
    /\ destroyed' = destroyed \cup {hold[t]}
    /\ token' = [s \in Shared |-> IF s = hold[t] THEN "idle" ELSE token[s]]
    /\ UNCHANGED <<flags, born, table, dead, selfExit, permit, hold, budgets,
                   stack, todo, victim, stage, bounds>>

(* Mutant: an exit during boot counts as the last one. *)
LastExitInBoot == total = 1

(* The last ordinary service of a booted node takes the node with it.      *)
LastExit == total = 1 /\ booted

Account(t) ==
    /\ pc[t] = "account"
    /\ hold' = [hold EXCEPT ![t] = IF t \in Exclusive THEN t ELSE None]
    /\ \/ /\ hold[t] \in Reserved
          /\ pc' = [pc EXCEPT ![t] = Gone(t)]
          /\ UNCHANGED <<total, quit, stack>>
       \/ /\ hold[t] \in Ordinary
          /\ gate = None
          /\ total' = total - 1
          /\ IF LastExit
               THEN SetQuitAndCall(t, Gone(t))
               ELSE pc' = [pc EXCEPT ![t] = Gone(t)] /\ UNCHANGED <<quit, stack>>
    /\ UNCHANGED <<booted, gate, logger, services, token, permit, budgets,
                   todo, victim, stage, bounds>>
-----------------------------------------------------------------------------
(* The main thread: boot, the end of boot, joining, shutdown. *)

BootLaunch ==
    /\ pc[Main] = "boot" /\ stage <= Len(BootOrder)
    /\ Admit(Main, BootOrder[stage], "boot_wait")
    /\ UNCHANGED bounds

(* InitTicket::wait, then set_logger for the logger.  A bootstrap of one's *)
(* own making is not waited for.                                           *)
BootWait ==
    /\ pc[Main] = "boot_wait"
    /\ LET s == BootOrder[stage] IN
         /\ s \in Awaited => ticket[s] # "none"
         /\ pc' = [pc EXCEPT ![Main] = IF s \in Awaited /\ ticket[s] = "err"
                                         THEN "boot_failed" ELSE "boot"]
         /\ logger' = IF s = Logger /\ ticket[s] = "ok" THEN s ELSE logger
    /\ stage' = stage + 1
    /\ UNCHANGED <<quit, booted, total, gate, services, exec, stack, todo, victim, bounds>>

(* Mutant: nobody looks whether the services are already gone. *)
BootedEmptyIgnored == FALSE

BootedEmpty == total = 0

(* mark_booted, for a node whose last ordinary service is already gone; or *)
(* quit, if boot failed or was refused a launch.                           *)
EndBoot ==
    /\ gate = None
    /\ \/ /\ pc[Main] = "boot" /\ stage > Len(BootOrder)
          /\ booted' = TRUE
          /\ IF BootedEmpty THEN SetQuitAndCall(Main, "join_workers")
             ELSE pc' = [pc EXCEPT ![Main] = "join_workers"] /\ UNCHANGED <<quit, stack>>
       \/ /\ pc[Main] = "boot_failed" \/ (pc[Main] = "boot" /\ stage <= Len(BootOrder) /\ quit)
          /\ SetQuitAndCall(Main, "join_workers")
          /\ UNCHANGED booted
    /\ UNCHANGED <<total, gate, logger, services, exec, todo, victim, stage, bounds>>

JoinWorkers ==
    /\ \A w \in Workers : pc[w] = "exited"
    /\ Goto(Main, "join_workers", "shutdown")
    /\ stage' = 1
    /\ UNCHANGED <<flags, services, exec, stack, todo, victim, bounds>>

(* Mutant: the logger goes before the ordinary services. *)
ShutdownLoggerFirst == <<"drain", "retire_logger", "join_retired", "retire_all", "drain",
                         "join_retired", "retire_others", "drain", "join_retired",
                         "join_all">>

(* The ten steps of shutdown. *)
ShutdownSteps == <<"drain", "retire_all", "drain", "join_retired",
                   "retire_others", "drain", "join_retired",
                   "retire_logger", "drain", "join_all">>

(* What retire_reserved retires, and which threads are joined. *)
Targets(step) ==
    CASE step \in {"drain", "retire_all"} -> {}
      [] step = "retire_others" -> table \ {logger}
      [] step = "retire_logger" -> table
      [] step = "join_retired"  -> (born \cap Exclusive) \ table
      [] step = "join_all"      -> born \cap Exclusive

Shutdown ==
    /\ pc[Main] = "shutdown" /\ stage <= Len(ShutdownSteps)
    /\ LET step == ShutdownSteps[stage] IN
         /\ Call(Main, CASE step = "drain" -> "look"
                         [] step = "retire_all" -> "retire_all"
                         [] step \in {"retire_others", "retire_logger"} -> "sweep"
                         [] step \in {"join_retired", "join_all"} -> "join", "shutdown")
         /\ todo' = [todo EXCEPT ![Main] = Targets(step)]
    /\ stage' = stage + 1
    /\ budgets' = [s \in Shared |-> 0]
    /\ UNCHANGED <<flags, services, token, permit, hold, victim, bounds>>

Join ==
    /\ pc[Main] = "join"
    /\ \A s \in todo[Main] : pc[s] = "gone"
    /\ Return(Main)
    /\ todo' = [todo EXCEPT ![Main] = {}]
    /\ UNCHANGED <<flags, services, exec, victim, stage, bounds>>

Finish ==
    /\ stage > Len(ShutdownSteps)
    /\ Goto(Main, "shutdown", "finished")
    /\ UNCHANGED <<flags, services, exec, stack, todo, victim, stage, bounds>>
-----------------------------------------------------------------------------
Init ==
    /\ quit = FALSE /\ booted = FALSE /\ total = 0 /\ gate = None /\ logger = None
    /\ born = {} /\ table = {} /\ dead = {} /\ destroyed = {} /\ selfExit = {}
    /\ life = [s \in Services |-> "INITIALIZING"]
    /\ ticket = [s \in Services |-> "none"]
    /\ token = [s \in Shared |-> "unborn"]
    /\ permit = {}
    /\ hold = [t \in Threads |-> IF t \in Exclusive THEN t ELSE None]
    /\ budgets = [s \in Shared |-> 0]
    /\ pc = [t \in Threads |-> IF t \in Workers THEN "next" ELSE IF t \in Callers THEN "free"
                               ELSE IF t = Main THEN "boot" ELSE "absent"]
    /\ stack = [t \in Threads |-> <<>>]
    /\ todo = [t \in Threads |-> {}]
    /\ victim = [t \in Threads |-> None]
    /\ stage = 1
    /\ wakes = 0 /\ calls = 0

(* What a thread goes on to do by itself. *)
Step(t) == \/ Publish(t) \/ Sweep(t) \/ MarkDead(t) \/ MarkSelfExit(t)
           \/ RetireAll(t) \/ InterruptAll(t)
           \/ WorkerLoop(t) \/ Take(t) \/ TakeNothing(t) \/ EndVisit(t) \/ Resume(t)
           \/ IdleReturns(t) \/ FinalDrain(t) \/ Clean(t) \/ Account(t)
MainStep == \/ BootLaunch \/ BootWait \/ EndBoot \/ JoinWorkers \/ Shutdown
            \/ Join \/ Finish
(* What user code chooses to do. *)
User(t) == \/ \E s \in Services : Launch(t, s) \/ Kill(t, s) \/ Wake(t, s)
           \/ Exit(t) \/ Abort(t) \/ Yield(t) \/ \E ok \in BOOLEAN : InitReturns(t, ok)

Next == MainStep \/ \E t \in Threads : Step(t) \/ User(t)

Spec == Init /\ [][Next]_vars

(* Threads run, waits end when they may, a visit to a service ends unless  *)
(* it stays runnable; nothing is assumed of what user code chooses.        *)
FairSpec == Spec /\ WF_vars(MainStep) /\ \A t \in Threads : WF_vars(Step(t))
-----------------------------------------------------------------------------
(* The variables have their types; total, unsigned in server.rs, never goes *)
(* below zero.                                                              *)
TypeOK ==
    /\ {quit, booted} \subseteq BOOLEAN /\ total \in Nat
    /\ gate \in Threads \cup {None} /\ logger \in {Logger, None}
    /\ born \subseteq Services /\ table \subseteq born
    /\ dead \cup destroyed \cup selfExit \subseteq born
    /\ life \in [Services -> {"INITIALIZING", "RUNNING", "FAILED"}]
    /\ ticket \in [Services -> {"none", "ok", "err"}]
    /\ token \in [Shared -> {"unborn", "idle", "queued", "held"}]
    /\ permit \subseteq Exclusive
    /\ DOMAIN pc = Threads /\ DOMAIN stack = Threads
    /\ hold \in [Threads -> Services \cup {None}]
    /\ todo \in [Threads -> SUBSET Services]
    /\ budgets \in [Shared -> 0..DRAIN_BUDGET]

(* total counts the ordinary services not yet accounted for, through every *)
(* mix of launches, kills and exits: destroy subtracts once per service.   *)
TotalCountsOrdinary ==
    total = Cardinality((born \cap Ordinary) \ destroyed)
              + Cardinality({t \in Threads : pc[t] = "account" /\ hold[t] \in Ordinary})

(* The node ends by itself only when no ordinary service is left, and not  *)
(* while it boots; otherwise somebody aborted it or boot failed.           *)
QuitHasReason ==
    [][~quit /\ quit' =>
        \/ \E t \in Threads : pc'[t] = "interrupt_all" /\ Head(stack'[t]) = "retire_all"
        \/ pc[Main] = "boot_failed"
        \/ booted' /\ total' = 0 /\ (born \cap Ordinary) \subseteq destroyed]_vars

(* Once the main thread's retire_all is done no ordinary service can be    *)
(* found any more: no launch slipped in behind it (lifecycle_gate).        *)
Sealed == stage > 3 /\ pc[Main] \notin {"boot", "publish", "boot_wait", "boot_failed",
                                        "interrupt_all", "join_workers"}

NoStragglers == Sealed => table \subseteq Reserved

(* join_exclusives would wait for ever for a thread whose service is still *)
(* in the table ("call only when all are retired").                        *)
JoinAllRetired ==
    pc[Main] = "join" /\ stage > Len(ShutdownSteps) => table \cap Exclusive = {}

(* The logger is destroyed after every other service.                      *)
LoggerLast == logger = Logger /\ Logger \in destroyed => born \subseteq destroyed

(* When start returns, every service that was launched has been destroyed. *)
AllDestroyed == pc[Main] = "finished" => born \subseteq destroyed

(* start.rs: "any call of abort, or the exit of the last service once boot *)
(* is complete, makes this function return".                               *)
StartReturns == (quit \/ (booted /\ total = 0)) ~> (pc[Main] = "finished")

(* Whoever waits for a launched service learns of its end: a killed        *)
(* service settles its init ticket.                                        *)
KillSettlesTicket == \A s \in Services : (s \in dead) ~> (ticket[s] # "none")

(* The types hold and total counts exactly the ordinary services that have *)
(* not been destroyed (new_service, destroy).                              *)
Counted == TypeOK /\ TotalCountsOrdinary

(* Shutdown is complete before the threads are joined: nothing launched    *)
(* behind retire_all, nothing exclusive left in the table (start).         *)
ShutdownSealed == NoStragglers /\ JoinAllRetired

(* The end is orderly: everything destroyed, the logger last (start).      *)
OrderlyEnd == LoggerLast /\ AllDestroyed

(* start returns and every waiting launcher learns of a kill (start,       *)
(* destroy).                                                               *)
NodeEnds == StartReturns /\ KillSettlesTicket
=============================================================================
