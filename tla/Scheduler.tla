------------------------------ MODULE Scheduler ------------------------------
(***************************************************************************)
(* The run queues of a node (crates/rskynet-core/src/mq.rs `Scheduler`,    *)
(* handoff.rs) and the threads around them: the worker loop, pushes from   *)
(* workers and from other threads, and the end of the node, when workers   *)
(* flush their queues and the main thread drains the injector (start.rs).  *)
(*                                                                         *)
(* A service in the run queues is only its token (module RunToken); what   *)
(* its mailbox holds is module Mailbox.  A BWoS local queue is the set of  *)
(* services in it: the owner's pop always finds one if there is one, a     *)
(* steal may fail though there is (the block being written is invisible).  *)
(* One action is one access to shared memory, except that the counter      *)
(* `pending` goes down together with the removal it records.               *)
(***************************************************************************)
EXTENDS Integers, Sequences, FiniteSets

CONSTANTS Workers,        (* worker numbers, as in the idle bitmap             *)
          Outsiders,      (* threads that push but are no workers              *)
          Main, Quitter,  (* the main thread, and the one that asks to quit    *)
          Services,
          NoService,
          MAX_SEARCHERS,  (* Scheduler.max_searchers                           *)
          LOCAL_CAPACITY, (* services a local queue takes before it overflows  *)
          MaxRuns,        (* bound: services made runnable, and yielding visits *)
          MayQuit         (* whether the node may be told to quit              *)

ASSUME SchedulerAssumption ==
    /\ Workers \subseteq Nat /\ Workers # {} /\ IsFiniteSet(Workers)
    /\ (Workers \cup Outsiders) \cap {Main, Quitter} = {}
    /\ Workers \cap Outsiders = {} /\ Main # Quitter
    /\ IsFiniteSet(Outsiders)
    /\ IsFiniteSet(Services) /\ NoService \notin Services
    /\ MAX_SEARCHERS \in Nat \ {0}
    /\ LOCAL_CAPACITY \in Nat
    /\ MaxRuns \in Nat
    /\ MayQuit \in BOOLEAN

VARIABLES
    resting,    (* services nobody has: mailbox IDLE                          *)
    injector,   (* Scheduler.injector                                         *)
    local,      (* Scheduler.locals                                           *)
    slot,       (* WorkerSlot.handoff                                         *)
    pending,    (* Scheduler.pending                                          *)
    idle,       (* Scheduler.idle: bitmap of workers about to sleep           *)
    searching,  (* Scheduler.searching                                        *)
    stealable,  (* Scheduler.stealable: bitmap of queues worth stealing from  *)
    quit,       (* Scheduler.quit                                             *)
    permit,     (* std's park token of each worker thread                     *)
    pc,         (* where each thread stands                                   *)
    ret,        (* what a thread goes on with after a push or a pop           *)
    hold,       (* the service a thread has taken to run                      *)
    item,       (* the service a thread is pushing                            *)
    target,     (* the worker a thread wakes, or steals from                  *)
    runs        (* what MaxRuns bounds                                        *)

queues  == <<injector, local, slot, pending>>
sleep   == <<idle, searching, permit>>
threads == <<pc, ret, hold, item, target>>
vars == <<resting, queues, sleep, stealable, quit, threads, runs>>

Threads == Workers \cup Outsiders \cup {Main, Quitter}

Goto(t, from, to) == pc[t] = from /\ pc' = [pc EXCEPT ![t] = to]
LowestOf(S) == CHOOSE w \in S : \A v \in S : w <= v
-----------------------------------------------------------------------------
(* push *)

(* A thread whose notification found service s idle pushes it. *)
StartPush(t, s, from, back) ==
    /\ runs < MaxRuns
    /\ s \in resting
    /\ resting' = resting \ {s}
    /\ runs' = runs + 1
    /\ Goto(t, from, "push")
    /\ item' = [item EXCEPT ![t] = s]
    /\ ret' = [ret EXCEPT ![t] = back]
    /\ UNCHANGED <<queues, sleep, stealable, quit, hold, target>>

(* Code outside the workers (exclusive services, foreign wakers). *)
OutsiderPush(t, s) == StartPush(t, s, "outside", "outside")

(* The service a worker is running makes another one runnable. *)
WorkerPush(w, s) == StartPush(w, s, "run", "run")

(* Mutant: pending is not counted up before the insertion. *)
AnnounceUncounted(t) ==
    /\ Goto(t, "push", "look")
    /\ UNCHANGED <<resting, queues, sleep, stealable, quit,
                   ret, hold, item, target, runs>>

Announce(t) ==
    /\ Goto(t, "push", "look")
    /\ pending' = pending + 1
    /\ UNCHANGED <<resting, injector, local, slot, sleep, stealable, quit,
                   ret, hold, item, target, runs>>

(* Somebody searching will find it in the injector; else wake a sleeper.   *)
LookForSearcher(t) ==
    /\ Goto(t, "look", IF searching > 0 THEN "inject" ELSE "claim")
    /\ UNCHANGED <<resting, queues, sleep, stealable, quit,
                   ret, hold, item, target, runs>>

Inject(t) ==
    /\ Goto(t, "inject", "recheck")
    /\ injector' = Append(injector, item[t])
    /\ UNCHANGED <<resting, local, slot, pending, sleep, stealable, quit,
                   ret, hold, item, target, runs>>

(* The end of a push. *)
Pushed(t) ==
    /\ pc' = [pc EXCEPT ![t] = ret[t]]
    /\ target' = [target EXCEPT ![t] = LowestOf(Workers)]
    /\ item' = [item EXCEPT ![t] = NoService]
    /\ ret' = [ret EXCEPT ![t] = "none"]

(* Mutant: push relies on the searcher it saw before inserting. *)
RecheckNever(t) ==
    /\ pc[t] = "recheck"
    /\ Pushed(t)
    /\ UNCHANGED <<resting, queues, sleep, stealable, quit, hold, runs>>

(* The searchers seen before may all have gone to sleep since. *)
RecheckSearcher(t) ==
    /\ pc[t] = "recheck"
    /\ IF searching = 0
         THEN pc' = [pc EXCEPT ![t] = "claim_sleeper"] /\ UNCHANGED <<ret, item, target>>
         ELSE Pushed(t)
    /\ UNCHANGED <<resting, queues, sleep, stealable, quit, hold, runs>>

(* claim_idle: take the lowest bit; waking that worker is now our duty.    *)
ClaimIdle(t, from, to) ==
    /\ pc[t] = from
    /\ idle # {}
    /\ idle' = idle \ {LowestOf(idle)}
    /\ target' = [target EXCEPT ![t] = LowestOf(idle)]
    /\ pc' = [pc EXCEPT ![t] = to]
    /\ UNCHANGED <<resting, queues, searching, permit, stealable, quit,
                   ret, hold, item, runs>>

ClaimSleeper(t) ==
    \/ ClaimIdle(t, "claim_sleeper", "wake")
    \/ /\ pc[t] = "claim_sleeper" /\ idle = {}
       /\ Pushed(t)
       /\ UNCHANGED <<resting, queues, sleep, stealable, quit, hold, runs>>

ClaimForHandoff(t) ==
    \/ ClaimIdle(t, "claim", "offer")
    \/ /\ idle = {}
       /\ Goto(t, "claim", "place")
       /\ UNCHANGED <<resting, queues, sleep, stealable, quit,
                      ret, hold, item, target, runs>>

(* The handoff slot takes one service; an occupied one hands it back.      *)
Offer(t) ==
    /\ IF slot[target[t]] = NoService
         THEN /\ slot' = [slot EXCEPT ![target[t]] = item[t]]
              /\ Goto(t, "offer", "wake")
         ELSE UNCHANGED slot /\ Goto(t, "offer", "place_then_wake")
    /\ UNCHANGED <<resting, injector, local, pending, sleep, stealable, quit,
                   ret, hold, item, target, runs>>

(* Mutant: the worker that was handed a service is not woken. *)
WakeForgotten(t) ==
    /\ pc[t] = "wake"
    /\ Pushed(t)
    /\ UNCHANGED <<resting, queues, sleep, stealable, quit, hold, runs>>

Wake(t) ==
    /\ pc[t] = "wake"
    /\ permit' = [permit EXCEPT ![target[t]] = TRUE]
    /\ Pushed(t)
    /\ UNCHANGED <<resting, queues, idle, searching, stealable, quit, hold, runs>>

HasRoom(t) == IF t \in Workers THEN Cardinality(local[t]) < LOCAL_CAPACITY ELSE FALSE

(* place: a worker's own queue unless it is full, the injector otherwise;  *)
(* completing a block grants it to the thieves.                            *)
PlaceItem(t) ==
    \/ /\ HasRoom(t)
       /\ local' = [local EXCEPT ![t] = @ \cup {item[t]}]
       /\ stealable' \in {stealable, stealable \cup {t}}
       /\ UNCHANGED injector
    \/ /\ ~HasRoom(t)
       /\ injector' = Append(injector, item[t])
       /\ UNCHANGED <<local, stealable>>

PlaceThenWake(t) ==
    /\ PlaceItem(t)
    /\ Goto(t, "place_then_wake", "wake")
    /\ UNCHANGED <<resting, slot, pending, sleep, quit,
                   ret, hold, item, target, runs>>

(* Nobody searches and nobody sleeps.  A worker will get to its own queue; *)
(* another thread looks again for a worker that fell asleep meanwhile.     *)
Place(t) ==
    /\ pc[t] = "place"
    /\ PlaceItem(t)
    /\ IF t \in Workers
         THEN Pushed(t)
         ELSE pc' = [pc EXCEPT ![t] = "recheck"] /\ UNCHANGED <<ret, item, target>>
    /\ UNCHANGED <<resting, slot, pending, sleep, quit, hold, runs>>

Push(t) == \/ Announce(t) \/ LookForSearcher(t) \/ Inject(t) \/ RecheckSearcher(t)
           \/ ClaimSleeper(t) \/ ClaimForHandoff(t) \/ Offer(t) \/ PlaceThenWake(t)
           \/ Place(t) \/ Wake(t)
-----------------------------------------------------------------------------
(* pop: handoff slot, pending, local queue and injector, stealing. *)

(* What follows a pop depends on who called it: the dispatch of an         *)
(* empty-handed worker, the one after a service went idle, the yielding    *)
(* path (which pushes the old service back), a search round, or the last   *)
(* look before sleeping.                                                   *)
StartPop(w, from, back) ==
    /\ Goto(w, from, "pop_slot")
    /\ ret' = [ret EXCEPT ![w] = back]

(* Mutant: the yielding path forgets to push the old service back. *)
GotDropsYielded(w, s) ==
    /\ hold' = [hold EXCEPT ![w] = s]
    /\ pc' = [pc EXCEPT ![w] = CASE ret[w] = "dispatch" -> "run"
                                 [] ret[w] \in {"next", "yield"} -> "loop"
                                 [] ret[w] = "spin" -> "found"
                                 [] ret[w] = "last" -> "found_last"]
    /\ ret' = [ret EXCEPT ![w] = "none"]
    /\ UNCHANGED item

Got(w, s) ==
    /\ hold' = [hold EXCEPT ![w] = s]
    /\ IF ret[w] = "yield"
         THEN /\ item' = [item EXCEPT ![w] = hold[w]]
              /\ ret'  = [ret EXCEPT ![w] = "loop"]
              /\ pc'   = [pc EXCEPT ![w] = "push"]
         ELSE /\ pc' = [pc EXCEPT ![w] =
                          CASE ret[w] = "dispatch" -> "run"
                            [] ret[w] = "next"     -> "loop"
                            [] ret[w] = "spin"     -> "found"
                            [] ret[w] = "last"     -> "found_last"]
              /\ ret' = [ret EXCEPT ![w] = "none"]
              /\ UNCHANGED item

Nothing(w) ==
    /\ pc' = [pc EXCEPT ![w] =
                CASE ret[w] \in {"dispatch", "next"} -> "search"
                  [] ret[w] = "yield"                -> "loop"
                  [] ret[w] = "spin"                 -> "spun"
                  [] ret[w] = "last"                 -> "park"]
    /\ ret' = [ret EXCEPT ![w] = "none"]
    /\ UNCHANGED <<hold, item>>

PopSlot(w) ==
    /\ pc[w] = "pop_slot"
    /\ \/ /\ slot[w] # NoService
          /\ slot' = [slot EXCEPT ![w] = NoService]
          /\ pending' = pending - 1
          /\ Got(w, slot[w])
       \/ /\ slot[w] = NoService
          /\ pc' = [pc EXCEPT ![w] = "pop_pending"]
          /\ UNCHANGED <<slot, pending, ret, hold, item>>
    /\ UNCHANGED <<resting, injector, local, sleep, stealable, quit, target, runs>>

PopPending(w) ==
    /\ pc[w] = "pop_pending"
    /\ \/ pending = 0 /\ Nothing(w)
       \/ /\ pending # 0
          /\ \E to \in {"pop_local", "pop_injector_first"} : pc' = [pc EXCEPT ![w] = to]
          /\ UNCHANGED <<ret, hold, item>>
    /\ UNCHANGED <<resting, queues, sleep, stealable, quit, target, runs>>

(* Every INJECT_INTERVAL pops the injector goes first. *)
PopInjector(w, from, otherwise) ==
    /\ pc[w] = from
    /\ \/ /\ injector # <<>>
          /\ injector' = Tail(injector)
          /\ pending' = pending - 1
          /\ Got(w, Head(injector))
       \/ /\ injector = <<>>
          /\ pc' = [pc EXCEPT ![w] = otherwise]
          /\ UNCHANGED <<injector, pending, ret, hold, item>>
    /\ UNCHANGED <<resting, local, slot, sleep, stealable, quit, target, runs>>

PopLocal(w) ==
    /\ pc[w] = "pop_local"
    /\ \/ \E s \in local[w] :
            /\ local' = [local EXCEPT ![w] = @ \ {s}]
            /\ pending' = pending - 1
            /\ Got(w, s)
       \/ /\ local[w] = {}
          /\ pc' = [pc EXCEPT ![w] = "pop_injector"]
          /\ UNCHANGED <<local, pending, ret, hold, item>>
    /\ UNCHANGED <<resting, injector, slot, sleep, stealable, quit, target, runs>>

(* steal: consume a victim's hint before stealing from it.  The scan sees  *)
(* each bit at its own moment, so it may also end without seeing one.      *)
TakeStealable(w) ==
    /\ pc[w] = "pop_steal"
    /\ \/ \E v \in stealable \ {w} :
            /\ stealable' = stealable \ {v}
            /\ target' = [target EXCEPT ![w] = v]
            /\ pc' = [pc EXCEPT ![w] = "pop_victim"]
            /\ UNCHANGED <<ret, hold, item>>
       \/ Nothing(w) /\ UNCHANGED <<stealable, target>>
    /\ UNCHANGED <<resting, queues, sleep, quit, runs>>

StealFront(w) ==
    /\ pc[w] = "pop_victim"
    /\ \/ \E s \in local[target[w]] :
            /\ local' = [local EXCEPT ![target[w]] = @ \ {s}]
            /\ pending' = pending - 1
            /\ stealable' = stealable \cup {target[w]}
            /\ Got(w, s)
       \/ /\ pc' = [pc EXCEPT ![w] = "pop_steal"]
          /\ UNCHANGED <<local, pending, stealable, ret, hold, item>>
    /\ target' = [target EXCEPT ![w] = LowestOf(Workers)]
    /\ UNCHANGED <<resting, injector, slot, sleep, quit, runs>>

Pop(w) == \/ PopSlot(w) \/ PopPending(w) \/ PopLocal(w)
          \/ PopInjector(w, "pop_injector_first", "pop_local")
          \/ PopInjector(w, "pop_injector", "pop_steal")
          \/ TakeStealable(w) \/ StealFront(w)
-----------------------------------------------------------------------------
(* worker_loop and dispatch_step *)

Loop(w) ==
    /\ \/ quit /\ hold[w] # NoService   (* push the service in hand, then flush *)
          /\ Goto(w, "loop", "push")
          /\ item' = [item EXCEPT ![w] = hold[w]]
          /\ hold' = [hold EXCEPT ![w] = NoService]
          /\ ret' = [ret EXCEPT ![w] = "flush"]
       \/ quit /\ hold[w] = NoService
          /\ Goto(w, "loop", "flush") /\ UNCHANGED <<ret, hold, item>>
       \/ ~quit /\ hold[w] # NoService
          /\ Goto(w, "loop", "run") /\ UNCHANGED <<ret, hold, item>>
       \/ ~quit /\ hold[w] = NoService
          /\ StartPop(w, "loop", "dispatch") /\ UNCHANGED <<hold, item>>
    /\ UNCHANGED <<resting, queues, sleep, stealable, quit, target, runs>>

(* The visit ends with the service idle (or destroyed). *)
RanIdle(w) ==
    /\ StartPop(w, "run", "next")
    /\ resting' = resting \cup {hold[w]}
    /\ hold' = [hold EXCEPT ![w] = NoService]
    /\ UNCHANGED <<queues, sleep, stealable, quit, item, target, runs>>

(* The visit ends with the service still runnable: should_yield. *)
RanYielded(w) ==
    /\ pending > 0 \/ quit
    /\ runs < MaxRuns
    /\ runs' = runs + 1
    /\ StartPop(w, "run", "yield")
    /\ UNCHANGED <<resting, queues, sleep, stealable, quit, hold, item, target>>
-----------------------------------------------------------------------------
(* find_work_or_park *)

Search(w) ==
    /\ Goto(w, "search", IF searching < MAX_SEARCHERS THEN "spin" ELSE "mark_idle")
    /\ searching' = searching + 1
    /\ UNCHANGED <<resting, queues, idle, permit, stealable, quit,
                   ret, hold, item, target, runs>>

Spin(w) ==
    /\ StartPop(w, "spin", "spin")
    /\ UNCHANGED <<resting, queues, sleep, stealable, quit, hold, item, target, runs>>

(* searching goes down when a round finds a service, or sees quit; or the  *)
(* rounds (SPIN_ROUNDS of them) go on or are used up.                      *)
StopSearching(w, from, to) ==
    /\ Goto(w, from, to)
    /\ searching' = searching - 1
    /\ UNCHANGED <<resting, queues, idle, permit, stealable, quit,
                   ret, hold, item, target, runs>>

Found(w) == StopSearching(w, "found", "loop")

Spun(w) ==
    \/ quit /\ StopSearching(w, "spun", "loop")
    \/ /\ ~quit
       /\ \E to \in {"spin", "mark_idle"} : Goto(w, "spun", to)
       /\ UNCHANGED <<resting, queues, sleep, stealable, quit,
                      ret, hold, item, target, runs>>

(* The idle bit is set before searching goes down. *)
MarkIdle(w) ==
    /\ Goto(w, "mark_idle", "unsearch")
    /\ idle' = idle \cup {w}
    /\ UNCHANGED <<resting, queues, searching, permit, stealable, quit,
                   ret, hold, item, target, runs>>

Unsearch(w) == StopSearching(w, "unsearch", "last_look")

(* Mutant: a worker sleeps without looking again once its bit is set. *)
LastLookSkipped(w) ==
    /\ Goto(w, "last_look", "park")
    /\ UNCHANGED <<resting, queues, sleep, stealable, quit, ret, hold, item, target, runs>>

LastLook(w) ==
    /\ StartPop(w, "last_look", "last")
    /\ UNCHANGED <<resting, queues, sleep, stealable, quit, hold, item, target, runs>>

(* park returns when the thread's token is set, at once if it already is.  *)
Park(w) ==
    /\ Goto(w, "park", IF quit THEN "clear_idle" ELSE "parked")
    /\ UNCHANGED <<resting, queues, sleep, stealable, quit,
                   ret, hold, item, target, runs>>

Unpark(w) ==
    /\ permit[w]
    /\ Goto(w, "parked", "clear_idle")
    /\ permit' = [permit EXCEPT ![w] = FALSE]
    /\ UNCHANGED <<resting, queues, idle, searching, stealable, quit,
                   ret, hold, item, target, runs>>

ClearIdle(w) ==
    /\ \E from \in {"clear_idle", "found_last"} : Goto(w, from, "loop")
    /\ idle' = idle \ {w}
    /\ UNCHANGED <<resting, queues, searching, permit, stealable, quit,
                   ret, hold, item, target, runs>>

FindWorkOrPark(w) == \/ Search(w) \/ Spin(w) \/ Found(w) \/ Spun(w) \/ MarkIdle(w)
                     \/ Unsearch(w) \/ LastLook(w) \/ Park(w) \/ Unpark(w) \/ ClearIdle(w)
-----------------------------------------------------------------------------
(* The end: set_quit, flush_local, and the main thread's drain. *)

(* Mutant: the flag is set and the sleeping workers are left asleep. *)
SetQuitSilently ==
    /\ MayQuit
    /\ Goto(Quitter, "running", "done")
    /\ quit' = TRUE
    /\ UNCHANGED <<resting, queues, sleep, stealable, ret, hold, item, target, runs>>

SetQuit ==
    /\ MayQuit
    /\ Goto(Quitter, "running", "waking")
    /\ quit' = TRUE
    /\ UNCHANGED <<resting, queues, sleep, stealable, ret, hold, item, target, runs>>

WakeAll ==
    /\ Goto(Quitter, "waking", "done")
    /\ permit' = [w \in Workers |-> TRUE]
    /\ UNCHANGED <<resting, queues, idle, searching, stealable, quit,
                   ret, hold, item, target, runs>>

FlushSlot(w) ==
    /\ Goto(w, "flush", "flush_local")
    /\ injector' = IF slot[w] = NoService THEN injector ELSE Append(injector, slot[w])
    /\ slot' = [slot EXCEPT ![w] = NoService]
    /\ UNCHANGED <<resting, local, pending, sleep, stealable, quit,
                   ret, hold, item, target, runs>>

FlushLocal(w) ==
    /\ \/ \E s \in local[w] :
            /\ pc[w] = "flush_local"
            /\ local' = [local EXCEPT ![w] = @ \ {s}]
            /\ injector' = Append(injector, s)
            /\ UNCHANGED <<pc, stealable>>
       \/ /\ local[w] = {}
          /\ Goto(w, "flush_local", "exited")
          /\ stealable' = stealable \ {w}
          /\ UNCHANGED <<local, injector>>
    /\ UNCHANGED <<resting, slot, pending, sleep, quit, ret, hold, item, target, runs>>

(* After joining the workers, drain runs what is in the injector. *)
Join ==
    /\ \A w \in Workers : pc[w] = "exited"
    /\ Goto(Main, "join", "drain")
    /\ UNCHANGED <<resting, queues, sleep, stealable, quit,
                   ret, hold, item, target, runs>>

Drain ==
    /\ \/ /\ injector # <<>> /\ pc[Main] = "drain"
          /\ injector' = Tail(injector)
          /\ pending' = pending - 1
          /\ resting' = resting \cup {Head(injector)}
          /\ UNCHANGED pc
       \/ /\ injector = <<>>
          /\ Goto(Main, "drain", "drained")
          /\ UNCHANGED <<injector, pending, resting>>
    /\ UNCHANGED <<local, slot, sleep, stealable, quit, ret, hold, item, target, runs>>
-----------------------------------------------------------------------------
Init ==
    /\ resting = Services
    /\ injector = <<>>
    /\ local = [w \in Workers |-> {}]
    /\ slot = [w \in Workers |-> NoService]
    /\ pending = 0
    /\ idle = {} /\ searching = 0 /\ stealable = {} /\ quit = FALSE
    /\ permit = [w \in Workers |-> FALSE]
    /\ pc = [t \in Threads |-> IF t \in Workers THEN "loop"
                               ELSE IF t = Main THEN "join"
                               ELSE IF t = Quitter THEN "running" ELSE "outside"]
    /\ ret = [t \in Threads |-> "none"]
    /\ hold = [t \in Threads |-> NoService]
    /\ item = [t \in Threads |-> NoService]
    /\ target = [t \in Threads |-> LowestOf(Workers)]
    /\ runs = 0

(* What a worker goes on doing by itself. *)
Work(w) == \/ Push(w) \/ Pop(w) \/ Loop(w) \/ RanIdle(w)
           \/ FindWorkOrPark(w) \/ FlushSlot(w) \/ FlushLocal(w)

Next ==
    \/ \E w \in Workers : Work(w) \/ RanYielded(w) \/ \E s \in Services : WorkerPush(w, s)
    \/ \E t \in Outsiders : Push(t) \/ \E s \in Services : OutsiderPush(t, s)
    \/ SetQuit \/ WakeAll \/ Join \/ Drain

Spec == Init /\ [][Next]_vars

(* Every thread that can go on does; a visit to a service ends; nobody has *)
(* to make a service runnable or to ask the node to quit.                  *)
FairSpec ==
    /\ Spec
    /\ \A w \in Workers : WF_vars(Work(w))
    /\ \A t \in Outsiders : WF_vars(Push(t))
    /\ WF_vars(WakeAll) /\ WF_vars(Join) /\ WF_vars(Drain)
-----------------------------------------------------------------------------
(* The variables have their types; pending and searching, unsigned in       *)
(* mq.rs, never go below zero.                                              *)
TypeOK ==
    /\ resting \subseteq Services
    /\ injector \in Seq(Services)
    /\ local \in [Workers -> SUBSET Services]
    /\ slot \in [Workers -> Services \cup {NoService}]
    /\ pending \in Nat
    /\ idle \subseteq Workers /\ searching \in Nat /\ stealable \subseteq Workers
    /\ quit \in BOOLEAN /\ permit \in [Workers -> BOOLEAN]
    /\ DOMAIN pc = Threads
    /\ hold \in [Threads -> Services \cup {NoService}]
    /\ item \in [Threads -> Services \cup {NoService}]
    /\ target \in [Threads -> Workers]

(* The places a service's token can be in, as a set of names. *)
InHand(t, s) == (IF hold[t] = s THEN {<<"hold", t>>} ELSE {})
                  \cup (IF item[t] = s /\ pc[t] \in {"push", "look", "inject", "claim",
                           "offer", "place", "place_then_wake"}
                          THEN {<<"item", t>>} ELSE {})
Places(s) ==
    (IF s \in resting THEN {<<"resting">>} ELSE {})
      \cup {<<"injector", i>> : i \in {j \in DOMAIN injector : injector[j] = s}}
      \cup {<<"local", w>> : w \in {v \in Workers : s \in local[v]}}
      \cup {<<"slot", w>> : w \in {v \in Workers : slot[v] = s}}
      \cup UNION {InHand(t, s) : t \in Threads}

(* A service is always in exactly one place: one of the queues, one        *)
(* thread's hands, or at rest.  Losing it leaves its messages unread for   *)
(* ever, having it twice lets two workers run it.                          *)
OnePlace == \A s \in Services : Cardinality(Places(s)) = 1

Queued == Len(injector)
            + Cardinality({w \in Workers : slot[w] # NoService})
            + Cardinality({p \in Workers \X Services : p[2] \in local[p[1]]})

(* pending counts what is queued and what is about to be, so the early     *)
(* return of pop_runnable on zero never hides a queued service.            *)
PendingCounts ==
    pending = Queued + Cardinality({t \in Threads : pc[t] \in
                {"look", "inject", "claim", "offer", "place", "place_then_wake"}})

(* searching counts the workers between its increment and decrement, or    *)
(* pushes would rely on a searcher that does not exist.                    *)
SearchingCounts ==
    searching = Cardinality({w \in Workers :
        \/ pc[w] \in {"spin", "spun", "found", "mark_idle", "unsearch"}
        \/ ret[w] = "spin"})

(* The two counters that decide whether anybody looks, or wakes, are exact *)
(* at every moment.                                                        *)
CountersExact == PendingCounts /\ SearchingCounts

Asleep(w) == pc[w] = "parked" /\ ~permit[w]

(* The places of push, and of set_quit, from which a sleeper is still going *)
(* to be woken or looked for.                                               *)
WakerPC == {"recheck", "claim_sleeper", "offer", "place_then_wake", "wake", "waking"}

(* No lost wake-up: with a service queued, not every worker sleeps unless  *)
(* some thread is still on its way to wake one (find_work_or_park's        *)
(* argument, and the rechecks of push).                                    *)
NoLostWakeup ==
    Queued > 0 /\ (\A w \in Workers : Asleep(w)) =>
        \E t \in Threads : pc[t] \in WakerPC

(* A service handed to one worker's slot, or in the queue only its owner   *)
(* is sure to see, is never left with a worker that sleeps for good.       *)
OwnerAwake ==
    \A w \in Workers : Asleep(w) =>
        /\ local[w] = {}
        /\ slot[w] # NoService =>
             \E t \in Threads : pc[t] = "wake" /\ target[t] = w

(* Every service made runnable is eventually taken by a worker, unless the *)
(* node quits first: pushes and sleepers never wait for each other.        *)
QueuedRuns ==
    \A s \in Services :
        (s \notin resting) ~> (quit \/ s \in resting \/ \E w \in Workers : hold[w] = s)

(* Once the node is told to quit every worker leaves its loop, however it  *)
(* was sleeping, searching or running at that moment.                      *)
WorkersExit == quit ~> \A w \in Workers : pc[w] = "exited"

(* worker_loop: what is left "must be put back, or the final drain cannot  *)
(* find it"; Drop for Scheduler: "flush_local empties the handoff slots".  *)
NothingStranded ==
    pc[Main] = "drained" => \A w \in Workers : slot[w] = NoService /\ local[w] = {}

(* Nothing is lost or doubled between the queues and the counters agree    *)
(* with them (push, pop_runnable, steal, flush_local).                     *)
Accounted == TypeOK /\ OnePlace /\ CountersExact

(* No worker sleeps on work only it, or nobody awake, would find (push,    *)
(* find_work_or_park).                                                     *)
NobodySleepsOnWork == NoLostWakeup /\ OwnerAwake

(* Every queued service runs and every worker leaves when told to quit     *)
(* (worker_loop, set_quit).                                                *)
WorkersProgress == QueuedRuns /\ WorkersExit
=============================================================================
