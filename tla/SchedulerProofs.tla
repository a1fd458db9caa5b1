--------------------------- MODULE SchedulerProofs ---------------------------
(***************************************************************************)
(* Proofs about the run queues for any number of workers, other threads    *)
(* and services.  The inductive invariant has five parts: every thread     *)
(* stands where its code can be (Shape); the services are divided between  *)
(* six kinds of places (PlacesInv); pending and searching count what they  *)
(* stand for (Exact, SearchExact); and whatever is put where a worker that *)
(* is falling asleep will not look again comes with a wake-up (WatchInv).  *)
(* Each part has a lemma with one step per action.                         *)
(***************************************************************************)
EXTENDS Scheduler, FiniteSetTheorems, SequenceTheorems, TLAPS

USE SchedulerAssumption

(* The program counters: those of push, those of pop_runnable, and the     *)
(* others by what the worker has in its hands.                             *)
CarryPC == {"push", "look", "inject", "claim", "offer", "place", "place_then_wake"}
PushPC  == CarryPC \cup {"recheck", "claim_sleeper", "wake"}
PopPC   == {"pop_slot", "pop_pending", "pop_local", "pop_injector_first",
            "pop_injector", "pop_steal", "pop_victim"}
EmptyPC == {"search", "spin", "spun", "mark_idle", "unsearch", "last_look", "park",
            "parked", "clear_idle", "flush", "flush_local", "exited"}
FullPC  == {"run", "found", "found_last"}
PCs     == PushPC \cup PopPC \cup EmptyPC \cup FullPC
             \cup {"loop", "outside", "join", "drain", "drained", "running", "waking", "done"}
Rets    == {"none", "run", "loop", "flush", "outside", "yield", "dispatch", "next",
            "spin", "last"}
Pushers == Workers \cup Outsiders

USE DEF CarryPC, PushPC, PopPC, EmptyPC, FullPC, PCs, Rets

(* Types, with the counters only integers: that they never go below zero   *)
(* follows from what they count.                                           *)
QueuesTyped ==
    /\ resting \subseteq Services
    /\ injector \in Seq(Services)
    /\ local \in [Workers -> SUBSET Services]
    /\ slot \in [Workers -> Services \cup {NoService}]
    /\ pending \in Int
    /\ idle \subseteq Workers /\ searching \in Int /\ stealable \subseteq Workers
    /\ quit \in BOOLEAN /\ permit \in [Workers -> BOOLEAN]
    /\ target \in [Threads -> Workers]

ThreadsTyped ==
    /\ pc \in [Threads -> PCs] /\ ret \in [Threads -> Rets]
    /\ hold \in [Threads -> Services \cup {NoService}]
    /\ item \in [Threads -> Services \cup {NoService}]

(* Where a worker's code can stand, what it returns to, what it holds.     *)
WorkerAt(w) ==
    \/ pc[w] \in PushPC /\ ret[w] \in {"run", "loop"} /\ hold[w] # NoService
    \/ pc[w] \in PushPC /\ ret[w] = "flush" /\ hold[w] = NoService
    \/ pc[w] \in PopPC /\ ret[w] = "yield" /\ hold[w] # NoService
    \/ pc[w] \in PopPC /\ ret[w] \in {"dispatch", "next", "spin", "last"}
         /\ hold[w] = NoService
    \/ pc[w] \in EmptyPC /\ ret[w] = "none" /\ hold[w] = NoService
    \/ pc[w] \in FullPC /\ ret[w] = "none" /\ hold[w] # NoService
    \/ pc[w] = "loop" /\ ret[w] = "none"

OutsiderAt(t) ==
    /\ hold[t] = NoService
    /\ \/ pc[t] \in PushPC /\ ret[t] = "outside"
       \/ pc[t] = "outside" /\ ret[t] = "none"

StewardAt(t) ==
    /\ hold[t] = NoService /\ ret[t] = "none"
    /\ t = Main => pc[t] \in {"join", "drain", "drained"}
    /\ t = Quitter => pc[t] \in {"running", "waking", "done"}

(* A thread stands where its code can be, with what it has there; it has a *)
(* service to push exactly while it is inside push.                        *)
At(t) ==
    /\ t \in Workers => WorkerAt(t)
    /\ t \in Outsiders => OutsiderAt(t)
    /\ t \in {Main, Quitter} => StewardAt(t)
    /\ item[t] # NoService <=> pc[t] \in PushPC

Control == \A t \in Threads : At(t)

ThreadShape == ThreadsTyped /\ Control
Shape == QueuesTyped /\ ThreadShape

USE DEF Shape, ThreadShape, Threads, Pushers, queues, sleep, threads

(* What a step of thread t leaves alone: the other threads' control state. *)
OnlyMoves(t) ==
    \A u \in Threads \ {t} : /\ pc'[u] = pc[u] /\ ret'[u] = ret[u]
                            /\ hold'[u] = hold[u] /\ item'[u] = item[u]

(* So only t's own place has to be looked at. *)
LEMMA ControlStep ==
    ASSUME Control, NEW t \in Threads, OnlyMoves(t), At(t)'
    PROVE  Control'
  BY DEF Control, OnlyMoves, At, WorkerAt, OutsiderAt, StewardAt

(* A non-empty set of worker numbers has a least element. *)
LEMMA LowestIsIn ==
    ASSUME NEW S, S \subseteq Workers, S # {}
    PROVE  LowestOf(S) \in S
  <1>1. S \subseteq Nat
    OBVIOUS
  <1>2. PICK x \in S : \A y \in S : ~(<<y, x>> \in OpToRel(<, Nat))
    BY <1>1, WFMin, NatLessThanWellFounded
  <1>3. ASSUME NEW y \in S PROVE x <= y
    <2>1. ~(<<y, x>> \in {p \in Nat \X Nat : p[1] < p[2]})
      BY <1>2 DEF OpToRel
    <2>2. QED
      BY <1>1, <2>1
  <1>4. QED
    BY <1>3 DEF LowestOf

(* The worker a bitmap scan picks is one of the workers. *)
LEMMA LowestWorker == LowestOf(Workers) \in Workers
  BY LowestIsIn

(* A thread that only goes on to another place. *)
LEMMA MoveShape ==
    ASSUME ThreadShape, NEW t \in Threads, NEW p \in PCs,
           pc' = [pc EXCEPT ![t] = p], UNCHANGED <<ret, hold, item>>, At(t)'
    PROVE  ThreadShape'
  <1>1. ThreadsTyped'
    BY DEF ThreadsTyped
  <1>2. OnlyMoves(t)
    BY DEF ThreadsTyped, OnlyMoves
  <1>3. QED
    BY <1>1, <1>2, ControlStep

(* Inside push a thread goes on with what it carries. *)
LEMMA PushMoveShape ==
    ASSUME ThreadShape, NEW t \in Pushers, pc[t] \in PushPC, NEW p \in PushPC,
           pc' = [pc EXCEPT ![t] = p], UNCHANGED <<ret, hold, item>>
    PROVE  ThreadShape'
  <1>1. At(t)'
    BY DEF ThreadsTyped, Control, At, WorkerAt, OutsiderAt, StewardAt
  <1>2. QED
    BY <1>1, MoveShape

(* The end of push: back to where the thread came from. *)
LEMMA PushedShape ==
    ASSUME ThreadShape, NEW t \in Pushers, pc[t] \in PushPC, Pushed(t), UNCHANGED hold
    PROVE  ThreadShape' /\ target' = [target EXCEPT ![t] = LowestOf(Workers)]
  <1>1. ret[t] \in {"run", "loop", "flush", "outside"}
    BY DEF ThreadsTyped, Control, At, WorkerAt, OutsiderAt
  <1>2. ThreadsTyped'
    BY <1>1 DEF ThreadsTyped, Pushed
  <1>3. OnlyMoves(t)
    BY DEF ThreadsTyped, OnlyMoves, Pushed
  <1>4. At(t)'
    BY <1>1 DEF ThreadsTyped, Control, At, WorkerAt, OutsiderAt, StewardAt, Pushed
  <1>5. QED
    BY <1>2, <1>3, <1>4, ControlStep DEF Pushed

(* What a worker inside pop_runnable returns to. *)
LEMMA PopReturns ==
    ASSUME ThreadShape, NEW w \in Workers, pc[w] \in PopPC
    PROVE  /\ ret[w] \in {"yield", "dispatch", "next", "spin", "last"}
           /\ hold[w] # NoService <=> ret[w] = "yield"
           /\ item[w] = NoService
  BY DEF ThreadsTyped, Control, At, WorkerAt

(* The places a pop goes on to when it found a service ... *)
LEMMA GotCases ==
    ASSUME ThreadShape, NEW w \in Workers, pc[w] \in PopPC, NEW s \in Services, Got(w, s)
    PROVE  /\ hold' = [hold EXCEPT ![w] = s]
           /\ \/ /\ ret[w] = "yield" /\ pc' = [pc EXCEPT ![w] = "push"]
                 /\ ret' = [ret EXCEPT ![w] = "loop"] /\ item' = [item EXCEPT ![w] = hold[w]]
              \/ /\ \/ ret[w] = "dispatch" /\ pc' = [pc EXCEPT ![w] = "run"]
                    \/ ret[w] = "next" /\ pc' = [pc EXCEPT ![w] = "loop"]
                    \/ ret[w] = "spin" /\ pc' = [pc EXCEPT ![w] = "found"]
                    \/ ret[w] = "last" /\ pc' = [pc EXCEPT ![w] = "found_last"]
                 /\ ret' = [ret EXCEPT ![w] = "none"] /\ item' = item
  BY PopReturns DEF Got

(* A worker whose pop found something has it in hand. *)
LEMMA GotMoves ==
    ASSUME ThreadShape, NEW w \in Workers, pc[w] \in PopPC, NEW s \in Services, Got(w, s)
    PROVE  OnlyMoves(w) /\ hold'[w] = s
  <1>1. PICK p, r : pc' = [pc EXCEPT ![w] = p] /\ ret' = [ret EXCEPT ![w] = r]
    BY GotCases
  <1>2. item' = item \/ item' = [item EXCEPT ![w] = hold[w]]
    BY GotCases
  <1>3. hold' = [hold EXCEPT ![w] = s]
    BY GotCases
  <1>4. \A u \in Threads \ {w} : pc'[u] = pc[u] /\ ret'[u] = ret[u]
    BY <1>1 DEF ThreadsTyped
  <1>5. \A u \in Threads \ {w} : hold'[u] = hold[u] /\ item'[u] = item[u]
    BY <1>2, <1>3 DEF ThreadsTyped
  <1>6. hold'[w] = s
    BY <1>3 DEF ThreadsTyped
  <1>7. QED
    BY <1>4, <1>5, <1>6 DEF OnlyMoves

(* Returning from pop with a service leads to a legal place. *)
LEMMA GotShape ==
    ASSUME ThreadShape, NEW w \in Workers, pc[w] \in PopPC, NEW s \in Services, Got(w, s)
    PROVE  ThreadShape'
  <1>1. ThreadsTyped'
    <2>1. PICK p \in PCs, r \in Rets :
            pc' = [pc EXCEPT ![w] = p] /\ ret' = [ret EXCEPT ![w] = r]
      BY GotCases
    <2>2. item' \in [Threads -> Services \cup {NoService}]
      BY GotCases DEF ThreadsTyped
    <2>3. hold' \in [Threads -> Services \cup {NoService}]
      BY GotCases DEF ThreadsTyped
    <2>4. QED
      BY <2>1, <2>2, <2>3 DEF ThreadsTyped
  <1>2. OnlyMoves(w)
    BY GotMoves
  <1>3. At(w)'
    BY GotCases, PopReturns DEF ThreadsTyped, At, WorkerAt, OutsiderAt, StewardAt
  <1>4. QED
    BY <1>1, <1>2, <1>3, ControlStep

(* ... and when it found nothing. *)
LEMMA NothingCases ==
    ASSUME ThreadShape, NEW w \in Workers, pc[w] \in PopPC, Nothing(w)
    PROVE  /\ \/ ret[w] \in {"dispatch", "next"} /\ pc' = [pc EXCEPT ![w] = "search"]
              \/ ret[w] = "yield" /\ pc' = [pc EXCEPT ![w] = "loop"]
              \/ ret[w] = "spin" /\ pc' = [pc EXCEPT ![w] = "spun"]
              \/ ret[w] = "last" /\ pc' = [pc EXCEPT ![w] = "park"]
           /\ ret' = [ret EXCEPT ![w] = "none"] /\ hold' = hold /\ item' = item
  BY PopReturns DEF Nothing

(* So does returning from pop with nothing. *)
LEMMA NothingShape ==
    ASSUME ThreadShape, NEW w \in Workers, pc[w] \in PopPC, Nothing(w)
    PROVE  ThreadShape'
  <1>1. ThreadsTyped'
    <2>1. PICK p \in PCs : pc' = [pc EXCEPT ![w] = p]
      BY NothingCases
    <2>2. QED
      BY <2>1, NothingCases DEF ThreadsTyped
  <1>2. OnlyMoves(w)
    BY NothingCases DEF ThreadsTyped, OnlyMoves
  <1>3. At(w)'
    BY NothingCases, PopReturns DEF ThreadsTyped, At, WorkerAt, OutsiderAt, StewardAt
  <1>4. QED
    BY <1>1, <1>2, <1>3, ControlStep

(* Another place inside pop_runnable, or a new pop. *)
LEMMA PopMoveShape ==
    ASSUME ThreadShape, NEW w \in Workers, pc[w] \in PopPC, NEW p \in PopPC,
           pc' = [pc EXCEPT ![w] = p], UNCHANGED <<ret, hold, item>>
    PROVE  ThreadShape'
  <1>1. At(w)'
    BY PopReturns DEF ThreadsTyped, At, WorkerAt, OutsiderAt, StewardAt
  <1>2. QED
    BY <1>1, MoveShape

(* place keeps the types of the queues. *)
LEMMA PlaceShape ==
    ASSUME QueuesTyped, NEW t \in Pushers, item[t] \in Services, PlaceItem(t)
    PROVE  /\ injector' \in Seq(Services) /\ local' \in [Workers -> SUBSET Services]
           /\ stealable' \subseteq Workers
  <1>1. CASE HasRoom(t)
    <2>1. t \in Workers /\ local' = [local EXCEPT ![t] = @ \cup {item[t]}] /\ injector' = injector
      BY <1>1 DEF PlaceItem, HasRoom
    <2>2. stealable' \subseteq Workers
      BY <1>1, <2>1 DEF PlaceItem, QueuesTyped
    <2>3. QED
      BY <2>1, <2>2 DEF QueuesTyped
  <1>2. CASE ~HasRoom(t)
    <2>1. injector' = Append(injector, item[t]) /\ UNCHANGED <<local, stealable>>
      BY <1>2 DEF PlaceItem
    <2>2. QED
      BY <2>1 DEF QueuesTyped
  <1>3. QED
    BY <1>1, <1>2

(* Every step keeps the types and leaves each thread at a place of its code. *)
LEMMA ShapeStep == Shape /\ [Next]_vars => Shape'
  <1> SUFFICES ASSUME Shape, [Next]_vars PROVE Shape'
    OBVIOUS
  <1>1. ASSUME NEW t \in Pushers, Announce(t) PROVE Shape'
    <2>1. QueuesTyped'
      BY <1>1 DEF QueuesTyped, Announce
    <2>2. ThreadShape'
      BY <1>1, PushMoveShape DEF Announce, Goto
    <2>3. QED
      BY <2>1, <2>2
  <1>2. ASSUME NEW t \in Pushers, LookForSearcher(t) PROVE Shape'
    <2>1. QueuesTyped'
      BY <1>2 DEF QueuesTyped, LookForSearcher
    <2>2. ThreadShape'
      BY <1>2, PushMoveShape DEF LookForSearcher, Goto
    <2>3. QED
      BY <2>1, <2>2
  <1>3. ASSUME NEW t \in Pushers, Inject(t) PROVE Shape'
    <2>0. pc[t] \in CarryPC /\ item[t] \in Services
      BY <1>3 DEF ThreadsTyped, Control, At, Inject, Goto
    <2>1. QueuesTyped'
      BY <1>3, <2>0 DEF QueuesTyped, Inject
    <2>2. ThreadShape'
      BY <1>3, PushMoveShape DEF Inject, Goto
    <2>3. QED
      BY <2>1, <2>2
  <1>4. ASSUME NEW t \in Pushers, RecheckSearcher(t) PROVE Shape'
    <2>1. CASE searching = 0
      BY <1>4, <2>1, PushMoveShape DEF QueuesTyped, RecheckSearcher
    <2>2. CASE searching # 0
      <3>1. /\ target' = [target EXCEPT ![t] = LowestOf(Workers)]
            /\ UNCHANGED <<resting, queues, sleep, stealable, quit>>
        BY <1>4, <2>2 DEF RecheckSearcher, Pushed
      <3>2. QueuesTyped'
        BY SMTT(30), <3>1, LowestWorker DEF QueuesTyped
      <3>3. QED
        BY <1>4, <2>2, <3>2, PushedShape DEF RecheckSearcher
    <2>3. QED
      BY <2>1, <2>2
  <1>5. ASSUME NEW t \in Pushers, ClaimSleeper(t) PROVE Shape'
    <2>1. CASE idle # {}
      <3>1. LowestOf(idle) \in Workers
        BY <2>1, LowestIsIn DEF QueuesTyped
      <3>2. /\ idle' = idle \ {LowestOf(idle)} /\ target' = [target EXCEPT ![t] = LowestOf(idle)]
            /\ UNCHANGED <<resting, queues, searching, permit, stealable, quit>>
        BY <1>5, <2>1 DEF ClaimSleeper, ClaimIdle
      <3>3. QueuesTyped'
        BY <3>1, <3>2 DEF QueuesTyped
      <3>4. QED
        BY <1>5, <2>1, <3>3, PushMoveShape DEF ClaimSleeper, ClaimIdle
    <2>2. CASE idle = {}
      <3>1. /\ target' \in {target, [target EXCEPT ![t] = LowestOf(Workers)]}
            /\ UNCHANGED <<resting, queues, sleep, stealable, quit>>
        BY <1>5, <2>2 DEF ClaimSleeper, Pushed, ClaimIdle
      <3>2. QueuesTyped'
        BY SMTT(30), <3>1, LowestWorker DEF QueuesTyped
      <3>3. QED
        BY <1>5, <2>2, <3>2, PushedShape DEF ClaimSleeper, ClaimIdle
    <2>3. QED
      BY <2>1, <2>2
  <1>6. ASSUME NEW t \in Pushers, ClaimForHandoff(t) PROVE Shape'
    <2>1. CASE idle # {}
      <3>1. LowestOf(idle) \in Workers
        BY <2>1, LowestIsIn DEF QueuesTyped
      <3>2. /\ idle' = idle \ {LowestOf(idle)} /\ target' = [target EXCEPT ![t] = LowestOf(idle)]
            /\ UNCHANGED <<resting, queues, searching, permit, stealable, quit>>
        BY <1>6, <2>1 DEF ClaimForHandoff, ClaimIdle
      <3>3. QueuesTyped'
        BY <3>1, <3>2 DEF QueuesTyped
      <3>4. QED
        BY <1>6, <2>1, <3>3, PushMoveShape DEF ClaimForHandoff, ClaimIdle
    <2>2. CASE idle = {}
      <3>1. /\ target' \in {target, [target EXCEPT ![t] = LowestOf(Workers)]}
            /\ UNCHANGED <<resting, queues, sleep, stealable, quit>>
        BY <1>6, <2>2 DEF ClaimForHandoff, ClaimIdle
      <3>2. QueuesTyped'
        BY SMTT(30), <3>1, LowestWorker DEF QueuesTyped
      <3>3. QED
        BY <1>6, <2>2, <3>2, PushMoveShape DEF ClaimForHandoff, Goto, ClaimIdle
    <2>3. QED
      BY <2>1, <2>2
  <1>7. ASSUME NEW t \in Pushers, Offer(t) PROVE Shape'
    <2>0. pc[t] \in CarryPC /\ item[t] \in Services
      BY <1>7 DEF ThreadsTyped, Control, At, Offer, Goto
    <2>1. QueuesTyped'
      BY <1>7, <2>0 DEF QueuesTyped, Offer
    <2>2. ThreadShape'
      BY <1>7, PushMoveShape DEF Offer, Goto
    <2>3. QED
      BY <2>1, <2>2
  <1>8. ASSUME NEW t \in Pushers, PlaceThenWake(t) PROVE Shape'
    <2>0. pc[t] \in CarryPC /\ item[t] \in Services
      BY <1>8 DEF ThreadsTyped, Control, At, PlaceThenWake, Goto
    <2>1. QueuesTyped'
      <3>1. /\ target' \in {target, [target EXCEPT ![t] = LowestOf(Workers)]}
            /\ UNCHANGED <<resting, slot, pending, sleep, quit>>
        BY <1>8 DEF PlaceThenWake
      <3>2. target' \in [Threads -> Workers]
        <4>1. [target EXCEPT ![t] = LowestOf(Workers)] \in [Threads -> Workers]
          BY LowestWorker DEF QueuesTyped
        <4>2. QED
          BY ZenonT(30), <3>1, <4>1 DEF QueuesTyped
      <3>3. /\ injector' \in Seq(Services) /\ local' \in [Workers -> SUBSET Services]
            /\ stealable' \subseteq Workers
        BY <1>8, <2>0, PlaceShape DEF PlaceThenWake
      <3>4. QED
        BY <3>1, <3>2, <3>3 DEF QueuesTyped
    <2>2. ThreadShape'
      BY <1>8, PushMoveShape DEF PlaceThenWake, Goto
    <2>3. QED
      BY <2>1, <2>2
  <1>9. ASSUME NEW t \in Pushers, Place(t) PROVE Shape'
    <2>0. pc[t] \in CarryPC /\ item[t] \in Services
      BY <1>9 DEF ThreadsTyped, Control, At, Place
    <2>1. QueuesTyped'
      <3>1. /\ target' \in {target, [target EXCEPT ![t] = LowestOf(Workers)]}
            /\ UNCHANGED <<resting, slot, pending, sleep, quit>>
        BY <1>9 DEF Place, Pushed
      <3>2. target' \in [Threads -> Workers]
        <4>1. [target EXCEPT ![t] = LowestOf(Workers)] \in [Threads -> Workers]
          BY LowestWorker DEF QueuesTyped
        <4>2. QED
          BY ZenonT(30), <3>1, <4>1 DEF QueuesTyped
      <3>3. /\ injector' \in Seq(Services) /\ local' \in [Workers -> SUBSET Services]
            /\ stealable' \subseteq Workers
        BY <1>9, <2>0, PlaceShape DEF Place
      <3>4. QED
        BY <3>1, <3>2, <3>3 DEF QueuesTyped
    <2>2. ThreadShape'
      BY <1>9, PushedShape, PushMoveShape DEF Place
    <2>3. QED
      BY <2>1, <2>2
  <1>10. ASSUME NEW t \in Pushers, Wake(t) PROVE Shape'
    <2>1. QueuesTyped'
      BY <1>10, LowestWorker DEF QueuesTyped, Wake, Pushed
    <2>2. QED
      BY <1>10, <2>1, PushedShape DEF Wake
  <1>11. ASSUME NEW w \in Workers, PopSlot(w) PROVE Shape'
    <2>1. CASE slot[w] # NoService
      BY <1>11, <2>1, GotShape DEF QueuesTyped, PopSlot
    <2>2. CASE slot[w] = NoService
      BY <1>11, <2>2, PopMoveShape DEF QueuesTyped, PopSlot
    <2>3. QED
      BY <2>1, <2>2
  <1>12. ASSUME NEW w \in Workers, PopPending(w) PROVE Shape'
    <2>1. CASE pending = 0
      BY <1>12, <2>1, NothingShape DEF QueuesTyped, PopPending
    <2>2. CASE pending # 0
      BY <1>12, <2>2, PopMoveShape DEF QueuesTyped, PopPending
    <2>3. QED
      BY <2>1, <2>2
  <1>13. ASSUME NEW w \in Workers, PopLocal(w) PROVE Shape'
    <2>1. CASE local[w] # {}
      <3>1. PICK s \in local[w] : /\ local' = [local EXCEPT ![w] = @ \ {s}]
                                  /\ pending' = pending - 1 /\ Got(w, s)
        BY <1>13, <2>1 DEF PopLocal
      <3>2. QueuesTyped' /\ s \in Services
        BY <1>13, <3>1 DEF QueuesTyped, PopLocal
      <3>3. QED
        BY <1>13, <3>1, <3>2, GotShape DEF PopLocal
    <2>2. CASE local[w] = {}
      BY <1>13, <2>2, PopMoveShape DEF QueuesTyped, PopLocal
    <2>3. QED
      BY <2>1, <2>2
  <1>14. ASSUME NEW w \in Workers, PopInjector(w, "pop_injector_first", "pop_local") PROVE Shape'
    <2>1. CASE injector # <<>>
      <3>1. Head(injector) \in Services /\ Tail(injector) \in Seq(Services)
        BY <2>1, HeadTailProperties DEF QueuesTyped
      <3>2. QueuesTyped'
        <4>1. /\ injector' = Tail(injector) /\ pending' = pending - 1
              /\ UNCHANGED <<resting, local, slot, sleep, stealable, quit, target>>
          BY <1>14, <2>1 DEF PopInjector
        <4>2. QED
          BY <3>1, <4>1 DEF QueuesTyped
      <3>3. QED
        BY <1>14, <2>1, <3>1, <3>2, GotShape DEF PopInjector
    <2>2. CASE injector = <<>>
      BY <1>14, <2>2, PopMoveShape DEF QueuesTyped, PopInjector
    <2>3. QED
      BY <2>1, <2>2
  <1>15. ASSUME NEW w \in Workers, PopInjector(w, "pop_injector", "pop_steal") PROVE Shape'
    <2>1. CASE injector # <<>>
      <3>1. Head(injector) \in Services /\ Tail(injector) \in Seq(Services)
        BY <2>1, HeadTailProperties DEF QueuesTyped
      <3>2. QueuesTyped'
        <4>1. /\ injector' = Tail(injector) /\ pending' = pending - 1
              /\ UNCHANGED <<resting, local, slot, sleep, stealable, quit, target>>
          BY <1>15, <2>1 DEF PopInjector
        <4>2. QED
          BY <3>1, <4>1 DEF QueuesTyped
      <3>3. QED
        BY <1>15, <2>1, <3>1, <3>2, GotShape DEF PopInjector
    <2>2. CASE injector = <<>>
      BY <1>15, <2>2, PopMoveShape DEF QueuesTyped, PopInjector
    <2>3. QED
      BY <2>1, <2>2
  <1>16. ASSUME NEW w \in Workers, TakeStealable(w) PROVE Shape'
    <2>1. CASE Nothing(w) /\ UNCHANGED <<stealable, target>>
      BY <1>16, <2>1, NothingShape DEF QueuesTyped, TakeStealable
    <2>2. CASE \E v \in stealable \ {w} :
                 /\ stealable' = stealable \ {v} /\ target' = [target EXCEPT ![w] = v]
                 /\ pc' = [pc EXCEPT ![w] = "pop_victim"] /\ UNCHANGED <<ret, hold, item>>
      BY ZenonT(30), <1>16, <2>2, PopMoveShape DEF QueuesTyped, TakeStealable
    <2>3. QED
      BY <1>16, <2>1, <2>2 DEF TakeStealable
  <1>17. ASSUME NEW w \in Workers, StealFront(w) PROVE Shape'
    <2>1. target[w] \in Workers /\ LowestOf(Workers) \in Workers
      BY LowestIsIn DEF QueuesTyped
    <2>2. ASSUME NEW s \in local[target[w]],
                 local' = [local EXCEPT ![target[w]] = @ \ {s}], pending' = pending - 1,
                 stealable' = stealable \cup {target[w]}, Got(w, s)
          PROVE  Shape'
      <3>1. /\ target' = [target EXCEPT ![w] = LowestOf(Workers)]
            /\ UNCHANGED <<resting, injector, slot, sleep, quit>>
        BY <1>17 DEF StealFront
      <3>2. QueuesTyped' /\ s \in Services
        <4>1. local[target[w]] \subseteq Services
          BY <2>1 DEF QueuesTyped
        <4>2. local' \in [Workers -> SUBSET Services]
          BY <2>1, <2>2, <4>1 DEF QueuesTyped
        <4>3. target' \in [Threads -> Workers]
          BY <2>1, <3>1 DEF QueuesTyped
        <4>4. stealable' \subseteq Workers
          BY <2>1, <2>2 DEF QueuesTyped
        <4>5. pending' \in Int
          BY <2>2 DEF QueuesTyped
        <4>6. s \in Services
          BY <4>1
        <4>7. QED
          BY <3>1, <4>2, <4>3, <4>4, <4>5, <4>6 DEF QueuesTyped
      <3>3. QED
        BY <1>17, <2>2, <3>2, GotShape DEF StealFront
    <2>3. CASE /\ pc' = [pc EXCEPT ![w] = "pop_steal"]
               /\ UNCHANGED <<local, pending, stealable, ret, hold, item>>
      BY <1>17, <2>1, <2>3, PopMoveShape DEF QueuesTyped, StealFront
    <2>4. QED
      BY <1>17, <2>2, <2>3 DEF StealFront
  <1>18. ASSUME NEW w \in Workers, Loop(w) PROVE Shape'
    <2>1. QueuesTyped'
      BY <1>18 DEF QueuesTyped, Loop, StartPop, Goto
    <2>2. ThreadsTyped'
      <3>1. pc' \in [Threads -> PCs]
        <4>1. PICK p \in {"push", "flush", "run", "pop_slot"} : pc' = [pc EXCEPT ![w] = p]
          BY <1>18 DEF Loop, StartPop, Goto
        <4>2. QED
          BY <4>1 DEF ThreadsTyped
      <3>2. ret' \in [Threads -> Rets]
        BY <1>18 DEF ThreadsTyped, Loop, StartPop
      <3>3. hold' \in [Threads -> Services \cup {NoService}]
        BY <1>18 DEF ThreadsTyped, Loop
      <3>4. item' \in [Threads -> Services \cup {NoService}]
        BY <1>18 DEF ThreadsTyped, Loop
      <3>5. QED
        BY <3>1, <3>2, <3>3, <3>4 DEF ThreadsTyped
    <2>3. OnlyMoves(w)
      BY <1>18 DEF ThreadsTyped, OnlyMoves, Loop, StartPop, Goto
    <2>4. At(w)'
      BY <1>18
      DEF ThreadsTyped, Control, At, WorkerAt, OutsiderAt, StewardAt, Loop, StartPop,
          Goto
    <2>5. QED
      BY <2>1, <2>2, <2>3, <2>4, ControlStep
  <1>19. ASSUME NEW w \in Workers, RanIdle(w) PROVE Shape'
    <2>0. hold[w] \in Services
      BY <1>19 DEF ThreadsTyped, Control, At, WorkerAt, RanIdle, StartPop, Goto
    <2>1. QueuesTyped'
      BY <1>19, <2>0 DEF QueuesTyped, RanIdle
    <2>2. ThreadsTyped'
      BY <1>19
      DEF ThreadsTyped, Control, At, WorkerAt, OutsiderAt, StewardAt, RanIdle, StartPop,
          Goto
    <2>3. OnlyMoves(w)
      BY <1>19 DEF ThreadsTyped, OnlyMoves, RanIdle, StartPop, Goto
    <2>4. At(w)'
      BY <1>19
      DEF ThreadsTyped, Control, At, WorkerAt, OutsiderAt, StewardAt, RanIdle, StartPop,
          Goto
    <2>5. QED
      BY <2>1, <2>2, <2>3, <2>4, ControlStep
  <1>20. ASSUME NEW w \in Workers, RanYielded(w) PROVE Shape'
    <2>1. QueuesTyped'
      BY <1>20 DEF QueuesTyped, RanYielded, StartPop, Goto
    <2>2. ThreadsTyped'
      BY <1>20
      DEF ThreadsTyped, Control, At, WorkerAt, OutsiderAt, StewardAt, RanYielded,
          StartPop, Goto
    <2>3. OnlyMoves(w)
      BY <1>20 DEF ThreadsTyped, OnlyMoves, RanYielded, StartPop, Goto
    <2>4. At(w)'
      BY <1>20
      DEF ThreadsTyped, Control, At, WorkerAt, OutsiderAt, StewardAt, RanYielded,
          StartPop, Goto
    <2>5. QED
      BY <2>1, <2>2, <2>3, <2>4, ControlStep
  <1>21. ASSUME NEW w \in Workers, Search(w) PROVE Shape'
    <2>1. QueuesTyped'
      BY <1>21 DEF QueuesTyped, Search, Goto
    <2>2. ThreadsTyped'
      BY <1>21 DEF ThreadsTyped, Control, At, WorkerAt, OutsiderAt, StewardAt, Search, Goto
    <2>3. OnlyMoves(w)
      BY <1>21 DEF ThreadsTyped, OnlyMoves, Search, Goto
    <2>4. At(w)'
      BY <1>21 DEF ThreadsTyped, Control, At, WorkerAt, OutsiderAt, StewardAt, Search, Goto
    <2>5. QED
      BY <2>1, <2>2, <2>3, <2>4, ControlStep
  <1>22. ASSUME NEW w \in Workers, Spin(w) PROVE Shape'
    <2>1. QueuesTyped'
      BY <1>22 DEF QueuesTyped, Spin, StartPop, Goto
    <2>2. ThreadsTyped'
      BY <1>22
      DEF ThreadsTyped, Control, At, WorkerAt, OutsiderAt, StewardAt, Spin, StartPop,
          Goto
    <2>3. OnlyMoves(w)
      BY <1>22 DEF ThreadsTyped, OnlyMoves, Spin, StartPop, Goto
    <2>4. At(w)'
      BY <1>22
      DEF ThreadsTyped, Control, At, WorkerAt, OutsiderAt, StewardAt, Spin, StartPop,
          Goto
    <2>5. QED
      BY <2>1, <2>2, <2>3, <2>4, ControlStep
  <1>23. ASSUME NEW w \in Workers, Found(w) PROVE Shape'
    <2>1. QueuesTyped'
      BY <1>23 DEF QueuesTyped, Found, StopSearching, Goto
    <2>2. ThreadsTyped'
      BY <1>23
      DEF ThreadsTyped, Control, At, WorkerAt, OutsiderAt, StewardAt, Found,
          StopSearching, Goto
    <2>3. OnlyMoves(w)
      BY <1>23 DEF ThreadsTyped, OnlyMoves, Found, StopSearching, Goto
    <2>4. At(w)'
      BY <1>23
      DEF ThreadsTyped, Control, At, WorkerAt, OutsiderAt, StewardAt, Found,
          StopSearching, Goto
    <2>5. QED
      BY <2>1, <2>2, <2>3, <2>4, ControlStep
  <1>24. ASSUME NEW w \in Workers, Spun(w) PROVE Shape'
    <2>1. QueuesTyped'
      <3>1. searching' \in {searching, searching - 1}
        BY <1>24 DEF Spun, StopSearching
      <3>2. UNCHANGED <<resting, queues, idle, permit, stealable, quit, target>>
        BY <1>24 DEF Spun, StopSearching
      <3>3. QED
        BY <3>1, <3>2 DEF QueuesTyped
    <2>2. ThreadsTyped'
      <3>1. PICK p \in {"loop", "spin", "mark_idle"} : pc' = [pc EXCEPT ![w] = p]
        BY <1>24 DEF Spun, StopSearching, Goto
      <3>2. UNCHANGED <<ret, hold, item>>
        BY <1>24 DEF Spun, StopSearching
      <3>3. QED
        BY <3>1, <3>2 DEF ThreadsTyped
    <2>3. OnlyMoves(w)
      BY <1>24 DEF ThreadsTyped, OnlyMoves, Spun, StopSearching, Goto
    <2>4. At(w)'
      BY <1>24
      DEF ThreadsTyped, Control, At, WorkerAt, OutsiderAt, StewardAt, Spun,
          StopSearching, Goto
    <2>5. QED
      BY <2>1, <2>2, <2>3, <2>4, ControlStep
  <1>25. ASSUME NEW w \in Workers, MarkIdle(w) PROVE Shape'
    <2>1. QueuesTyped'
      BY <1>25 DEF QueuesTyped, MarkIdle, Goto
    <2>2. ThreadsTyped'
      BY <1>25
      DEF ThreadsTyped, Control, At, WorkerAt, OutsiderAt, StewardAt, MarkIdle, Goto
    <2>3. OnlyMoves(w)
      BY <1>25 DEF ThreadsTyped, OnlyMoves, MarkIdle, Goto
    <2>4. At(w)'
      BY <1>25
      DEF ThreadsTyped, Control, At, WorkerAt, OutsiderAt, StewardAt, MarkIdle, Goto
    <2>5. QED
      BY <2>1, <2>2, <2>3, <2>4, ControlStep
  <1>26. ASSUME NEW w \in Workers, Unsearch(w) PROVE Shape'
    <2>1. QueuesTyped'
      BY <1>26 DEF QueuesTyped, Unsearch, StopSearching, Goto
    <2>2. ThreadsTyped'
      BY <1>26
      DEF ThreadsTyped, Control, At, WorkerAt, OutsiderAt, StewardAt, Unsearch,
          StopSearching, Goto
    <2>3. OnlyMoves(w)
      BY <1>26 DEF ThreadsTyped, OnlyMoves, Unsearch, StopSearching, Goto
    <2>4. At(w)'
      BY <1>26
      DEF ThreadsTyped, Control, At, WorkerAt, OutsiderAt, StewardAt, Unsearch,
          StopSearching, Goto
    <2>5. QED
      BY <2>1, <2>2, <2>3, <2>4, ControlStep
  <1>27. ASSUME NEW w \in Workers, LastLook(w) PROVE Shape'
    <2>1. QueuesTyped'
      BY <1>27 DEF QueuesTyped, LastLook, StartPop, Goto
    <2>2. ThreadsTyped'
      BY <1>27
      DEF ThreadsTyped, Control, At, WorkerAt, OutsiderAt, StewardAt, LastLook, StartPop,
          Goto
    <2>3. OnlyMoves(w)
      BY <1>27 DEF ThreadsTyped, OnlyMoves, LastLook, StartPop, Goto
    <2>4. At(w)'
      BY <1>27
      DEF ThreadsTyped, Control, At, WorkerAt, OutsiderAt, StewardAt, LastLook, StartPop,
          Goto
    <2>5. QED
      BY <2>1, <2>2, <2>3, <2>4, ControlStep
  <1>28. ASSUME NEW w \in Workers, Park(w) PROVE Shape'
    <2>1. QueuesTyped'
      BY <1>28 DEF QueuesTyped, Park, Goto
    <2>2. ThreadsTyped'
      BY <1>28 DEF ThreadsTyped, Control, At, WorkerAt, OutsiderAt, StewardAt, Park, Goto
    <2>3. OnlyMoves(w)
      BY <1>28 DEF ThreadsTyped, OnlyMoves, Park, Goto
    <2>4. At(w)'
      BY <1>28 DEF ThreadsTyped, Control, At, WorkerAt, OutsiderAt, StewardAt, Park, Goto
    <2>5. QED
      BY <2>1, <2>2, <2>3, <2>4, ControlStep
  <1>29. ASSUME NEW w \in Workers, Unpark(w) PROVE Shape'
    <2>1. QueuesTyped'
      BY <1>29 DEF QueuesTyped, Unpark, Goto
    <2>2. ThreadsTyped'
      BY <1>29 DEF ThreadsTyped, Control, At, WorkerAt, OutsiderAt, StewardAt, Unpark, Goto
    <2>3. OnlyMoves(w)
      BY <1>29 DEF ThreadsTyped, OnlyMoves, Unpark, Goto
    <2>4. At(w)'
      BY <1>29 DEF ThreadsTyped, Control, At, WorkerAt, OutsiderAt, StewardAt, Unpark, Goto
    <2>5. QED
      BY <2>1, <2>2, <2>3, <2>4, ControlStep
  <1>30. ASSUME NEW w \in Workers, ClearIdle(w) PROVE Shape'
    <2>1. QueuesTyped'
      BY <1>30 DEF QueuesTyped, ClearIdle, Goto
    <2>2. ThreadsTyped'
      BY <1>30
      DEF ThreadsTyped, Control, At, WorkerAt, OutsiderAt, StewardAt, ClearIdle, Goto
    <2>3. OnlyMoves(w)
      BY <1>30 DEF ThreadsTyped, OnlyMoves, ClearIdle, Goto
    <2>4. At(w)'
      BY <1>30
      DEF ThreadsTyped, Control, At, WorkerAt, OutsiderAt, StewardAt, ClearIdle, Goto
    <2>5. QED
      BY <2>1, <2>2, <2>3, <2>4, ControlStep
  <1>31. ASSUME NEW w \in Workers, FlushSlot(w) PROVE Shape'
    <2>1. QueuesTyped'
      BY <1>31 DEF QueuesTyped, FlushSlot, Goto
    <2>2. ThreadsTyped'
      BY <1>31
      DEF ThreadsTyped, Control, At, WorkerAt, OutsiderAt, StewardAt, FlushSlot, Goto
    <2>3. OnlyMoves(w)
      BY <1>31 DEF ThreadsTyped, OnlyMoves, FlushSlot, Goto
    <2>4. At(w)'
      BY <1>31
      DEF ThreadsTyped, Control, At, WorkerAt, OutsiderAt, StewardAt, FlushSlot, Goto
    <2>5. QED
      BY <2>1, <2>2, <2>3, <2>4, ControlStep
  <1>32. ASSUME NEW w \in Workers, FlushLocal(w) PROVE Shape'
    <2>1. QueuesTyped'
      <3>1. CASE local[w] # {}
        <4>1. PICK s \in local[w] : /\ local' = [local EXCEPT ![w] = @ \ {s}]
                                    /\ injector' = Append(injector, s) /\ UNCHANGED stealable
          BY <1>32, <3>1 DEF FlushLocal
        <4>2. QED
          BY <1>32, <4>1 DEF QueuesTyped, FlushLocal
      <3>2. CASE local[w] = {}
        BY <1>32, <3>2 DEF QueuesTyped, FlushLocal
      <3>3. QED
        BY <3>1, <3>2
    <2>2. ThreadsTyped'
      BY <1>32
      DEF ThreadsTyped, Control, At, WorkerAt, OutsiderAt, StewardAt, FlushLocal, Goto
    <2>3. OnlyMoves(w)
      BY <1>32 DEF ThreadsTyped, OnlyMoves, FlushLocal, Goto
    <2>4. At(w)'
      BY <1>32
      DEF ThreadsTyped, Control, At, WorkerAt, OutsiderAt, StewardAt, FlushLocal, Goto
    <2>5. QED
      BY <2>1, <2>2, <2>3, <2>4, ControlStep
  <1>33. ASSUME NEW w \in Workers, NEW s \in Services, WorkerPush(w, s) PROVE Shape'
    <2>1. QueuesTyped'
      BY <1>33 DEF QueuesTyped, WorkerPush, StartPush, Goto
    <2>2. ThreadsTyped'
      BY <1>33
      DEF ThreadsTyped, Control, At, WorkerAt, OutsiderAt, StewardAt, WorkerPush,
          StartPush, Goto
    <2>3. OnlyMoves(w)
      BY <1>33 DEF ThreadsTyped, OnlyMoves, WorkerPush, StartPush, Goto
    <2>4. At(w)'
      BY <1>33
      DEF ThreadsTyped, Control, At, WorkerAt, OutsiderAt, StewardAt, WorkerPush,
          StartPush, Goto
    <2>5. QED
      BY <2>1, <2>2, <2>3, <2>4, ControlStep
  <1>34. ASSUME NEW t \in Outsiders, NEW s \in Services, OutsiderPush(t, s) PROVE Shape'
    <2>1. QueuesTyped'
      BY <1>34 DEF QueuesTyped, OutsiderPush, StartPush, Goto
    <2>2. ThreadsTyped'
      BY <1>34
      DEF ThreadsTyped, Control, At, WorkerAt, OutsiderAt, StewardAt, OutsiderPush,
          StartPush, Goto
    <2>3. OnlyMoves(t)
      BY <1>34 DEF ThreadsTyped, OnlyMoves, OutsiderPush, StartPush, Goto
    <2>4. At(t)'
      BY <1>34
      DEF ThreadsTyped, Control, At, WorkerAt, OutsiderAt, StewardAt, OutsiderPush,
          StartPush, Goto
    <2>5. QED
      BY <2>1, <2>2, <2>3, <2>4, ControlStep
  <1>35. ASSUME SetQuit PROVE Shape'
    <2>1. QueuesTyped'
      BY <1>35 DEF QueuesTyped, SetQuit, Goto
    <2>2. ThreadsTyped'
      BY <1>35 DEF ThreadsTyped, Control, At, WorkerAt, OutsiderAt, StewardAt, SetQuit, Goto
    <2>3. OnlyMoves(Quitter)
      BY <1>35 DEF ThreadsTyped, OnlyMoves, SetQuit, Goto
    <2>4. At(Quitter)'
      BY <1>35 DEF ThreadsTyped, Control, At, WorkerAt, OutsiderAt, StewardAt, SetQuit, Goto
    <2>5. QED
      BY <2>1, <2>2, <2>3, <2>4, ControlStep
  <1>36. ASSUME WakeAll PROVE Shape'
    <2>1. QueuesTyped'
      BY <1>36 DEF QueuesTyped, WakeAll, Goto
    <2>2. ThreadsTyped'
      BY <1>36 DEF ThreadsTyped, Control, At, WorkerAt, OutsiderAt, StewardAt, WakeAll, Goto
    <2>3. OnlyMoves(Quitter)
      BY <1>36 DEF ThreadsTyped, OnlyMoves, WakeAll, Goto
    <2>4. At(Quitter)'
      BY <1>36 DEF ThreadsTyped, Control, At, WorkerAt, OutsiderAt, StewardAt, WakeAll, Goto
    <2>5. QED
      BY <2>1, <2>2, <2>3, <2>4, ControlStep
  <1>37. ASSUME Join PROVE Shape'
    <2>1. QueuesTyped'
      BY <1>37 DEF QueuesTyped, Join, Goto
    <2>2. ThreadsTyped'
      BY <1>37 DEF ThreadsTyped, Control, At, WorkerAt, OutsiderAt, StewardAt, Join, Goto
    <2>3. OnlyMoves(Main)
      BY <1>37 DEF ThreadsTyped, OnlyMoves, Join, Goto
    <2>4. At(Main)'
      BY <1>37 DEF ThreadsTyped, Control, At, WorkerAt, OutsiderAt, StewardAt, Join, Goto
    <2>5. QED
      BY <2>1, <2>2, <2>3, <2>4, ControlStep
  <1>38. ASSUME Drain PROVE Shape'
    <2>1. QueuesTyped'
      <3>1. CASE injector # <<>>
        <4>1. Head(injector) \in Services /\ Tail(injector) \in Seq(Services)
          BY <3>1, HeadTailProperties DEF QueuesTyped
        <4>2. QED
          <5>1. /\ injector' = Tail(injector) /\ pending' = pending - 1
                /\ resting' = resting \cup {Head(injector)}
                /\ UNCHANGED <<local, slot, sleep, stealable, quit, target>>
            BY <1>38, <3>1 DEF Drain
          <5>2. QED
            BY <4>1, <5>1 DEF QueuesTyped
      <3>2. CASE injector = <<>>
        BY <1>38, <3>2 DEF QueuesTyped, Drain
      <3>3. QED
        BY <3>1, <3>2
    <2>2. ThreadsTyped'
      BY SMTT(30), <1>38 DEF ThreadsTyped, Control, At, WorkerAt, OutsiderAt, StewardAt, Drain, Goto
    <2>3. OnlyMoves(Main)
      BY <1>38 DEF ThreadsTyped, OnlyMoves, Drain, Goto
    <2>4. At(Main)'
      BY <1>38 DEF ThreadsTyped, Control, At, WorkerAt, OutsiderAt, StewardAt, Drain, Goto
    <2>5. QED
      BY <2>1, <2>2, <2>3, <2>4, ControlStep
  <1>39. ASSUME UNCHANGED vars PROVE Shape'
    BY <1>39
    DEF vars, QueuesTyped, ThreadsTyped, Control, At, WorkerAt, OutsiderAt, StewardAt
  <1>40. QED
    BY <1>1, <1>2, <1>3, <1>4, <1>5, <1>6, <1>7, <1>8, <1>9, <1>10, <1>11, <1>12, <1>13,
       <1>14, <1>15, <1>16, <1>17, <1>18, <1>19, <1>20, <1>21, <1>22, <1>23, <1>24,
       <1>25, <1>26, <1>27, <1>28, <1>29, <1>30, <1>31, <1>32, <1>33, <1>34, <1>35,
       <1>36, <1>37, <1>38, <1>39
    DEF Next, Work, Push, Pop, FindWorkOrPark

-----------------------------------------------------------------------------
(* The places of a service, as six sets of services. *)
Injected == {s \in Services : \E i \in DOMAIN injector : injector[i] = s}
InLocals == {s \in Services : \E w \in Workers : s \in local[w]}
Slotted  == {s \in Services : \E w \in Workers : slot[w] = s}
Held     == {s \in Services : \E t \in Threads : hold[t] = s}
Carried  == {s \in Services : \E t \in Threads : pc[t] \in CarryPC /\ item[t] = s}

(* No service is twice in the injector, in two local queues, two slots or  *)
(* two threads' hands.                                                     *)
SingleInjector == \A i, j \in DOMAIN injector : injector[i] = injector[j] => i = j
SingleLocal == \A v, w \in Workers : v # w => local[v] \cap local[w] = {}
SingleSlot  == \A v, w \in Workers : slot[v] = slot[w] /\ slot[v] # NoService => v = w
SingleHold  == \A t, u \in Threads : hold[t] = hold[u] /\ hold[t] # NoService => t = u
SingleCarry ==
    \A t, u \in Threads :
        pc[t] \in CarryPC /\ pc[u] \in CarryPC /\ item[t] = item[u] => t = u

QueuesSingle == SingleInjector /\ SingleLocal /\ SingleSlot
HandsSingle  == SingleHold /\ SingleCarry
Single == QueuesSingle /\ HandsSingle

(* Every service is in exactly one of the six sets. *)
Partition ==
    /\ Services \subseteq resting \cup Injected \cup InLocals \cup Slotted \cup Held \cup Carried
    /\ resting \cap (Injected \cup InLocals \cup Slotted \cup Held \cup Carried) = {}
    /\ Injected \cap (InLocals \cup Slotted \cup Held \cup Carried) = {}
    /\ InLocals \cap (Slotted \cup Held \cup Carried) = {}
    /\ Slotted \cap (Held \cup Carried) = {}
    /\ Held \cap Carried = {}

(* How each place changes: the injector, ... *)
LEMMA InjectorAppend ==
    ASSUME QueuesTyped, SingleInjector, NEW s \in Services, s \notin Injected,
           injector' = Append(injector, s)
    PROVE  Injected' = Injected \cup {s} /\ SingleInjector'
  <1>1. /\ Len(injector) \in Nat /\ DOMAIN injector = 1..Len(injector)
        /\ DOMAIN injector' = 1..(Len(injector) + 1)
        /\ \A i \in 1..Len(injector) : injector'[i] = injector[i]
        /\ injector'[Len(injector) + 1] = s
    BY DEF QueuesTyped
  <1>2. Injected' = Injected \cup {s}
    BY <1>1 DEF Injected
  <1>3. \A i \in DOMAIN injector : injector[i] # s
    BY DEF Injected
  <1>4. SingleInjector'
    BY <1>1, <1>3 DEF SingleInjector
  <1>5. QED
    BY <1>2, <1>4

(* Popping the injector takes one service out of it. *)
LEMMA InjectorTail ==
    ASSUME QueuesTyped, SingleInjector, injector # <<>>, injector' = Tail(injector)
    PROVE  /\ Head(injector) \in Injected /\ Head(injector) \in Services
           /\ Injected' = Injected \ {Head(injector)} /\ SingleInjector'
  <1>1. /\ Len(injector) \in Nat /\ DOMAIN injector = 1..Len(injector) /\ Len(injector) >= 1
        /\ Len(injector') = Len(injector) - 1 /\ DOMAIN injector' = 1..(Len(injector) - 1)
        /\ \A i \in 1..(Len(injector) - 1) : injector'[i] = injector[i + 1]
        /\ Head(injector) = injector[1] /\ Head(injector) \in Services
    BY HeadTailProperties, LenProperties, EmptySeq DEF QueuesTyped
  <1>2. Injected' \subseteq Injected
    BY <1>1 DEF Injected
  <1>3. Head(injector) \notin Injected'
    BY <1>1 DEF Injected, SingleInjector
  <1>4. ASSUME NEW s \in Injected, s # Head(injector) PROVE s \in Injected'
    <2>1. PICK i \in 1..Len(injector) : injector[i] = s
      BY <1>1 DEF Injected
    <2>2. i - 1 \in 1..(Len(injector) - 1) /\ (i - 1) + 1 = i
      BY <1>1, <1>4, <2>1
    <2>3. injector'[i - 1] = s
      BY <1>1, <2>1, <2>2
    <2>4. QED
      BY <1>1, <2>2, <2>3 DEF Injected
  <1>5. Head(injector) \in Injected
    BY <1>1 DEF Injected
  <1>6. SingleInjector'
    <2>1. ASSUME NEW i \in DOMAIN injector', NEW j \in DOMAIN injector', injector'[i] = injector'[j]
          PROVE  i = j
      <3>1. i + 1 \in DOMAIN injector /\ j + 1 \in DOMAIN injector
        BY <1>1
      <3>2. injector[i + 1] = injector[j + 1]
        BY <1>1, <2>1
      <3>3. i + 1 = j + 1
        BY <3>1, <3>2 DEF SingleInjector
      <3>4. QED
        BY <1>1, <3>3
    <2>2. QED
      BY <2>1 DEF SingleInjector
  <1>7. QED
    BY <1>1, <1>2, <1>3, <1>4, <1>5, <1>6

(* ... the local queues, ... *)
LEMMA LocalAdd ==
    ASSUME QueuesTyped, SingleLocal, NEW w \in Workers, NEW s \in Services, s \notin InLocals,
           local' = [local EXCEPT ![w] = @ \cup {s}]
    PROVE  InLocals' = InLocals \cup {s} /\ SingleLocal'
  <1>1. \A v \in Workers : local'[v] = IF v = w THEN local[v] \cup {s} ELSE local[v]
    BY DEF QueuesTyped
  <1>2. InLocals' = InLocals \cup {s}
    BY <1>1 DEF InLocals
  <1>3. SingleLocal'
    BY <1>1 DEF SingleLocal, InLocals
  <1>4. QED
    BY <1>2, <1>3

(* Popping or stealing takes one service out of one local queue. *)
LEMMA LocalRemove ==
    ASSUME QueuesTyped, SingleLocal, NEW w \in Workers, NEW s \in local[w],
           local' = [local EXCEPT ![w] = @ \ {s}]
    PROVE  s \in InLocals /\ InLocals' = InLocals \ {s} /\ SingleLocal'
  <1>1. \A v \in Workers : local'[v] = IF v = w THEN local[v] \ {s} ELSE local[v]
    BY DEF QueuesTyped
  <1>2. \A v \in Workers \ {w} : s \notin local[v]
    BY DEF SingleLocal
  <1>3. s \in InLocals /\ InLocals' = InLocals \ {s}
    BY <1>1, <1>2 DEF InLocals, QueuesTyped
  <1>4. SingleLocal'
    BY <1>1 DEF SingleLocal
  <1>5. QED
    BY <1>3, <1>4

(* ... the handoff slots, ... *)
LEMMA SlotPut ==
    ASSUME QueuesTyped, SingleSlot, NEW w \in Workers, NEW s \in Services, s \notin Slotted,
           slot[w] = NoService, slot' = [slot EXCEPT ![w] = s]
    PROVE  Slotted' = Slotted \cup {s} /\ SingleSlot'
  <1>1. \A v \in Workers : slot'[v] = IF v = w THEN s ELSE slot[v]
    BY DEF QueuesTyped
  <1>2. Slotted' = Slotted \cup {s}
    BY <1>1 DEF Slotted
  <1>3. SingleSlot'
    BY <1>1 DEF SingleSlot, Slotted, QueuesTyped
  <1>4. QED
    BY <1>2, <1>3

(* Taking from a handoff slot empties it. *)
LEMMA SlotTake ==
    ASSUME QueuesTyped, SingleSlot, NEW w \in Workers, slot[w] # NoService,
           slot' = [slot EXCEPT ![w] = NoService]
    PROVE  slot[w] \in Slotted /\ Slotted' = Slotted \ {slot[w]} /\ SingleSlot'
  <1>1. \A v \in Workers : slot'[v] = IF v = w THEN NoService ELSE slot[v]
    BY DEF QueuesTyped
  <1>2. slot[w] \in Slotted /\ Slotted' = Slotted \ {slot[w]}
    BY <1>1 DEF Slotted, SingleSlot, QueuesTyped
  <1>3. SingleSlot'
    BY <1>1 DEF SingleSlot
  <1>4. QED
    BY <1>2, <1>3

(* ... and the threads' hands. *)
LEMMA HandsSame ==
    ASSUME HandsSingle, UNCHANGED hold,
           \A u \in Threads : /\ pc'[u] \in CarryPC <=> pc[u] \in CarryPC
                              /\ pc[u] \in CarryPC => item'[u] = item[u]
    PROVE  Held' = Held /\ Carried' = Carried /\ HandsSingle'
  <1>1. Held' = Held /\ SingleHold'
    BY DEF Held, HandsSingle, SingleHold
  <1>2. Carried' = Carried
    BY DEF Carried
  <1>3. SingleCarry'
    BY DEF HandsSingle, SingleCarry
  <1>4. QED
    BY <1>1, <1>2, <1>3 DEF HandsSingle

(* A push begins: its service is in the hands of one thread. *)
LEMMA CarryStart ==
    ASSUME SingleCarry, NEW t \in Threads, pc[t] \notin CarryPC, OnlyMoves(t),
           NEW s \in Services, s \notin Carried, pc'[t] \in CarryPC, item'[t] = s
    PROVE  Carried' = Carried \cup {s} /\ SingleCarry'
  BY DEF Carried, SingleCarry, OnlyMoves

(* A push has put its service somewhere. *)
LEMMA CarryEnd ==
    ASSUME SingleCarry, NEW t \in Threads, pc[t] \in CarryPC, item[t] \in Services,
           OnlyMoves(t), pc'[t] \notin CarryPC
    PROVE  item[t] \in Carried /\ Carried' = Carried \ {item[t]} /\ SingleCarry'
  BY DEF Carried, SingleCarry, OnlyMoves

(* A step outside push moves no service that is being pushed. *)
LEMMA CarrySame ==
    ASSUME SingleCarry, NEW t \in Threads, pc[t] \notin CarryPC, OnlyMoves(t),
           pc'[t] \notin CarryPC
    PROVE  Carried' = Carried /\ SingleCarry'
  <1>1. \A u \in Threads : /\ pc'[u] \in CarryPC <=> pc[u] \in CarryPC
                           /\ pc[u] \in CarryPC => item'[u] = item[u]
    BY DEF OnlyMoves
  <1>2. Carried' = Carried
    BY <1>1 DEF Carried
  <1>3. SingleCarry'
    BY <1>1 DEF SingleCarry
  <1>4. QED
    BY <1>2, <1>3

(* A worker exchanges the service it executes. *)
LEMMA HoldSet ==
    ASSUME SingleHold, NEW t \in Threads, NEW s \in Services \cup {NoService},
           s \notin Held, hold[t] \in Services \cup {NoService},
           hold' \in [Threads -> Services \cup {NoService}], OnlyMoves(t), hold'[t] = s
    PROVE  Held' = (Held \ {hold[t]}) \cup ({s} \ {NoService}) /\ SingleHold'
  BY DEF Held, SingleHold, OnlyMoves

(* A service taken out of a queue goes into the worker's hands; one that   *)
(* was being run is then carried back by push.                             *)
LEMMA GotHands ==
    ASSUME ThreadShape, HandsSingle, Held \cap Carried = {},
           NEW w \in Workers, pc[w] \in PopPC,
           NEW s \in Services, s \notin Held \cup Carried, Got(w, s)
    PROVE  /\ Held' \cup Carried' = Held \cup Carried \cup {s}
           /\ Held' \cap Carried' = {} /\ HandsSingle'
  <1>1. OnlyMoves(w) /\ hold'[w] = s /\ ThreadShape'
    BY GotMoves, GotShape
  <1>2. hold[w] \in Services \cup {NoService} /\ s \notin Held
    BY DEF ThreadsTyped
  <1>3. hold' \in [Threads -> Services \cup {NoService}]
    BY <1>1 DEF ThreadsTyped
  <1>4. Held' = (Held \ {hold[w]}) \cup {s} /\ SingleHold'
    BY <1>1, <1>2, <1>3, HoldSet DEF HandsSingle
  <1>5. CASE ret[w] = "yield"
    <2>1. hold[w] \in Services /\ hold[w] \in Held
      BY <1>2, <1>5, PopReturns DEF Held
    <2>2. pc'[w] \in CarryPC /\ item'[w] = hold[w]
      BY <1>5, GotCases DEF ThreadsTyped
    <2>3. Carried' = Carried \cup {hold[w]} /\ SingleCarry'
      BY <1>1, <2>1, <2>2, CarryStart DEF HandsSingle
    <2>4. QED
      BY <1>4, <2>1, <2>3 DEF HandsSingle
  <1>6. CASE ret[w] # "yield"
    <2>1. hold[w] = NoService /\ hold[w] \notin Held
      BY <1>6, PopReturns DEF Held
    <2>2. pc'[w] \notin CarryPC
      BY <1>6, GotCases DEF ThreadsTyped
    <2>3. Carried' = Carried /\ SingleCarry'
      BY <1>1, <2>2, CarrySame DEF HandsSingle
    <2>4. QED
      BY <1>4, <2>1, <2>3 DEF HandsSingle
  <1>7. QED
    BY <1>5, <1>6

(* A pop that found nothing leaves the hands as they are. *)
LEMMA NothingHands ==
    ASSUME ThreadShape, HandsSingle, NEW w \in Workers, pc[w] \in PopPC, Nothing(w)
    PROVE  Held' = Held /\ Carried' = Carried /\ HandsSingle'
  <1>1. OnlyMoves(w) /\ hold' = hold /\ pc'[w] \notin CarryPC
    BY NothingCases DEF ThreadsTyped, OnlyMoves
  <1>2. Carried' = Carried /\ SingleCarry'
    BY <1>1, CarrySame DEF HandsSingle
  <1>3. QED
    BY <1>1, <1>2 DEF HandsSingle, Held, SingleHold

(* What an action leaves alone. *)
LEMMA SamePlaces ==
    ASSUME Single
    PROVE  /\ UNCHANGED injector => Injected' = Injected /\ SingleInjector'
           /\ UNCHANGED local => InLocals' = InLocals /\ SingleLocal'
           /\ UNCHANGED slot => Slotted' = Slotted /\ SingleSlot'
           /\ UNCHANGED hold => Held' = Held /\ SingleHold'
  <1>1. UNCHANGED injector => Injected' = Injected /\ SingleInjector'
    BY DEF Single, QueuesSingle, Injected, SingleInjector
  <1>2. UNCHANGED local => InLocals' = InLocals /\ SingleLocal'
    BY DEF Single, QueuesSingle, InLocals, SingleLocal
  <1>3. UNCHANGED slot => Slotted' = Slotted /\ SingleSlot'
    BY DEF Single, QueuesSingle, Slotted, SingleSlot
  <1>4. UNCHANGED hold => Held' = Held /\ SingleHold'
    BY DEF Single, HandsSingle, Held, SingleHold
  <1>5. QED
    BY <1>1, <1>2, <1>3, <1>4

PlacesInv == Partition /\ Single

(* A step that moves no service. *)
LEMMA NoServiceMoves ==
    ASSUME PlacesInv, UNCHANGED <<resting, injector, local, slot, hold>>,
           \A u \in Threads : /\ pc'[u] \in CarryPC <=> pc[u] \in CarryPC
                              /\ pc[u] \in CarryPC => item'[u] = item[u]
    PROVE  PlacesInv'
  <1>1. Held' = Held /\ Carried' = Carried /\ HandsSingle'
    BY HandsSame DEF PlacesInv, Single
  <1>2. QED
    BY <1>1, SamePlaces DEF PlacesInv, Partition, Single, QueuesSingle

(* A step of pop_runnable that finds nothing and goes on. *)
LEMMA NothingPlaces ==
    ASSUME ThreadShape, PlacesInv, NEW w \in Workers, pc[w] \in PopPC, Nothing(w),
           UNCHANGED <<resting, injector, local, slot>>
    PROVE  PlacesInv'
  <1>1. Held' = Held /\ Carried' = Carried /\ HandsSingle'
    BY NothingHands DEF PlacesInv, Single
  <1>2. QED
    BY <1>1, SamePlaces DEF PlacesInv, Partition, Single, QueuesSingle

(* Going on inside pop moves no service. *)
LEMMA PopMovePlaces ==
    ASSUME ThreadShape, PlacesInv, NEW w \in Workers, pc[w] \in PopPC, NEW p \in PopPC,
           pc' = [pc EXCEPT ![w] = p], UNCHANGED <<resting, injector, local, slot, hold, item>>
    PROVE  PlacesInv'
  <1>1. \A u \in Threads : pc'[u] \in CarryPC <=> pc[u] \in CarryPC
    BY DEF ThreadsTyped
  <1>2. QED
    BY <1>1, NoServiceMoves

(* The end of a push: the service is no longer carried. *)
LEMMA PushedPlaces ==
    ASSUME ThreadShape, PlacesInv, NEW t \in Pushers, pc[t] \in PushPC \ CarryPC,
           Pushed(t), UNCHANGED <<resting, injector, local, slot, hold>>
    PROVE  PlacesInv'
  <1>1. ret[t] \in {"run", "loop", "flush", "outside"}
    BY DEF ThreadsTyped, Control, At, WorkerAt, OutsiderAt
  <1>2. \A u \in Threads : /\ pc'[u] \in CarryPC <=> pc[u] \in CarryPC
                           /\ pc[u] \in CarryPC => item'[u] = item[u]
    BY <1>1 DEF ThreadsTyped, Pushed
  <1>3. QED
    BY <1>2, NoServiceMoves

(* A thread that carried a service and no longer does. *)
LEMMA PutDown ==
    ASSUME ThreadShape, PlacesInv, NEW t \in Pushers, pc[t] \in CarryPC,
           pc'[t] \notin CarryPC, OnlyMoves(t)
    PROVE  /\ item[t] \in Services /\ item[t] \in Carried
           /\ Carried' = Carried \ {item[t]} /\ SingleCarry'
  <1>1. item[t] \in Services
    BY DEF ThreadsTyped, Control, At
  <1>2. QED
    BY <1>1, CarryEnd DEF PlacesInv, Single, HandsSingle

(* place moves the service a thread carries into one queue. *)
LEMMA PlacePlaces ==
    ASSUME Shape, PlacesInv, NEW t \in Pushers, pc[t] \in CarryPC, pc'[t] \notin CarryPC,
           OnlyMoves(t), PlaceItem(t), UNCHANGED <<resting, slot, hold>>
    PROVE  PlacesInv'
  <1>1. /\ item[t] \in Services /\ item[t] \in Carried
        /\ Carried' = Carried \ {item[t]} /\ SingleCarry'
    BY PutDown
  <1>2. item[t] \notin Injected /\ item[t] \notin InLocals
    BY <1>1 DEF PlacesInv, Partition
  <1>3. CASE HasRoom(t)
    <2>1. t \in Workers /\ local' = [local EXCEPT ![t] = @ \cup {item[t]}] /\ injector' = injector
      BY <1>3 DEF PlaceItem, HasRoom
    <2>2. InLocals' = InLocals \cup {item[t]} /\ SingleLocal'
      BY <1>1, <1>2, <2>1, LocalAdd DEF PlacesInv, Single, QueuesSingle
    <2>3. QED
      BY <1>1, <2>1, <2>2, SamePlaces
      DEF PlacesInv, Partition, Single, QueuesSingle, HandsSingle
  <1>4. CASE ~HasRoom(t)
    <2>1. injector' = Append(injector, item[t]) /\ local' = local
      BY <1>4 DEF PlaceItem
    <2>2. Injected' = Injected \cup {item[t]} /\ SingleInjector'
      BY <1>1, <1>2, <2>1, InjectorAppend DEF PlacesInv, Single, QueuesSingle
    <2>3. QED
      BY <1>1, <2>1, <2>2, SamePlaces
      DEF PlacesInv, Partition, Single, QueuesSingle, HandsSingle
  <1>5. QED
    BY <1>3, <1>4

(* A thread whose notification found a service idle carries it off. *)
LEMMA StartPushPlaces ==
    ASSUME ThreadShape, PlacesInv, NEW t \in Pushers, pc[t] \notin CarryPC, NEW s \in Services,
           NEW from, NEW back, StartPush(t, s, from, back)
    PROVE  PlacesInv'
  <1>1. OnlyMoves(t) /\ pc'[t] \in CarryPC /\ item'[t] = s
    BY DEF ThreadsTyped, OnlyMoves, StartPush, Goto
  <1>2. Carried' = Carried \cup {s} /\ SingleCarry'
    BY <1>1, CarryStart DEF StartPush, PlacesInv, Partition, Single, HandsSingle
  <1>3. UNCHANGED <<injector, local, slot, hold>> /\ resting' = resting \ {s} /\ s \in resting
    BY DEF StartPush
  <1>4. QED
    BY <1>2, <1>3, SamePlaces DEF PlacesInv, Partition, Single, QueuesSingle, HandsSingle

(* Every step moves at most one service from one place to another, or two  *)
(* when a worker takes a service and puts back the one it was running.     *)
LEMMA PlacesStep == Shape /\ PlacesInv /\ [Next]_vars => PlacesInv'
  <1> SUFFICES ASSUME Shape, PlacesInv, [Next]_vars PROVE PlacesInv'
    OBVIOUS
  <1>1. ASSUME NEW t \in Pushers, Announce(t) PROVE PlacesInv'
    <2>1. \A u \in Threads : pc'[u] \in CarryPC <=> pc[u] \in CarryPC
      BY <1>1 DEF ThreadsTyped, Announce, Goto
    <2>2. QED
      BY <1>1, <2>1, NoServiceMoves DEF Announce, Goto
  <1>2. ASSUME NEW t \in Pushers, LookForSearcher(t) PROVE PlacesInv'
    <2>1. \A u \in Threads : pc'[u] \in CarryPC <=> pc[u] \in CarryPC
      BY <1>2 DEF ThreadsTyped, LookForSearcher, Goto
    <2>2. QED
      BY <1>2, <2>1, NoServiceMoves DEF LookForSearcher, Goto
  <1>3. ASSUME NEW t \in Pushers, Inject(t) PROVE PlacesInv'
    <2>1. pc[t] \in CarryPC /\ pc'[t] \notin CarryPC /\ OnlyMoves(t)
      BY <1>3 DEF ThreadsTyped, OnlyMoves, Inject, Goto
    <2>2. /\ item[t] \in Services /\ item[t] \in Carried
          /\ Carried' = Carried \ {item[t]} /\ SingleCarry'
      BY <2>1, PutDown
    <2>3. Injected' = Injected \cup {item[t]} /\ SingleInjector'
      BY <1>3, <2>2, InjectorAppend DEF Inject, PlacesInv, Partition, Single, QueuesSingle
    <2>4. QED
      BY <1>3, <2>2, <2>3, SamePlaces
      DEF Inject, PlacesInv, Partition, Single, QueuesSingle, HandsSingle
  <1>4. ASSUME NEW t \in Pushers, RecheckSearcher(t) PROVE PlacesInv'
    <2>1. CASE searching = 0
      <3>1. \A u \in Threads : pc'[u] \in CarryPC <=> pc[u] \in CarryPC
        BY <1>4, <2>1 DEF ThreadsTyped, RecheckSearcher
      <3>2. QED
        BY <1>4, <2>1, <3>1, NoServiceMoves DEF RecheckSearcher
    <2>2. CASE searching # 0
      BY <1>4, <2>2, PushedPlaces DEF RecheckSearcher
    <2>3. QED
      BY <2>1, <2>2
  <1>5. ASSUME NEW t \in Pushers, ClaimSleeper(t) PROVE PlacesInv'
    <2>1. CASE idle # {}
      <3>1. \A u \in Threads : pc'[u] \in CarryPC <=> pc[u] \in CarryPC
        BY <1>5, <2>1 DEF ThreadsTyped, ClaimSleeper, ClaimIdle
      <3>2. QED
        BY <1>5, <2>1, <3>1, NoServiceMoves DEF ClaimSleeper, ClaimIdle
    <2>2. CASE idle = {}
      BY <1>5, <2>2, PushedPlaces DEF ClaimSleeper, ClaimIdle
    <2>3. QED
      BY <2>1, <2>2
  <1>6. ASSUME NEW t \in Pushers, ClaimForHandoff(t) PROVE PlacesInv'
    <2>1. \A u \in Threads : pc'[u] \in CarryPC <=> pc[u] \in CarryPC
      BY <1>6 DEF ThreadsTyped, ClaimForHandoff, ClaimIdle, Goto
    <2>2. QED
      BY <1>6, <2>1, NoServiceMoves DEF ClaimForHandoff, ClaimIdle, Goto
  <1>7. ASSUME NEW t \in Pushers, Offer(t) PROVE PlacesInv'
    <2>1. CASE slot[target[t]] = NoService
      <3>1. pc[t] \in CarryPC /\ pc'[t] \notin CarryPC /\ OnlyMoves(t)
        BY <1>7, <2>1 DEF ThreadsTyped, OnlyMoves, Offer, Goto
      <3>2. /\ item[t] \in Services /\ item[t] \in Carried
            /\ Carried' = Carried \ {item[t]} /\ SingleCarry'
        BY <3>1, PutDown
      <3>3. target[t] \in Workers /\ slot' = [slot EXCEPT ![target[t]] = item[t]]
        BY <1>7, <2>1 DEF QueuesTyped, Offer
      <3>4. Slotted' = Slotted \cup {item[t]} /\ SingleSlot'
        BY <2>1, <3>2, <3>3, SlotPut DEF PlacesInv, Partition, Single, QueuesSingle
      <3>5. QED
        BY <1>7, <3>2, <3>4, SamePlaces
        DEF Offer, PlacesInv, Partition, Single, QueuesSingle, HandsSingle
    <2>2. CASE slot[target[t]] # NoService
      <3>1. \A u \in Threads : pc'[u] \in CarryPC <=> pc[u] \in CarryPC
        BY <1>7, <2>2 DEF ThreadsTyped, Offer, Goto
      <3>2. QED
        BY <1>7, <2>2, <3>1, NoServiceMoves DEF Offer
    <2>3. QED
      BY <2>1, <2>2
  <1>8. ASSUME NEW t \in Pushers, PlaceThenWake(t) PROVE PlacesInv'
    <2>1. pc[t] \in CarryPC /\ pc'[t] \notin CarryPC /\ OnlyMoves(t)
      BY <1>8 DEF ThreadsTyped, OnlyMoves, PlaceThenWake, Goto
    <2>2. QED
      BY <1>8, <2>1, PlacePlaces DEF PlaceThenWake
  <1>9. ASSUME NEW t \in Pushers, Place(t) PROVE PlacesInv'
    <2>1. ret[t] \in {"run", "loop", "flush", "outside"}
      BY <1>9 DEF ThreadsTyped, Control, At, WorkerAt, OutsiderAt, Place
    <2>2. pc[t] \in CarryPC /\ pc'[t] \notin CarryPC /\ OnlyMoves(t)
      BY <1>9, <2>1 DEF ThreadsTyped, OnlyMoves, Place, Pushed
    <2>3. QED
      BY <1>9, <2>2, PlacePlaces DEF Place
  <1>10. ASSUME NEW t \in Pushers, Wake(t) PROVE PlacesInv'
    BY <1>10, PushedPlaces DEF Wake
  <1>11. ASSUME NEW w \in Workers, PopSlot(w) PROVE PlacesInv'
    <2>1. CASE slot[w] # NoService
      <3>1. slot[w] \in Services /\ slot' = [slot EXCEPT ![w] = NoService]
        BY <1>11, <2>1 DEF QueuesTyped, PopSlot
      <3>2. slot[w] \in Slotted /\ Slotted' = Slotted \ {slot[w]} /\ SingleSlot'
        BY <2>1, <3>1, SlotTake DEF PlacesInv, Single, QueuesSingle
      <3>3. /\ Held' \cup Carried' = Held \cup Carried \cup {slot[w]}
            /\ Held' \cap Carried' = {} /\ HandsSingle'
        BY <1>11, <2>1, <3>1, <3>2, GotHands DEF PopSlot, PlacesInv, Partition, Single
      <3>4. QED
        BY <1>11, <3>1, <3>2, <3>3, SamePlaces
        DEF PopSlot, PlacesInv, Partition, Single, QueuesSingle, HandsSingle
    <2>2. CASE slot[w] = NoService
      BY <1>11, <2>2, PopMovePlaces DEF PopSlot
    <2>3. QED
      BY <2>1, <2>2
  <1>12. ASSUME NEW w \in Workers, PopPending(w) PROVE PlacesInv'
    <2>1. CASE pending = 0
      BY <1>12, <2>1, NothingPlaces DEF PopPending
    <2>2. CASE pending # 0
      BY <1>12, <2>2, PopMovePlaces DEF PopPending
    <2>3. QED
      BY <2>1, <2>2
  <1>13. ASSUME NEW w \in Workers, PopLocal(w) PROVE PlacesInv'
    <2>1. CASE local[w] # {}
      <3>0. PICK s \in local[w] : local' = [local EXCEPT ![w] = @ \ {s}] /\ Got(w, s)
        BY <1>13, <2>1 DEF PopLocal
      <3>1. s \in Services /\ Got(w, s)
        BY <3>0 DEF QueuesTyped
      <3>2. s \in InLocals /\ InLocals' = InLocals \ {s} /\ SingleLocal'
        BY <3>0, LocalRemove DEF PlacesInv, Single, QueuesSingle
      <3>3. /\ Held' \cup Carried' = Held \cup Carried \cup {s}
            /\ Held' \cap Carried' = {} /\ HandsSingle'
        BY <1>13, <2>1, <3>1, <3>2, GotHands DEF PopLocal, PlacesInv, Partition, Single
      <3>4. QED
        BY <1>13, <3>1, <3>2, <3>3, SamePlaces
        DEF PopLocal, PlacesInv, Partition, Single, QueuesSingle, HandsSingle
    <2>2. CASE local[w] = {}
      BY <1>13, <2>2, PopMovePlaces DEF PopLocal
    <2>3. QED
      BY <2>1, <2>2
  <1>14. ASSUME NEW w \in Workers, PopInjector(w, "pop_injector_first", "pop_local") PROVE PlacesInv'
    <2>1. CASE injector # <<>>
      <3>1. injector' = Tail(injector) /\ Got(w, Head(injector))
        BY <1>14, <2>1 DEF PopInjector
      <3>2. /\ Head(injector) \in Injected /\ Head(injector) \in Services
            /\ Injected' = Injected \ {Head(injector)} /\ SingleInjector'
        BY <2>1, <3>1, InjectorTail DEF PlacesInv, Single, QueuesSingle
      <3>3. /\ Held' \cup Carried' = Held \cup Carried \cup {Head(injector)}
            /\ Held' \cap Carried' = {} /\ HandsSingle'
        BY <1>14, <2>1, <3>1, <3>2, GotHands DEF PopInjector, PlacesInv, Partition, Single
      <3>4. QED
        BY <1>14, <3>1, <3>2, <3>3, SamePlaces
        DEF PopInjector, PlacesInv, Partition, Single, QueuesSingle, HandsSingle
    <2>2. CASE injector = <<>>
      BY <1>14, <2>2, PopMovePlaces DEF PopInjector
    <2>3. QED
      BY <2>1, <2>2
  <1>15. ASSUME NEW w \in Workers, PopInjector(w, "pop_injector", "pop_steal") PROVE PlacesInv'
    <2>1. CASE injector # <<>>
      <3>1. injector' = Tail(injector) /\ Got(w, Head(injector))
        BY <1>15, <2>1 DEF PopInjector
      <3>2. /\ Head(injector) \in Injected /\ Head(injector) \in Services
            /\ Injected' = Injected \ {Head(injector)} /\ SingleInjector'
        BY <2>1, <3>1, InjectorTail DEF PlacesInv, Single, QueuesSingle
      <3>3. /\ Held' \cup Carried' = Held \cup Carried \cup {Head(injector)}
            /\ Held' \cap Carried' = {} /\ HandsSingle'
        BY <1>15, <2>1, <3>1, <3>2, GotHands DEF PopInjector, PlacesInv, Partition, Single
      <3>4. QED
        BY <1>15, <3>1, <3>2, <3>3, SamePlaces
        DEF PopInjector, PlacesInv, Partition, Single, QueuesSingle, HandsSingle
    <2>2. CASE injector = <<>>
      BY <1>15, <2>2, PopMovePlaces DEF PopInjector
    <2>3. QED
      BY <2>1, <2>2
  <1>16. ASSUME NEW w \in Workers, TakeStealable(w) PROVE PlacesInv'
    <2>1. CASE Nothing(w)
      BY <1>16, <2>1, NothingPlaces DEF TakeStealable
    <2>2. CASE pc' = [pc EXCEPT ![w] = "pop_victim"] /\ UNCHANGED <<ret, hold, item>>
      BY <1>16, <2>2, PopMovePlaces DEF TakeStealable
    <2>3. QED
      BY <1>16, <2>1, <2>2 DEF TakeStealable
  <1>17. ASSUME NEW w \in Workers, StealFront(w) PROVE PlacesInv'
    <2>1. target[w] \in Workers /\ pc[w] \in PopPC /\ UNCHANGED <<resting, injector, slot>>
      BY <1>17 DEF QueuesTyped, StealFront
    <2>2. ASSUME NEW s \in local[target[w]],
                 local' = [local EXCEPT ![target[w]] = @ \ {s}], Got(w, s)
          PROVE  PlacesInv'
      <3>1. s \in InLocals /\ InLocals' = InLocals \ {s} /\ SingleLocal'
        BY <2>1, <2>2, LocalRemove DEF PlacesInv, Single, QueuesSingle
      <3>2. s \in Services /\ s \notin Held \cup Carried
        BY <3>1 DEF PlacesInv, Partition, InLocals
      <3>3. /\ Held' \cup Carried' = Held \cup Carried \cup {s}
            /\ Held' \cap Carried' = {} /\ HandsSingle'
        BY <2>1, <2>2, <3>2, GotHands DEF PlacesInv, Partition, Single
      <3>4. QED
        BY <2>1, <3>1, <3>3, SamePlaces
        DEF PlacesInv, Partition, Single, QueuesSingle, HandsSingle
    <2>3. CASE pc' = [pc EXCEPT ![w] = "pop_steal"] /\ UNCHANGED <<local, hold, item>>
      BY <2>1, <2>3, PopMovePlaces
    <2>4. QED
      BY <1>17, <2>2, <2>3 DEF StealFront
  <1>18. ASSUME NEW w \in Workers, Loop(w) PROVE PlacesInv'
    <2>1. CASE quit /\ hold[w] # NoService
      <3>1. /\ hold[w] \in Services /\ hold[w] \in Held
            /\ pc[w] \notin CarryPC /\ pc'[w] \in CarryPC /\ item'[w] = hold[w]
            /\ hold' = [hold EXCEPT ![w] = NoService] /\ OnlyMoves(w)
        BY <1>18, <2>1 DEF ThreadsTyped, OnlyMoves, Held, Loop, StartPop, Goto
      <3>2. Held' = Held \ {hold[w]} /\ SingleHold'
        <4>1. NoService \notin Held /\ hold'[w] = NoService
          BY <3>1 DEF Held, ThreadsTyped
        <4>2. hold' \in [Threads -> Services \cup {NoService}]
          BY <3>1 DEF ThreadsTyped
        <4>3. QED
          BY <3>1, <4>1, <4>2, HoldSet DEF PlacesInv, Single, HandsSingle
      <3>3. Carried' = Carried \cup {hold[w]} /\ SingleCarry'
        BY <3>1, CarryStart DEF PlacesInv, Partition, Single, HandsSingle
      <3>4. QED
        BY <1>18, <3>1, <3>2, <3>3, SamePlaces
        DEF Loop, PlacesInv, Partition, Single, QueuesSingle, HandsSingle
    <2>2. CASE ~(quit /\ hold[w] # NoService)
      <3>1. UNCHANGED <<hold, item>> /\ OnlyMoves(w) /\ pc[w] \notin CarryPC /\ pc'[w] \notin CarryPC
        BY <1>18, <2>2 DEF ThreadsTyped, OnlyMoves, Loop, StartPop, Goto
      <3>2. \A u \in Threads : pc'[u] \in CarryPC <=> pc[u] \in CarryPC
        BY <3>1 DEF OnlyMoves
      <3>3. QED
        BY <1>18, <3>1, <3>2, NoServiceMoves DEF Loop
    <2>3. QED
      BY <2>1, <2>2
  <1>19. ASSUME NEW w \in Workers, RanIdle(w) PROVE PlacesInv'
    <2>1. /\ hold[w] \in Services /\ hold[w] \in Held
          /\ pc[w] \notin CarryPC /\ pc'[w] \notin CarryPC
          /\ hold' = [hold EXCEPT ![w] = NoService] /\ OnlyMoves(w)
      BY <1>19
      DEF ThreadsTyped, Control, At, WorkerAt, OnlyMoves, Held, RanIdle, StartPop, Goto
    <2>2. Held' = Held \ {hold[w]} /\ SingleHold'
      <3>1. NoService \notin Held /\ hold'[w] = NoService
        BY <2>1 DEF Held, ThreadsTyped
      <3>2. hold' \in [Threads -> Services \cup {NoService}]
        BY <2>1 DEF ThreadsTyped
      <3>3. QED
        BY <2>1, <3>1, <3>2, HoldSet DEF PlacesInv, Single, HandsSingle
    <2>3. Carried' = Carried /\ SingleCarry'
      BY <2>1, CarrySame DEF PlacesInv, Single, HandsSingle
    <2>4. QED
      BY <1>19, <2>1, <2>2, <2>3, SamePlaces
      DEF RanIdle, PlacesInv, Partition, Single, QueuesSingle, HandsSingle
  <1>20. ASSUME NEW w \in Workers, RanYielded(w) PROVE PlacesInv'
    <2>1. \A u \in Threads : pc'[u] \in CarryPC <=> pc[u] \in CarryPC
      BY <1>20 DEF ThreadsTyped, RanYielded, StartPop, Goto
    <2>2. QED
      BY <1>20, <2>1, NoServiceMoves DEF RanYielded, StartPop, Goto
  <1>21. ASSUME NEW w \in Workers, Search(w) PROVE PlacesInv'
    <2>1. \A u \in Threads : pc'[u] \in CarryPC <=> pc[u] \in CarryPC
      BY <1>21 DEF ThreadsTyped, Search, Goto
    <2>2. QED
      BY <1>21, <2>1, NoServiceMoves DEF Search, Goto
  <1>22. ASSUME NEW w \in Workers, Spin(w) PROVE PlacesInv'
    <2>1. \A u \in Threads : pc'[u] \in CarryPC <=> pc[u] \in CarryPC
      BY <1>22 DEF ThreadsTyped, Spin, StartPop, Goto
    <2>2. QED
      BY <1>22, <2>1, NoServiceMoves DEF Spin, StartPop, Goto
  <1>23. ASSUME NEW w \in Workers, Found(w) PROVE PlacesInv'
    <2>1. \A u \in Threads : pc'[u] \in CarryPC <=> pc[u] \in CarryPC
      BY <1>23 DEF ThreadsTyped, Found, StopSearching, Goto
    <2>2. QED
      BY <1>23, <2>1, NoServiceMoves DEF Found, StopSearching, Goto
  <1>24. ASSUME NEW w \in Workers, Spun(w) PROVE PlacesInv'
    <2>1. \A u \in Threads : pc'[u] \in CarryPC <=> pc[u] \in CarryPC
      BY <1>24 DEF ThreadsTyped, Spun, StopSearching, Goto
    <2>2. QED
      BY <1>24, <2>1, NoServiceMoves DEF Spun, StopSearching, Goto
  <1>25. ASSUME NEW w \in Workers, MarkIdle(w) PROVE PlacesInv'
    <2>1. \A u \in Threads : pc'[u] \in CarryPC <=> pc[u] \in CarryPC
      BY <1>25 DEF ThreadsTyped, MarkIdle, Goto
    <2>2. QED
      BY <1>25, <2>1, NoServiceMoves DEF MarkIdle, Goto
  <1>26. ASSUME NEW w \in Workers, Unsearch(w) PROVE PlacesInv'
    <2>1. \A u \in Threads : pc'[u] \in CarryPC <=> pc[u] \in CarryPC
      BY <1>26 DEF ThreadsTyped, Unsearch, StopSearching, Goto
    <2>2. QED
      BY <1>26, <2>1, NoServiceMoves DEF Unsearch, StopSearching, Goto
  <1>27. ASSUME NEW w \in Workers, LastLook(w) PROVE PlacesInv'
    <2>1. \A u \in Threads : pc'[u] \in CarryPC <=> pc[u] \in CarryPC
      BY <1>27 DEF ThreadsTyped, LastLook, StartPop, Goto
    <2>2. QED
      BY <1>27, <2>1, NoServiceMoves DEF LastLook, StartPop, Goto
  <1>28. ASSUME NEW w \in Workers, Park(w) PROVE PlacesInv'
    <2>1. \A u \in Threads : pc'[u] \in CarryPC <=> pc[u] \in CarryPC
      BY <1>28 DEF ThreadsTyped, Park, Goto
    <2>2. QED
      BY <1>28, <2>1, NoServiceMoves DEF Park, Goto
  <1>29. ASSUME NEW w \in Workers, Unpark(w) PROVE PlacesInv'
    <2>1. \A u \in Threads : pc'[u] \in CarryPC <=> pc[u] \in CarryPC
      BY <1>29 DEF ThreadsTyped, Unpark, Goto
    <2>2. QED
      BY <1>29, <2>1, NoServiceMoves DEF Unpark, Goto
  <1>30. ASSUME NEW w \in Workers, ClearIdle(w) PROVE PlacesInv'
    <2>1. \A u \in Threads : pc'[u] \in CarryPC <=> pc[u] \in CarryPC
      BY <1>30 DEF ThreadsTyped, ClearIdle, Goto
    <2>2. QED
      BY <1>30, <2>1, NoServiceMoves DEF ClearIdle, Goto
  <1>31. ASSUME NEW w \in Workers, FlushSlot(w) PROVE PlacesInv'
    <2>1. /\ UNCHANGED <<resting, local, hold, item>>
          /\ \A u \in Threads : pc'[u] \in CarryPC <=> pc[u] \in CarryPC
      BY <1>31 DEF ThreadsTyped, FlushSlot, Goto
    <2>2. CASE slot[w] = NoService
      <3>1. UNCHANGED <<injector, slot>>
        BY <1>31, <2>2 DEF QueuesTyped, FlushSlot
      <3>2. QED
        BY <2>1, <3>1, NoServiceMoves
    <2>3. CASE slot[w] # NoService
      <3>1. /\ slot[w] \in Services /\ slot' = [slot EXCEPT ![w] = NoService]
            /\ injector' = Append(injector, slot[w])
        BY <1>31, <2>3 DEF QueuesTyped, FlushSlot
      <3>2. slot[w] \in Slotted /\ Slotted' = Slotted \ {slot[w]} /\ SingleSlot'
        BY <2>3, <3>1, SlotTake DEF PlacesInv, Single, QueuesSingle
      <3>3. Injected' = Injected \cup {slot[w]} /\ SingleInjector'
        BY <3>1, <3>2, InjectorAppend DEF PlacesInv, Partition, Single, QueuesSingle
      <3>4. Held' = Held /\ Carried' = Carried /\ HandsSingle'
        BY <2>1, HandsSame DEF PlacesInv, Single
      <3>5. QED
        BY <2>1, <3>2, <3>3, <3>4, SamePlaces
        DEF PlacesInv, Partition, Single, QueuesSingle, HandsSingle
    <2>4. QED
      BY <2>2, <2>3
  <1>32. ASSUME NEW w \in Workers, FlushLocal(w) PROVE PlacesInv'
    <2>1. /\ UNCHANGED <<resting, slot, hold, item>>
          /\ \A u \in Threads : pc'[u] \in CarryPC <=> pc[u] \in CarryPC
      BY <1>32 DEF ThreadsTyped, FlushLocal, Goto
    <2>2. CASE local[w] = {}
      BY <1>32, <2>1, <2>2, NoServiceMoves DEF FlushLocal
    <2>3. CASE local[w] # {}
      <3>1. PICK s \in local[w] : /\ local' = [local EXCEPT ![w] = @ \ {s}]
                                 /\ injector' = Append(injector, s)
        BY <1>32, <2>3 DEF FlushLocal
      <3>2. s \in InLocals /\ InLocals' = InLocals \ {s} /\ SingleLocal'
        BY <3>1, LocalRemove DEF PlacesInv, Single, QueuesSingle
      <3>3. s \in Services /\ s \notin Injected
        BY <3>2 DEF PlacesInv, Partition, InLocals
      <3>4. Injected' = Injected \cup {s} /\ SingleInjector'
        BY <3>1, <3>3, InjectorAppend DEF PlacesInv, Single, QueuesSingle
      <3>5. Held' = Held /\ Carried' = Carried /\ HandsSingle'
        BY <2>1, HandsSame DEF PlacesInv, Single
      <3>6. QED
        BY <2>1, <3>2, <3>4, <3>5, SamePlaces
        DEF PlacesInv, Partition, Single, QueuesSingle, HandsSingle
    <2>4. QED
      BY <2>2, <2>3
  <1>33. ASSUME NEW w \in Workers, NEW s \in Services, WorkerPush(w, s) PROVE PlacesInv'
    <2>1. pc[w] \notin CarryPC
      BY <1>33 DEF WorkerPush, StartPush, Goto
    <2>2. QED
      BY <1>33, <2>1, StartPushPlaces DEF WorkerPush
  <1>34. ASSUME NEW t \in Outsiders, NEW s \in Services, OutsiderPush(t, s) PROVE PlacesInv'
    <2>1. pc[t] \notin CarryPC
      BY <1>34 DEF OutsiderPush, StartPush, Goto
    <2>2. QED
      BY <1>34, <2>1, StartPushPlaces DEF OutsiderPush
  <1>35. ASSUME SetQuit PROVE PlacesInv'
    <2>1. \A u \in Threads : pc'[u] \in CarryPC <=> pc[u] \in CarryPC
      BY <1>35 DEF ThreadsTyped, SetQuit, Goto
    <2>2. QED
      BY <1>35, <2>1, NoServiceMoves DEF SetQuit, Goto
  <1>36. ASSUME WakeAll PROVE PlacesInv'
    <2>1. \A u \in Threads : pc'[u] \in CarryPC <=> pc[u] \in CarryPC
      BY <1>36 DEF ThreadsTyped, WakeAll, Goto
    <2>2. QED
      BY <1>36, <2>1, NoServiceMoves DEF WakeAll, Goto
  <1>37. ASSUME Join PROVE PlacesInv'
    <2>1. \A u \in Threads : pc'[u] \in CarryPC <=> pc[u] \in CarryPC
      BY <1>37 DEF ThreadsTyped, Join, Goto
    <2>2. QED
      BY <1>37, <2>1, NoServiceMoves DEF Join, Goto
  <1>38. ASSUME Drain PROVE PlacesInv'
    <2>1. /\ UNCHANGED <<local, slot, hold, item>>
          /\ \A u \in Threads : pc'[u] \in CarryPC <=> pc[u] \in CarryPC
      BY <1>38 DEF ThreadsTyped, Drain, Goto
    <2>2. CASE injector = <<>>
      BY <1>38, <2>1, <2>2, NoServiceMoves DEF Drain
    <2>3. CASE injector # <<>>
      <3>1. injector' = Tail(injector) /\ resting' = resting \cup {Head(injector)}
        BY <1>38, <2>3 DEF Drain
      <3>2. /\ Head(injector) \in Injected /\ Head(injector) \in Services
            /\ Injected' = Injected \ {Head(injector)} /\ SingleInjector'
        BY <2>3, <3>1, InjectorTail DEF PlacesInv, Single, QueuesSingle
      <3>3. Held' = Held /\ Carried' = Carried /\ HandsSingle'
        BY <2>1, HandsSame DEF PlacesInv, Single
      <3>4. QED
        BY <2>1, <3>1, <3>2, <3>3, SamePlaces
        DEF PlacesInv, Partition, Single, QueuesSingle, HandsSingle
    <2>4. QED
      BY <2>2, <2>3
  <1>39. ASSUME UNCHANGED vars PROVE PlacesInv'
    BY <1>39, NoServiceMoves DEF vars
  <1>40. QED
    BY <1>1, <1>2, <1>3, <1>4, <1>5, <1>6, <1>7, <1>8, <1>9, <1>10, <1>11, <1>12, <1>13,
       <1>14, <1>15, <1>16, <1>17, <1>18, <1>19, <1>20, <1>21, <1>22, <1>23, <1>24, <1>25,
       <1>26, <1>27, <1>28, <1>29, <1>30, <1>31, <1>32, <1>33, <1>34, <1>35, <1>36, <1>37,
       <1>38, <1>39
    DEF Next, Work, Push, Pop, FindWorkOrPark

(* The union of sets all but one of which are empty. *)
LEMMA OneUnion ==
    ASSUME NEW T, NEW t \in T, NEW F(_), NEW X,
           F(t) = X, \A u \in T \ {t} : F(u) = {}
    PROVE  UNION {F(u) : u \in T} = X
  OBVIOUS

(* The six sets hold the places that OnePlace counts. *)
LEMMA OnePlaceHolds ==
    ASSUME Shape, PlacesInv
    PROVE  OnePlace
  <1> SUFFICES ASSUME NEW s \in Services PROVE \E x : Places(s) = {x}
    BY FS_Singleton DEF OnePlace
  <1> DEFINE Rest == IF s \in resting THEN {<<"resting">>} ELSE {}
             Inj  == {<<"injector", i>> : i \in {j \in DOMAIN injector : injector[j] = s}}
             Loc  == {<<"local", w>> : w \in {v \in Workers : s \in local[v]}}
             Slo  == {<<"slot", w>> : w \in {v \in Workers : slot[v] = s}}
             Hand == UNION {InHand(t, s) : t \in Threads}
  <1>0. Places(s) = Rest \cup Inj \cup Loc \cup Slo \cup Hand
    BY DEF Places
  <1>1. s \notin resting => Rest = {}
    OBVIOUS
  <1>2. s \notin Injected => Inj = {}
    BY DEF Injected
  <1>3. s \notin InLocals => Loc = {}
    BY DEF InLocals
  <1>4. s \notin Slotted => Slo = {}
    BY DEF Slotted
  <1>5. s \notin Held \cup Carried => Hand = {}
    <2>1. s \notin Held \cup Carried => \A t \in Threads : InHand(t, s) = {}
      BY DEF InHand, Held, Carried
    <2>2. QED
      BY <2>1
  <1>6. s \in resting => \E x : Rest = {x}
    BY DEF Rest
  <1>7. s \in Injected => \E x : Inj = {x}
    <2> SUFFICES ASSUME s \in Injected PROVE \E x : Inj = {x}
      OBVIOUS
    <2>1. PICK i : {j \in DOMAIN injector : injector[j] = s} = {i}
      BY DEF Injected, PlacesInv, Single, QueuesSingle, SingleInjector
    <2>2. Inj = {<<"injector", i>>}
      BY <2>1
    <2>3. QED
      BY <2>2
  <1>8. s \in InLocals => \E x : Loc = {x}
    <2> SUFFICES ASSUME s \in InLocals PROVE \E x : Loc = {x}
      OBVIOUS
    <2>1. PICK w \in Workers : s \in local[w]
      BY DEF InLocals
    <2>2. {v \in Workers : s \in local[v]} = {w}
      BY <2>1 DEF PlacesInv, Single, QueuesSingle, SingleLocal
    <2>3. Loc = {<<"local", w>>}
      BY <2>2
    <2>4. QED
      BY <2>3
  <1>9. s \in Slotted => \E x : Slo = {x}
    <2> SUFFICES ASSUME s \in Slotted PROVE \E x : Slo = {x}
      OBVIOUS
    <2>1. PICK w \in Workers : slot[w] = s
      BY DEF Slotted
    <2>2. {v \in Workers : slot[v] = s} = {w}
      BY <2>1 DEF PlacesInv, Single, QueuesSingle, SingleSlot
    <2>3. Slo = {<<"slot", w>>}
      BY <2>2
    <2>4. QED
      BY <2>3
  <1>10. s \in Held => \E x : Hand = {x}
    <2> SUFFICES ASSUME s \in Held PROVE \E x : Hand = {x}
      OBVIOUS
    <2>1. s \notin Carried
      BY DEF PlacesInv, Partition
    <2>2. PICK t \in Threads : hold[t] = s
      BY DEF Held
    <2>3. InHand(t, s) = {<<"hold", t>>} /\ \A u \in Threads \ {t} : InHand(u, s) = {}
      BY <2>1, <2>2 DEF InHand, Carried, PlacesInv, Single, HandsSingle, SingleHold
    <2>4. Hand = {<<"hold", t>>}
      BY <2>2, <2>3, OneUnion
    <2>5. QED
      BY <2>4
  <1>11. s \in Carried => \E x : Hand = {x}
    <2> SUFFICES ASSUME s \in Carried PROVE \E x : Hand = {x}
      OBVIOUS
    <2>1. s \notin Held
      BY DEF PlacesInv, Partition
    <2>2. PICK t \in Threads : pc[t] \in CarryPC /\ item[t] = s
      BY DEF Carried
    <2>3. InHand(t, s) = {<<"item", t>>} /\ \A u \in Threads \ {t} : InHand(u, s) = {}
      BY <2>1, <2>2 DEF InHand, Held, PlacesInv, Single, HandsSingle, SingleCarry
    <2>4. Hand = {<<"item", t>>}
      BY <2>2, <2>3, OneUnion
    <2>5. QED
      BY <2>4
  <1> HIDE DEF Rest, Inj, Loc, Slo, Hand
  <1>12. CASE s \in resting
    <2>1. Inj = {} /\ Loc = {} /\ Slo = {} /\ Hand = {}
      BY <1>2, <1>3, <1>4, <1>5, <1>12 DEF PlacesInv, Partition
    <2>2. QED
      BY <1>0, <1>6, <1>12, <2>1
  <1>13. CASE s \in Injected
    <2>1. Rest = {} /\ Loc = {} /\ Slo = {} /\ Hand = {}
      BY <1>1, <1>3, <1>4, <1>5, <1>13 DEF PlacesInv, Partition
    <2>2. QED
      BY <1>0, <1>7, <1>13, <2>1
  <1>14. CASE s \in InLocals
    <2>1. Rest = {} /\ Inj = {} /\ Slo = {} /\ Hand = {}
      BY <1>1, <1>2, <1>4, <1>5, <1>14 DEF PlacesInv, Partition
    <2>2. QED
      BY <1>0, <1>8, <1>14, <2>1
  <1>15. CASE s \in Slotted
    <2>1. Rest = {} /\ Inj = {} /\ Loc = {} /\ Hand = {}
      BY <1>1, <1>2, <1>3, <1>5, <1>15 DEF PlacesInv, Partition
    <2>2. QED
      BY <1>0, <1>9, <1>15, <2>1
  <1>16. CASE s \in Held \cup Carried
    <2>1. Rest = {} /\ Inj = {} /\ Loc = {} /\ Slo = {}
      BY <1>1, <1>2, <1>3, <1>4, <1>16 DEF PlacesInv, Partition
    <2>2. QED
      BY <1>0, <1>10, <1>11, <1>16, <2>1
  <1>17. QED
    BY <1>12, <1>13, <1>14, <1>15, <1>16 DEF PlacesInv, Partition

-----------------------------------------------------------------------------
(* What the two counters count. *)
AnnouncedPC == CarryPC \ {"push"}
Announced   == {t \in Threads : pc[t] \in AnnouncedPC}
FullSlots   == {w \in Workers : slot[w] # NoService}
LocalPairs  == {p \in Workers \X Services : p[2] \in local[p[1]]}
SearchPC    == {"spin", "spun", "found", "mark_idle", "unsearch"}
Searchers   == {w \in Workers : pc[w] \in SearchPC \/ ret[w] = "spin"}

USE DEF AnnouncedPC, SearchPC

(* The counts of the properties, as sizes of named sets. *)
LEMMA CountsAre ==
    /\ Queued = Len(injector) + Cardinality(FullSlots) + Cardinality(LocalPairs)
    /\ PendingCounts <=> pending = Queued + Cardinality(Announced)
    /\ SearchingCounts <=> searching = Cardinality(Searchers)
  <1>1. {t \in Threads : pc[t] \in
           {"look", "inject", "claim", "offer", "place", "place_then_wake"}} = Announced
    BY DEF Announced
  <1>2. {w \in Workers : \/ pc[w] \in {"spin", "spun", "found", "mark_idle", "unsearch"}
                         \/ ret[w] = "spin"} = Searchers
    BY DEF Searchers
  <1>3. QED
    BY <1>1, <1>2 DEF Queued, PendingCounts, SearchingCounts, FullSlots, LocalPairs

(* All of these sets are finite. *)
LEMMA FiniteCounts ==
    /\ IsFiniteSet(Threads) /\ IsFiniteSet(Announced) /\ IsFiniteSet(FullSlots)
    /\ IsFiniteSet(LocalPairs) /\ IsFiniteSet(Searchers)
    /\ Cardinality(Announced) \in Nat /\ Cardinality(FullSlots) \in Nat
    /\ Cardinality(LocalPairs) \in Nat /\ Cardinality(Searchers) \in Nat
  <1>1. IsFiniteSet(Threads)
    <2>1. IsFiniteSet(Workers \cup Outsiders)
      BY FS_Union
    <2>2. IsFiniteSet((Workers \cup Outsiders) \cup {Main})
      BY <2>1, FS_AddElement
    <2>3. IsFiniteSet(((Workers \cup Outsiders) \cup {Main}) \cup {Quitter})
      BY <2>2, FS_AddElement
    <2>4. ((Workers \cup Outsiders) \cup {Main}) \cup {Quitter} = Threads
      OBVIOUS
    <2>5. QED
      BY <2>3, <2>4
  <1>2. Announced \in SUBSET Threads /\ FullSlots \in SUBSET Workers
        /\ LocalPairs \in SUBSET (Workers \X Services) /\ Searchers \in SUBSET Workers
    BY DEF Announced, FullSlots, LocalPairs, Searchers
  <1>3. IsFiniteSet(Workers \X Services)
    BY FS_Product
  <1>4. /\ IsFiniteSet(Announced) /\ IsFiniteSet(FullSlots)
        /\ IsFiniteSet(LocalPairs) /\ IsFiniteSet(Searchers)
    BY <1>1, <1>2, <1>3, FS_Subset
  <1>5. QED
    BY <1>1, <1>4, FS_CardinalityType

(* How each counted set changes. *)
LEMMA AnnouncedSame ==
    ASSUME \A u \in Threads : pc'[u] \in AnnouncedPC <=> pc[u] \in AnnouncedPC
    PROVE  Announced' = Announced
  BY DEF Announced

(* push counts its service before it inserts it. *)
LEMMA AnnouncedMore ==
    ASSUME NEW t \in Threads, OnlyMoves(t), pc[t] \notin AnnouncedPC, pc'[t] \in AnnouncedPC
    PROVE  Cardinality(Announced') = Cardinality(Announced) + 1
  <1>1. Announced' = Announced \cup {t} /\ t \notin Announced
    BY DEF Announced, OnlyMoves
  <1>2. QED
    BY <1>1, FiniteCounts, FS_AddElement

(* An insertion ends the announcement. *)
LEMMA AnnouncedLess ==
    ASSUME NEW t \in Threads, OnlyMoves(t), pc[t] \in AnnouncedPC, pc'[t] \notin AnnouncedPC
    PROVE  Cardinality(Announced') = Cardinality(Announced) - 1
  <1>1. Announced' = Announced \ {t} /\ t \in Announced
    BY DEF Announced, OnlyMoves
  <1>2. QED
    BY <1>1, FiniteCounts, FS_RemoveElement

(* A push into a local queue adds one pair. *)
LEMMA PairsMore ==
    ASSUME QueuesTyped, NEW w \in Workers, NEW s \in Services, s \notin local[w],
           local' = [local EXCEPT ![w] = @ \cup {s}]
    PROVE  Cardinality(LocalPairs') = Cardinality(LocalPairs) + 1
  <1>1. \A v \in Workers : local'[v] = IF v = w THEN local[v] \cup {s} ELSE local[v]
    BY DEF QueuesTyped
  <1>2. LocalPairs' = LocalPairs \cup {<<w, s>>} /\ <<w, s>> \notin LocalPairs
    BY <1>1 DEF LocalPairs
  <1>3. QED
    BY <1>2, FiniteCounts, FS_AddElement

(* A pop or a steal removes one pair. *)
LEMMA PairsLess ==
    ASSUME QueuesTyped, NEW w \in Workers, NEW s \in local[w],
           local' = [local EXCEPT ![w] = @ \ {s}]
    PROVE  Cardinality(LocalPairs') = Cardinality(LocalPairs) - 1
  <1>1. \A v \in Workers : local'[v] = IF v = w THEN local[v] \ {s} ELSE local[v]
    BY DEF QueuesTyped
  <1>2. LocalPairs' = LocalPairs \ {<<w, s>>} /\ <<w, s>> \in LocalPairs
    BY <1>1 DEF LocalPairs, QueuesTyped
  <1>3. QED
    BY <1>2, FiniteCounts, FS_RemoveElement

(* An offer fills one slot. *)
LEMMA SlotsMore ==
    ASSUME QueuesTyped, NEW w \in Workers, NEW s \in Services, slot[w] = NoService,
           slot' = [slot EXCEPT ![w] = s]
    PROVE  Cardinality(FullSlots') = Cardinality(FullSlots) + 1
  <1>1. FullSlots' = FullSlots \cup {w} /\ w \notin FullSlots
    BY DEF FullSlots, QueuesTyped
  <1>2. QED
    BY <1>1, FiniteCounts, FS_AddElement

(* Taking the offer empties one slot. *)
LEMMA SlotsLess ==
    ASSUME QueuesTyped, NEW w \in Workers, slot[w] # NoService,
           slot' = [slot EXCEPT ![w] = NoService]
    PROVE  Cardinality(FullSlots') = Cardinality(FullSlots) - 1
  <1>1. FullSlots' = FullSlots \ {w} /\ w \in FullSlots
    BY DEF FullSlots, QueuesTyped
  <1>2. QED
    BY <1>1, FiniteCounts, FS_RemoveElement

(* What a push and a pop do to the length of the injector. *)
LEMMA InjectorLengths ==
    ASSUME QueuesTyped
    PROVE  /\ Len(injector) \in Nat
           /\ \A s \in Services : injector' = Append(injector, s) => Len(injector') = Len(injector) + 1
           /\ injector # <<>> => Len(Tail(injector)) = Len(injector) - 1
           /\ injector # <<>> <=> Len(injector) > 0
  <1>1. Len(injector) \in Nat /\ (injector # <<>> <=> Len(injector) > 0)
    BY EmptySeq, LenProperties DEF QueuesTyped
  <1>2. \A s \in Services : injector' = Append(injector, s) => Len(injector') = Len(injector) + 1
    BY DEF QueuesTyped
  <1>3. injector # <<>> => Len(Tail(injector)) = Len(injector) - 1
    BY HeadTailProperties DEF QueuesTyped
  <1>4. QED
    BY <1>1, <1>2, <1>3

(* Queues that do not change keep their counts. *)
LEMMA SameCounts ==
    /\ UNCHANGED slot => FullSlots' = FullSlots
    /\ UNCHANGED local => LocalPairs' = LocalPairs
  BY DEF FullSlots, LocalPairs

(* pending counts the four sets. *)
Exact == pending = Len(injector) + Cardinality(FullSlots) + Cardinality(LocalPairs)
                     + Cardinality(Announced)

(* Exact is the property the run checks. *)
LEMMA ExactIs == Exact <=> PendingCounts
  BY CountsAre DEF Exact

(* A step that touches no queue keeps pending exact. *)
LEMMA NothingCounted ==
    ASSUME Exact, UNCHANGED <<injector, local, slot, pending>>,
           \A u \in Threads : pc'[u] \in AnnouncedPC <=> pc[u] \in AnnouncedPC
    PROVE  Exact'
  BY AnnouncedSame, SameCounts DEF Exact

(* place: one service more in a queue, one thread less on its way. *)
LEMMA PlaceCounts ==
    ASSUME Shape, PlacesInv, Exact, NEW t \in Pushers, pc[t] \in AnnouncedPC,
           pc'[t] \notin AnnouncedPC, OnlyMoves(t), PlaceItem(t), UNCHANGED <<slot, pending>>
    PROVE  Exact'
  <1>1. item[t] \in Services /\ item[t] \in Carried
    BY DEF ThreadsTyped, Control, At, Carried
  <1>2. Cardinality(Announced') = Cardinality(Announced) - 1
    BY AnnouncedLess
  <1>3. CASE HasRoom(t)
    <2>1. t \in Workers /\ local' = [local EXCEPT ![t] = @ \cup {item[t]}] /\ injector' = injector
      BY <1>3 DEF PlaceItem, HasRoom
    <2>2. item[t] \notin local[t]
      BY <1>1, <2>1 DEF PlacesInv, Partition, InLocals
    <2>3. Cardinality(LocalPairs') = Cardinality(LocalPairs) + 1
      BY <1>1, <2>1, <2>2, PairsMore
    <2>4. QED
      BY <1>2, <2>1, <2>3, SameCounts, FiniteCounts, InjectorLengths DEF Exact
  <1>4. CASE ~HasRoom(t)
    <2>1. injector' = Append(injector, item[t]) /\ local' = local
      BY <1>4 DEF PlaceItem
    <2>2. QED
      BY <1>1, <1>2, <2>1, SameCounts, FiniteCounts, InjectorLengths DEF Exact
  <1>5. QED
    BY <1>3, <1>4

(* A worker that takes a service announces nothing by it. *)
LEMMA GotAnnounces ==
    ASSUME ThreadShape, NEW w \in Workers, pc[w] \in PopPC, NEW s \in Services, Got(w, s)
    PROVE  Announced' = Announced
  <1>1. \A u \in Threads : pc'[u] \in AnnouncedPC <=> pc[u] \in AnnouncedPC
    BY GotCases DEF ThreadsTyped
  <1>2. QED
    BY <1>1, AnnouncedSame

(* A pop that finds nothing announces nothing. *)
LEMMA NothingAnnounces ==
    ASSUME ThreadShape, NEW w \in Workers, pc[w] \in PopPC, Nothing(w)
    PROVE  \A u \in Threads : pc'[u] \in AnnouncedPC <=> pc[u] \in AnnouncedPC
  BY NothingCases DEF ThreadsTyped

(* Every insertion and removal is counted, and nothing else is. *)
LEMMA PendingStep == Shape /\ PlacesInv /\ Exact /\ [Next]_vars => Exact'
  <1> SUFFICES ASSUME Shape, PlacesInv, Exact, [Next]_vars PROVE Exact'
    OBVIOUS
  <1>1. ASSUME NEW t \in Pushers, Announce(t) PROVE Exact'
    <2>1. pc[t] \notin AnnouncedPC /\ pc'[t] \in AnnouncedPC /\ OnlyMoves(t)
      BY <1>1 DEF ThreadsTyped, OnlyMoves, Announce, Goto
    <2>2. Cardinality(Announced') = Cardinality(Announced) + 1
      BY <2>1, AnnouncedMore
    <2>3. QED
      BY <1>1, <2>2, SameCounts, FiniteCounts, InjectorLengths DEF Exact, Announce
  <1>2. ASSUME NEW t \in Pushers, LookForSearcher(t) PROVE Exact'
    <2>1. \A u \in Threads : pc'[u] \in AnnouncedPC <=> pc[u] \in AnnouncedPC
      BY <1>2 DEF ThreadsTyped, LookForSearcher, Goto
    <2>2. QED
      BY <1>2, <2>1, NothingCounted DEF LookForSearcher, Goto
  <1>3. ASSUME NEW t \in Pushers, Inject(t) PROVE Exact'
    <2>1. pc[t] \in AnnouncedPC /\ pc'[t] \notin AnnouncedPC /\ OnlyMoves(t)
      BY <1>3 DEF ThreadsTyped, OnlyMoves, Inject, Goto
    <2>2. Cardinality(Announced') = Cardinality(Announced) - 1
      BY <2>1, AnnouncedLess
    <2>3. item[t] \in Services
      BY <2>1 DEF ThreadsTyped, Control, At
    <2>4. QED
      BY <1>3, <2>2, <2>3, SameCounts, FiniteCounts, InjectorLengths DEF Exact, Inject
  <1>4. ASSUME NEW t \in Pushers, RecheckSearcher(t) PROVE Exact'
    <2>1. ret[t] \in {"run", "loop", "flush", "outside"}
      BY <1>4 DEF ThreadsTyped, Control, At, WorkerAt, OutsiderAt, RecheckSearcher
    <2>2. \A u \in Threads : pc'[u] \in AnnouncedPC <=> pc[u] \in AnnouncedPC
      BY <1>4, <2>1 DEF ThreadsTyped, Pushed, RecheckSearcher
    <2>3. QED
      BY <1>4, <2>2, NothingCounted DEF RecheckSearcher
  <1>5. ASSUME NEW t \in Pushers, ClaimSleeper(t) PROVE Exact'
    <2>1. ret[t] \in {"run", "loop", "flush", "outside"}
      BY <1>5 DEF ThreadsTyped, Control, At, WorkerAt, OutsiderAt, ClaimSleeper, ClaimIdle
    <2>2. \A u \in Threads : pc'[u] \in AnnouncedPC <=> pc[u] \in AnnouncedPC
      BY <1>5, <2>1 DEF ThreadsTyped, Pushed, ClaimSleeper, ClaimIdle
    <2>3. QED
      BY <1>5, <2>2, NothingCounted DEF ClaimSleeper, ClaimIdle
  <1>6. ASSUME NEW t \in Pushers, ClaimForHandoff(t) PROVE Exact'
    <2>1. \A u \in Threads : pc'[u] \in AnnouncedPC <=> pc[u] \in AnnouncedPC
      BY <1>6 DEF ThreadsTyped, ClaimForHandoff, ClaimIdle, Goto
    <2>2. QED
      BY <1>6, <2>1, NothingCounted DEF ClaimForHandoff, ClaimIdle, Goto
  <1>7. ASSUME NEW t \in Pushers, Offer(t) PROVE Exact'
    <2>1. CASE slot[target[t]] = NoService
      <3>1. pc[t] \in AnnouncedPC /\ pc'[t] \notin AnnouncedPC /\ OnlyMoves(t)
        BY <1>7, <2>1 DEF ThreadsTyped, OnlyMoves, Offer, Goto
      <3>2. Cardinality(Announced') = Cardinality(Announced) - 1
        BY <3>1, AnnouncedLess
      <3>3. item[t] \in Services /\ target[t] \in Workers
        BY <3>1 DEF ThreadsTyped, Control, At, QueuesTyped
      <3>4. Cardinality(FullSlots') = Cardinality(FullSlots) + 1
        BY <1>7, <2>1, <3>3, SlotsMore DEF Offer
      <3>5. QED
        BY <1>7, <3>2, <3>4, SameCounts, FiniteCounts, InjectorLengths DEF Exact, Offer
    <2>2. CASE slot[target[t]] # NoService
      <3>1. \A u \in Threads : pc'[u] \in AnnouncedPC <=> pc[u] \in AnnouncedPC
        BY <1>7, <2>2 DEF ThreadsTyped, Offer, Goto
      <3>2. QED
        BY <1>7, <2>2, <3>1, NothingCounted DEF Offer
    <2>3. QED
      BY <2>1, <2>2
  <1>8. ASSUME NEW t \in Pushers, PlaceThenWake(t) PROVE Exact'
    <2>1. pc[t] \in AnnouncedPC /\ pc'[t] \notin AnnouncedPC /\ OnlyMoves(t)
      BY <1>8 DEF ThreadsTyped, OnlyMoves, PlaceThenWake, Goto
    <2>2. QED
      BY <1>8, <2>1, PlaceCounts DEF PlaceThenWake
  <1>9. ASSUME NEW t \in Pushers, Place(t) PROVE Exact'
    <2>1. ret[t] \in {"run", "loop", "flush", "outside"}
      BY <1>9 DEF ThreadsTyped, Control, At, WorkerAt, OutsiderAt, Place
    <2>2. pc[t] \in AnnouncedPC /\ pc'[t] \notin AnnouncedPC /\ OnlyMoves(t)
      BY <1>9, <2>1 DEF ThreadsTyped, OnlyMoves, Place, Pushed
    <2>3. QED
      BY <1>9, <2>2, PlaceCounts DEF Place
  <1>10. ASSUME NEW t \in Pushers, Wake(t) PROVE Exact'
    <2>1. ret[t] \in {"run", "loop", "flush", "outside"}
      BY <1>10 DEF ThreadsTyped, Control, At, WorkerAt, OutsiderAt, Wake
    <2>2. \A u \in Threads : pc'[u] \in AnnouncedPC <=> pc[u] \in AnnouncedPC
      BY <1>10, <2>1 DEF ThreadsTyped, Pushed, Wake
    <2>3. QED
      BY <1>10, <2>2, NothingCounted DEF Wake
  <1>11. ASSUME NEW w \in Workers, PopSlot(w) PROVE Exact'
    <2>1. CASE slot[w] # NoService
      <3>1. slot[w] \in Services /\ Got(w, slot[w])
        BY <1>11, <2>1 DEF QueuesTyped, PopSlot
      <3>2. Announced' = Announced
        BY <1>11, <2>1, <3>1, GotAnnounces DEF PopSlot
      <3>3. Cardinality(FullSlots') = Cardinality(FullSlots) - 1
        BY <1>11, <2>1, SlotsLess DEF PopSlot
      <3>4. QED
        BY <1>11, <2>1, <3>1, <3>2, <3>3, SameCounts, FiniteCounts, InjectorLengths
        DEF Exact, PopSlot
    <2>2. CASE slot[w] = NoService
      <3>1. \A u \in Threads : pc'[u] \in AnnouncedPC <=> pc[u] \in AnnouncedPC
        BY <1>11, <2>2 DEF ThreadsTyped, PopSlot
      <3>2. QED
        BY <1>11, <2>2, <3>1, NothingCounted DEF PopSlot
    <2>3. QED
      BY <2>1, <2>2
  <1>12. ASSUME NEW w \in Workers, PopPending(w) PROVE Exact'
    <2>1. \A u \in Threads : pc'[u] \in AnnouncedPC <=> pc[u] \in AnnouncedPC
      BY <1>12, NothingAnnounces DEF ThreadsTyped, PopPending
    <2>2. QED
      BY <1>12, <2>1, NothingCounted DEF PopPending
  <1>13. ASSUME NEW w \in Workers, PopLocal(w) PROVE Exact'
    <2>1. CASE local[w] # {}
      <3>0. PICK s \in local[w] : /\ local' = [local EXCEPT ![w] = @ \ {s}]
                                 /\ pending' = pending - 1 /\ Got(w, s)
        BY <1>13, <2>1 DEF PopLocal
      <3>1. s \in Services /\ Got(w, s) /\ pending' = pending - 1
        BY <3>0 DEF QueuesTyped
      <3>2. Announced' = Announced
        BY <1>13, <2>1, <3>1, GotAnnounces DEF PopLocal
      <3>3. Cardinality(LocalPairs') = Cardinality(LocalPairs) - 1
        BY <3>0, PairsLess
      <3>4. QED
        BY <1>13, <2>1, <3>1, <3>2, <3>3, SameCounts, FiniteCounts, InjectorLengths
        DEF Exact, PopLocal
    <2>2. CASE local[w] = {}
      <3>1. \A u \in Threads : pc'[u] \in AnnouncedPC <=> pc[u] \in AnnouncedPC
        BY <1>13, <2>2 DEF ThreadsTyped, PopLocal
      <3>2. QED
        BY <1>13, <2>2, <3>1, NothingCounted DEF PopLocal
    <2>3. QED
      BY <2>1, <2>2
  <1>14. ASSUME NEW w \in Workers, PopInjector(w, "pop_injector_first", "pop_local") PROVE Exact'
    <2>1. CASE injector # <<>>
      <3>1. Head(injector) \in Services /\ Got(w, Head(injector)) /\ injector' = Tail(injector)
        BY <1>14, <2>1, HeadTailProperties DEF QueuesTyped, PopInjector
      <3>2. Announced' = Announced
        BY <1>14, <2>1, <3>1, GotAnnounces DEF PopInjector
      <3>3. /\ Len(injector') = Len(injector) - 1 /\ pending' = pending - 1
            /\ UNCHANGED <<local, slot>>
        BY <1>14, <2>1, <3>1, InjectorLengths DEF PopInjector
      <3>4. QED
        BY <3>2, <3>3, SameCounts, FiniteCounts, InjectorLengths DEF Exact
    <2>2. CASE injector = <<>>
      <3>1. \A u \in Threads : pc'[u] \in AnnouncedPC <=> pc[u] \in AnnouncedPC
        BY <1>14, <2>2 DEF ThreadsTyped, PopInjector
      <3>2. QED
        BY <1>14, <2>2, <3>1, NothingCounted DEF PopInjector
    <2>3. QED
      BY <2>1, <2>2
  <1>15. ASSUME NEW w \in Workers, PopInjector(w, "pop_injector", "pop_steal") PROVE Exact'
    <2>1. CASE injector # <<>>
      <3>1. Head(injector) \in Services /\ Got(w, Head(injector)) /\ injector' = Tail(injector)
        BY <1>15, <2>1, HeadTailProperties DEF QueuesTyped, PopInjector
      <3>2. Announced' = Announced
        BY <1>15, <2>1, <3>1, GotAnnounces DEF PopInjector
      <3>3. /\ Len(injector') = Len(injector) - 1 /\ pending' = pending - 1
            /\ UNCHANGED <<local, slot>>
        BY <1>15, <2>1, <3>1, InjectorLengths DEF PopInjector
      <3>4. QED
        BY <3>2, <3>3, SameCounts, FiniteCounts, InjectorLengths DEF Exact
    <2>2. CASE injector = <<>>
      <3>1. \A u \in Threads : pc'[u] \in AnnouncedPC <=> pc[u] \in AnnouncedPC
        BY <1>15, <2>2 DEF ThreadsTyped, PopInjector
      <3>2. QED
        BY <1>15, <2>2, <3>1, NothingCounted DEF PopInjector
    <2>3. QED
      BY <2>1, <2>2
  <1>16. ASSUME NEW w \in Workers, TakeStealable(w) PROVE Exact'
    <2>1. \A u \in Threads : pc'[u] \in AnnouncedPC <=> pc[u] \in AnnouncedPC
      BY <1>16, NothingAnnounces DEF ThreadsTyped, TakeStealable
    <2>2. QED
      BY <1>16, <2>1, NothingCounted DEF TakeStealable
  <1>17. ASSUME NEW w \in Workers, StealFront(w) PROVE Exact'
    <2>1. target[w] \in Workers /\ pc[w] \in PopPC /\ UNCHANGED <<injector, slot>>
      BY <1>17 DEF QueuesTyped, StealFront
    <2>2. ASSUME NEW s \in local[target[w]], pending' = pending - 1,
                 local' = [local EXCEPT ![target[w]] = @ \ {s}], Got(w, s)
          PROVE  Exact'
      <3>1. s \in Services
        BY <2>1 DEF QueuesTyped
      <3>2. Announced' = Announced
        BY <2>1, <2>2, <3>1, GotAnnounces
      <3>3. Cardinality(LocalPairs') = Cardinality(LocalPairs) - 1
        BY <2>1, <2>2, PairsLess
      <3>4. QED
        BY <2>1, <2>2, <3>2, <3>3, SameCounts, FiniteCounts, InjectorLengths DEF Exact
    <2>3. CASE pc' = [pc EXCEPT ![w] = "pop_steal"] /\ UNCHANGED <<local, pending>>
      <3>1. \A u \in Threads : pc'[u] \in AnnouncedPC <=> pc[u] \in AnnouncedPC
        BY <2>1, <2>3 DEF ThreadsTyped
      <3>2. QED
        BY <2>1, <2>3, <3>1, NothingCounted
    <2>4. QED
      BY <1>17, <2>2, <2>3 DEF StealFront
  <1>18. ASSUME NEW w \in Workers, Loop(w) PROVE Exact'
    <2>1. \A u \in Threads : pc'[u] \in AnnouncedPC <=> pc[u] \in AnnouncedPC
      BY <1>18 DEF ThreadsTyped, Loop, StartPop, Goto
    <2>2. QED
      BY <1>18, <2>1, NothingCounted DEF Loop, StartPop, Goto
  <1>19. ASSUME NEW w \in Workers, RanIdle(w) PROVE Exact'
    <2>1. \A u \in Threads : pc'[u] \in AnnouncedPC <=> pc[u] \in AnnouncedPC
      BY <1>19 DEF ThreadsTyped, RanIdle, StartPop, Goto
    <2>2. QED
      BY <1>19, <2>1, NothingCounted DEF RanIdle, StartPop, Goto
  <1>20. ASSUME NEW w \in Workers, RanYielded(w) PROVE Exact'
    <2>1. \A u \in Threads : pc'[u] \in AnnouncedPC <=> pc[u] \in AnnouncedPC
      BY <1>20 DEF ThreadsTyped, RanYielded, StartPop, Goto
    <2>2. QED
      BY <1>20, <2>1, NothingCounted DEF RanYielded, StartPop, Goto
  <1>21. ASSUME NEW w \in Workers, Search(w) PROVE Exact'
    <2>1. \A u \in Threads : pc'[u] \in AnnouncedPC <=> pc[u] \in AnnouncedPC
      BY <1>21 DEF ThreadsTyped, Search, Goto
    <2>2. QED
      BY <1>21, <2>1, NothingCounted DEF Search, Goto
  <1>22. ASSUME NEW w \in Workers, Spin(w) PROVE Exact'
    <2>1. \A u \in Threads : pc'[u] \in AnnouncedPC <=> pc[u] \in AnnouncedPC
      BY <1>22 DEF ThreadsTyped, Spin, StartPop, Goto
    <2>2. QED
      BY <1>22, <2>1, NothingCounted DEF Spin, StartPop, Goto
  <1>23. ASSUME NEW w \in Workers, Found(w) PROVE Exact'
    <2>1. \A u \in Threads : pc'[u] \in AnnouncedPC <=> pc[u] \in AnnouncedPC
      BY <1>23 DEF ThreadsTyped, Found, StopSearching, Goto
    <2>2. QED
      BY <1>23, <2>1, NothingCounted DEF Found, StopSearching, Goto
  <1>24. ASSUME NEW w \in Workers, Spun(w) PROVE Exact'
    <2>1. \A u \in Threads : pc'[u] \in AnnouncedPC <=> pc[u] \in AnnouncedPC
      BY <1>24 DEF ThreadsTyped, Spun, StopSearching, Goto
    <2>2. QED
      BY <1>24, <2>1, NothingCounted DEF Spun, StopSearching, Goto
  <1>25. ASSUME NEW w \in Workers, MarkIdle(w) PROVE Exact'
    <2>1. \A u \in Threads : pc'[u] \in AnnouncedPC <=> pc[u] \in AnnouncedPC
      BY <1>25 DEF ThreadsTyped, MarkIdle, Goto
    <2>2. QED
      BY <1>25, <2>1, NothingCounted DEF MarkIdle, Goto
  <1>26. ASSUME NEW w \in Workers, Unsearch(w) PROVE Exact'
    <2>1. \A u \in Threads : pc'[u] \in AnnouncedPC <=> pc[u] \in AnnouncedPC
      BY <1>26 DEF ThreadsTyped, Unsearch, StopSearching, Goto
    <2>2. QED
      BY <1>26, <2>1, NothingCounted DEF Unsearch, StopSearching, Goto
  <1>27. ASSUME NEW w \in Workers, LastLook(w) PROVE Exact'
    <2>1. \A u \in Threads : pc'[u] \in AnnouncedPC <=> pc[u] \in AnnouncedPC
      BY <1>27 DEF ThreadsTyped, LastLook, StartPop, Goto
    <2>2. QED
      BY <1>27, <2>1, NothingCounted DEF LastLook, StartPop, Goto
  <1>28. ASSUME NEW w \in Workers, Park(w) PROVE Exact'
    <2>1. \A u \in Threads : pc'[u] \in AnnouncedPC <=> pc[u] \in AnnouncedPC
      BY <1>28 DEF ThreadsTyped, Park, Goto
    <2>2. QED
      BY <1>28, <2>1, NothingCounted DEF Park, Goto
  <1>29. ASSUME NEW w \in Workers, Unpark(w) PROVE Exact'
    <2>1. \A u \in Threads : pc'[u] \in AnnouncedPC <=> pc[u] \in AnnouncedPC
      BY <1>29 DEF ThreadsTyped, Unpark, Goto
    <2>2. QED
      BY <1>29, <2>1, NothingCounted DEF Unpark, Goto
  <1>30. ASSUME NEW w \in Workers, ClearIdle(w) PROVE Exact'
    <2>1. \A u \in Threads : pc'[u] \in AnnouncedPC <=> pc[u] \in AnnouncedPC
      BY <1>30 DEF ThreadsTyped, ClearIdle, Goto
    <2>2. QED
      BY <1>30, <2>1, NothingCounted DEF ClearIdle, Goto
  <1>31. ASSUME NEW w \in Workers, FlushSlot(w) PROVE Exact'
    <2>1. UNCHANGED <<local, pending>> /\ \A u \in Threads : pc'[u] \in AnnouncedPC <=> pc[u] \in AnnouncedPC
      BY <1>31 DEF ThreadsTyped, FlushSlot, Goto
    <2>2. CASE slot[w] = NoService
      <3>1. UNCHANGED <<injector, slot>>
        BY <1>31, <2>2 DEF QueuesTyped, FlushSlot
      <3>2. QED
        BY <2>1, <3>1, NothingCounted
    <2>3. CASE slot[w] # NoService
      <3>1. slot[w] \in Services /\ injector' = Append(injector, slot[w])
        BY <1>31, <2>3 DEF QueuesTyped, FlushSlot
      <3>2. Cardinality(FullSlots') = Cardinality(FullSlots) - 1
        BY <1>31, <2>3, SlotsLess DEF FlushSlot
      <3>3. Announced' = Announced
        BY <2>1, AnnouncedSame
      <3>4. QED
        BY <2>1, <3>1, <3>2, <3>3, SameCounts, FiniteCounts, InjectorLengths DEF Exact
    <2>4. QED
      BY <2>2, <2>3
  <1>32. ASSUME NEW w \in Workers, FlushLocal(w) PROVE Exact'
    <2>1. UNCHANGED <<slot, pending>> /\ \A u \in Threads : pc'[u] \in AnnouncedPC <=> pc[u] \in AnnouncedPC
      BY <1>32 DEF ThreadsTyped, FlushLocal, Goto
    <2>2. CASE local[w] = {}
      BY <1>32, <2>1, <2>2, NothingCounted DEF FlushLocal
    <2>3. CASE local[w] # {}
      <3>1. PICK s \in local[w] : /\ local' = [local EXCEPT ![w] = @ \ {s}]
                                 /\ injector' = Append(injector, s)
        BY <1>32, <2>3 DEF FlushLocal
      <3>2. Cardinality(LocalPairs') = Cardinality(LocalPairs) - 1 /\ s \in Services
        BY <3>1, PairsLess DEF QueuesTyped
      <3>3. Announced' = Announced
        BY <2>1, AnnouncedSame
      <3>4. QED
        BY <2>1, <3>1, <3>2, <3>3, SameCounts, FiniteCounts, InjectorLengths DEF Exact
    <2>4. QED
      BY <2>2, <2>3
  <1>33. ASSUME NEW w \in Workers, NEW s \in Services, WorkerPush(w, s) PROVE Exact'
    <2>1. \A u \in Threads : pc'[u] \in AnnouncedPC <=> pc[u] \in AnnouncedPC
      BY <1>33 DEF ThreadsTyped, WorkerPush, StartPush, Goto
    <2>2. QED
      BY <1>33, <2>1, NothingCounted DEF WorkerPush, StartPush, Goto
  <1>34. ASSUME NEW t \in Outsiders, NEW s \in Services, OutsiderPush(t, s) PROVE Exact'
    <2>1. \A u \in Threads : pc'[u] \in AnnouncedPC <=> pc[u] \in AnnouncedPC
      BY <1>34 DEF ThreadsTyped, OutsiderPush, StartPush, Goto
    <2>2. QED
      BY <1>34, <2>1, NothingCounted DEF OutsiderPush, StartPush, Goto
  <1>35. ASSUME SetQuit PROVE Exact'
    <2>1. \A u \in Threads : pc'[u] \in AnnouncedPC <=> pc[u] \in AnnouncedPC
      BY <1>35 DEF ThreadsTyped, SetQuit, Goto
    <2>2. QED
      BY <1>35, <2>1, NothingCounted DEF SetQuit, Goto
  <1>36. ASSUME WakeAll PROVE Exact'
    <2>1. \A u \in Threads : pc'[u] \in AnnouncedPC <=> pc[u] \in AnnouncedPC
      BY <1>36 DEF ThreadsTyped, WakeAll, Goto
    <2>2. QED
      BY <1>36, <2>1, NothingCounted DEF WakeAll, Goto
  <1>37. ASSUME Join PROVE Exact'
    <2>1. \A u \in Threads : pc'[u] \in AnnouncedPC <=> pc[u] \in AnnouncedPC
      BY <1>37 DEF ThreadsTyped, Join, Goto
    <2>2. QED
      BY <1>37, <2>1, NothingCounted DEF Join, Goto
  <1>38. ASSUME Drain PROVE Exact'
    <2>1. UNCHANGED <<local, slot>> /\ \A u \in Threads : pc'[u] \in AnnouncedPC <=> pc[u] \in AnnouncedPC
      BY <1>38 DEF ThreadsTyped, Drain, Goto
    <2>2. CASE injector = <<>>
      BY <1>38, <2>1, <2>2, NothingCounted DEF Drain
    <2>3. CASE injector # <<>>
      <3>1. Len(injector') = Len(injector) - 1 /\ pending' = pending - 1
        BY <1>38, <2>3, InjectorLengths DEF Drain
      <3>2. Announced' = Announced
        BY <2>1, AnnouncedSame
      <3>3. QED
        BY <2>1, <3>1, <3>2, SameCounts, FiniteCounts, InjectorLengths DEF Exact
    <2>4. QED
      BY <2>2, <2>3
  <1>39. ASSUME UNCHANGED vars PROVE Exact'
    BY <1>39, NothingCounted DEF vars
  <1>40. QED
    BY <1>1, <1>2, <1>3, <1>4, <1>5, <1>6, <1>7, <1>8, <1>9, <1>10, <1>11, <1>12, <1>13,
       <1>14, <1>15, <1>16, <1>17, <1>18, <1>19, <1>20, <1>21, <1>22, <1>23, <1>24, <1>25,
       <1>26, <1>27, <1>28, <1>29, <1>30, <1>31, <1>32, <1>33, <1>34, <1>35, <1>36, <1>37,
       <1>38, <1>39
    DEF Next, Work, Push, Pop, FindWorkOrPark

SearchExact == searching = Cardinality(Searchers)

(* SearchExact is the property the run checks. *)
LEMMA SearchExactIs == SearchExact <=> SearchingCounts
  BY CountsAre DEF SearchExact

(* A worker that neither begins nor ends its search. *)
LEMMA SearchersSame ==
    ASSUME NEW w \in Workers, OnlyMoves(w),
           (pc'[w] \in SearchPC \/ ret'[w] = "spin") <=> (pc[w] \in SearchPC \/ ret[w] = "spin")
    PROVE  Searchers' = Searchers
  BY DEF Searchers, OnlyMoves

(* A worker that searches goes on searching through its pops. *)
LEMMA GotSearch ==
    ASSUME ThreadShape, SearchExact, NEW w \in Workers, pc[w] \in PopPC,
           NEW s \in Services, Got(w, s), UNCHANGED searching
    PROVE  SearchExact'
  <1>1. OnlyMoves(w)
    BY GotMoves
  <1>2. (pc'[w] \in SearchPC \/ ret'[w] = "spin") <=> (pc[w] \in SearchPC \/ ret[w] = "spin")
    BY GotCases, PopReturns DEF ThreadsTyped
  <1>3. QED
    BY <1>1, <1>2, SearchersSame DEF SearchExact

(* A pop that finds nothing does not touch searching. *)
LEMMA NothingSearch ==
    ASSUME ThreadShape, SearchExact, NEW w \in Workers, pc[w] \in PopPC, Nothing(w),
           UNCHANGED searching
    PROVE  SearchExact'
  <1>1. OnlyMoves(w)
    BY NothingCases DEF ThreadsTyped, OnlyMoves
  <1>2. (pc'[w] \in SearchPC \/ ret'[w] = "spin") <=> (pc[w] \in SearchPC \/ ret[w] = "spin")
    BY NothingCases, PopReturns DEF ThreadsTyped
  <1>3. QED
    BY <1>1, <1>2, SearchersSame DEF SearchExact

(* Going on inside pop does not touch searching. *)
LEMMA PopMoveSearch ==
    ASSUME ThreadShape, SearchExact, NEW w \in Workers, pc[w] \in PopPC, NEW p \in PopPC,
           pc' = [pc EXCEPT ![w] = p], UNCHANGED <<ret, searching>>
    PROVE  SearchExact'
  <1>1. Searchers' = Searchers
    BY DEF ThreadsTyped, Searchers
  <1>2. QED
    BY <1>1 DEF SearchExact

(* A searcher that stops takes its one off searching. *)
LEMMA StopsSearching ==
    ASSUME ThreadShape, SearchExact, NEW w \in Workers, NEW from \in SearchPC,
           NEW to \in {"loop", "last_look"}, StopSearching(w, from, to)
    PROVE  SearchExact'
  <1>1. ret[w] = "none" /\ pc[w] \in SearchPC
    BY DEF ThreadsTyped, Control, At, WorkerAt, StopSearching, Goto
  <1>2. Searchers' = Searchers \ {w} /\ w \in Searchers
    BY <1>1 DEF ThreadsTyped, Searchers, StopSearching, Goto
  <1>3. Cardinality(Searchers') = Cardinality(Searchers) - 1
    BY <1>2, FiniteCounts, FS_RemoveElement
  <1>4. QED
    BY <1>3, FiniteCounts DEF SearchExact, StopSearching

(* Only Search, Found, Spun and Unsearch change who searches. *)
LEMMA SearchingStep == Shape /\ SearchExact /\ [Next]_vars => SearchExact'
  <1> SUFFICES ASSUME Shape, SearchExact, [Next]_vars PROVE SearchExact'
    OBVIOUS
  <1>1. ASSUME NEW t \in Pushers, Announce(t) PROVE SearchExact'
    <2>1. UNCHANGED searching
      BY <1>1 DEF Announce, Goto
    <2>2. Searchers' = Searchers
      BY <1>1 DEF ThreadsTyped, Searchers, Announce, Goto
    <2>3. QED
      BY <2>1, <2>2 DEF SearchExact
  <1>2. ASSUME NEW t \in Pushers, LookForSearcher(t) PROVE SearchExact'
    <2>1. UNCHANGED searching
      BY <1>2 DEF LookForSearcher, Goto
    <2>2. Searchers' = Searchers
      BY <1>2 DEF ThreadsTyped, Searchers, LookForSearcher, Goto
    <2>3. QED
      BY <2>1, <2>2 DEF SearchExact
  <1>3. ASSUME NEW t \in Pushers, Inject(t) PROVE SearchExact'
    <2>1. UNCHANGED searching
      BY <1>3 DEF Inject, Goto
    <2>2. Searchers' = Searchers
      BY <1>3 DEF ThreadsTyped, Searchers, Inject, Goto
    <2>3. QED
      BY <2>1, <2>2 DEF SearchExact
  <1>4. ASSUME NEW t \in Pushers, RecheckSearcher(t) PROVE SearchExact'
    <2>1. UNCHANGED searching
      BY <1>4 DEF RecheckSearcher
    <2>2. pc[t] \notin SearchPC /\ ret[t] \in {"run", "loop", "flush", "outside"}
      BY <1>4 DEF ThreadsTyped, Control, At, WorkerAt, OutsiderAt, RecheckSearcher
    <2>3. Searchers' = Searchers
      BY <1>4, <2>2 DEF ThreadsTyped, Searchers, Pushed, RecheckSearcher
    <2>4. QED
      BY <2>1, <2>3 DEF SearchExact
  <1>5. ASSUME NEW t \in Pushers, ClaimSleeper(t) PROVE SearchExact'
    <2>1. UNCHANGED searching
      BY <1>5 DEF ClaimSleeper, ClaimIdle
    <2>2. pc[t] \notin SearchPC /\ ret[t] \in {"run", "loop", "flush", "outside"}
      BY <1>5 DEF ThreadsTyped, Control, At, WorkerAt, OutsiderAt, ClaimSleeper, ClaimIdle
    <2>3. Searchers' = Searchers
      BY <1>5, <2>2 DEF ThreadsTyped, Searchers, Pushed, ClaimSleeper, ClaimIdle
    <2>4. QED
      BY <2>1, <2>3 DEF SearchExact
  <1>6. ASSUME NEW t \in Pushers, ClaimForHandoff(t) PROVE SearchExact'
    <2>1. UNCHANGED searching
      BY <1>6 DEF ClaimForHandoff, ClaimIdle, Goto
    <2>2. Searchers' = Searchers
      BY <1>6 DEF ThreadsTyped, Searchers, ClaimForHandoff, ClaimIdle, Goto
    <2>3. QED
      BY <2>1, <2>2 DEF SearchExact
  <1>7. ASSUME NEW t \in Pushers, Offer(t) PROVE SearchExact'
    <2>1. UNCHANGED searching
      BY <1>7 DEF Offer, Goto
    <2>2. Searchers' = Searchers
      BY <1>7 DEF ThreadsTyped, Searchers, Offer, Goto
    <2>3. QED
      BY <2>1, <2>2 DEF SearchExact
  <1>8. ASSUME NEW t \in Pushers, PlaceThenWake(t) PROVE SearchExact'
    <2>1. UNCHANGED searching
      BY <1>8 DEF PlaceThenWake, Goto
    <2>2. Searchers' = Searchers
      BY <1>8 DEF ThreadsTyped, Searchers, PlaceThenWake, Goto
    <2>3. QED
      BY <2>1, <2>2 DEF SearchExact
  <1>9. ASSUME NEW t \in Pushers, Place(t) PROVE SearchExact'
    <2>1. UNCHANGED searching
      BY <1>9 DEF Place
    <2>2. pc[t] \notin SearchPC /\ ret[t] \in {"run", "loop", "flush", "outside"}
      BY <1>9 DEF ThreadsTyped, Control, At, WorkerAt, OutsiderAt, Place
    <2>3. Searchers' = Searchers
      BY ZenonT(30), <1>9, <2>2 DEF ThreadsTyped, Searchers, Pushed, Place
    <2>4. QED
      BY <2>1, <2>3 DEF SearchExact
  <1>10. ASSUME NEW t \in Pushers, Wake(t) PROVE SearchExact'
    <2>1. UNCHANGED searching
      BY <1>10 DEF Wake
    <2>2. pc[t] \notin SearchPC /\ ret[t] \in {"run", "loop", "flush", "outside"}
      BY <1>10 DEF ThreadsTyped, Control, At, WorkerAt, OutsiderAt, Wake
    <2>3. Searchers' = Searchers
      BY <1>10, <2>2 DEF ThreadsTyped, Searchers, Pushed, Wake
    <2>4. QED
      BY <2>1, <2>3 DEF SearchExact
  <1>11. ASSUME NEW w \in Workers, PopSlot(w) PROVE SearchExact'
    <2>1. CASE slot[w] # NoService
      BY <1>11, <2>1, GotSearch DEF QueuesTyped, PopSlot
    <2>2. CASE slot[w] = NoService
      BY <1>11, <2>2, PopMoveSearch DEF PopSlot
    <2>3. QED
      BY <2>1, <2>2
  <1>12. ASSUME NEW w \in Workers, PopPending(w) PROVE SearchExact'
    <2>1. CASE pending = 0
      BY <1>12, <2>1, NothingSearch DEF PopPending
    <2>2. CASE pending # 0
      BY <1>12, <2>2, PopMoveSearch DEF PopPending
    <2>3. QED
      BY <2>1, <2>2
  <1>13. ASSUME NEW w \in Workers, PopLocal(w) PROVE SearchExact'
    <2>1. CASE local[w] # {}
      <3>1. PICK s \in Services : Got(w, s)
        BY <1>13, <2>1 DEF QueuesTyped, PopLocal
      <3>2. QED
        BY <1>13, <3>1, GotSearch DEF PopLocal
    <2>2. CASE local[w] = {}
      BY <1>13, <2>2, PopMoveSearch DEF PopLocal
    <2>3. QED
      BY <2>1, <2>2
  <1>14. ASSUME NEW w \in Workers, PopInjector(w, "pop_injector_first", "pop_local") PROVE SearchExact'
    <2>1. CASE injector # <<>>
      <3>1. Head(injector) \in Services /\ Got(w, Head(injector))
        BY <1>14, <2>1, HeadTailProperties DEF QueuesTyped, PopInjector
      <3>2. QED
        BY <1>14, <3>1, GotSearch DEF PopInjector
    <2>2. CASE injector = <<>>
      BY <1>14, <2>2, PopMoveSearch DEF PopInjector
    <2>3. QED
      BY <2>1, <2>2
  <1>15. ASSUME NEW w \in Workers, PopInjector(w, "pop_injector", "pop_steal") PROVE SearchExact'
    <2>1. CASE injector # <<>>
      <3>1. Head(injector) \in Services /\ Got(w, Head(injector))
        BY <1>15, <2>1, HeadTailProperties DEF QueuesTyped, PopInjector
      <3>2. QED
        BY <1>15, <3>1, GotSearch DEF PopInjector
    <2>2. CASE injector = <<>>
      BY <1>15, <2>2, PopMoveSearch DEF PopInjector
    <2>3. QED
      BY <2>1, <2>2
  <1>16. ASSUME NEW w \in Workers, TakeStealable(w) PROVE SearchExact'
    <2>1. CASE Nothing(w)
      BY <1>16, <2>1, NothingSearch DEF TakeStealable
    <2>2. CASE pc' = [pc EXCEPT ![w] = "pop_victim"] /\ UNCHANGED ret
      BY <1>16, <2>2, PopMoveSearch DEF TakeStealable
    <2>3. QED
      BY <1>16, <2>1, <2>2 DEF TakeStealable
  <1>17. ASSUME NEW w \in Workers, StealFront(w) PROVE SearchExact'
    <2>1. target[w] \in Workers
      BY DEF QueuesTyped
    <2>2. CASE \E s \in local[target[w]] : Got(w, s)
      BY <1>17, <2>1, <2>2, GotSearch DEF QueuesTyped, StealFront
    <2>3. CASE pc' = [pc EXCEPT ![w] = "pop_steal"] /\ UNCHANGED ret
      BY <1>17, <2>3, PopMoveSearch DEF StealFront
    <2>4. QED
      BY <1>17, <2>2, <2>3 DEF StealFront
  <1>18. ASSUME NEW w \in Workers, Loop(w) PROVE SearchExact'
    <2>1. UNCHANGED searching
      BY <1>18 DEF Loop, StartPop, Goto
    <2>2. OnlyMoves(w)
      BY <1>18 DEF OnlyMoves, ThreadsTyped, Loop, StartPop, Goto
    <2>3. pc[w] = "loop" /\ ret[w] = "none"
      <3>1. pc[w] = "loop"
        BY <1>18 DEF Loop, StartPop, Goto
      <3>2. QED
        BY <3>1 DEF Control, At, WorkerAt
    <2>4. pc'[w] \in {"push", "flush", "run", "pop_slot"} /\ ret'[w] # "spin"
      BY <1>18, <2>3 DEF ThreadsTyped, Loop, StartPop, Goto
    <2>5. Searchers' = Searchers
      BY <2>2, <2>3, <2>4, SearchersSame
    <2>6. QED
      BY <2>1, <2>5 DEF SearchExact
  <1>19. ASSUME NEW w \in Workers, RanIdle(w) PROVE SearchExact'
    <2>1. UNCHANGED searching
      BY <1>19 DEF RanIdle, StartPop, Goto
    <2>2. Searchers' = Searchers
      BY <1>19
      DEF ThreadsTyped, Searchers, Control, At, WorkerAt, OutsiderAt, RanIdle, StartPop,
          Goto
    <2>3. QED
      BY <2>1, <2>2 DEF SearchExact
  <1>20. ASSUME NEW w \in Workers, RanYielded(w) PROVE SearchExact'
    <2>1. UNCHANGED searching
      BY <1>20 DEF RanYielded, StartPop, Goto
    <2>2. Searchers' = Searchers
      BY <1>20
      DEF ThreadsTyped, Searchers, Control, At, WorkerAt, OutsiderAt, RanYielded,
          StartPop, Goto
    <2>3. QED
      BY <2>1, <2>2 DEF SearchExact
  <1>21. ASSUME NEW w \in Workers, Search(w) PROVE SearchExact'
    <2>1. Searchers' = Searchers \cup {w} /\ w \notin Searchers
      BY <1>21 DEF ThreadsTyped, Control, At, WorkerAt, OutsiderAt, Searchers, Search, Goto
    <2>2. Cardinality(Searchers') = Cardinality(Searchers) + 1
      BY <2>1, FiniteCounts, FS_AddElement
    <2>3. QED
      BY <1>21, <2>2 DEF SearchExact, Search
  <1>22. ASSUME NEW w \in Workers, Spin(w) PROVE SearchExact'
    <2>1. UNCHANGED searching
      BY <1>22 DEF Spin, StartPop, Goto
    <2>2. Searchers' = Searchers
      BY <1>22 DEF ThreadsTyped, Searchers, Spin, StartPop, Goto
    <2>3. QED
      BY <2>1, <2>2 DEF SearchExact
  <1>23. ASSUME NEW w \in Workers, Found(w) PROVE SearchExact'
    BY <1>23, StopsSearching DEF Found
  <1>24. ASSUME NEW w \in Workers, Spun(w) PROVE SearchExact'
    <2>1. CASE quit
      BY <1>24, <2>1, StopsSearching DEF Spun
    <2>2. CASE ~quit
      <3>1. PICK to \in {"spin", "mark_idle"} : pc[w] = "spun" /\ pc' = [pc EXCEPT ![w] = to]
        BY <1>24, <2>2 DEF Spun, Goto
      <3>2. Searchers' = Searchers
        BY <1>24, <2>2, <3>1 DEF ThreadsTyped, Searchers, Spun
      <3>3. QED
        BY <1>24, <2>2, <3>2 DEF SearchExact, Spun
    <2>3. QED
      BY <2>1, <2>2
  <1>25. ASSUME NEW w \in Workers, MarkIdle(w) PROVE SearchExact'
    <2>1. UNCHANGED searching
      BY <1>25 DEF MarkIdle, Goto
    <2>2. Searchers' = Searchers
      BY <1>25 DEF ThreadsTyped, Searchers, MarkIdle, Goto
    <2>3. QED
      BY <2>1, <2>2 DEF SearchExact
  <1>26. ASSUME NEW w \in Workers, Unsearch(w) PROVE SearchExact'
    BY <1>26, StopsSearching DEF Unsearch
  <1>27. ASSUME NEW w \in Workers, LastLook(w) PROVE SearchExact'
    <2>1. UNCHANGED searching
      BY <1>27 DEF LastLook, StartPop, Goto
    <2>2. Searchers' = Searchers
      BY <1>27
      DEF ThreadsTyped, Searchers, Control, At, WorkerAt, OutsiderAt, LastLook, StartPop,
          Goto
    <2>3. QED
      BY <2>1, <2>2 DEF SearchExact
  <1>28. ASSUME NEW w \in Workers, Park(w) PROVE SearchExact'
    <2>1. UNCHANGED searching
      BY <1>28 DEF Park, Goto
    <2>2. Searchers' = Searchers
      BY <1>28 DEF ThreadsTyped, Searchers, Park, Goto
    <2>3. QED
      BY <2>1, <2>2 DEF SearchExact
  <1>29. ASSUME NEW w \in Workers, Unpark(w) PROVE SearchExact'
    <2>1. UNCHANGED searching
      BY <1>29 DEF Unpark, Goto
    <2>2. Searchers' = Searchers
      BY <1>29 DEF ThreadsTyped, Searchers, Unpark, Goto
    <2>3. QED
      BY <2>1, <2>2 DEF SearchExact
  <1>30. ASSUME NEW w \in Workers, ClearIdle(w) PROVE SearchExact'
    <2>1. UNCHANGED searching
      BY <1>30 DEF ClearIdle, Goto
    <2>2. Searchers' = Searchers
      BY <1>30 DEF ThreadsTyped, Searchers, ClearIdle, Goto
    <2>3. QED
      BY <2>1, <2>2 DEF SearchExact
  <1>31. ASSUME NEW w \in Workers, FlushSlot(w) PROVE SearchExact'
    <2>1. UNCHANGED searching
      BY <1>31 DEF FlushSlot, Goto
    <2>2. Searchers' = Searchers
      BY <1>31 DEF ThreadsTyped, Searchers, FlushSlot, Goto
    <2>3. QED
      BY <2>1, <2>2 DEF SearchExact
  <1>32. ASSUME NEW w \in Workers, FlushLocal(w) PROVE SearchExact'
    <2>1. UNCHANGED searching
      BY <1>32 DEF FlushLocal, Goto
    <2>2. Searchers' = Searchers
      BY <1>32 DEF ThreadsTyped, Searchers, FlushLocal, Goto
    <2>3. QED
      BY <2>1, <2>2 DEF SearchExact
  <1>33. ASSUME NEW w \in Workers, NEW s \in Services, WorkerPush(w, s) PROVE SearchExact'
    <2>1. UNCHANGED searching
      BY <1>33 DEF WorkerPush, StartPush, Goto
    <2>2. Searchers' = Searchers
      BY <1>33
      DEF ThreadsTyped, Searchers, Control, At, WorkerAt, OutsiderAt, WorkerPush,
          StartPush, Goto
    <2>3. QED
      BY <2>1, <2>2 DEF SearchExact
  <1>34. ASSUME NEW t \in Outsiders, NEW s \in Services, OutsiderPush(t, s) PROVE SearchExact'
    <2>1. UNCHANGED searching
      BY <1>34 DEF OutsiderPush, StartPush, Goto
    <2>2. Searchers' = Searchers
      BY <1>34
      DEF ThreadsTyped, Searchers, Control, At, WorkerAt, OutsiderAt, OutsiderPush,
          StartPush, Goto
    <2>3. QED
      BY <2>1, <2>2 DEF SearchExact
  <1>35. ASSUME SetQuit PROVE SearchExact'
    <2>1. UNCHANGED searching
      BY <1>35 DEF SetQuit, Goto
    <2>2. Searchers' = Searchers
      BY <1>35 DEF ThreadsTyped, Searchers, SetQuit, Goto
    <2>3. QED
      BY <2>1, <2>2 DEF SearchExact
  <1>36. ASSUME WakeAll PROVE SearchExact'
    <2>1. UNCHANGED searching
      BY <1>36 DEF WakeAll, Goto
    <2>2. Searchers' = Searchers
      BY <1>36 DEF ThreadsTyped, Searchers, WakeAll, Goto
    <2>3. QED
      BY <2>1, <2>2 DEF SearchExact
  <1>37. ASSUME Join PROVE SearchExact'
    <2>1. UNCHANGED searching
      BY <1>37 DEF Join, Goto
    <2>2. Searchers' = Searchers
      BY <1>37 DEF ThreadsTyped, Searchers, Join, Goto
    <2>3. QED
      BY <2>1, <2>2 DEF SearchExact
  <1>38. ASSUME Drain PROVE SearchExact'
    <2>1. UNCHANGED searching
      BY <1>38 DEF Drain, Goto
    <2>2. Searchers' = Searchers
      BY <1>38 DEF ThreadsTyped, Searchers, Drain, Goto
    <2>3. QED
      BY <2>1, <2>2 DEF SearchExact
  <1>39. ASSUME UNCHANGED vars PROVE SearchExact'
    BY <1>39 DEF vars, SearchExact, Searchers
  <1>40. QED
    BY <1>1, <1>2, <1>3, <1>4, <1>5, <1>6, <1>7, <1>8, <1>9, <1>10, <1>11, <1>12, <1>13,
       <1>14, <1>15, <1>16, <1>17, <1>18, <1>19, <1>20, <1>21, <1>22, <1>23, <1>24, <1>25,
       <1>26, <1>27, <1>28, <1>29, <1>30, <1>31, <1>32, <1>33, <1>34, <1>35, <1>36, <1>37,
       <1>38, <1>39
    DEF Next, Work, Push, Pop, FindWorkOrPark

-----------------------------------------------------------------------------
(* A worker whose idle bit has been set and that has not turned back yet   *)
(* can still be claimed, is claimed by a thread that will wake it, or has  *)
(* been woken.                                                             *)
GoesToSleep(w) == pc[w] \in {"unsearch", "last_look", "park", "parked"} \/ ret[w] = "last"
ClaimPC == {"offer", "place_then_wake", "wake"}
Claimed(w) == \E t \in Threads : pc[t] \in ClaimPC /\ target[t] = w
WakeDue == \A w \in Workers : GoesToSleep(w) => w \in idle \/ permit[w] \/ Claimed(w)

(* What is put into the slot of a worker that has looked there for the     *)
(* last time comes with a wake-up.                                         *)
PastSlot(w) == \/ pc[w] \in {"park", "parked"}
               \/ ret[w] = "last" /\ pc[w] # "pop_slot"
Waking(w) == \E t \in Threads : pc[t] = "wake" /\ target[t] = w
SlotWatched ==
    \A w \in Workers : PastSlot(w) /\ slot[w] # NoService => permit[w] \/ Waking(w)

(* A worker that has looked into its own queue for the last time left it   *)
(* empty, and nobody else fills it.                                        *)
PastLocal(w) == \/ pc[w] \in {"park", "parked"}
                \/ ret[w] = "last" /\ pc[w] \in {"pop_injector", "pop_steal", "pop_victim"}
LocalWatched == \A w \in Workers : PastLocal(w) => local[w] = {}

(* Of a non-empty injector some worker is aware, or is still to be told.   *)
Unaware(w) == /\ ~permit[w]
              /\ \/ pc[w] \in {"park", "parked"}
                 \/ ret[w] = "last" /\ pc[w] \in {"pop_steal", "pop_victim"}
InjectorWatched ==
    injector # <<>> =>
       \/ \E t \in Threads : pc[t] \in WakerPC
       \/ \E w \in Workers : ~Unaware(w)

WatchInv == WakeDue /\ SlotWatched /\ LocalWatched /\ InjectorWatched

USE DEF ClaimPC, WakerPC

(* A pusher stands in push with one of these to return to. *)
LEMMA PushReturns ==
    ASSUME ThreadShape, NEW t \in Pushers, pc[t] \in PushPC
    PROVE  ret[t] \in {"run", "loop", "flush", "outside"}
  BY DEF ThreadsTyped, Control, At, WorkerAt, OutsiderAt

(* What a thief's attempt changes, whether it succeeds or not. *)
LEMMA StealFrontMoves ==
    ASSUME Shape, NEW w \in Workers, StealFront(w)
    PROVE  /\ pc[w] = "pop_victim" /\ OnlyMoves(w)
           /\ UNCHANGED <<injector, slot, permit, idle>>
           /\ pc'[w] \in {"push", "run", "loop", "found", "found_last", "pop_steal"}
           /\ ret'[w] = "last" => ret[w] = "last"
           /\ \A u \in Threads \ {w} : target'[u] = target[u]
           /\ \A v \in Workers : local'[v] \subseteq local[v]
  <1>1. /\ pc[w] = "pop_victim" /\ target[w] \in Workers
        /\ UNCHANGED <<injector, slot, permit, idle>>
    BY DEF StealFront, QueuesTyped
  <1>2. \A u \in Threads \ {w} : target'[u] = target[u]
    BY DEF StealFront, QueuesTyped
  <1>3. \A v \in Workers : local'[v] \subseteq local[v]
    <2>1. (\E s \in local[target[w]] : local' = [local EXCEPT ![target[w]] = @ \ {s}])
            \/ local' = local
      BY DEF StealFront
    <2>2. QED
      BY <1>1, <2>1 DEF QueuesTyped
  <1>4. CASE \E s \in local[target[w]] : Got(w, s)
    <2>1. PICK s \in Services : Got(w, s)
      BY <1>1, <1>4 DEF QueuesTyped
    <2>2. pc'[w] \in {"push", "run", "loop", "found", "found_last"} /\ ret'[w] \in {"loop", "none"}
      BY <1>1, <2>1, GotCases DEF ThreadsTyped
    <2>3. QED
      BY <1>1, <1>2, <1>3, <2>1, <2>2, GotMoves
  <1>5. CASE pc' = [pc EXCEPT ![w] = "pop_steal"] /\ UNCHANGED <<ret, hold, item>>
    BY <1>1, <1>2, <1>3, <1>5 DEF ThreadsTyped, OnlyMoves
  <1>6. QED
    BY <1>4, <1>5 DEF StealFront

(* A step of one thread that fills no slot and wakes nobody. *)
LEMMA SlotKept ==
    ASSUME SlotWatched, NEW t \in Threads, OnlyMoves(t), pc[t] # "wake",
           \A u \in Threads \ {t} : target'[u] = target[u], UNCHANGED <<permit, slot>>,
           PastSlot(t)' => PastSlot(t)
    PROVE  SlotWatched'
  <1> SUFFICES ASSUME NEW v \in Workers, PastSlot(v)', slot'[v] # NoService
               PROVE  permit'[v] \/ Waking(v)'
    BY DEF SlotWatched
  <1>1. PastSlot(v) /\ slot[v] # NoService
    BY DEF PastSlot, OnlyMoves, Threads
  <1>2. permit[v] \/ Waking(v)
    BY <1>1 DEF SlotWatched
  <1>3. QED
    BY <1>2 DEF Waking, OnlyMoves

(* A step of one thread that fills no local queue. *)
LEMMA LocalKept ==
    ASSUME LocalWatched, NEW t \in Threads, OnlyMoves(t),
           \A v \in Workers : local'[v] \subseteq local[v],
           t \in Workers /\ PastLocal(t)' => PastLocal(t) \/ local[t] = {}
    PROVE  LocalWatched'
  <1> SUFFICES ASSUME NEW v \in Workers, PastLocal(v)' PROVE local'[v] = {}
    BY DEF LocalWatched
  <1>1. PastLocal(v) \/ local[v] = {}
    BY DEF PastLocal, OnlyMoves, Threads
  <1>2. QED
    BY <1>1 DEF LocalWatched

(* With pending at zero there is nothing in the queues. *)
LEMMA NothingPending ==
    ASSUME Shape, Exact, pending = 0
    PROVE  injector = <<>> /\ \A w \in Workers : local[w] = {} /\ slot[w] = NoService
  <1>1. Len(injector) = 0 /\ Cardinality(FullSlots) = 0 /\ Cardinality(LocalPairs) = 0
    BY FiniteCounts, InjectorLengths DEF Exact
  <1>2. FullSlots = {} /\ LocalPairs = {}
    BY <1>1, FiniteCounts, FS_EmptySet
  <1>3. injector = <<>>
    BY <1>1, InjectorLengths
  <1>4. \A w \in Workers : slot[w] = NoService
    BY <1>2 DEF FullSlots
  <1>5. ASSUME NEW w \in Workers PROVE local[w] = {}
    <2>1. ASSUME NEW s \in local[w] PROVE FALSE
      <3>1. <<w, s>> \in LocalPairs
        BY DEF LocalPairs, QueuesTyped
      <3>2. QED
        BY <1>2, <3>1
    <2>2. QED
      BY <2>1
  <1>6. QED
    BY <1>3, <1>4, <1>5

(* While somebody is aware of the injector, or it is not filled. *)
LEMMA InjectorKept ==
    ASSUME InjectorWatched, NEW t \in Threads, OnlyMoves(t), UNCHANGED permit,
           injector' # <<>> => injector # <<>>,
           pc[t] \in WakerPC => pc'[t] \in WakerPC,
           t \in Workers /\ Unaware(t)' => Unaware(t) \/ injector' = <<>>
    PROVE  InjectorWatched'
  <1> SUFFICES ASSUME injector' # <<>>
               PROVE  (\E u \in Threads : pc'[u] \in WakerPC) \/ \E w \in Workers : ~Unaware(w)'
    BY DEF InjectorWatched
  <1>1. CASE \E u \in Threads : pc[u] \in WakerPC
    BY <1>1 DEF OnlyMoves
  <1>2. CASE \E w \in Workers : ~Unaware(w)
    <2>1. PICK w \in Workers : ~Unaware(w)
      BY <1>2
    <2>2. ~Unaware(w)'
      BY <2>1 DEF Unaware, OnlyMoves, Threads
    <2>3. QED
      BY <2>2
  <1>3. QED
    BY <1>1, <1>2 DEF InjectorWatched

(* Whoever takes an idle bit ends by waking that worker. *)
LEMMA WakeDueStep == Shape /\ Exact /\ SearchExact /\ WatchInv /\ [Next]_vars => WakeDue'
  <1> SUFFICES ASSUME Shape, Exact, SearchExact, WatchInv, [Next]_vars PROVE WakeDue'
    OBVIOUS
  <1>1. ASSUME NEW t \in Pushers, Announce(t) PROVE WakeDue'
    BY <1>1
    DEF WatchInv, WakeDue, Control, At, WorkerAt, OutsiderAt, StewardAt, ThreadsTyped,
        QueuesTyped, GoesToSleep, Claimed, Announce, Goto
  <1>2. ASSUME NEW t \in Pushers, LookForSearcher(t) PROVE WakeDue'
    BY <1>2
    DEF WatchInv, WakeDue, Control, At, WorkerAt, OutsiderAt, StewardAt, ThreadsTyped,
        QueuesTyped, GoesToSleep, Claimed, LookForSearcher, Goto
  <1>3. ASSUME NEW t \in Pushers, Inject(t) PROVE WakeDue'
    BY <1>3
    DEF WatchInv, WakeDue, Control, At, WorkerAt, OutsiderAt, StewardAt, ThreadsTyped,
        QueuesTyped, GoesToSleep, Claimed, Inject, Goto
  <1>4. ASSUME NEW t \in Pushers, RecheckSearcher(t) PROVE WakeDue'
    BY <1>4
    DEF WatchInv, WakeDue, Control, At, WorkerAt, OutsiderAt, StewardAt, ThreadsTyped,
        QueuesTyped, GoesToSleep, Claimed, RecheckSearcher, Pushed
  <1>5. ASSUME NEW t \in Pushers, ClaimSleeper(t) PROVE WakeDue'
    <2>1. ret[t] \in {"run", "loop", "flush", "outside"}
      BY <1>5
      DEF ThreadsTyped, Control, At, WorkerAt, OutsiderAt, StewardAt, ClaimSleeper,
          ClaimIdle
    <2>2. CASE idle # {}
      <3>1. /\ pc[t] = "claim_sleeper" /\ pc' = [pc EXCEPT ![t] = "wake"]
            /\ idle' = idle \ {LowestOf(idle)} /\ target' = [target EXCEPT ![t] = LowestOf(idle)]
            /\ UNCHANGED <<ret, permit>>
        BY <1>5, <2>2 DEF ClaimSleeper, ClaimIdle
      <3>2. ASSUME NEW v \in Workers, GoesToSleep(v)'
            PROVE  v \in idle' \/ permit'[v] \/ Claimed(v)'
        <4>1. GoesToSleep(v)
          BY <2>1, <3>1, <3>2 DEF ThreadsTyped, GoesToSleep
        <4>2. CASE v \in idle
          BY <3>1, <4>2 DEF ThreadsTyped, QueuesTyped, Claimed
        <4>3. CASE permit[v]
          BY <3>1, <4>3
        <4>4. CASE Claimed(v)
          <5>1. PICK u \in Threads : pc[u] \in ClaimPC /\ target[u] = v
            BY <4>4 DEF Claimed
          <5>2. pc'[u] \in ClaimPC /\ target'[u] = v
            BY <3>1, <5>1 DEF ThreadsTyped, QueuesTyped
          <5>3. QED
            BY <5>2 DEF Claimed
        <4>5. QED
          BY <4>1, <4>2, <4>3, <4>4 DEF WatchInv, WakeDue
      <3>3. QED
        BY <3>2 DEF WakeDue
    <2>3. CASE idle = {}
      <3>1. /\ pc[t] = "claim_sleeper" /\ pc' = [pc EXCEPT ![t] = ret[t]]
            /\ ret' = [ret EXCEPT ![t] = "none"]
            /\ target' = [target EXCEPT ![t] = LowestOf(Workers)] /\ UNCHANGED <<idle, permit>>
        BY <1>5, <2>3 DEF ClaimSleeper, ClaimIdle, Pushed
      <3>2. ASSUME NEW v \in Workers, GoesToSleep(v)'
            PROVE  v \in idle' \/ permit'[v] \/ Claimed(v)'
        <4>1. GoesToSleep(v)
          BY <2>1, <3>1, <3>2 DEF ThreadsTyped, GoesToSleep
        <4>2. CASE v \in idle
          BY <3>1, <4>2 DEF ThreadsTyped, QueuesTyped, Claimed
        <4>3. CASE permit[v]
          BY <3>1, <4>3
        <4>4. CASE Claimed(v)
          <5>1. PICK u \in Threads : pc[u] \in ClaimPC /\ target[u] = v
            BY <4>4 DEF Claimed
          <5>2. pc'[u] \in ClaimPC /\ target'[u] = v
            BY <3>1, <5>1 DEF ThreadsTyped, QueuesTyped
          <5>3. QED
            BY <5>2 DEF Claimed
        <4>5. QED
          BY <4>1, <4>2, <4>3, <4>4 DEF WatchInv, WakeDue
      <3>3. QED
        BY <3>2 DEF WakeDue
    <2>4. QED
      BY <2>2, <2>3
  <1>6. ASSUME NEW t \in Pushers, ClaimForHandoff(t) PROVE WakeDue'
    BY <1>6
    DEF WatchInv, WakeDue, Control, At, WorkerAt, OutsiderAt, StewardAt, ThreadsTyped,
        QueuesTyped, GoesToSleep, Claimed, ClaimForHandoff, ClaimIdle, Goto
  <1>7. ASSUME NEW t \in Pushers, Offer(t) PROVE WakeDue'
    <2>1. ret[t] \in {"run", "loop", "flush", "outside"}
      BY <1>7 DEF ThreadsTyped, Control, At, WorkerAt, OutsiderAt, StewardAt, Offer, Goto
    <2>2. WakeDue'
      <3>1. /\ pc[t] = "offer" /\ pc'[t] \in ClaimPC /\ OnlyMoves(t)
            /\ UNCHANGED <<ret, permit, target, idle>>
        BY <1>7 DEF ThreadsTyped, OnlyMoves, Offer, Goto
      <3>2. ASSUME NEW v \in Workers, GoesToSleep(v)'
            PROVE  v \in idle' \/ permit'[v] \/ Claimed(v)'
        <4>1. GoesToSleep(v)
          BY <2>1, <3>1, <3>2 DEF OnlyMoves, GoesToSleep
        <4>2. CASE v \in idle
          BY <3>1, <4>2 DEF ThreadsTyped, QueuesTyped, Claimed
        <4>3. CASE permit[v]
          BY <3>1, <4>3
        <4>4. CASE Claimed(v)
          <5>1. PICK u \in Threads : pc[u] \in ClaimPC /\ target[u] = v
            BY <4>4 DEF Claimed
          <5>2. pc'[u] \in ClaimPC /\ target'[u] = v
            BY <3>1, <5>1 DEF OnlyMoves
          <5>3. QED
            BY <5>2 DEF Claimed
        <4>5. QED
          BY <4>1, <4>2, <4>3, <4>4 DEF WatchInv, WakeDue
      <3>3. QED
        BY <3>2 DEF WakeDue
    <2>3. QED
      BY <2>2
  <1>8. ASSUME NEW t \in Pushers, PlaceThenWake(t) PROVE WakeDue'
    BY <1>8
    DEF WatchInv, WakeDue, Control, At, WorkerAt, OutsiderAt, StewardAt, ThreadsTyped,
        QueuesTyped, GoesToSleep, Claimed, PlaceThenWake, PlaceItem, HasRoom, Goto
  <1>9. ASSUME NEW t \in Pushers, Place(t) PROVE WakeDue'
    <2>1. ret[t] \in {"run", "loop", "flush", "outside"}
      BY <1>9 DEF ThreadsTyped, Control, At, WorkerAt, OutsiderAt, StewardAt, Place
    <2>2. WakeDue'
      <3>1. /\ pc[t] = "place" /\ pc'[t] \in {"recheck", ret[t]} /\ ret'[t] \in {ret[t], "none"}
            /\ OnlyMoves(t) /\ UNCHANGED <<permit, idle>>
            /\ \A u \in Threads \ {t} : target'[u] = target[u]
        BY <1>9 DEF ThreadsTyped, QueuesTyped, OnlyMoves, Place, Pushed
      <3>2. ASSUME NEW v \in Workers, GoesToSleep(v)'
            PROVE  v \in idle' \/ permit'[v] \/ Claimed(v)'
        <4>1. GoesToSleep(v)
          BY <2>1, <3>1, <3>2 DEF OnlyMoves, GoesToSleep
        <4>2. CASE v \in idle
          BY <3>1, <4>2 DEF ThreadsTyped, QueuesTyped, Claimed
        <4>3. CASE permit[v]
          BY <3>1, <4>3
        <4>4. CASE Claimed(v)
          <5>1. PICK u \in Threads : pc[u] \in ClaimPC /\ target[u] = v
            BY <4>4 DEF Claimed
          <5>2. pc'[u] \in ClaimPC /\ target'[u] = v
            BY <3>1, <5>1 DEF OnlyMoves
          <5>3. QED
            BY <5>2 DEF Claimed
        <4>5. QED
          BY <4>1, <4>2, <4>3, <4>4 DEF WatchInv, WakeDue
      <3>3. QED
        BY <3>2 DEF WakeDue
    <2>3. QED
      BY <2>2
  <1>10. ASSUME NEW t \in Pushers, Wake(t) PROVE WakeDue'
    BY <1>10
    DEF WatchInv, WakeDue, Control, At, WorkerAt, OutsiderAt, StewardAt, ThreadsTyped,
        QueuesTyped, GoesToSleep, Claimed, Wake, Pushed
  <1>11. ASSUME NEW w \in Workers, PopSlot(w) PROVE WakeDue'
    BY <1>11, GotCases, PopReturns
    DEF WatchInv, WakeDue, ThreadsTyped, QueuesTyped, GoesToSleep, Claimed, PopSlot
  <1>12. ASSUME NEW w \in Workers, PopPending(w) PROVE WakeDue'
    BY <1>12, NothingCases, PopReturns
    DEF WatchInv, WakeDue, ThreadsTyped, QueuesTyped, GoesToSleep, Claimed, PopPending
  <1>13. ASSUME NEW w \in Workers, PopLocal(w) PROVE WakeDue'
    BY <1>13, GotCases, PopReturns
    DEF WatchInv, WakeDue, ThreadsTyped, QueuesTyped, GoesToSleep, Claimed, PopLocal
  <1>14. ASSUME NEW w \in Workers, PopInjector(w, "pop_injector_first", "pop_local") PROVE WakeDue'
    BY <1>14, GotCases, PopReturns, HeadTailProperties
    DEF WatchInv, WakeDue, ThreadsTyped, QueuesTyped, GoesToSleep, Claimed, PopInjector
  <1>15. ASSUME NEW w \in Workers, PopInjector(w, "pop_injector", "pop_steal") PROVE WakeDue'
    BY <1>15, GotCases, PopReturns, HeadTailProperties
    DEF WatchInv, WakeDue, ThreadsTyped, QueuesTyped, GoesToSleep, Claimed, PopInjector
  <1>16. ASSUME NEW w \in Workers, TakeStealable(w) PROVE WakeDue'
    BY <1>16, NothingCases, PopReturns
    DEF WatchInv, WakeDue, ThreadsTyped, QueuesTyped, GoesToSleep, Claimed, TakeStealable
  <1>17. ASSUME NEW w \in Workers, StealFront(w) PROVE WakeDue'
    <2>1. ret[w] \in {"yield", "dispatch", "next", "spin", "last"}
      BY <1>17, PopReturns DEF StealFront
    <2>2. WakeDue'
      <3>1. /\ pc[w] = "pop_victim" /\ OnlyMoves(w) /\ UNCHANGED <<permit, idle>>
            /\ pc'[w] \in {"push", "run", "loop", "found", "found_last", "pop_steal"}
            /\ ret'[w] = "last" => ret[w] = "last"
            /\ \A u \in Threads \ {w} : target'[u] = target[u]
        BY <1>17, StealFrontMoves
      <3>2. ASSUME NEW v \in Workers, GoesToSleep(v)'
            PROVE  v \in idle' \/ permit'[v] \/ Claimed(v)'
        <4>1. GoesToSleep(v)
          BY <2>1, <3>1, <3>2 DEF OnlyMoves, GoesToSleep
        <4>2. CASE v \in idle
          BY <3>1, <4>2 DEF ThreadsTyped, QueuesTyped, Claimed
        <4>3. CASE permit[v]
          BY <3>1, <4>3
        <4>4. CASE Claimed(v)
          <5>1. PICK u \in Threads : pc[u] \in ClaimPC /\ target[u] = v
            BY <4>4 DEF Claimed
          <5>2. pc'[u] \in ClaimPC /\ target'[u] = v
            BY <3>1, <5>1 DEF OnlyMoves
          <5>3. QED
            BY <5>2 DEF Claimed
        <4>5. QED
          BY <4>1, <4>2, <4>3, <4>4 DEF WatchInv, WakeDue
      <3>3. QED
        BY <3>2 DEF WakeDue
    <2>3. QED
      BY <2>2
  <1>18. ASSUME NEW w \in Workers, Loop(w) PROVE WakeDue'
    BY <1>18
    DEF WatchInv, WakeDue, Control, At, WorkerAt, OutsiderAt, StewardAt, ThreadsTyped,
        QueuesTyped, GoesToSleep, Claimed, Loop, StartPop, Goto
  <1>19. ASSUME NEW w \in Workers, RanIdle(w) PROVE WakeDue'
    BY <1>19
    DEF WatchInv, WakeDue, Control, At, WorkerAt, OutsiderAt, StewardAt, ThreadsTyped,
        QueuesTyped, GoesToSleep, Claimed, RanIdle, StartPop, Goto
  <1>20. ASSUME NEW w \in Workers, RanYielded(w) PROVE WakeDue'
    BY <1>20
    DEF WatchInv, WakeDue, Control, At, WorkerAt, OutsiderAt, StewardAt, ThreadsTyped,
        QueuesTyped, GoesToSleep, Claimed, RanYielded, StartPop, Goto
  <1>21. ASSUME NEW w \in Workers, Search(w) PROVE WakeDue'
    BY <1>21
    DEF WatchInv, WakeDue, Control, At, WorkerAt, OutsiderAt, StewardAt, ThreadsTyped,
        QueuesTyped, GoesToSleep, Claimed, Search, Goto
  <1>22. ASSUME NEW w \in Workers, Spin(w) PROVE WakeDue'
    BY <1>22
    DEF WatchInv, WakeDue, Control, At, WorkerAt, OutsiderAt, StewardAt, ThreadsTyped,
        QueuesTyped, GoesToSleep, Claimed, Spin, StartPop, Goto
  <1>23. ASSUME NEW w \in Workers, Found(w) PROVE WakeDue'
    BY <1>23
    DEF WatchInv, WakeDue, Control, At, WorkerAt, OutsiderAt, StewardAt, ThreadsTyped,
        QueuesTyped, GoesToSleep, Claimed, Found, StopSearching, Goto
  <1>24. ASSUME NEW w \in Workers, Spun(w) PROVE WakeDue'
    BY <1>24
    DEF WatchInv, WakeDue, Control, At, WorkerAt, OutsiderAt, StewardAt, ThreadsTyped,
        QueuesTyped, GoesToSleep, Claimed, Spun, StopSearching, Goto
  <1>25. ASSUME NEW w \in Workers, MarkIdle(w) PROVE WakeDue'
    BY <1>25
    DEF WatchInv, WakeDue, Control, At, WorkerAt, OutsiderAt, StewardAt, ThreadsTyped,
        QueuesTyped, GoesToSleep, Claimed, MarkIdle, Goto
  <1>26. ASSUME NEW w \in Workers, Unsearch(w) PROVE WakeDue'
    BY <1>26
    DEF WatchInv, WakeDue, Control, At, WorkerAt, OutsiderAt, StewardAt, ThreadsTyped,
        QueuesTyped, GoesToSleep, Claimed, Unsearch, StopSearching, Goto
  <1>27. ASSUME NEW w \in Workers, LastLook(w) PROVE WakeDue'
    BY <1>27
    DEF WatchInv, WakeDue, Control, At, WorkerAt, OutsiderAt, StewardAt, ThreadsTyped,
        QueuesTyped, GoesToSleep, Claimed, LastLook, StartPop, Goto
  <1>28. ASSUME NEW w \in Workers, Park(w) PROVE WakeDue'
    BY <1>28
    DEF WatchInv, WakeDue, Control, At, WorkerAt, OutsiderAt, StewardAt, ThreadsTyped,
        QueuesTyped, GoesToSleep, Claimed, Park, Goto
  <1>29. ASSUME NEW w \in Workers, Unpark(w) PROVE WakeDue'
    BY <1>29
    DEF WatchInv, WakeDue, Control, At, WorkerAt, OutsiderAt, StewardAt, ThreadsTyped,
        QueuesTyped, GoesToSleep, Claimed, Unpark, Goto
  <1>30. ASSUME NEW w \in Workers, ClearIdle(w) PROVE WakeDue'
    <2>1. ret[w] = "none"
      BY <1>30
      DEF ThreadsTyped, Control, At, WorkerAt, OutsiderAt, StewardAt, ClearIdle, Goto
    <2>2. WakeDue'
      <3>1. /\ pc[w] \in {"clear_idle", "found_last"} /\ pc' = [pc EXCEPT ![w] = "loop"]
            /\ idle' = idle \ {w} /\ UNCHANGED <<ret, permit, target>>
        BY <1>30 DEF ClearIdle, Goto
      <3>2. ASSUME NEW v \in Workers, GoesToSleep(v)'
            PROVE  v \in idle' \/ permit'[v] \/ Claimed(v)'
        <4>1. GoesToSleep(v)
          BY <3>1, <3>2 DEF ThreadsTyped, GoesToSleep
        <4>2. CASE v \in idle
          BY <2>1, <3>1, <3>2, <4>2 DEF ThreadsTyped, GoesToSleep
        <4>3. CASE permit[v]
          BY <3>1, <4>3
        <4>4. CASE Claimed(v)
          <5>1. PICK u \in Threads : pc[u] \in ClaimPC /\ target[u] = v
            BY <4>4 DEF Claimed
          <5>2. pc'[u] \in ClaimPC /\ target'[u] = v
            BY <3>1, <5>1 DEF ThreadsTyped, QueuesTyped
          <5>3. QED
            BY <5>2 DEF Claimed
        <4>5. QED
          BY <4>1, <4>2, <4>3, <4>4 DEF WatchInv, WakeDue
      <3>3. QED
        BY <3>2 DEF WakeDue
    <2>3. QED
      BY <2>2
  <1>31. ASSUME NEW w \in Workers, FlushSlot(w) PROVE WakeDue'
    BY <1>31
    DEF WatchInv, WakeDue, Control, At, WorkerAt, OutsiderAt, StewardAt, ThreadsTyped,
        QueuesTyped, GoesToSleep, Claimed, FlushSlot, Goto
  <1>32. ASSUME NEW w \in Workers, FlushLocal(w) PROVE WakeDue'
    BY <1>32
    DEF WatchInv, WakeDue, Control, At, WorkerAt, OutsiderAt, StewardAt, ThreadsTyped,
        QueuesTyped, GoesToSleep, Claimed, FlushLocal, Goto
  <1>33. ASSUME NEW w \in Workers, NEW s \in Services, WorkerPush(w, s) PROVE WakeDue'
    BY SMTT(30), <1>33
    DEF WatchInv, WakeDue, Control, At, WorkerAt, OutsiderAt, StewardAt, ThreadsTyped,
        QueuesTyped, GoesToSleep, Claimed, WorkerPush, StartPush, Goto
  <1>34. ASSUME NEW t \in Outsiders, NEW s \in Services, OutsiderPush(t, s) PROVE WakeDue'
    BY <1>34
    DEF WatchInv, WakeDue, Control, At, WorkerAt, OutsiderAt, StewardAt, ThreadsTyped,
        QueuesTyped, GoesToSleep, Claimed, OutsiderPush, StartPush, Goto
  <1>35. ASSUME SetQuit PROVE WakeDue'
    BY <1>35
    DEF WatchInv, WakeDue, Control, At, WorkerAt, OutsiderAt, StewardAt, ThreadsTyped,
        QueuesTyped, GoesToSleep, Claimed, SetQuit, Goto
  <1>36. ASSUME WakeAll PROVE WakeDue'
    BY <1>36
    DEF WatchInv, WakeDue, Control, At, WorkerAt, OutsiderAt, StewardAt, ThreadsTyped,
        QueuesTyped, GoesToSleep, Claimed, WakeAll, Goto
  <1>37. ASSUME Join PROVE WakeDue'
    BY <1>37
    DEF WatchInv, WakeDue, Control, At, WorkerAt, OutsiderAt, StewardAt, ThreadsTyped,
        QueuesTyped, GoesToSleep, Claimed, Join, Goto
  <1>38. ASSUME Drain PROVE WakeDue'
    BY <1>38
    DEF WatchInv, WakeDue, Control, At, WorkerAt, OutsiderAt, StewardAt, ThreadsTyped,
        QueuesTyped, GoesToSleep, Claimed, Drain, Goto
  <1>39. ASSUME UNCHANGED vars PROVE WakeDue'
    BY <1>39 DEF WatchInv, WakeDue, ThreadsTyped, QueuesTyped, GoesToSleep, Claimed, vars
  <1>40. QED
    BY <1>1, <1>2, <1>3, <1>4, <1>5, <1>6, <1>7, <1>8, <1>9, <1>10, <1>11, <1>12, <1>13,
       <1>14, <1>15, <1>16, <1>17, <1>18, <1>19, <1>20, <1>21, <1>22, <1>23, <1>24, <1>25,
       <1>26, <1>27, <1>28, <1>29, <1>30, <1>31, <1>32, <1>33, <1>34, <1>35, <1>36, <1>37,
       <1>38, <1>39
    DEF Next, Work, Push, Pop, FindWorkOrPark

(* A slot is filled only by a thread that goes on to wake its owner. *)
LEMMA SlotStep == Shape /\ Exact /\ SearchExact /\ WatchInv /\ [Next]_vars => SlotWatched'
  <1> SUFFICES ASSUME Shape, Exact, SearchExact, WatchInv, [Next]_vars PROVE SlotWatched'
    OBVIOUS
  <1>1. ASSUME NEW t \in Pushers, Announce(t) PROVE SlotWatched'
    BY <1>1
    DEF WatchInv, SlotWatched, Control, At, WorkerAt, OutsiderAt, StewardAt,
        ThreadsTyped, QueuesTyped, PastSlot, Waking, Announce, Goto
  <1>2. ASSUME NEW t \in Pushers, LookForSearcher(t) PROVE SlotWatched'
    BY <1>2
    DEF WatchInv, SlotWatched, Control, At, WorkerAt, OutsiderAt, StewardAt,
        ThreadsTyped, QueuesTyped, PastSlot, Waking, LookForSearcher, Goto
  <1>3. ASSUME NEW t \in Pushers, Inject(t) PROVE SlotWatched'
    BY <1>3
    DEF WatchInv, SlotWatched, Control, At, WorkerAt, OutsiderAt, StewardAt,
        ThreadsTyped, QueuesTyped, PastSlot, Waking, Inject, Goto
  <1>4. ASSUME NEW t \in Pushers, RecheckSearcher(t) PROVE SlotWatched'
    <2>1. pc[t] # "wake" /\ OnlyMoves(t) /\ UNCHANGED <<permit, slot>>
      BY <1>4, PushReturns DEF ThreadsTyped, OnlyMoves, RecheckSearcher, Pushed
    <2>2. \A u \in Threads \ {t} : target'[u] = target[u]
      BY <1>4, PushReturns DEF QueuesTyped, RecheckSearcher, Pushed
    <2>3. PastSlot(t)' => PastSlot(t)
      BY <1>4, PushReturns DEF ThreadsTyped, PastSlot, RecheckSearcher, Pushed
    <2>4. QED
      BY <2>1, <2>2, <2>3, SlotKept DEF WatchInv
  <1>5. ASSUME NEW t \in Pushers, ClaimSleeper(t) PROVE SlotWatched'
    BY <1>5
    DEF WatchInv, SlotWatched, Control, At, WorkerAt, OutsiderAt, StewardAt,
        ThreadsTyped, QueuesTyped, PastSlot, Waking, ClaimSleeper, ClaimIdle, Pushed
  <1>6. ASSUME NEW t \in Pushers, ClaimForHandoff(t) PROVE SlotWatched'
    <2>1. pc[t] # "wake" /\ OnlyMoves(t) /\ UNCHANGED <<permit, slot>>
      BY <1>6, PushReturns DEF ThreadsTyped, OnlyMoves, ClaimForHandoff, ClaimIdle, Goto
    <2>2. \A u \in Threads \ {t} : target'[u] = target[u]
      BY <1>6, PushReturns DEF QueuesTyped, ClaimForHandoff, ClaimIdle, Goto
    <2>3. PastSlot(t)' => PastSlot(t)
      BY <1>6, PushReturns DEF ThreadsTyped, PastSlot, ClaimForHandoff, ClaimIdle, Goto
    <2>4. QED
      BY <2>1, <2>2, <2>3, SlotKept DEF WatchInv
  <1>7. ASSUME NEW t \in Pushers, Offer(t) PROVE SlotWatched'
    BY <1>7
    DEF WatchInv, SlotWatched, Control, At, WorkerAt, OutsiderAt, StewardAt,
        ThreadsTyped, QueuesTyped, PastSlot, Waking, Offer, Goto
  <1>8. ASSUME NEW t \in Pushers, PlaceThenWake(t) PROVE SlotWatched'
    BY <1>8
    DEF WatchInv, SlotWatched, Control, At, WorkerAt, OutsiderAt, StewardAt,
        ThreadsTyped, QueuesTyped, PastSlot, Waking, PlaceThenWake, PlaceItem, HasRoom,
        Goto
  <1>9. ASSUME NEW t \in Pushers, Place(t) PROVE SlotWatched'
    <2>1. pc[t] # "wake" /\ OnlyMoves(t) /\ UNCHANGED <<permit, slot>>
      BY <1>9, PushReturns DEF ThreadsTyped, OnlyMoves, Place, Pushed
    <2>2. \A u \in Threads \ {t} : target'[u] = target[u]
      BY <1>9, PushReturns DEF QueuesTyped, Place, Pushed
    <2>3. PastSlot(t)' => PastSlot(t)
      BY <1>9, PushReturns DEF ThreadsTyped, PastSlot, Place, Pushed
    <2>4. QED
      BY <2>1, <2>2, <2>3, SlotKept DEF WatchInv
  <1>10. ASSUME NEW t \in Pushers, Wake(t) PROVE SlotWatched'
    <2>1. ret[t] \in {"run", "loop", "flush", "outside"} /\ pc[t] = "wake"
      BY <1>10, PushReturns DEF Wake
    <2>2. /\ OnlyMoves(t) /\ permit' = [permit EXCEPT ![target[t]] = TRUE] /\ UNCHANGED slot
          /\ pc'[t] = ret[t] /\ ret'[t] = "none"
          /\ \A u \in Threads \ {t} : target'[u] = target[u]
      BY <1>10 DEF ThreadsTyped, QueuesTyped, OnlyMoves, Wake, Pushed
    <2>3. ASSUME NEW v \in Workers, PastSlot(v)', slot'[v] # NoService
          PROVE  permit'[v] \/ Waking(v)'
      <3>1. PastSlot(v) /\ slot[v] # NoService
        BY <2>1, <2>2, <2>3 DEF PastSlot, OnlyMoves
      <3>2. CASE permit[v]
        BY <2>2, <3>2 DEF QueuesTyped
      <3>3. CASE Waking(v)
        <4>1. PICK u \in Threads : pc[u] = "wake" /\ target[u] = v
          BY <3>3 DEF Waking
        <4>2. CASE u = t
          BY <2>2, <4>1, <4>2 DEF QueuesTyped
        <4>3. CASE u # t
          BY <2>2, <4>1, <4>3 DEF Waking, OnlyMoves
        <4>4. QED
          BY <4>2, <4>3
      <3>4. QED
        BY <3>1, <3>2, <3>3 DEF WatchInv, SlotWatched
    <2>4. QED
      BY <2>3 DEF SlotWatched
  <1>11. ASSUME NEW w \in Workers, PopSlot(w) PROVE SlotWatched'
    <2>1. CASE slot[w] # NoService
      <3>1. slot[w] \in Services /\ Got(w, slot[w]) /\ UNCHANGED <<permit, target>>
        BY <1>11, <2>1 DEF QueuesTyped, PopSlot
      <3>2. OnlyMoves(w) /\ \A v \in Workers \ {w} : slot'[v] = slot[v]
        BY <1>11, <2>1, <3>1, GotMoves DEF QueuesTyped, PopSlot
      <3>3. pc[w] = "pop_slot" /\ slot'[w] = NoService
        BY <1>11, <2>1 DEF QueuesTyped, PopSlot
      <3>4. QED
        BY <3>1, <3>2, <3>3 DEF WatchInv, SlotWatched, PastSlot, Waking, OnlyMoves
    <2>2. CASE slot[w] = NoService
      BY <1>11, <2>2 DEF WatchInv, SlotWatched, ThreadsTyped, PastSlot, Waking, PopSlot
    <2>3. QED
      BY <2>1, <2>2
  <1>12. ASSUME NEW w \in Workers, PopPending(w) PROVE SlotWatched'
    BY <1>12, NothingCases, PopReturns
    DEF WatchInv, SlotWatched, ThreadsTyped, QueuesTyped, PastSlot, Waking, PopPending
  <1>13. ASSUME NEW w \in Workers, PopLocal(w) PROVE SlotWatched'
    BY <1>13, GotCases, PopReturns
    DEF WatchInv, SlotWatched, ThreadsTyped, QueuesTyped, PastSlot, Waking, PopLocal
  <1>14. ASSUME NEW w \in Workers, PopInjector(w, "pop_injector_first", "pop_local") PROVE SlotWatched'
    BY <1>14, GotCases, PopReturns, HeadTailProperties
    DEF WatchInv, SlotWatched, ThreadsTyped, QueuesTyped, PastSlot, Waking, PopInjector
  <1>15. ASSUME NEW w \in Workers, PopInjector(w, "pop_injector", "pop_steal") PROVE SlotWatched'
    BY <1>15, GotCases, PopReturns, HeadTailProperties
    DEF WatchInv, SlotWatched, ThreadsTyped, QueuesTyped, PastSlot, Waking, PopInjector
  <1>16. ASSUME NEW w \in Workers, TakeStealable(w) PROVE SlotWatched'
    BY <1>16, NothingCases, PopReturns
    DEF WatchInv, SlotWatched, ThreadsTyped, QueuesTyped, PastSlot, Waking, TakeStealable
  <1>17. ASSUME NEW w \in Workers, StealFront(w) PROVE SlotWatched'
    <2>1. PastSlot(w)' => PastSlot(w)
      BY <1>17, StealFrontMoves DEF PastSlot
    <2>2. QED
      BY <1>17, <2>1, StealFrontMoves, SlotKept DEF WatchInv
  <1>18. ASSUME NEW w \in Workers, Loop(w) PROVE SlotWatched'
    BY <1>18
    DEF WatchInv, SlotWatched, Control, At, WorkerAt, OutsiderAt, StewardAt,
        ThreadsTyped, QueuesTyped, PastSlot, Waking, Loop, StartPop, Goto
  <1>19. ASSUME NEW w \in Workers, RanIdle(w) PROVE SlotWatched'
    <2>1. pc[w] # "wake" /\ OnlyMoves(w) /\ UNCHANGED <<permit, slot>>
      BY <1>19 DEF ThreadsTyped, OnlyMoves, RanIdle, StartPop, Goto
    <2>2. \A u \in Threads \ {w} : target'[u] = target[u]
      BY <1>19 DEF QueuesTyped, RanIdle, StartPop, Goto
    <2>3. PastSlot(w)' => PastSlot(w)
      BY <1>19 DEF ThreadsTyped, PastSlot, RanIdle, StartPop, Goto
    <2>4. QED
      BY <2>1, <2>2, <2>3, SlotKept DEF WatchInv
  <1>20. ASSUME NEW w \in Workers, RanYielded(w) PROVE SlotWatched'
    BY <1>20
    DEF WatchInv, SlotWatched, Control, At, WorkerAt, OutsiderAt, StewardAt,
        ThreadsTyped, QueuesTyped, PastSlot, Waking, RanYielded, StartPop, Goto
  <1>21. ASSUME NEW w \in Workers, Search(w) PROVE SlotWatched'
    BY <1>21
    DEF WatchInv, SlotWatched, Control, At, WorkerAt, OutsiderAt, StewardAt,
        ThreadsTyped, QueuesTyped, PastSlot, Waking, Search, Goto
  <1>22. ASSUME NEW w \in Workers, Spin(w) PROVE SlotWatched'
    BY <1>22
    DEF WatchInv, SlotWatched, Control, At, WorkerAt, OutsiderAt, StewardAt,
        ThreadsTyped, QueuesTyped, PastSlot, Waking, Spin, StartPop, Goto
  <1>23. ASSUME NEW w \in Workers, Found(w) PROVE SlotWatched'
    BY <1>23
    DEF WatchInv, SlotWatched, Control, At, WorkerAt, OutsiderAt, StewardAt,
        ThreadsTyped, QueuesTyped, PastSlot, Waking, Found, StopSearching, Goto
  <1>24. ASSUME NEW w \in Workers, Spun(w) PROVE SlotWatched'
    <2>1. pc[w] # "wake" /\ OnlyMoves(w) /\ UNCHANGED <<permit, slot>>
      BY <1>24 DEF ThreadsTyped, OnlyMoves, Spun, StopSearching, Goto
    <2>2. \A u \in Threads \ {w} : target'[u] = target[u]
      BY <1>24 DEF QueuesTyped, Spun, StopSearching, Goto
    <2>3. PastSlot(w)' => PastSlot(w)
      BY <1>24
      DEF ThreadsTyped, PastSlot, Control, At, WorkerAt, OutsiderAt, StewardAt, Spun,
          StopSearching, Goto
    <2>4. QED
      BY <2>1, <2>2, <2>3, SlotKept DEF WatchInv
  <1>25. ASSUME NEW w \in Workers, MarkIdle(w) PROVE SlotWatched'
    BY <1>25
    DEF WatchInv, SlotWatched, Control, At, WorkerAt, OutsiderAt, StewardAt,
        ThreadsTyped, QueuesTyped, PastSlot, Waking, MarkIdle, Goto
  <1>26. ASSUME NEW w \in Workers, Unsearch(w) PROVE SlotWatched'
    BY <1>26
    DEF WatchInv, SlotWatched, Control, At, WorkerAt, OutsiderAt, StewardAt,
        ThreadsTyped, QueuesTyped, PastSlot, Waking, Unsearch, StopSearching, Goto
  <1>27. ASSUME NEW w \in Workers, LastLook(w) PROVE SlotWatched'
    BY <1>27
    DEF WatchInv, SlotWatched, Control, At, WorkerAt, OutsiderAt, StewardAt,
        ThreadsTyped, QueuesTyped, PastSlot, Waking, LastLook, StartPop, Goto
  <1>28. ASSUME NEW w \in Workers, Park(w) PROVE SlotWatched'
    BY <1>28
    DEF WatchInv, SlotWatched, Control, At, WorkerAt, OutsiderAt, StewardAt,
        ThreadsTyped, QueuesTyped, PastSlot, Waking, Park, Goto
  <1>29. ASSUME NEW w \in Workers, Unpark(w) PROVE SlotWatched'
    BY <1>29
    DEF WatchInv, SlotWatched, Control, At, WorkerAt, OutsiderAt, StewardAt,
        ThreadsTyped, QueuesTyped, PastSlot, Waking, Unpark, Goto
  <1>30. ASSUME NEW w \in Workers, ClearIdle(w) PROVE SlotWatched'
    BY <1>30
    DEF WatchInv, SlotWatched, Control, At, WorkerAt, OutsiderAt, StewardAt,
        ThreadsTyped, QueuesTyped, PastSlot, Waking, ClearIdle, Goto
  <1>31. ASSUME NEW w \in Workers, FlushSlot(w) PROVE SlotWatched'
    BY SMTT(30), <1>31
    DEF WatchInv, SlotWatched, Control, At, WorkerAt, OutsiderAt, StewardAt,
        ThreadsTyped, QueuesTyped, PastSlot, Waking, FlushSlot, Goto
  <1>32. ASSUME NEW w \in Workers, FlushLocal(w) PROVE SlotWatched'
    BY <1>32
    DEF WatchInv, SlotWatched, Control, At, WorkerAt, OutsiderAt, StewardAt,
        ThreadsTyped, QueuesTyped, PastSlot, Waking, FlushLocal, Goto
  <1>33. ASSUME NEW w \in Workers, NEW s \in Services, WorkerPush(w, s) PROVE SlotWatched'
    BY <1>33
    DEF WatchInv, SlotWatched, Control, At, WorkerAt, OutsiderAt, StewardAt,
        ThreadsTyped, QueuesTyped, PastSlot, Waking, WorkerPush, StartPush, Goto
  <1>34. ASSUME NEW t \in Outsiders, NEW s \in Services, OutsiderPush(t, s) PROVE SlotWatched'
    BY <1>34
    DEF WatchInv, SlotWatched, Control, At, WorkerAt, OutsiderAt, StewardAt,
        ThreadsTyped, QueuesTyped, PastSlot, Waking, OutsiderPush, StartPush, Goto
  <1>35. ASSUME SetQuit PROVE SlotWatched'
    BY <1>35
    DEF WatchInv, SlotWatched, Control, At, WorkerAt, OutsiderAt, StewardAt,
        ThreadsTyped, QueuesTyped, PastSlot, Waking, SetQuit, Goto
  <1>36. ASSUME WakeAll PROVE SlotWatched'
    BY <1>36
    DEF WatchInv, SlotWatched, Control, At, WorkerAt, OutsiderAt, StewardAt,
        ThreadsTyped, QueuesTyped, PastSlot, Waking, WakeAll, Goto
  <1>37. ASSUME Join PROVE SlotWatched'
    BY <1>37
    DEF WatchInv, SlotWatched, Control, At, WorkerAt, OutsiderAt, StewardAt,
        ThreadsTyped, QueuesTyped, PastSlot, Waking, Join, Goto
  <1>38. ASSUME Drain PROVE SlotWatched'
    BY <1>38
    DEF WatchInv, SlotWatched, Control, At, WorkerAt, OutsiderAt, StewardAt,
        ThreadsTyped, QueuesTyped, PastSlot, Waking, Drain, Goto
  <1>39. ASSUME UNCHANGED vars PROVE SlotWatched'
    BY <1>39 DEF WatchInv, SlotWatched, ThreadsTyped, QueuesTyped, PastSlot, Waking, vars
  <1>40. QED
    BY <1>1, <1>2, <1>3, <1>4, <1>5, <1>6, <1>7, <1>8, <1>9, <1>10, <1>11, <1>12, <1>13,
       <1>14, <1>15, <1>16, <1>17, <1>18, <1>19, <1>20, <1>21, <1>22, <1>23, <1>24, <1>25,
       <1>26, <1>27, <1>28, <1>29, <1>30, <1>31, <1>32, <1>33, <1>34, <1>35, <1>36, <1>37,
       <1>38, <1>39
    DEF Next, Work, Push, Pop, FindWorkOrPark

(* Only its owner fills a local queue. *)
LEMMA LocalStep == Shape /\ Exact /\ SearchExact /\ WatchInv /\ [Next]_vars => LocalWatched'
  <1> SUFFICES ASSUME Shape, Exact, SearchExact, WatchInv, [Next]_vars PROVE LocalWatched'
    OBVIOUS
  <1>1. ASSUME NEW t \in Pushers, Announce(t) PROVE LocalWatched'
    BY <1>1
    DEF WatchInv, LocalWatched, Control, At, WorkerAt, OutsiderAt, StewardAt,
        ThreadsTyped, QueuesTyped, PastLocal, Announce, Goto
  <1>2. ASSUME NEW t \in Pushers, LookForSearcher(t) PROVE LocalWatched'
    BY <1>2
    DEF WatchInv, LocalWatched, Control, At, WorkerAt, OutsiderAt, StewardAt,
        ThreadsTyped, QueuesTyped, PastLocal, LookForSearcher, Goto
  <1>3. ASSUME NEW t \in Pushers, Inject(t) PROVE LocalWatched'
    BY <1>3
    DEF WatchInv, LocalWatched, Control, At, WorkerAt, OutsiderAt, StewardAt,
        ThreadsTyped, QueuesTyped, PastLocal, Inject, Goto
  <1>4. ASSUME NEW t \in Pushers, RecheckSearcher(t) PROVE LocalWatched'
    BY <1>4
    DEF WatchInv, LocalWatched, Control, At, WorkerAt, OutsiderAt, StewardAt,
        ThreadsTyped, QueuesTyped, PastLocal, RecheckSearcher, Pushed
  <1>5. ASSUME NEW t \in Pushers, ClaimSleeper(t) PROVE LocalWatched'
    BY <1>5
    DEF WatchInv, LocalWatched, Control, At, WorkerAt, OutsiderAt, StewardAt,
        ThreadsTyped, QueuesTyped, PastLocal, ClaimSleeper, ClaimIdle, Pushed
  <1>6. ASSUME NEW t \in Pushers, ClaimForHandoff(t) PROVE LocalWatched'
    BY <1>6
    DEF WatchInv, LocalWatched, Control, At, WorkerAt, OutsiderAt, StewardAt,
        ThreadsTyped, QueuesTyped, PastLocal, ClaimForHandoff, ClaimIdle, Goto
  <1>7. ASSUME NEW t \in Pushers, Offer(t) PROVE LocalWatched'
    BY <1>7
    DEF WatchInv, LocalWatched, Control, At, WorkerAt, OutsiderAt, StewardAt,
        ThreadsTyped, QueuesTyped, PastLocal, Offer, Goto
  <1>8. ASSUME NEW t \in Pushers, PlaceThenWake(t) PROVE LocalWatched'
    BY <1>8
    DEF WatchInv, LocalWatched, Control, At, WorkerAt, OutsiderAt, StewardAt,
        ThreadsTyped, QueuesTyped, PastLocal, PlaceThenWake, PlaceItem, HasRoom, Goto
  <1>9. ASSUME NEW t \in Pushers, Place(t) PROVE LocalWatched'
    BY <1>9
    DEF WatchInv, LocalWatched, Control, At, WorkerAt, OutsiderAt, StewardAt,
        ThreadsTyped, QueuesTyped, PastLocal, Place, PlaceItem, HasRoom, Pushed
  <1>10. ASSUME NEW t \in Pushers, Wake(t) PROVE LocalWatched'
    BY <1>10
    DEF WatchInv, LocalWatched, Control, At, WorkerAt, OutsiderAt, StewardAt,
        ThreadsTyped, QueuesTyped, PastLocal, Wake, Pushed
  <1>11. ASSUME NEW w \in Workers, PopSlot(w) PROVE LocalWatched'
    BY <1>11, GotCases, PopReturns
    DEF WatchInv, LocalWatched, ThreadsTyped, QueuesTyped, PastLocal, PopSlot
  <1>12. ASSUME NEW w \in Workers, PopPending(w) PROVE LocalWatched'
    <2>1. OnlyMoves(w) /\ UNCHANGED local
      BY <1>12, NothingCases DEF ThreadsTyped, OnlyMoves, PopPending
    <2>2. PastLocal(w)' => PastLocal(w) \/ local[w] = {}
      <3>1. CASE pending = 0
        BY <3>1, NothingPending
      <3>2. CASE pending # 0
        BY <1>12, <3>2 DEF ThreadsTyped, PastLocal, PopPending
      <3>3. QED
        BY <3>1, <3>2
    <2>3. QED
      BY <2>1, <2>2, LocalKept DEF WatchInv
  <1>13. ASSUME NEW w \in Workers, PopLocal(w) PROVE LocalWatched'
    <2>1. CASE local[w] # {}
      <3>1. PICK s \in Services : Got(w, s)
        BY <1>13, <2>1 DEF QueuesTyped, PopLocal
      <3>2. OnlyMoves(w) /\ ~PastLocal(w)'
        BY <1>13, <3>1, GotCases, GotMoves DEF ThreadsTyped, PastLocal, PopLocal
      <3>3. \A v \in Workers : local'[v] \subseteq local[v]
        BY <1>13 DEF QueuesTyped, PopLocal
      <3>4. QED
        BY <3>2, <3>3, LocalKept DEF WatchInv
    <2>2. CASE local[w] = {}
      <3>1. OnlyMoves(w) /\ UNCHANGED local
        BY <1>13, <2>2 DEF ThreadsTyped, OnlyMoves, PopLocal
      <3>2. QED
        BY <2>2, <3>1, LocalKept DEF WatchInv
    <2>3. QED
      BY <2>1, <2>2
  <1>14. ASSUME NEW w \in Workers, PopInjector(w, "pop_injector_first", "pop_local") PROVE LocalWatched'
    <2>1. CASE injector # <<>>
      <3>1. Head(injector) \in Services /\ Got(w, Head(injector)) /\ UNCHANGED local
        BY <1>14, <2>1, HeadTailProperties DEF QueuesTyped, PopInjector
      <3>2. OnlyMoves(w) /\ ~PastLocal(w)'
        BY <1>14, <3>1, GotCases, GotMoves DEF ThreadsTyped, PastLocal, PopInjector
      <3>3. QED
        BY <3>1, <3>2, LocalKept DEF WatchInv
    <2>2. CASE injector = <<>>
      BY <1>14, <2>2 DEF WatchInv, LocalWatched, ThreadsTyped, PastLocal, PopInjector
    <2>3. QED
      BY <2>1, <2>2
  <1>15. ASSUME NEW w \in Workers, PopInjector(w, "pop_injector", "pop_steal") PROVE LocalWatched'
    BY <1>15, GotCases, PopReturns, HeadTailProperties
    DEF WatchInv, LocalWatched, ThreadsTyped, QueuesTyped, PastLocal, PopInjector
  <1>16. ASSUME NEW w \in Workers, TakeStealable(w) PROVE LocalWatched'
    BY SMTT(30), <1>16, NothingCases, PopReturns
    DEF WatchInv, LocalWatched, ThreadsTyped, QueuesTyped, PastLocal, TakeStealable
  <1>17. ASSUME NEW w \in Workers, StealFront(w) PROVE LocalWatched'
    <2>1. PastLocal(w)' => PastLocal(w)
      BY <1>17, StealFrontMoves DEF PastLocal
    <2>2. QED
      BY <1>17, <2>1, StealFrontMoves, LocalKept DEF WatchInv
  <1>18. ASSUME NEW w \in Workers, Loop(w) PROVE LocalWatched'
    BY <1>18
    DEF WatchInv, LocalWatched, Control, At, WorkerAt, OutsiderAt, StewardAt,
        ThreadsTyped, QueuesTyped, PastLocal, Loop, StartPop, Goto
  <1>19. ASSUME NEW w \in Workers, RanIdle(w) PROVE LocalWatched'
    BY <1>19
    DEF WatchInv, LocalWatched, Control, At, WorkerAt, OutsiderAt, StewardAt,
        ThreadsTyped, QueuesTyped, PastLocal, RanIdle, StartPop, Goto
  <1>20. ASSUME NEW w \in Workers, RanYielded(w) PROVE LocalWatched'
    BY <1>20
    DEF WatchInv, LocalWatched, Control, At, WorkerAt, OutsiderAt, StewardAt,
        ThreadsTyped, QueuesTyped, PastLocal, RanYielded, StartPop, Goto
  <1>21. ASSUME NEW w \in Workers, Search(w) PROVE LocalWatched'
    BY <1>21
    DEF WatchInv, LocalWatched, Control, At, WorkerAt, OutsiderAt, StewardAt,
        ThreadsTyped, QueuesTyped, PastLocal, Search, Goto
  <1>22. ASSUME NEW w \in Workers, Spin(w) PROVE LocalWatched'
    BY <1>22
    DEF WatchInv, LocalWatched, Control, At, WorkerAt, OutsiderAt, StewardAt,
        ThreadsTyped, QueuesTyped, PastLocal, Spin, StartPop, Goto
  <1>23. ASSUME NEW w \in Workers, Found(w) PROVE LocalWatched'
    BY <1>23
    DEF WatchInv, LocalWatched, Control, At, WorkerAt, OutsiderAt, StewardAt,
        ThreadsTyped, QueuesTyped, PastLocal, Found, StopSearching, Goto
  <1>24. ASSUME NEW w \in Workers, Spun(w) PROVE LocalWatched'
    BY <1>24
    DEF WatchInv, LocalWatched, Control, At, WorkerAt, OutsiderAt, StewardAt,
        ThreadsTyped, QueuesTyped, PastLocal, Spun, StopSearching, Goto
  <1>25. ASSUME NEW w \in Workers, MarkIdle(w) PROVE LocalWatched'
    BY <1>25
    DEF WatchInv, LocalWatched, Control, At, WorkerAt, OutsiderAt, StewardAt,
        ThreadsTyped, QueuesTyped, PastLocal, MarkIdle, Goto
  <1>26. ASSUME NEW w \in Workers, Unsearch(w) PROVE LocalWatched'
    BY <1>26
    DEF WatchInv, LocalWatched, Control, At, WorkerAt, OutsiderAt, StewardAt,
        ThreadsTyped, QueuesTyped, PastLocal, Unsearch, StopSearching, Goto
  <1>27. ASSUME NEW w \in Workers, LastLook(w) PROVE LocalWatched'
    BY <1>27
    DEF WatchInv, LocalWatched, Control, At, WorkerAt, OutsiderAt, StewardAt,
        ThreadsTyped, QueuesTyped, PastLocal, LastLook, StartPop, Goto
  <1>28. ASSUME NEW w \in Workers, Park(w) PROVE LocalWatched'
    BY <1>28
    DEF WatchInv, LocalWatched, Control, At, WorkerAt, OutsiderAt, StewardAt,
        ThreadsTyped, QueuesTyped, PastLocal, Park, Goto
  <1>29. ASSUME NEW w \in Workers, Unpark(w) PROVE LocalWatched'
    BY <1>29
    DEF WatchInv, LocalWatched, Control, At, WorkerAt, OutsiderAt, StewardAt,
        ThreadsTyped, QueuesTyped, PastLocal, Unpark, Goto
  <1>30. ASSUME NEW w \in Workers, ClearIdle(w) PROVE LocalWatched'
    BY <1>30
    DEF WatchInv, LocalWatched, Control, At, WorkerAt, OutsiderAt, StewardAt,
        ThreadsTyped, QueuesTyped, PastLocal, ClearIdle, Goto
  <1>31. ASSUME NEW w \in Workers, FlushSlot(w) PROVE LocalWatched'
    BY <1>31
    DEF WatchInv, LocalWatched, Control, At, WorkerAt, OutsiderAt, StewardAt,
        ThreadsTyped, QueuesTyped, PastLocal, FlushSlot, Goto
  <1>32. ASSUME NEW w \in Workers, FlushLocal(w) PROVE LocalWatched'
    BY <1>32
    DEF WatchInv, LocalWatched, Control, At, WorkerAt, OutsiderAt, StewardAt,
        ThreadsTyped, QueuesTyped, PastLocal, FlushLocal, Goto
  <1>33. ASSUME NEW w \in Workers, NEW s \in Services, WorkerPush(w, s) PROVE LocalWatched'
    BY <1>33
    DEF WatchInv, LocalWatched, Control, At, WorkerAt, OutsiderAt, StewardAt,
        ThreadsTyped, QueuesTyped, PastLocal, WorkerPush, StartPush, Goto
  <1>34. ASSUME NEW t \in Outsiders, NEW s \in Services, OutsiderPush(t, s) PROVE LocalWatched'
    BY <1>34
    DEF WatchInv, LocalWatched, Control, At, WorkerAt, OutsiderAt, StewardAt,
        ThreadsTyped, QueuesTyped, PastLocal, OutsiderPush, StartPush, Goto
  <1>35. ASSUME SetQuit PROVE LocalWatched'
    BY <1>35
    DEF WatchInv, LocalWatched, Control, At, WorkerAt, OutsiderAt, StewardAt,
        ThreadsTyped, QueuesTyped, PastLocal, SetQuit, Goto
  <1>36. ASSUME WakeAll PROVE LocalWatched'
    BY <1>36
    DEF WatchInv, LocalWatched, Control, At, WorkerAt, OutsiderAt, StewardAt,
        ThreadsTyped, QueuesTyped, PastLocal, WakeAll, Goto
  <1>37. ASSUME Join PROVE LocalWatched'
    BY <1>37
    DEF WatchInv, LocalWatched, Control, At, WorkerAt, OutsiderAt, StewardAt,
        ThreadsTyped, QueuesTyped, PastLocal, Join, Goto
  <1>38. ASSUME Drain PROVE LocalWatched'
    BY <1>38
    DEF WatchInv, LocalWatched, Control, At, WorkerAt, OutsiderAt, StewardAt,
        ThreadsTyped, QueuesTyped, PastLocal, Drain, Goto
  <1>39. ASSUME UNCHANGED vars PROVE LocalWatched'
    BY <1>39 DEF WatchInv, LocalWatched, ThreadsTyped, QueuesTyped, PastLocal, vars
  <1>40. QED
    BY <1>1, <1>2, <1>3, <1>4, <1>5, <1>6, <1>7, <1>8, <1>9, <1>10, <1>11, <1>12, <1>13,
       <1>14, <1>15, <1>16, <1>17, <1>18, <1>19, <1>20, <1>21, <1>22, <1>23, <1>24, <1>25,
       <1>26, <1>27, <1>28, <1>29, <1>30, <1>31, <1>32, <1>33, <1>34, <1>35, <1>36, <1>37,
       <1>38, <1>39
    DEF Next, Work, Push, Pop, FindWorkOrPark

(* The injector is filled by a thread that looks for a sleeper afterwards, *)
(* or by a worker that will look into it itself.                           *)
LEMMA InjectorStep == Shape /\ Exact /\ SearchExact /\ WatchInv /\ [Next]_vars => InjectorWatched'
  <1> SUFFICES ASSUME Shape, Exact, SearchExact, WatchInv, [Next]_vars PROVE InjectorWatched'
    OBVIOUS
  <1>1. ASSUME NEW t \in Pushers, Announce(t) PROVE InjectorWatched'
    BY <1>1
    DEF WatchInv, InjectorWatched, Control, At, WorkerAt, OutsiderAt, StewardAt,
        ThreadsTyped, QueuesTyped, Unaware, Announce, Goto
  <1>2. ASSUME NEW t \in Pushers, LookForSearcher(t) PROVE InjectorWatched'
    BY <1>2
    DEF WatchInv, InjectorWatched, Control, At, WorkerAt, OutsiderAt, StewardAt,
        ThreadsTyped, QueuesTyped, Unaware, LookForSearcher, Goto
  <1>3. ASSUME NEW t \in Pushers, Inject(t) PROVE InjectorWatched'
    BY <1>3
    DEF WatchInv, InjectorWatched, Control, At, WorkerAt, OutsiderAt, StewardAt,
        ThreadsTyped, QueuesTyped, Unaware, Inject, Goto
  <1>4. ASSUME NEW t \in Pushers, RecheckSearcher(t) PROVE InjectorWatched'
    <2>1. CASE searching = 0
      BY <1>4, <2>1 DEF ThreadsTyped, InjectorWatched, RecheckSearcher
    <2>2. CASE searching # 0
      <3>1. PICK v \in Searchers : TRUE
        BY <2>2, FiniteCounts, FS_EmptySet DEF SearchExact
      <3>2. v \in Workers /\ v # t
        BY <1>4, <3>1, PushReturns DEF Searchers, RecheckSearcher
      <3>3. pc[v] \in SearchPC \/ ret[v] = "spin"
        BY <3>1 DEF Searchers
      <3>4. pc'[v] = pc[v] /\ ret'[v] = ret[v]
        BY <1>4, <2>2, <3>2 DEF ThreadsTyped, RecheckSearcher, Pushed
      <3>5. ~Unaware(v)'
        BY <3>2, <3>3, <3>4
        DEF ThreadsTyped, Control, At, WorkerAt, OutsiderAt, StewardAt, Unaware
      <3>6. QED
        BY <3>2, <3>5 DEF InjectorWatched
    <2>3. QED
      BY <2>1, <2>2
  <1>5. ASSUME NEW t \in Pushers, ClaimSleeper(t) PROVE InjectorWatched'
    <2>1. CASE idle # {}
      BY <1>5, <2>1 DEF ThreadsTyped, InjectorWatched, ClaimSleeper, ClaimIdle
    <2>2. CASE idle = {}
      <3>1. pc[t] = "claim_sleeper" /\ ret[t] \in {"run", "loop", "flush", "outside"}
        BY <1>5, PushReturns DEF ClaimSleeper, ClaimIdle
      <3>2. OnlyMoves(t) /\ pc'[t] = ret[t] /\ ret'[t] = "none" /\ UNCHANGED permit
        BY <1>5, <2>2 DEF ThreadsTyped, OnlyMoves, ClaimSleeper, ClaimIdle, Pushed
      <3>3. PICK v \in Workers : TRUE
        OBVIOUS
      <3>4. CASE Unaware(v)
        <4>1. Claimed(v)
          BY <2>2, <3>4 DEF WatchInv, WakeDue, GoesToSleep, Unaware
        <4>2. PICK u \in Threads : pc[u] \in ClaimPC
          BY <4>1 DEF Claimed
        <4>3. pc'[u] \in WakerPC
          BY <3>1, <3>2, <4>2 DEF OnlyMoves
        <4>4. QED
          BY <4>3 DEF InjectorWatched
      <3>5. CASE ~Unaware(v)
        <4>1. ~Unaware(v)'
          BY <3>1, <3>2, <3>5 DEF Unaware, OnlyMoves
        <4>2. QED
          BY <4>1 DEF InjectorWatched
      <3>6. QED
        BY <3>4, <3>5
    <2>3. QED
      BY <2>1, <2>2
  <1>6. ASSUME NEW t \in Pushers, ClaimForHandoff(t) PROVE InjectorWatched'
    BY <1>6
    DEF WatchInv, InjectorWatched, Control, At, WorkerAt, OutsiderAt, StewardAt,
        ThreadsTyped, QueuesTyped, Unaware, ClaimForHandoff, ClaimIdle, Goto
  <1>7. ASSUME NEW t \in Pushers, Offer(t) PROVE InjectorWatched'
    BY <1>7
    DEF WatchInv, InjectorWatched, Control, At, WorkerAt, OutsiderAt, StewardAt,
        ThreadsTyped, QueuesTyped, Unaware, Offer, Goto
  <1>8. ASSUME NEW t \in Pushers, PlaceThenWake(t) PROVE InjectorWatched'
    BY <1>8
    DEF WatchInv, InjectorWatched, Control, At, WorkerAt, OutsiderAt, StewardAt,
        ThreadsTyped, QueuesTyped, Unaware, PlaceThenWake, PlaceItem, HasRoom, Goto
  <1>9. ASSUME NEW t \in Pushers, Place(t) PROVE InjectorWatched'
    BY <1>9
    DEF WatchInv, InjectorWatched, Control, At, WorkerAt, OutsiderAt, StewardAt,
        ThreadsTyped, QueuesTyped, Unaware, Place, PlaceItem, HasRoom, Pushed
  <1>10. ASSUME NEW t \in Pushers, Wake(t) PROVE InjectorWatched'
    BY ZenonT(30), <1>10
    DEF WatchInv, InjectorWatched, Control, At, WorkerAt, OutsiderAt, StewardAt,
        ThreadsTyped, QueuesTyped, Unaware, Wake, Pushed
  <1>11. ASSUME NEW w \in Workers, PopSlot(w) PROVE InjectorWatched'
    BY <1>11, GotCases, PopReturns
    DEF WatchInv, InjectorWatched, ThreadsTyped, QueuesTyped, Unaware, PopSlot
  <1>12. ASSUME NEW w \in Workers, PopPending(w) PROVE InjectorWatched'
    <2>1. OnlyMoves(w) /\ UNCHANGED <<permit, injector>> /\ pc[w] \notin WakerPC
      BY <1>12, NothingCases DEF ThreadsTyped, OnlyMoves, PopPending
    <2>2. Unaware(w)' => Unaware(w) \/ injector' = <<>>
      <3>1. CASE pending = 0
        BY <2>1, <3>1, NothingPending
      <3>2. CASE pending # 0
        BY <1>12, <3>2 DEF ThreadsTyped, Unaware, PopPending
      <3>3. QED
        BY <3>1, <3>2
    <2>3. QED
      BY <2>1, <2>2, InjectorKept DEF WatchInv
  <1>13. ASSUME NEW w \in Workers, PopLocal(w) PROVE InjectorWatched'
    BY <1>13, GotCases, PopReturns
    DEF WatchInv, InjectorWatched, ThreadsTyped, QueuesTyped, Unaware, PopLocal
  <1>14. ASSUME NEW w \in Workers, PopInjector(w, "pop_injector_first", "pop_local") PROVE InjectorWatched'
    BY <1>14, GotCases, PopReturns, HeadTailProperties
    DEF WatchInv, InjectorWatched, ThreadsTyped, QueuesTyped, Unaware, PopInjector
  <1>15. ASSUME NEW w \in Workers, PopInjector(w, "pop_injector", "pop_steal") PROVE InjectorWatched'
    <2>1. CASE injector # <<>>
      <3>1. Head(injector) \in Services /\ Got(w, Head(injector))
        BY <1>15, <2>1, HeadTailProperties DEF QueuesTyped, PopInjector
      <3>2. ~Unaware(w)'
        BY <1>15, <3>1, GotCases DEF ThreadsTyped, Unaware, PopInjector
      <3>3. QED
        BY <3>2 DEF InjectorWatched
    <2>2. CASE injector = <<>>
      BY <1>15, <2>2 DEF InjectorWatched, PopInjector
    <2>3. QED
      BY <2>1, <2>2
  <1>16. ASSUME NEW w \in Workers, TakeStealable(w) PROVE InjectorWatched'
    BY <1>16, NothingCases, PopReturns
    DEF WatchInv, InjectorWatched, ThreadsTyped, QueuesTyped, Unaware, TakeStealable
  <1>17. ASSUME NEW w \in Workers, StealFront(w) PROVE InjectorWatched'
    <2>1. Unaware(w)' => Unaware(w)
      BY <1>17, StealFrontMoves DEF Unaware
    <2>2. QED
      BY <1>17, <2>1, StealFrontMoves, InjectorKept DEF WatchInv
  <1>18. ASSUME NEW w \in Workers, Loop(w) PROVE InjectorWatched'
    BY <1>18
    DEF WatchInv, InjectorWatched, Control, At, WorkerAt, OutsiderAt, StewardAt,
        ThreadsTyped, QueuesTyped, Unaware, Loop, StartPop, Goto
  <1>19. ASSUME NEW w \in Workers, RanIdle(w) PROVE InjectorWatched'
    BY <1>19
    DEF WatchInv, InjectorWatched, Control, At, WorkerAt, OutsiderAt, StewardAt,
        ThreadsTyped, QueuesTyped, Unaware, RanIdle, StartPop, Goto
  <1>20. ASSUME NEW w \in Workers, RanYielded(w) PROVE InjectorWatched'
    BY <1>20
    DEF WatchInv, InjectorWatched, Control, At, WorkerAt, OutsiderAt, StewardAt,
        ThreadsTyped, QueuesTyped, Unaware, RanYielded, StartPop, Goto
  <1>21. ASSUME NEW w \in Workers, Search(w) PROVE InjectorWatched'
    BY <1>21
    DEF WatchInv, InjectorWatched, Control, At, WorkerAt, OutsiderAt, StewardAt,
        ThreadsTyped, QueuesTyped, Unaware, Search, Goto
  <1>22. ASSUME NEW w \in Workers, Spin(w) PROVE InjectorWatched'
    BY <1>22
    DEF WatchInv, InjectorWatched, Control, At, WorkerAt, OutsiderAt, StewardAt,
        ThreadsTyped, QueuesTyped, Unaware, Spin, StartPop, Goto
  <1>23. ASSUME NEW w \in Workers, Found(w) PROVE InjectorWatched'
    BY <1>23
    DEF WatchInv, InjectorWatched, Control, At, WorkerAt, OutsiderAt, StewardAt,
        ThreadsTyped, QueuesTyped, Unaware, Found, StopSearching, Goto
  <1>24. ASSUME NEW w \in Workers, Spun(w) PROVE InjectorWatched'
    BY SMTT(30), <1>24
    DEF WatchInv, InjectorWatched, Control, At, WorkerAt, OutsiderAt, StewardAt,
        ThreadsTyped, QueuesTyped, Unaware, Spun, StopSearching, Goto
  <1>25. ASSUME NEW w \in Workers, MarkIdle(w) PROVE InjectorWatched'
    BY <1>25
    DEF WatchInv, InjectorWatched, Control, At, WorkerAt, OutsiderAt, StewardAt,
        ThreadsTyped, QueuesTyped, Unaware, MarkIdle, Goto
  <1>26. ASSUME NEW w \in Workers, Unsearch(w) PROVE InjectorWatched'
    BY <1>26
    DEF WatchInv, InjectorWatched, Control, At, WorkerAt, OutsiderAt, StewardAt,
        ThreadsTyped, QueuesTyped, Unaware, Unsearch, StopSearching, Goto
  <1>27. ASSUME NEW w \in Workers, LastLook(w) PROVE InjectorWatched'
    BY <1>27
    DEF WatchInv, InjectorWatched, Control, At, WorkerAt, OutsiderAt, StewardAt,
        ThreadsTyped, QueuesTyped, Unaware, LastLook, StartPop, Goto
  <1>28. ASSUME NEW w \in Workers, Park(w) PROVE InjectorWatched'
    BY <1>28
    DEF WatchInv, InjectorWatched, Control, At, WorkerAt, OutsiderAt, StewardAt,
        ThreadsTyped, QueuesTyped, Unaware, Park, Goto
  <1>29. ASSUME NEW w \in Workers, Unpark(w) PROVE InjectorWatched'
    BY <1>29
    DEF WatchInv, InjectorWatched, Control, At, WorkerAt, OutsiderAt, StewardAt,
        ThreadsTyped, QueuesTyped, Unaware, Unpark, Goto
  <1>30. ASSUME NEW w \in Workers, ClearIdle(w) PROVE InjectorWatched'
    BY <1>30
    DEF WatchInv, InjectorWatched, Control, At, WorkerAt, OutsiderAt, StewardAt,
        ThreadsTyped, QueuesTyped, Unaware, ClearIdle, Goto
  <1>31. ASSUME NEW w \in Workers, FlushSlot(w) PROVE InjectorWatched'
    BY <1>31
    DEF WatchInv, InjectorWatched, Control, At, WorkerAt, OutsiderAt, StewardAt,
        ThreadsTyped, QueuesTyped, Unaware, FlushSlot, Goto
  <1>32. ASSUME NEW w \in Workers, FlushLocal(w) PROVE InjectorWatched'
    BY <1>32
    DEF WatchInv, InjectorWatched, Control, At, WorkerAt, OutsiderAt, StewardAt,
        ThreadsTyped, QueuesTyped, Unaware, FlushLocal, Goto
  <1>33. ASSUME NEW w \in Workers, NEW s \in Services, WorkerPush(w, s) PROVE InjectorWatched'
    BY <1>33
    DEF WatchInv, InjectorWatched, Control, At, WorkerAt, OutsiderAt, StewardAt,
        ThreadsTyped, QueuesTyped, Unaware, WorkerPush, StartPush, Goto
  <1>34. ASSUME NEW t \in Outsiders, NEW s \in Services, OutsiderPush(t, s) PROVE InjectorWatched'
    BY <1>34
    DEF WatchInv, InjectorWatched, Control, At, WorkerAt, OutsiderAt, StewardAt,
        ThreadsTyped, QueuesTyped, Unaware, OutsiderPush, StartPush, Goto
  <1>35. ASSUME SetQuit PROVE InjectorWatched'
    BY <1>35
    DEF WatchInv, InjectorWatched, Control, At, WorkerAt, OutsiderAt, StewardAt,
        ThreadsTyped, QueuesTyped, Unaware, SetQuit, Goto
  <1>36. ASSUME WakeAll PROVE InjectorWatched'
    BY <1>36
    DEF WatchInv, InjectorWatched, Control, At, WorkerAt, OutsiderAt, StewardAt,
        ThreadsTyped, QueuesTyped, Unaware, WakeAll, Goto
  <1>37. ASSUME Join PROVE InjectorWatched'
    BY <1>37
    DEF WatchInv, InjectorWatched, Control, At, WorkerAt, OutsiderAt, StewardAt,
        ThreadsTyped, QueuesTyped, Unaware, Join, Goto
  <1>38. ASSUME Drain PROVE InjectorWatched'
    BY <1>38
    DEF WatchInv, InjectorWatched, Control, At, WorkerAt, OutsiderAt, StewardAt,
        ThreadsTyped, QueuesTyped, Unaware, Drain, Goto
  <1>39. ASSUME UNCHANGED vars PROVE InjectorWatched'
    BY <1>39 DEF WatchInv, InjectorWatched, ThreadsTyped, QueuesTyped, Unaware, vars
  <1>40. QED
    BY <1>1, <1>2, <1>3, <1>4, <1>5, <1>6, <1>7, <1>8, <1>9, <1>10, <1>11, <1>12, <1>13,
       <1>14, <1>15, <1>16, <1>17, <1>18, <1>19, <1>20, <1>21, <1>22, <1>23, <1>24, <1>25,
       <1>26, <1>27, <1>28, <1>29, <1>30, <1>31, <1>32, <1>33, <1>34, <1>35, <1>36, <1>37,
       <1>38, <1>39
    DEF Next, Work, Push, Pop, FindWorkOrPark

-----------------------------------------------------------------------------
(* The inductive invariant. *)
Inv == Shape /\ PlacesInv /\ Exact /\ SearchExact /\ WatchInv

(* The node starts with every service at rest. *)
LEMMA InitInv == Init => Inv
  <1> SUFFICES ASSUME Init PROVE Inv
    OBVIOUS
  <1>1. QueuesTyped
    <2>1. injector \in Seq(Services) /\ target \in [Threads -> Workers]
      BY LowestWorker, EmptySeq DEF Init
    <2>2. slot \in [Workers -> Services \cup {NoService}] /\ local \in [Workers -> SUBSET Services]
      BY DEF Init
    <2>3. permit \in [Workers -> BOOLEAN] /\ quit \in BOOLEAN
      BY DEF Init
    <2>4. resting \subseteq Services /\ pending \in Int /\ searching \in Int
            /\ idle \subseteq Workers /\ stealable \subseteq Workers
      BY DEF Init
    <2>5. QED
      BY <2>1, <2>2, <2>3, <2>4 DEF QueuesTyped
  <1>2. \A t \in Threads :
          /\ t \in Workers => pc[t] = "loop"
          /\ t \in Outsiders => pc[t] = "outside"
          /\ t = Main => pc[t] = "join"
          /\ t = Quitter => pc[t] = "running"
          /\ ret[t] = "none" /\ hold[t] = NoService /\ item[t] = NoService
    BY DEF Init
  <1>3. ThreadsTyped
    BY <1>2 DEF Init, ThreadsTyped
  <1>4. Control
    BY <1>2 DEF Control, At, WorkerAt, OutsiderAt, StewardAt
  <1>5. /\ injector = <<>> /\ DOMAIN injector = {} /\ resting = Services
        /\ \A w \in Workers : local[w] = {} /\ slot[w] = NoService
        /\ \A t \in Threads : pc[t] \notin CarryPC /\ hold[t] = NoService
    BY <1>2 DEF Init
  <1>6. PlacesInv
    BY <1>5 DEF PlacesInv, Partition, Single, QueuesSingle, HandsSingle, SingleInjector,
                SingleLocal, SingleSlot, SingleHold, SingleCarry,
                Injected, InLocals, Slotted, Held, Carried
  <1>7. Exact
    <2>1. FullSlots = {} /\ Announced = {}
      BY <1>5 DEF FullSlots, Announced
    <2>2. LocalPairs = {}
      BY <1>5 DEF LocalPairs
    <2>3. Len(injector) = 0 /\ pending = 0
      BY <1>5 DEF Init
    <2>4. QED
      BY <2>1, <2>2, <2>3, FS_EmptySet DEF Exact
  <1>8. SearchExact
    <2>1. Searchers = {}
      BY <1>2 DEF Searchers
    <2>2. QED
      BY <2>1, FS_EmptySet DEF SearchExact, Init
  <1>9. WatchInv
    BY <1>2, <1>5 DEF WatchInv, WakeDue, SlotWatched, LocalWatched, InjectorWatched,
                      GoesToSleep, PastSlot, PastLocal
  <1>10. QED
    BY <1>1, <1>3, <1>4, <1>6, <1>7, <1>8, <1>9 DEF Inv

(* Every step keeps the inductive invariant. *)
LEMMA InvStep == Inv /\ [Next]_vars => Inv'
  BY ShapeStep, PlacesStep, PendingStep, SearchingStep, WakeDueStep, SlotStep, LocalStep,
     InjectorStep
  DEF Inv, WatchInv

(* The inductive invariant holds for any number of workers, threads and    *)
(* services, any capacity of a local queue and any limit on searchers.     *)
THEOREM Invariance == Spec => []Inv
  BY InitInv, InvStep, PTL DEF Spec

(* Nothing is lost or doubled between the queues, and the two counters     *)
(* that decide whether anybody looks or wakes are exact at every moment.   *)
THEOREM AccountedAlways == Spec => []Accounted
  <1>1. Inv => Accounted
    <2> SUFFICES ASSUME Inv PROVE Accounted
      OBVIOUS
    <2>1. OnePlace
      BY OnePlaceHolds DEF Inv
    <2>2. CountersExact
      BY ExactIs, SearchExactIs DEF Inv, CountersExact
    <2>3. pending \in Nat /\ searching \in Nat
      BY FiniteCounts, InjectorLengths DEF Inv, Exact, SearchExact
    <2>4. DOMAIN pc = Threads
      BY DEF Inv, ThreadsTyped
    <2>5. TypeOK
      BY <2>3, <2>4 DEF Inv, QueuesTyped, ThreadsTyped, TypeOK
    <2>6. QED
      BY <2>1, <2>2, <2>5 DEF Accounted
  <1>2. QED
    BY <1>1, Invariance, PTL

(* No worker sleeps on a service that only it would find, and not all of   *)
(* them sleep while one is queued and nobody is on the way to wake them.   *)
THEOREM NobodySleepsAlways == Spec => []NobodySleepsOnWork
  <1>1. Inv => NobodySleepsOnWork
    <2> SUFFICES ASSUME Inv PROVE NobodySleepsOnWork
      OBVIOUS
    <2>1. \A w \in Workers : Asleep(w) =>
            PastSlot(w) /\ PastLocal(w) /\ Unaware(w) /\ ~permit[w]
      BY DEF Asleep, PastSlot, PastLocal, Unaware
    <2>2. OwnerAwake
      BY <2>1 DEF Inv, WatchInv, SlotWatched, LocalWatched, Waking, OwnerAwake
    <2>3. ASSUME Queued > 0, \A w \in Workers : Asleep(w)
          PROVE  \E t \in Threads : pc[t] \in WakerPC
      <3>1. CASE injector # <<>>
        BY <2>1, <2>3, <3>1 DEF Inv, WatchInv, InjectorWatched
      <3>2. CASE FullSlots # {}
        <4>1. PICK w \in Workers : slot[w] # NoService
          BY <3>2 DEF FullSlots
        <4>2. PICK t \in Threads : pc[t] = "wake"
          BY <2>2, <2>3, <4>1 DEF OwnerAwake
        <4>3. QED
          BY <4>2
      <3>3. CASE LocalPairs # {}
        <4>1. PICK p \in Workers \X Services : p[2] \in local[p[1]]
          BY <3>3 DEF LocalPairs
        <4>2. p[1] \in Workers /\ local[p[1]] # {}
          BY <4>1
        <4>3. QED
          BY <2>2, <2>3, <4>2 DEF OwnerAwake
      <3>4. CASE injector = <<>> /\ FullSlots = {} /\ LocalPairs = {}
        <4>1. Cardinality(FullSlots) = 0 /\ Cardinality(LocalPairs) = 0
          BY <3>4, FS_EmptySet
        <4>2. Queued = 0
          BY <3>4, <4>1, CountsAre, InjectorLengths DEF Inv
        <4>3. QED
          BY <2>3, <4>2
      <3>5. QED
        BY <3>1, <3>2, <3>3, <3>4
    <2>4. QED
      BY <2>2, <2>3 DEF NobodySleepsOnWork, NoLostWakeup
  <1>2. QED
    BY <1>1, Invariance, PTL
==============================================================================
