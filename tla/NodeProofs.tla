----------------------------- MODULE NodeProofs -----------------------------
(***************************************************************************)
(* Proofs about the life of a node, for any number of threads, services,   *)
(* calls and wake-ups: the count of ordinary services is exact, shutdown   *)
(* leaves no straggler behind, and a node quits only for a reason.         *)
(***************************************************************************)
EXTENDS Node, FiniteSetTheorems, SequenceTheorems, TLAPS

(* Calls nest three deep at most. A thread is at home, or in a procedure   *)
(* called from home, or in one that retire_all or exit has called there.   *)
(* Main's homes during a drain have the call of drain below them.          *)
DrainPC == {"look", "work", "resume", "clean", "account"}
UserPC  == {"free", "work", "final_drain"}
ProcPC  == {"publish", "sweep", "mark_dead", "self_exit", "retire_all", "interrupt_all"}
Labels  == {"next", "exited", "absent", "idle", "gone", "boot", "boot_wait", "boot_failed",
            "join_workers", "shutdown", "finished", "join"} \cup DrainPC \cup UserPC \cup ProcPC

Below(t, home)       == IF t = Main /\ home \in DrainPC THEN <<"shutdown">> ELSE <<>>
Frame(t, home)       == <<home>> \o Below(t, home)
Nested(t, from, home) == <<from>> \o Frame(t, home)

HomePC(t) ==
    CASE t \in Workers   -> {"next", "exited"} \cup DrainPC
      [] t \in Callers   -> {"free"}
      [] t \in Exclusive -> {"absent", "resume", "work", "idle", "final_drain", "clean",
                             "account", "gone"}
      [] t = Main        -> {"boot", "boot_wait", "boot_failed", "join_workers", "shutdown",
                             "finished"} \cup DrainPC

(* The procedures a home calls. *)
CalledFrom(home) ==
    CASE home = "free"                     -> ProcPC \ {"self_exit"}
      [] home \in UserPC \ {"free"}        -> ProcPC
      [] home = "boot_wait"                -> {"publish"}
      [] home \in {"join_workers", "next", "look", "gone"} -> {"interrupt_all"}
      [] home = "resume"                   -> {"sweep", "mark_dead"}
      [] home = "shutdown"                 -> {"retire_all", "sweep", "mark_dead", "join"}
      [] OTHER                             -> {}

AtHome(t) == pc[t] \in HomePC(t) /\ stack[t] = Below(t, pc[t])
InCall(t, home) == stack[t] = Frame(t, home) /\ pc[t] \in CalledFrom(home)
InRetireAll(t, home) ==
    /\ stack[t] = Nested(t, "retire_all", home)
    /\ \/ home \in UserPC /\ pc[t] \in {"sweep", "mark_dead", "interrupt_all"}
       \/ home = "shutdown" /\ pc[t] \in {"sweep", "mark_dead"}
InExit(t, home) ==
    /\ stack[t] = Nested(t, "self_exit", home)
    /\ home \in UserPC \ {"free"} /\ pc[t] \in {"sweep", "mark_dead"}

Legal(t) == \/ AtHome(t)
            \/ \E home \in HomePC(t) : InCall(t, home) \/ InRetireAll(t, home) \/ InExit(t, home)

(* Where the procedure a thread is in returns to, and its home.            *)
Top(t)    == Head(stack[t])
HomeOf(t) == IF pc[t] \notin ProcPC \cup {"join"} THEN pc[t]
             ELSE IF Top(t) \in {"retire_all", "self_exit"} THEN stack[t][2] ELSE Top(t)

Typed == pc \in [Threads -> Labels] /\ stack \in [Threads -> Seq(Labels)]

NTypes ==
    /\ quit \in BOOLEAN /\ booted \in BOOLEAN
    /\ gate \in Threads \cup {None} /\ logger \in {Logger, None}
    /\ born \subseteq Services /\ table \subseteq Services
    /\ dead \subseteq Services /\ destroyed \subseteq Services /\ selfExit \subseteq Services
    /\ life \in [Services -> {"INITIALIZING", "RUNNING", "FAILED"}]
    /\ ticket \in [Services -> {"none", "ok", "err"}]
    /\ token \in [Shared -> {"unborn", "idle", "queued", "held"}]
    /\ permit \subseteq Exclusive
    /\ Typed
    /\ hold \in [Threads -> Services \cup {None}]
    /\ victim \in [Threads -> Services \cup {None}]
    /\ todo \in [Threads -> SUBSET Services]
    /\ budgets \in [Shared -> 0 .. DRAIN_BUDGET - 1]
    /\ stage \in Nat \ {0} /\ total \in Int

Control == \A t \in Threads : Legal(t)

(* One thread at a time is between admission and publication, with a       *)
(* service nobody has executed yet.                                        *)
Unpublished(s) == /\ s \in Shared => token[s] = "unborn"
                  /\ s \in Exclusive => pc[s] = "absent"
Publication ==
    /\ \A t \in Threads : pc[t] = "publish" => gate = t
    /\ \A t \in Threads : pc[t] = "publish" =>
         \A s \in todo[t] : Unpublished(s) /\ s \in born /\ s \notin destroyed
    /\ \A s \in Services : s \notin born => Unpublished(s)

(* A service leaves the table once, is marked dead once after that, and is *)
(* destroyed after that.                                                   *)
Mortality ==
    /\ table \subseteq born /\ dead \subseteq born /\ selfExit \subseteq born
    /\ dead \cap table = {} /\ destroyed \subseteq dead
    /\ \A t \in Threads : pc[t] = "mark_dead" =>
         victim[t] \in born /\ victim[t] \notin table /\ victim[t] \notin dead
    /\ \A t, u \in Threads : pc[t] = "mark_dead" /\ pc[u] = "mark_dead" /\ victim[t] = victim[u]
         => t = u

(* Who executes what: an exclusive thread its own service, a worker or     *)
(* Main a service that nobody else holds.                                  *)
InHand(t) == HomeOf(t) \in {"work", "resume", "clean", "account"}
Ended(t)  == HomeOf(t) \in {"account", "gone"}
Holding ==
    /\ \A t \in Exclusive : hold[t] = t /\ (t \in destroyed <=> Ended(t))
    /\ \A t \in Callers : hold[t] = None
    /\ \A t \in Runners : InHand(t) => hold[t] # None
    /\ \A t \in Runners : hold[t] # None =>
         /\ hold[t] \in Shared
         /\ IF pc[t] = "account" THEN hold[t] \in destroyed ELSE token[hold[t]] = "held"
    /\ \A t, u \in Runners : hold[t] = hold[u] /\ hold[t] # None => t = u
    /\ \A s \in destroyed \cap Shared : token[s] = "idle"
    /\ \A t \in Threads : HomeOf(t) \in {"final_drain", "clean"} => hold[t] \in dead

(* Boot launches its services in order, each once. *)
Booting ==
    /\ pc[Main] = "boot" => \A i \in DOMAIN BootOrder : i >= stage => BootOrder[i] \notin born
    /\ HomeOf(Main) = "boot_wait" =>
         \A i \in DOMAIN BootOrder : i > stage => BootOrder[i] \notin born

(* What shutdown has achieved: no launch is admitted any more, and the     *)
(* table holds what the steps so far have left in it.                      *)
BootPhase == HomeOf(Main) \in {"boot", "boot_wait", "boot_failed", "join_workers"}
Ending ==
    /\ \A w \in Workers : pc[w] = "exited" => quit
    /\ ~BootPhase =>
         /\ quit
         /\ stage > 3 => table \subseteq Reserved
         /\ stage = 3 => /\ HomeOf(Main) = "shutdown"
                         /\ \/ pc[Main] = "shutdown" /\ table \subseteq Reserved
                            \/ pc[Main] = "retire_all"
                            \/ pc[Main] \in {"sweep", "mark_dead"} /\ Top(Main) = "retire_all"
         /\ stage > 9 => table = {}
         /\ stage = 9 => /\ HomeOf(Main) = "shutdown"
                         /\ \/ pc[Main] = "shutdown" /\ table = {}
                            \/ /\ pc[Main] \in {"sweep", "mark_dead"} /\ Top(Main) = "shutdown"
                               /\ table \subseteq todo[Main]

NodeInv == /\ NTypes /\ Control /\ Publication /\ Mortality /\ Holding
           /\ Booting /\ Ending /\ TotalCountsOrdinary
-----------------------------------------------------------------------------

(* Pushing a return address and popping it again. *)
LEMMA Prepended ==
    ASSUME NEW S, NEW x \in S, NEW s \in Seq(S)
    PROVE  /\ <<x>> \o s \in Seq(S)
           /\ <<x>> \o s # <<>>
           /\ Head(<<x>> \o s) = x /\ Tail(<<x>> \o s) = s
           /\ s # <<>> => (<<x>> \o s)[2] = Head(s)
  <1> DEFINE q == <<x>> \o s
  <1>1. <<x>> \in Seq(S) /\ Len(<<x>>) = 1 /\ <<x>>[1] = x
    OBVIOUS
  <1>2. /\ q \in Seq(S) /\ Len(q) = 1 + Len(s)
        /\ \A i \in 1 .. 1 + Len(s) : q[i] = IF i <= 1 THEN <<x>>[i] ELSE s[i - 1]
    BY <1>1, ConcatProperties
  <1>3. Len(s) \in Nat
    BY LenProperties
  <1> HIDE DEF q
  <1>4. q[1] = x /\ q # <<>>
    BY <1>1, <1>2, <1>3
  <1>5. Head(q) = x
    BY <1>4
  <1>6. /\ Tail(q) \in Seq(S) /\ Len(Tail(q)) = Len(s)
        /\ \A i \in 1 .. Len(Tail(q)) : Tail(q)[i] = q[i + 1]
    BY <1>2, <1>3, <1>4, HeadTailProperties
  <1>7. \A i \in 1 .. Len(s) : q[i + 1] = s[i]
    BY <1>2, <1>3
  <1>8. Tail(q) = s
    BY <1>6, <1>7, SeqEqual
  <1>9. ASSUME s # <<>>
        PROVE  q[2] = Head(s)
    <2>1. Len(s) >= 1 /\ Head(s) = s[1]
      BY <1>3, <1>9, EmptySeq
    <2>2. QED
      BY <1>3, <1>7, <2>1
  <1>10. QED
    BY <1>2, <1>4, <1>5, <1>8, <1>9 DEF q

(* The stack of a thread in a procedure called from home. *)
LEMMA FrameFacts ==
    ASSUME NEW t, NEW home \in Labels
    PROVE  /\ Below(t, home) \in Seq(Labels)
           /\ Frame(t, home) \in Seq(Labels) /\ Frame(t, home) # <<>>
           /\ Head(Frame(t, home)) = home /\ Tail(Frame(t, home)) = Below(t, home)
  <1>1. Below(t, home) \in Seq(Labels)
    <2>1. <<>> \in Seq(Labels)
      BY EmptySeq
    <2>2. "shutdown" \in Labels
      BY DEF Labels
    <2>3. <<"shutdown">> \in Seq(Labels)
      BY <2>2
    <2>4. QED
      BY <2>1, <2>3 DEF Below
  <1>2. QED
    BY <1>1, Prepended DEF Frame

(* The stack of a thread in a procedure of a procedure. *)
LEMMA NestedFacts ==
    ASSUME NEW t, NEW home \in Labels, NEW from \in Labels
    PROVE  /\ Nested(t, from, home) \in Seq(Labels)
           /\ Head(Nested(t, from, home)) = from
           /\ Nested(t, from, home)[2] = home
  <1> DEFINE f == Frame(t, home)
  <1>1. f \in Seq(Labels) /\ Head(f) = home /\ f # <<>>
    BY FrameFacts
  <1> HIDE DEF f
  <1>2. /\ <<from>> \o f \in Seq(Labels) /\ Head(<<from>> \o f) = from
        /\ (<<from>> \o f)[2] = home
    BY <1>1, Prepended
  <1>3. QED
    BY <1>1, <1>2 DEF Nested, f

(* A nested procedure returns into its caller. *)
LEMMA NestedTail ==
    ASSUME NEW t, NEW home \in Labels, NEW from \in Labels
    PROVE  Tail(Nested(t, from, home)) = Frame(t, home)
  <1> DEFINE f == Frame(t, home)
  <1>1. f \in Seq(Labels)
    BY FrameFacts
  <1> HIDE DEF f
  <1>2. Tail(<<from>> \o f) = f
    BY <1>1, Prepended
  <1>3. QED
    BY <1>2 DEF Nested, f

(* Two return addresses pushed at once are the nested stack. *)
LEMMA Reassociated ==
    ASSUME NEW t, NEW home \in Labels, NEW from \in Labels
    PROVE  /\ <<from>> \o <<home>> \o Below(t, home) = Nested(t, from, home)
           /\ <<>> \o <<home>> \o Below(t, home) = Frame(t, home)
  <1>1. <<from>> \in Seq(Labels) /\ <<home>> \in Seq(Labels) /\ Below(t, home) \in Seq(Labels)
    BY FrameFacts
  <1>2. (<<from>> \o <<home>>) \o Below(t, home) = <<from>> \o (<<home>> \o Below(t, home))
    BY <1>1, ConcatAssociative
  <1>3. <<>> \o <<home>> = <<home>>
    BY <1>1, ConcatEmptySeq
  <1>4. QED
    BY <1>2, <1>3 DEF Nested, Frame

(* Homes are labels, and none is a procedure. *)
LEMMA HomeLabels ==
    ASSUME NEW t \in Threads
    PROVE  /\ HomePC(t) \subseteq Labels
           /\ \A home \in HomePC(t) : home \notin ProcPC /\ home # "join"
  <1>1. CASE t \in Workers
    BY <1>1 DEF HomePC, Labels, ProcPC, DrainPC, UserPC, Services
  <1>2. CASE t \in Callers
    BY <1>2 DEF HomePC, Labels, ProcPC, DrainPC, UserPC, Services
  <1>3. CASE t \in Exclusive
    BY <1>3 DEF HomePC, Labels, ProcPC, DrainPC, UserPC, Services
  <1>4. CASE t = Main
    BY <1>4 DEF HomePC, Labels, ProcPC, DrainPC, UserPC, Services
  <1>5. QED
    BY <1>1, <1>2, <1>3, <1>4 DEF Threads

(* The four ways a thread can stand. *)
LEMMA LegalCases ==
    ASSUME NEW t \in Threads, Legal(t)
    PROVE  /\ HomeOf(t) \in HomePC(t)
           /\ \/ AtHome(t) /\ HomeOf(t) = pc[t]
              \/ InCall(t, HomeOf(t)) /\ Top(t) = HomeOf(t)
              \/ InRetireAll(t, HomeOf(t)) /\ Top(t) = "retire_all"
              \/ InExit(t, HomeOf(t)) /\ Top(t) = "self_exit"
  <1>1. CASE AtHome(t)
    BY <1>1, HomeLabels DEF AtHome, HomeOf
  <1>2. ASSUME NEW home \in HomePC(t), InCall(t, home)
        PROVE  HomeOf(t) = home /\ Top(t) = home
    <2>1. Top(t) = home
      BY <1>2, HomeLabels, FrameFacts DEF InCall, Top
    <2>2. pc[t] \in ProcPC \cup {"join"}
      BY <1>2 DEF InCall, CalledFrom, ProcPC
    <2>3. home \notin {"retire_all", "self_exit"}
      BY HomeLabels DEF ProcPC
    <2>4. QED
      BY <2>1, <2>2, <2>3 DEF HomeOf
  <1>3. ASSUME NEW home \in HomePC(t), NEW from \in {"retire_all", "self_exit"},
               stack[t] = Nested(t, from, home), pc[t] \in ProcPC
        PROVE  HomeOf(t) = home /\ Top(t) = from
    <2>1. from \in Labels /\ home \in Labels
      BY HomeLabels DEF Labels, ProcPC
    <2> DEFINE q == Nested(t, from, home)
    <2>2. Head(q) = from /\ q[2] = home
      BY <2>1, NestedFacts
    <2> HIDE DEF q
    <2>4. stack[t] = q
      BY <1>3 DEF q
    <2>5. Top(t) = from /\ stack[t][2] = home
      BY <2>2, <2>4 DEF Top
    <2>3. QED
      BY <1>3, <2>5 DEF HomeOf
  <1>4. ASSUME NEW home \in HomePC(t), InRetireAll(t, home)
        PROVE  HomeOf(t) = home /\ Top(t) = "retire_all"
    BY <1>3, <1>4 DEF InRetireAll, ProcPC
  <1>5. ASSUME NEW home \in HomePC(t), InExit(t, home)
        PROVE  HomeOf(t) = home /\ Top(t) = "self_exit"
    BY <1>3, <1>5 DEF InExit, ProcPC
  <1>6. QED
    BY <1>1, <1>2, <1>4, <1>5 DEF Legal, AtHome

Elsewhere(t) == \A u \in Threads \ {t} : pc'[u] = pc[u] /\ stack'[u] = stack[u]
Still(u) == pc'[u] = pc[u] /\ HomeOf(u)' = HomeOf(u) /\ Top(u)' = Top(u)

(* Where only t moves, only t has to be looked at. *)
LEMMA ControlStep ==
    ASSUME Control, NEW t \in Threads, Elsewhere(t), Legal(t)'
    PROVE  Control' /\ \A u \in Threads \ {t} : Still(u)
  BY DEF Control, Elsewhere, Legal, AtHome, InCall, InRetireAll, InExit, Still, HomeOf, Top

(* A step from home to home. *)
LEMMA GotoStep ==
    ASSUME NEW t \in Threads, Legal(t), pc[t] \in HomePC(t), pc'[t] \in HomePC(t),
           stack'[t] = stack[t], Below(t, pc'[t]) = Below(t, pc[t])
    PROVE  Legal(t)' /\ HomeOf(t)' = pc'[t] /\ HomeOf(t) = pc[t]
  <1>1. pc[t] \notin ProcPC /\ pc[t] # "join" /\ pc'[t] \notin ProcPC /\ pc'[t] # "join"
    BY HomeLabels
  <1>2. stack[t] = Below(t, pc[t])
    BY <1>1, LegalCases DEF AtHome, InCall, InRetireAll, InExit, CalledFrom, ProcPC
  <1>3. QED
    BY <1>1, <1>2 DEF Legal, AtHome, HomeOf

(* A call from home. *)
LEMMA CallStep ==
    ASSUME NEW t \in Threads, Legal(t), pc[t] \in HomePC(t), NEW back \in HomePC(t),
           Below(t, back) = Below(t, pc[t]), pc'[t] \in CalledFrom(back),
           stack'[t] = <<back>> \o stack[t]
    PROVE  Legal(t)' /\ HomeOf(t)' = back /\ Top(t)' = back /\ HomeOf(t) = pc[t]
  <1>1. pc[t] \notin ProcPC /\ pc[t] # "join"
    BY HomeLabels
  <1>2. stack[t] = Below(t, pc[t]) /\ HomeOf(t) = pc[t]
    BY <1>1, LegalCases DEF AtHome, InCall, InRetireAll, InExit, CalledFrom, ProcPC
  <1>3. stack'[t] = Frame(t, back)
    BY <1>2 DEF Frame
  <1>4. Legal(t)'
    BY <1>3 DEF Legal, InCall
  <1>5. Top(t)' = back
    BY <1>3, HomeLabels, FrameFacts DEF Top
  <1>6. pc'[t] \in ProcPC \cup {"join"} /\ back \notin {"retire_all", "self_exit"}
    BY HomeLabels DEF CalledFrom, ProcPC
  <1>7. QED
    BY <1>2, <1>4, <1>5, <1>6 DEF HomeOf, Top

(* A return, to home or to the procedure in between. *)
LEMMA ReturnStep ==
    ASSUME NEW t \in Threads, Legal(t), pc[t] \in ProcPC \cup {"join"},
           pc'[t] = Head(stack[t]), stack'[t] = Tail(stack[t])
    PROVE  /\ Legal(t)' /\ HomeOf(t)' = HomeOf(t) /\ pc'[t] = Top(t)
           /\ Top(t) = HomeOf(t) \/ Top(t) \in {"retire_all", "self_exit"}
  <1>0. PICK home \in HomePC(t) :
          /\ home = HomeOf(t)
          /\ \/ InCall(t, home) /\ Top(t) = home
             \/ InRetireAll(t, home) /\ Top(t) = "retire_all"
             \/ InExit(t, home) /\ Top(t) = "self_exit"
    BY LegalCases, HomeLabels DEF AtHome
  <1>1. home \in Labels /\ home \notin ProcPC /\ home # "join"
    BY HomeLabels
  <1>3. CASE InCall(t, home)
    <2>1. pc'[t] = home /\ stack'[t] = Below(t, home) /\ Top(t) = home
      BY <1>1, <1>3, FrameFacts DEF InCall, Top
    <2>2. QED
      BY <1>0, <1>1, <2>1 DEF Legal, AtHome, HomeOf
  <1>4. CASE InRetireAll(t, home) \/ InExit(t, home)
    <2>1. PICK from \in {"retire_all", "self_exit"} :
            /\ stack[t] = Nested(t, from, home)
            /\ \/ home \in UserPC /\ (from = "self_exit" => home # "free")
               \/ home = "shutdown" /\ from = "retire_all"
      <3>1. CASE InRetireAll(t, home)
        <4>1. stack[t] = Nested(t, "retire_all", home) /\ (home \in UserPC \/ home = "shutdown")
          BY <3>1 DEF InRetireAll
        <4>2. QED
          BY <4>1, Zenon
      <3>2. CASE InExit(t, home)
        <4>1. stack[t] = Nested(t, "self_exit", home) /\ home \in UserPC /\ home # "free"
          BY <3>2 DEF InExit
        <4>2. QED
          BY <4>1, Zenon
      <3>3. QED
        BY <1>4, <3>1, <3>2
    <2>2. from \in Labels
      BY DEF Labels, ProcPC
    <2> DEFINE q == Nested(t, from, home)  f == Frame(t, home)
    <2>3. Head(q) = from
      BY <1>1, <2>2, NestedFacts
    <2>4. Tail(q) = f
      BY <1>1, <2>2, NestedTail
    <2>5. Head(f) = home
      BY <1>1, FrameFacts
    <2>6. stack[t] = q
      BY <2>1
    <2> HIDE DEF q, f
    <2>7. pc'[t] = from /\ stack'[t] = f /\ Top(t) = from
      BY <2>3, <2>4, <2>6 DEF Top
    <2>8. stack'[t] = Frame(t, home)
      BY <2>7 DEF f
    <2>9. Top(t)' = home
      BY <2>5, <2>7 DEF Top
    <2>10. from \in CalledFrom(home)
      BY <2>1 DEF CalledFrom, ProcPC, UserPC
    <2>11. Legal(t)'
      BY <1>1, <2>7, <2>8, <2>10 DEF Legal, InCall
    <2>12. HomeOf(t)' = home
      BY <1>1, <2>7, <2>9 DEF HomeOf, Top, ProcPC
    <2>13. QED
      BY <1>0, <2>7, <2>11, <2>12
  <1>5. QED
    BY <1>0, <1>3, <1>4

(* retire_all sweeps. *)
LEMMA NestStep ==
    ASSUME NEW t \in Threads, Legal(t), pc[t] = "retire_all", pc'[t] = "sweep",
           stack'[t] = <<"retire_all">> \o stack[t]
    PROVE  Legal(t)' /\ HomeOf(t)' = HomeOf(t) /\ Top(t)' = "retire_all"
  <1>1. PICK home \in HomePC(t) : home = HomeOf(t) /\ home \in Labels /\ InCall(t, home)
    BY LegalCases, HomeLabels DEF AtHome, InRetireAll, InExit, ProcPC
  <1>2. home \in UserPC \/ home = "shutdown"
    BY <1>1 DEF InCall, CalledFrom, UserPC
  <1>3. stack'[t] = Nested(t, "retire_all", home)
    BY <1>1 DEF InCall, Nested
  <1>4. "retire_all" \in Labels
    BY DEF Labels, ProcPC
  <1> DEFINE q == Nested(t, "retire_all", home)
  <1>8. Head(q) = "retire_all"
    BY <1>1, <1>4, NestedFacts
  <1>9. q[2] = home
    BY <1>1, <1>4, NestedFacts
  <1>10. stack'[t] = q
    BY <1>3
  <1> HIDE DEF q
  <1>5. Top(t)' = "retire_all" /\ stack'[t][2] = home
    BY <1>8, <1>9, <1>10 DEF Top
  <1>6. Legal(t)'
    BY <1>1, <1>2, <1>3 DEF Legal, InRetireAll
  <1>7. QED
    BY <1>1, <1>5, <1>6 DEF HomeOf, Top, ProcPC

(* Sweeping and marking take turns. *)
LEMMA TurnStep ==
    ASSUME NEW t \in Threads, Legal(t), stack'[t] = stack[t],
           pc[t] \in {"sweep", "mark_dead"}, pc'[t] \in {"sweep", "mark_dead"}
    PROVE  Legal(t)' /\ HomeOf(t)' = HomeOf(t) /\ Top(t)' = Top(t)
  <1>1. PICK home \in HomePC(t) :
          /\ home = HomeOf(t)
          /\ InCall(t, home) \/ InRetireAll(t, home) \/ InExit(t, home)
    BY LegalCases, HomeLabels DEF AtHome, ProcPC
  <1>2. pc[t] \in CalledFrom(home) => pc'[t] \in CalledFrom(home)
    BY DEF CalledFrom, ProcPC, UserPC
  <1>3. /\ InCall(t, home) => InCall(t, home)'
        /\ InRetireAll(t, home) => InRetireAll(t, home)'
        /\ InExit(t, home) => InExit(t, home)'
    BY <1>2 DEF InCall, InRetireAll, InExit
  <1>4. QED
    BY <1>1, <1>3 DEF Legal, HomeOf, Top, ProcPC

(* exit and abort push two addresses, or one. *)
LEMMA DoubleStep ==
    ASSUME NEW t \in Threads, Legal(t), pc[t] \in HomePC(t) \cap UserPC,
           NEW from \in {"retire_all", "self_exit"}, NEW both \in BOOLEAN,
           pc'[t] = "mark_dead" \/ (pc'[t] = "interrupt_all" /\ from = "retire_all")
             \/ (pc'[t] = "retire_all" /\ ~both),
           from = "self_exit" => pc[t] # "free",
           stack'[t] = (IF both THEN <<from>> ELSE <<>>) \o <<pc[t]>> \o stack[t]
    PROVE  /\ Legal(t)' /\ HomeOf(t)' = pc[t] /\ HomeOf(t) = pc[t]
           /\ Top(t)' = IF both THEN from ELSE pc[t]
  <1>1. pc[t] \notin ProcPC /\ pc[t] # "join" /\ pc[t] \in Labels /\ from \in Labels
    BY HomeLabels DEF Labels, ProcPC
  <1>2. stack[t] = Below(t, pc[t]) /\ HomeOf(t) = pc[t]
    BY <1>1, LegalCases DEF AtHome, InCall, InRetireAll, InExit, CalledFrom, ProcPC
  <1>3. pc'[t] \in ProcPC
    BY DEF ProcPC
  <1>4. CASE both
    <2>1. stack'[t] = Nested(t, from, pc[t])
      BY <1>1, <1>2, <1>4, Reassociated
    <2> DEFINE q == Nested(t, from, pc[t])
    <2>5. Head(q) = from
      <3>1. PICK home \in Labels : home = pc[t]
        BY <1>1
      <3>2. Head(Nested(t, from, home)) = from
        BY <1>1, NestedFacts
      <3>3. QED
        BY <3>1, <3>2
    <2>7. q[2] = pc[t]
      BY <1>1, NestedFacts, Zenon
    <2>8. stack'[t] = q
      BY <2>1
    <2> HIDE DEF q
    <2>2. Top(t)' = from /\ stack'[t][2] = pc[t]
      BY <2>5, <2>7, <2>8 DEF Top
    <2>6. pc'[t] \in {"mark_dead", "interrupt_all"} /\ (from = "self_exit" => pc'[t] = "mark_dead")
      BY <1>4
    <2>3. Legal(t)'
      BY <2>1, <2>6 DEF Legal, InRetireAll, InExit
    <2>4. QED
      BY <1>2, <1>3, <1>4, <2>2, <2>3 DEF HomeOf, Top
  <1>5. CASE ~both
    <2>1. stack'[t] = Frame(t, pc[t])
      BY <1>1, <1>2, <1>5, Reassociated
    <2>2. Top(t)' = pc[t]
      BY <1>1, <2>1, FrameFacts DEF Top
    <2>3. pc'[t] \in CalledFrom(pc[t])
      BY <1>3 DEF CalledFrom, UserPC, ProcPC
    <2>4. Legal(t)'
      BY <2>1, <2>3 DEF Legal, InCall
    <2>5. QED
      BY <1>1, <1>2, <1>3, <1>5, <2>2, <2>4 DEF HomeOf, Top, ProcPC
  <1>6. QED
    BY <1>4, <1>5

(* Which threads have which homes. *)
LEMMA Who ==
    ASSUME NEW t \in Threads
    PROVE  /\ t \in Runners \/ t \in Callers \/ t \in Exclusive
           /\ t \in Runners => t \notin Callers /\ t \notin Exclusive
           /\ t \in Callers => t \notin Exclusive /\ t # Main /\ t \notin Workers
           /\ t \in Exclusive => t # Main /\ t \notin Workers /\ t \notin Callers
           /\ t \in Runners <=> t = Main \/ t \in Workers
           /\ Main \in Threads /\ Main \notin Workers
  BY NodeAssumption DEF Threads, Services, Runners

(* Which threads have which homes. *)
LEMMA HomeWho ==
    ASSUME NEW t \in Threads, NEW home \in HomePC(t)
    PROVE  /\ home \in {"look"} => t \in Runners
           /\ home \in {"next", "exited"} => t \in Workers
           /\ home = "free" <=> t \in Callers
           /\ home \in {"absent", "idle", "final_drain", "gone"} => t \in Exclusive
           /\ home \in {"boot", "boot_wait", "boot_failed", "join_workers", "shutdown", "finished"}
                => t = Main
           /\ home \in {"work", "resume", "clean", "account"} => t \notin Callers
  <1>1. CASE t \in Workers
    BY <1>1, Who DEF HomePC, DrainPC
  <1>2. CASE t \in Callers
    BY <1>2, Who DEF HomePC, DrainPC
  <1>3. CASE t \in Exclusive
    BY <1>3, Who DEF HomePC, DrainPC
  <1>4. CASE t = Main
    BY <1>4, Who DEF HomePC, DrainPC
  <1>5. QED
    BY <1>1, <1>2, <1>3, <1>4 DEF Threads

(* A thread that is in no procedure is at home. *)
LEMMA Home ==
    ASSUME NEW t \in Threads, Control, pc[t] \notin ProcPC \cup {"join"}
    PROVE  pc[t] \in HomePC(t) /\ stack[t] = Below(t, pc[t]) /\ HomeOf(t) = pc[t]
  BY LegalCases DEF Control, AtHome, InCall, InRetireAll, InExit, CalledFrom, ProcPC

(* The home of a thread is one of its homes. *)
LEMMA Homes ==
    ASSUME Control, NEW t \in Threads
    PROVE  HomeOf(t) \in HomePC(t)
  BY LegalCases DEF Control

(* Which procedures are on their way from where. *)
LEMMA Procs ==
    ASSUME Control, NEW t \in Threads, pc[t] \in ProcPC \cup {"join"}
    PROVE  /\ pc[t] = "publish" => HomeOf(t) \in UserPC \cup {"boot_wait"} /\ Top(t) = HomeOf(t)
           /\ pc[t] = "join" => t = Main /\ HomeOf(t) = "shutdown" /\ Top(t) = HomeOf(t)
           /\ pc[t] = "self_exit" => HomeOf(t) \in UserPC \ {"free"} /\ Top(t) = HomeOf(t)
           /\ pc[t] = "retire_all" => HomeOf(t) \in UserPC \cup {"shutdown"} /\ Top(t) = HomeOf(t)
           /\ pc[t] = "interrupt_all" =>
                \/ HomeOf(t) \in {"join_workers", "next", "look", "gone"} /\ Top(t) = HomeOf(t)
                \/ HomeOf(t) \in UserPC /\ Top(t) \in {HomeOf(t), "retire_all"}
           /\ pc[t] \in {"sweep", "mark_dead"} =>
                \/ HomeOf(t) \in UserPC
                     /\ Top(t) \in {HomeOf(t), "retire_all", "self_exit"}
                \/ HomeOf(t) = "resume" /\ Top(t) = HomeOf(t)
                \/ HomeOf(t) = "shutdown" /\ t = Main /\ Top(t) \in {HomeOf(t), "retire_all"}
  <1>1. PICK home \in HomePC(t) :
          /\ home = HomeOf(t)
          /\ \/ InCall(t, home) /\ Top(t) = home
             \/ InRetireAll(t, home) /\ Top(t) = "retire_all"
             \/ InExit(t, home) /\ Top(t) = "self_exit"
    BY LegalCases, HomeLabels DEF Control, AtHome
  <1>2. home = "shutdown" => t = Main
    BY HomeWho
  <1>3. CASE InCall(t, home) /\ Top(t) = home
    BY <1>1, <1>2, <1>3, HomeLabels DEF InCall, CalledFrom, UserPC, ProcPC
  <1>4. CASE InRetireAll(t, home) /\ Top(t) = "retire_all"
    BY <1>1, <1>2, <1>4, HomeLabels DEF InRetireAll, UserPC, ProcPC
  <1>5. CASE InExit(t, home) /\ Top(t) = "self_exit"
    BY <1>1, <1>2, <1>5, HomeLabels DEF InExit, UserPC, ProcPC
  <1>6. QED
    BY <1>1, <1>3, <1>4, <1>5

(* What a step of t alone leaves of the others. *)
Others(t) == Typed' /\ Control' /\ \A u \in Threads \ {t} : Still(u)

(* A legal thread has a label and a stack of labels. *)
LEMMA Labelled ==
    ASSUME NEW t \in Threads, Legal(t)'
    PROVE  pc'[t] \in Labels /\ stack'[t] \in Seq(Labels)
  <1>1. CASE AtHome(t)'
    BY <1>1, HomeLabels, FrameFacts DEF AtHome
  <1>2. ASSUME NEW home \in HomePC(t), InCall(t, home)'
        PROVE  pc'[t] \in Labels /\ stack'[t] \in Seq(Labels)
    <2>1. pc'[t] \in Labels
      BY <1>2 DEF InCall, CalledFrom, Labels, ProcPC
    <2>2. QED
      BY <1>2, <2>1, HomeLabels, FrameFacts DEF InCall
  <1>3. ASSUME NEW home \in HomePC(t), InRetireAll(t, home)'
        PROVE  pc'[t] \in Labels /\ stack'[t] \in Seq(Labels)
    <2>1. pc'[t] \in Labels /\ "retire_all" \in Labels
      BY <1>3 DEF InRetireAll, Labels, ProcPC
    <2>2. QED
      BY <1>3, <2>1, HomeLabels, NestedFacts DEF InRetireAll
  <1>4. ASSUME NEW home \in HomePC(t), InExit(t, home)'
        PROVE  pc'[t] \in Labels /\ stack'[t] \in Seq(Labels)
    <2>1. pc'[t] \in Labels /\ "self_exit" \in Labels
      BY <1>4 DEF InExit, Labels, ProcPC
    <2>2. QED
      BY <1>4, <2>1, HomeLabels, NestedFacts DEF InExit
  <1>5. QED
    BY <1>1, <1>2, <1>3, <1>4 DEF Legal

(* pc and stack change at t only. *)
Moves(t, to, at) == /\ pc' = [pc EXCEPT ![t] = to]
                    /\ \/ stack' = [stack EXCEPT ![t] = at]
                       \/ UNCHANGED stack /\ at = stack[t]

(* A thread that moves leaves the others where they are. *)
LEMMA MovesAlone ==
    ASSUME Typed, Control, NEW t \in Threads, NEW to, NEW at, Moves(t, to, at)
    PROVE  /\ Elsewhere(t) /\ pc'[t] = to /\ stack'[t] = at
           /\ Legal(t)' => Others(t)
  <1>1. Elsewhere(t) /\ pc'[t] = to /\ stack'[t] = at
    BY DEF Moves, Typed, Elsewhere
  <1>2. ASSUME Legal(t)'
        PROVE  Others(t)
    <2>1. Control' /\ \A u \in Threads \ {t} : Still(u)
      BY <1>1, <1>2, ControlStep
    <2>2. pc'[t] \in Labels /\ stack'[t] \in Seq(Labels)
      BY <1>2, Labelled
    <2>3. Typed'
      BY <1>1, <2>2 DEF Typed, Moves
    <2>4. QED
      BY <2>1, <2>3 DEF Others
  <1>3. QED
    BY <1>1, <1>2

(* Going from home to home. *)
LEMMA GotoMoves ==
    ASSUME Typed, Control, NEW t \in Threads, NEW to \in HomePC(t),
           pc' = [pc EXCEPT ![t] = to], UNCHANGED stack,
           pc[t] \notin ProcPC \cup {"join"}, Below(t, to) = Below(t, pc[t])
    PROVE  Others(t) /\ pc'[t] = to /\ HomeOf(t)' = to /\ HomeOf(t) = pc[t]
  <1>1. Moves(t, to, stack[t])
    BY DEF Moves
  <1>2. pc'[t] = to /\ stack'[t] = stack[t] /\ (Legal(t)' => Others(t))
    BY <1>1, MovesAlone
  <1>3. pc[t] \in HomePC(t) /\ Legal(t)
    BY Home DEF Control
  <1>4. QED
    BY <1>2, <1>3, GotoStep

(* Calling a procedure from home. *)
LEMMA CallMoves ==
    ASSUME Typed, Control, NEW t \in Threads, NEW back \in HomePC(t),
           NEW proc \in CalledFrom(back), Call(t, proc, back),
           pc[t] \notin ProcPC \cup {"join"}, Below(t, back) = Below(t, pc[t])
    PROVE  /\ Others(t) /\ pc'[t] = proc /\ HomeOf(t)' = back /\ Top(t)' = back
           /\ HomeOf(t) = pc[t]
  <1>1. Moves(t, proc, <<back>> \o stack[t])
    BY DEF Moves, Call, Typed
  <1>2. pc'[t] = proc /\ stack'[t] = <<back>> \o stack[t] /\ (Legal(t)' => Others(t))
    BY <1>1, MovesAlone
  <1>3. pc[t] \in HomePC(t) /\ Legal(t)
    BY Home DEF Control
  <1>4. QED
    BY <1>2, <1>3, CallStep

(* Returning from a procedure. *)
LEMMA ReturnMoves ==
    ASSUME Typed, Control, NEW t \in Threads, Return(t), pc[t] \in ProcPC \cup {"join"}
    PROVE  /\ Others(t) /\ pc'[t] = Top(t) /\ HomeOf(t)' = HomeOf(t)
           /\ Top(t) = HomeOf(t) \/ Top(t) \in {"retire_all", "self_exit"}
  <1>1. Moves(t, Head(stack[t]), Tail(stack[t]))
    BY DEF Moves, Return, Typed
  <1>2. /\ pc'[t] = Head(stack[t]) /\ stack'[t] = Tail(stack[t])
        /\ Legal(t)' => Others(t)
    BY <1>1, MovesAlone
  <1>3. Legal(t)
    BY DEF Control
  <1>4. QED
    BY <1>2, <1>3, ReturnStep

(* retire_all calls the sweep. *)
LEMMA NestMoves ==
    ASSUME Typed, Control, NEW t \in Threads, pc[t] = "retire_all",
           Call(t, "sweep", "retire_all")
    PROVE  /\ Others(t) /\ pc'[t] = "sweep" /\ HomeOf(t)' = HomeOf(t)
           /\ Top(t)' = "retire_all"
  <1>1. Moves(t, "sweep", <<"retire_all">> \o stack[t])
    BY DEF Moves, Call, Typed
  <1>2. /\ pc'[t] = "sweep" /\ stack'[t] = <<"retire_all">> \o stack[t]
        /\ Legal(t)' => Others(t)
    BY <1>1, MovesAlone
  <1>3. Legal(t)
    BY DEF Control
  <1>4. QED
    BY <1>2, <1>3, NestStep

(* The sweep and the marking of one service take turns. *)
LEMMA TurnMoves ==
    ASSUME Typed, Control, NEW t \in Threads, NEW to \in {"sweep", "mark_dead"},
           pc[t] \in {"sweep", "mark_dead"}, pc' = [pc EXCEPT ![t] = to], UNCHANGED stack
    PROVE  Others(t) /\ pc'[t] = to /\ HomeOf(t)' = HomeOf(t) /\ Top(t)' = Top(t)
  <1>1. Moves(t, to, stack[t])
    BY DEF Moves
  <1>2. pc'[t] = to /\ stack'[t] = stack[t] /\ (Legal(t)' => Others(t))
    BY <1>1, MovesAlone
  <1>3. Legal(t)
    BY DEF Control
  <1>4. QED
    BY <1>2, <1>3, TurnStep

(* User code calls exit or abort, and they call retire at once. *)
LEMMA DoubleMoves ==
    ASSUME Typed, Control, NEW t \in Threads, pc[t] \in UserPC, NEW to,
           NEW from \in {"retire_all", "self_exit"}, NEW both \in BOOLEAN,
           to = "mark_dead" \/ (to = "interrupt_all" /\ from = "retire_all")
             \/ (to = "retire_all" /\ ~both),
           from = "self_exit" => pc[t] # "free",
           pc' = [pc EXCEPT ![t] = to],
           stack' = [stack EXCEPT ![t] = (IF both THEN <<from>> ELSE <<>>) \o <<pc[t]>> \o @]
    PROVE  /\ Others(t) /\ pc'[t] = to /\ HomeOf(t)' = pc[t] /\ HomeOf(t) = pc[t]
           /\ Top(t)' = IF both THEN from ELSE pc[t]
  <1> DEFINE at == (IF both THEN <<from>> ELSE <<>>) \o <<pc[t]>> \o stack[t]
  <1>1. Moves(t, to, at)
    BY DEF Moves, Typed
  <1> HIDE DEF at
  <1>2. pc'[t] = to /\ stack'[t] = at /\ (Legal(t)' => Others(t))
    BY <1>1, MovesAlone
  <1>3. pc[t] \notin ProcPC \cup {"join"}
    BY DEF UserPC, ProcPC
  <1>4. pc[t] \in HomePC(t) /\ Legal(t)
    BY <1>3, Home DEF Control
  <1>5. stack'[t] = (IF both THEN <<from>> ELSE <<>>) \o <<pc[t]>> \o stack[t]
    BY <1>2 DEF at
  <1>6. /\ Legal(t)' /\ HomeOf(t)' = pc[t] /\ HomeOf(t) = pc[t]
        /\ Top(t)' = IF both THEN from ELSE pc[t]
    BY <1>2, <1>4, <1>5, DoubleStep
  <1>7. QED
    BY <1>2, <1>6

(* Main begins to drain, and ends it. *)
LEMMA DrainCalled ==
    ASSUME Typed, Control, pc[Main] = "shutdown", Call(Main, "look", "shutdown")
    PROVE  Others(Main) /\ pc'[Main] = "look" /\ HomeOf(Main)' = "look" /\ HomeOf(Main) = "shutdown"
  <1>1. Main \in Threads /\ Main \notin Workers /\ Main \notin Callers /\ Main \notin Exclusive
    BY NodeAssumption DEF Threads, Services
  <1>2. Moves(Main, "look", <<"shutdown">> \o stack[Main])
    BY DEF Moves, Call, Typed
  <1>3. /\ pc'[Main] = "look" /\ stack'[Main] = <<"shutdown">> \o stack[Main]
        /\ Legal(Main)' => Others(Main)
    BY <1>1, <1>2, MovesAlone
  <1>4. stack[Main] = <<>> /\ HomeOf(Main) = "shutdown"
    BY <1>1, Home DEF Below, DrainPC, ProcPC
  <1>5. <<"shutdown">> \o <<>> = <<"shutdown">>
    OBVIOUS
  <1>6. AtHome(Main)'
    BY <1>1, <1>3, <1>4, <1>5 DEF AtHome, Below, DrainPC, HomePC
  <1>7. QED
    BY <1>3, <1>4, <1>6 DEF Legal, HomeOf, ProcPC

(* The main thread has drained and goes on with the shutdown. *)
LEMMA DrainReturned ==
    ASSUME Typed, Control, pc[Main] = "look", Return(Main)
    PROVE  /\ Others(Main) /\ pc'[Main] = "shutdown" /\ HomeOf(Main)' = "shutdown"
           /\ HomeOf(Main) = "look"
  <1>1. Main \in Threads /\ Main \notin Workers /\ Main \notin Callers /\ Main \notin Exclusive
    BY NodeAssumption DEF Threads, Services
  <1>2. Moves(Main, Head(stack[Main]), Tail(stack[Main]))
    BY DEF Moves, Return, Typed
  <1>3. /\ pc'[Main] = Head(stack[Main]) /\ stack'[Main] = Tail(stack[Main])
        /\ Legal(Main)' => Others(Main)
    BY <1>1, <1>2, MovesAlone
  <1>4. stack[Main] = <<"shutdown">> /\ HomeOf(Main) = "look"
    BY <1>1, Home DEF Below, DrainPC, ProcPC
  <1>5. Head(<<"shutdown">>) = "shutdown" /\ Tail(<<"shutdown">>) = <<>>
    OBVIOUS
  <1>6. pc'[Main] = "shutdown" /\ stack'[Main] = <<>>
    BY <1>3, <1>4, <1>5
  <1>7. AtHome(Main)'
    BY <1>1, <1>6 DEF AtHome, Below, DrainPC, HomePC
  <1>8. QED
    BY <1>3, <1>4, <1>6, <1>7 DEF Legal, HomeOf, ProcPC

(* How threads and services are related. *)
LEMMA Kinds ==
    /\ Workers \subseteq Threads /\ Callers \subseteq Threads /\ Exclusive \subseteq Threads
    /\ Main \in Threads /\ Runners \subseteq Threads /\ Main \in Runners /\ Workers \subseteq Runners
    /\ Shared \subseteq Services /\ Exclusive \subseteq Services /\ Shared \cap Exclusive = {}
    /\ Services = Shared \cup Exclusive /\ None \notin Services /\ None \notin Threads
    /\ Main \notin Exclusive /\ Main \notin Workers /\ Main \notin Callers
    /\ Exclusive \cap Workers = {} /\ Exclusive \cap Callers = {}
    /\ Exclusive \cap Runners = {} /\ Callers \cap Runners = {}
  BY NodeAssumption DEF Threads, Services, Runners

(* The two sets that total counts. *)
Outstanding == (born \cap Ordinary) \ destroyed
Accounting  == {t \in Threads : pc[t] = "account" /\ hold[t] \in Ordinary}

(* A step that destroys, admits and accounts for nothing keeps the count. *)
LEMMA CountSame ==
    ASSUME TotalCountsOrdinary, NEW t \in Threads, Others(t),
           pc[t] # "account", pc'[t] # "account",
           \A u \in Threads \ {t} : hold'[u] = hold[u],
           total' = total, born' = born, destroyed' = destroyed
    PROVE  TotalCountsOrdinary'
  <1>1. Accounting' = Accounting
    BY DEF Accounting, Others, Still
  <1>2. Outstanding' = Outstanding
    BY DEF Outstanding
  <1>3. QED
    BY <1>1, <1>2 DEF TotalCountsOrdinary, Accounting, Outstanding

(* User code runs at home. *)
LEMMA UserHome ==
    ASSUME Control, NEW t \in Threads, InUserCode(t)
    PROVE  /\ pc[t] \in UserPC /\ pc[t] \notin ProcPC \cup {"join"}
           /\ pc[t] \in HomePC(t) /\ HomeOf(t) = pc[t]
           /\ \A p \in ProcPC \ {"self_exit"} : p \in CalledFrom(pc[t])
           /\ t \notin Callers => pc[t] # "free"
  <1>1. pc[t] \in UserPC /\ pc[t] \notin ProcPC \cup {"join"}
    BY DEF InUserCode, UserPC, ProcPC
  <1>2. pc[t] \in HomePC(t) /\ HomeOf(t) = pc[t]
    BY <1>1, Home
  <1>3. \A p \in ProcPC \ {"self_exit"} : p \in CalledFrom(pc[t])
    BY <1>1 DEF CalledFrom, UserPC
  <1>4. t \notin Callers => pc[t] # "free"
    BY <1>2, HomeWho
  <1>5. QED
    BY <1>1, <1>2, <1>3, <1>4

(* Threads that do not move stay legal. *)
LEMMA Unmoved ==
    ASSUME Typed, Control, pc' = pc, stack' = stack
    PROVE  /\ Typed' /\ Control' /\ \A u \in Threads : Still(u)
           /\ \A u \in Threads : Others(u)
  <1>1. Typed' /\ Control' /\ \A u \in Threads : Still(u)
    BY DEF Control, Legal, AtHome, InCall, InRetireAll, InExit, Typed, Still, HomeOf, Top
  <1>2. QED
    BY <1>1 DEF Others

(* Whoever is in a service holds it, and it has been launched. *)
LEMMA Held ==
    ASSUME NodeInv, NEW t \in Threads,
           HomeOf(t) \in {"work", "resume", "final_drain", "clean", "account"}
    PROVE  /\ hold[t] \in born /\ hold[t] \in Services /\ hold[t] # None
           /\ t \in Runners => hold[t] \in Shared
           /\ t \in Runners /\ pc[t] # "account" => token[hold[t]] = "held"
           /\ t \in Exclusive => hold[t] = t
           /\ t \in Runners \/ t \in Exclusive
           /\ pc[t] # "account" /\ HomeOf(t) # "account" => hold[t] \notin destroyed
  <1>1. NTypes /\ Control /\ Publication /\ Mortality /\ Holding
    BY DEF NodeInv
  <1>2. HomeOf(t) \in HomePC(t)
    BY <1>1, Homes
  <1>3. t \in Runners \/ t \in Exclusive
    BY <1>2, Who, HomeWho
  <1>4. CASE t \in Runners
    <2>1. HomeOf(t) # "final_drain"
      BY <1>2, <1>4, Who, HomeWho
    <2>2. hold[t] # None /\ hold[t] \in Shared
      BY <1>1, <1>4, <2>1 DEF Holding, InHand
    <2>3. IF pc[t] = "account" THEN hold[t] \in destroyed ELSE token[hold[t]] = "held"
      BY <1>1, <1>4, <2>2 DEF Holding
    <2>4. hold[t] \in born
      BY <1>1, <2>2, <2>3, Kinds DEF Publication, Unpublished, Mortality
    <2>5. pc[t] # "account" => hold[t] \notin destroyed
      BY <1>1, <2>2, <2>3 DEF Holding
    <2>6. QED
      BY <1>4, <2>2, <2>3, <2>4, <2>5, Kinds
  <1>5. CASE t \in Exclusive
    <2>1. hold[t] = t /\ t \in Services /\ t \notin Runners
      BY <1>1, <1>5, Kinds DEF Holding
    <2>2. pc[t] # "absent"
      BY <1>1, Home DEF ProcPC
    <2>3. t \in born
      BY <1>1, <1>5, <2>1, <2>2, Kinds DEF Publication, Unpublished
    <2>4. HomeOf(t) # "account" => t \notin destroyed
      BY <1>1, <1>5 DEF Holding, Ended
    <2>5. QED
      BY <1>5, <2>1, <2>3, <2>4, Kinds
  <1>6. QED
    BY <1>3, <1>4, <1>5


(* Killing. *)
LEMMA KillKeeps ==
    ASSUME NodeInv, NEW t \in Threads, NEW s \in Services, Kill(t, s)
    PROVE  NodeInv'
  <1>1. /\ NTypes /\ Typed /\ Control /\ Publication /\ Mortality /\ Holding
        /\ Booting /\ Ending /\ TotalCountsOrdinary
    BY DEF NodeInv, NTypes
  <1>2. /\ quit' = quit /\ booted' = booted /\ total' = total /\ gate' = gate
        /\ logger' = logger /\ born' = born /\ table' = table /\ dead' = dead
        /\ destroyed' = destroyed /\ selfExit' = selfExit /\ life' = life /\ ticket' = ticket
        /\ token' = token /\ permit' = permit /\ hold' = hold /\ budgets' = budgets
        /\ victim' = victim /\ stage' = stage
        /\ todo' = [todo EXCEPT ![t] = {s}]
    BY DEF Kill, flags, services, exec, control, bounds
  <1>3. /\ Others(t) /\ t \in Threads
        /\ pc[t] \in UserPC /\ pc'[t] = "sweep"
        /\ HomeOf(t) = pc[t] /\ HomeOf(t)' = pc[t] /\ Top(t)' = pc[t]
    <2>1. InUserCode(t) /\ pc[t] \in UserPC /\ pc[t] \notin ProcPC \cup {"join"}
          /\ pc[t] \in HomePC(t) /\ HomeOf(t) = pc[t]
          /\ "sweep" \in CalledFrom(pc[t]) /\ "publish" \in CalledFrom(pc[t])
      BY <1>1, UserHome DEF Kill, UserCall, ProcPC
    <2>2. Call(t, "sweep", pc[t])
      BY DEF Kill
    <2>3. QED
      BY <1>1, <2>1, <2>2, CallMoves
  <1>4. NTypes'
    BY <1>1, <1>2, <1>3, Kinds DEF NTypes, Others
  <1>5. Publication'
    BY <1>1, <1>2, <1>3, Kinds DEF Publication, Unpublished, Others, Still, NTypes, UserPC
  <1>6. Mortality'
    BY <1>1, <1>2, <1>3, Kinds DEF Mortality, Others, Still, NTypes, UserPC
  <1>7. Holding'
    BY <1>1, <1>2, <1>3, Kinds DEF Holding, InHand, Ended, Others, Still, NTypes, UserPC
  <1>8. Booting'
    BY <1>1, <1>2, <1>3, Kinds DEF Booting, Others, Still, UserPC
  <1>9. Ending'
    BY <1>1, <1>2, <1>3, Kinds DEF Ending, BootPhase, Others, Still, NTypes, UserPC
  <1>10. TotalCountsOrdinary'
    BY <1>1, <1>2, <1>3, CountSame DEF UserPC
  <1>11. QED
    BY <1>3, <1>4, <1>5, <1>6, <1>7, <1>8, <1>9, <1>10 DEF NodeInv, Others

(* A message or a wake-up. *)
LEMMA WakeKeeps ==
    ASSUME NodeInv, NEW t \in Threads, NEW s \in Services, Wake(t, s)
    PROVE  NodeInv'
  <1>1. /\ NTypes /\ Typed /\ Control /\ Publication /\ Mortality /\ Holding
        /\ Booting /\ Ending /\ TotalCountsOrdinary
    BY DEF NodeInv, NTypes
  <1>2. /\ quit' = quit /\ booted' = booted /\ total' = total /\ gate' = gate
        /\ logger' = logger /\ born' = born /\ table' = table /\ dead' = dead
        /\ destroyed' = destroyed /\ selfExit' = selfExit /\ life' = life /\ ticket' = ticket
        /\ hold' = hold /\ budgets' = budgets /\ todo' = todo /\ victim' = victim
        /\ stage' = stage
        /\ s \in table /\ permit' \subseteq permit \cup (Exclusive \cap {s})
        /\ \/ token' = token
           \/ s \in Shared /\ token[s] = "idle" /\ token' = [token EXCEPT ![s] = "queued"]
    BY DEF Wake, flags, services, exec, control, bounds
  <1>3. /\ Others(t) /\ t \in Threads
        /\ pc' = pc /\ stack' = stack /\ pc[t] \in UserPC /\ HomeOf(t)' = HomeOf(t)
    <2>1. pc' = pc /\ stack' = stack /\ InUserCode(t)
      BY DEF Wake, control
    <2>2. QED
      BY <1>1, <2>1, Unmoved, UserHome DEF Still
  <1>4. NTypes'
    BY <1>1, <1>2, <1>3, Kinds DEF NTypes, Others
  <1>5. Publication'
    BY <1>1, <1>2, <1>3, Kinds DEF Publication, Unpublished, Others, Still, NTypes, UserPC
  <1>6. Mortality'
    BY <1>1, <1>2, <1>3, Kinds DEF Mortality, Others, Still, NTypes, UserPC
  <1>7. Holding'
    BY <1>1, <1>2, <1>3, Kinds DEF Holding, InHand, Ended, Others, Still, NTypes, UserPC, Mortality
  <1>8. Booting'
    BY <1>1, <1>2, <1>3, Kinds DEF Booting, Others, Still, UserPC
  <1>9. Ending'
    BY <1>1, <1>2, <1>3, Kinds DEF Ending, BootPhase, Others, Still, NTypes, UserPC
  <1>10. TotalCountsOrdinary'
    BY <1>1, <1>2, <1>3, CountSame DEF UserPC
  <1>11. QED
    BY <1>3, <1>4, <1>5, <1>6, <1>7, <1>8, <1>9, <1>10 DEF NodeInv, Others

(* retire_all takes a snapshot, or is done. *)
LEMMA RetireAllKeeps ==
    ASSUME NodeInv, NEW t \in Threads, RetireAll(t)
    PROVE  NodeInv'
  <1>1. /\ NTypes /\ Typed /\ Control /\ Publication /\ Mortality /\ Holding
        /\ Booting /\ Ending /\ TotalCountsOrdinary
    BY DEF NodeInv, NTypes
  <1>2. /\ quit' = quit /\ booted' = booted /\ total' = total /\ gate' = gate
        /\ logger' = logger /\ born' = born /\ table' = table /\ dead' = dead
        /\ destroyed' = destroyed /\ selfExit' = selfExit /\ life' = life /\ ticket' = ticket
        /\ token' = token /\ permit' = permit /\ hold' = hold /\ budgets' = budgets
        /\ victim' = victim /\ stage' = stage
        /\ todo' = todo \/ todo' = [todo EXCEPT ![t] = table \ Reserved]
    BY DEF RetireAll, flags, services, exec, control, bounds
  <1>3. /\ Others(t) /\ t \in Threads
        /\ pc[t] = "retire_all" /\ HomeOf(t)' = HomeOf(t) /\ HomeOf(t) \in UserPC \cup {"shutdown"}
        /\ \/ pc'[t] = HomeOf(t) /\ table \subseteq Reserved
           \/ pc'[t] = "sweep" /\ Top(t)' = "retire_all"
    <2>1. /\ pc[t] = "retire_all" /\ pc[t] \in ProcPC
          /\ HomeOf(t) \in UserPC \cup {"shutdown"} /\ Top(t) = HomeOf(t)
      BY <1>1, Procs DEF RetireAll, ProcPC
    <2>2. CASE table \ Reserved = {} /\ Return(t)
      BY <1>1, <2>1, <2>2, ReturnMoves
    <2>3. CASE Call(t, "sweep", "retire_all")
      BY <1>1, <2>1, <2>3, NestMoves
    <2>4. QED
      BY <2>2, <2>3 DEF RetireAll
  <1>4. NTypes'
    BY <1>1, <1>2, <1>3, Kinds DEF NTypes, Others
  <1>5. Publication'
    BY <1>1, <1>2, <1>3, Kinds DEF Publication, Unpublished, Others, Still, NTypes, UserPC
  <1>6. Mortality'
    BY <1>1, <1>2, <1>3, Kinds DEF Mortality, Others, Still, NTypes, UserPC
  <1>7. Holding'
    BY <1>1, <1>2, <1>3, Kinds DEF Holding, InHand, Ended, Others, Still, NTypes, UserPC
  <1>8. Booting'
    BY <1>1, <1>2, <1>3, Kinds DEF Booting, Others, Still, UserPC
  <1>9. Ending'
    BY <1>1, <1>2, <1>3, Kinds DEF Ending, BootPhase, Others, Still, NTypes, UserPC
  <1>10. TotalCountsOrdinary'
    BY <1>1, <1>2, <1>3, CountSame DEF UserPC
  <1>11. QED
    BY <1>3, <1>4, <1>5, <1>6, <1>7, <1>8, <1>9, <1>10 DEF NodeInv, Others

(* The interrupts of quit are out. *)
LEMMA InterruptAllKeeps ==
    ASSUME NodeInv, NEW t \in Threads, InterruptAll(t)
    PROVE  NodeInv'
  <1>1. /\ NTypes /\ Typed /\ Control /\ Publication /\ Mortality /\ Holding
        /\ Booting /\ Ending /\ TotalCountsOrdinary
    BY DEF NodeInv, NTypes
  <1>2. /\ quit' = quit /\ booted' = booted /\ total' = total /\ gate' = gate
        /\ logger' = logger /\ born' = born /\ table' = table /\ dead' = dead
        /\ destroyed' = destroyed /\ selfExit' = selfExit /\ life' = life /\ ticket' = ticket
        /\ token' = token /\ hold' = hold /\ budgets' = budgets /\ todo' = todo
        /\ victim' = victim /\ stage' = stage
        /\ permit' \subseteq permit \cup Exclusive
    BY DEF InterruptAll, flags, services, exec, control, bounds
  <1>3. /\ Others(t) /\ t \in Threads
        /\ pc[t] = "interrupt_all" /\ HomeOf(t)' = HomeOf(t) /\ pc'[t] \in {HomeOf(t), "retire_all"}
        /\ \/ HomeOf(t) \in {"join_workers", "next", "look", "gone"} /\ pc'[t] = HomeOf(t)
           \/ HomeOf(t) \in UserPC
    <2>1. pc[t] = "interrupt_all" /\ pc[t] \in ProcPC /\ Return(t)
      BY DEF InterruptAll, ProcPC
    <2>2. QED
      BY <1>1, <2>1, Procs, ReturnMoves
  <1>4. NTypes'
    BY <1>1, <1>2, <1>3, Kinds DEF NTypes, Others
  <1>5. Publication'
    BY <1>1, <1>2, <1>3, Kinds DEF Publication, Unpublished, Others, Still, NTypes, UserPC
  <1>6. Mortality'
    BY <1>1, <1>2, <1>3, Kinds DEF Mortality, Others, Still, NTypes, UserPC
  <1>7. Holding'
    BY <1>1, <1>2, <1>3, Kinds DEF Holding, InHand, Ended, Others, Still, NTypes, UserPC
  <1>8. Booting'
    BY <1>1, <1>2, <1>3, Kinds DEF Booting, Others, Still, UserPC
  <1>9. Ending'
    BY <1>1, <1>2, <1>3, Kinds DEF Ending, BootPhase, Others, Still, NTypes, UserPC
  <1>10. TotalCountsOrdinary'
    BY <1>1, <1>2, <1>3, CountSame DEF UserPC
  <1>11. QED
    BY <1>3, <1>4, <1>5, <1>6, <1>7, <1>8, <1>9, <1>10 DEF NodeInv, Others

(* Retiring. *)
LEMMA SweepKeeps ==
    ASSUME NodeInv, NEW t \in Threads, Sweep(t)
    PROVE  NodeInv'
  <1>1. /\ NTypes /\ Typed /\ Control /\ Publication /\ Mortality /\ Holding
        /\ Booting /\ Ending /\ TotalCountsOrdinary
    BY DEF NodeInv, NTypes
  <1>2. /\ quit' = quit /\ booted' = booted /\ total' = total /\ gate' = gate
        /\ logger' = logger /\ born' = born /\ dead' = dead /\ destroyed' = destroyed
        /\ selfExit' = selfExit /\ life' = life /\ ticket' = ticket /\ token' = token
        /\ permit' = permit /\ hold' = hold /\ budgets' = budgets /\ stage' = stage
    BY DEF Sweep, flags, services, exec, control, bounds
  <1>3. /\ Others(t) /\ t \in Threads
        /\ pc[t] = "sweep" /\ HomeOf(t)' = HomeOf(t) /\ HomeOf(t) \in UserPC \cup {"resume", "shutdown"}
        /\ Top(t) \in {HomeOf(t), "retire_all", "self_exit"}
        /\ HomeOf(t) = "shutdown" => Top(t) \in {HomeOf(t), "retire_all"}
        /\ \/ /\ todo[t] = {} /\ todo' = todo /\ table' = table /\ victim' = victim
              /\ pc'[t] = Top(t)
           \/ \E s \in todo[t] \ table :
                /\ todo' = [todo EXCEPT ![t] = @ \ {s}] /\ table' = table /\ victim' = victim
                /\ pc'[t] = "sweep" /\ Top(t)' = Top(t)
           \/ \E s \in todo[t] \cap table :
                /\ todo' = [todo EXCEPT ![t] = @ \ {s}] /\ table' = table \ {s}
                /\ victim' = [victim EXCEPT ![t] = s]
                /\ pc'[t] = "mark_dead" /\ Top(t)' = Top(t)
    <2>1. /\ pc[t] = "sweep" /\ pc[t] \in ProcPC
          /\ HomeOf(t) \in UserPC \cup {"resume", "shutdown"}
          /\ Top(t) \in {HomeOf(t), "retire_all", "self_exit"}
          /\ HomeOf(t) = "shutdown" => Top(t) \in {HomeOf(t), "retire_all"}
      BY <1>1, Procs DEF Sweep, ProcPC, UserPC
    <2>2. CASE todo[t] = {} /\ Return(t) /\ UNCHANGED <<todo, table, victim>>
      BY <1>1, <2>1, <2>2, ReturnMoves
    <2>3. ASSUME NEW s \in todo[t] \ table, todo' = [todo EXCEPT ![t] = @ \ {s}],
                 UNCHANGED <<pc, stack, table, victim>>
          PROVE  Others(t) /\ Still(t)
      BY <1>1, <2>3, Unmoved
    <2>4. ASSUME NEW s \in todo[t] \cap table, pc' = [pc EXCEPT ![t] = "mark_dead"],
                 UNCHANGED stack
          PROVE  Others(t) /\ pc'[t] = "mark_dead" /\ HomeOf(t)' = HomeOf(t) /\ Top(t)' = Top(t)
      BY <1>1, <2>1, <2>4, TurnMoves
    <2>5. QED
      BY <2>1, <2>2, <2>3, <2>4 DEF Sweep, Still
  <1>4. NTypes'
    BY <1>1, <1>2, <1>3, Kinds DEF NTypes, Others
  <1>5. Publication'
    BY <1>1, <1>2, <1>3, Kinds DEF Publication, Unpublished, Others, Still, NTypes, UserPC
  <1>6. Mortality'
    BY <1>1, <1>2, <1>3, Kinds DEF Mortality, Others, Still, NTypes, UserPC
  <1>7. Holding'
    BY <1>1, <1>2, <1>3, Kinds DEF Holding, InHand, Ended, Others, Still, NTypes, UserPC
  <1>8. Booting'
    BY <1>1, <1>2, <1>3, Kinds DEF Booting, Others, Still, UserPC
  <1>9. Ending'
    BY <1>1, <1>2, <1>3, Kinds DEF Ending, BootPhase, Others, Still, NTypes, UserPC
  <1>10. TotalCountsOrdinary'
    BY <1>1, <1>2, <1>3, CountSame DEF UserPC
  <1>11. QED
    BY <1>3, <1>4, <1>5, <1>6, <1>7, <1>8, <1>9, <1>10 DEF NodeInv, Others

(* mark_dead, and the notification. *)
LEMMA MarkDeadKeeps ==
    ASSUME NodeInv, NEW t \in Threads, MarkDead(t)
    PROVE  NodeInv'
  <1>1. /\ NTypes /\ Typed /\ Control /\ Publication /\ Mortality /\ Holding
        /\ Booting /\ Ending /\ TotalCountsOrdinary
    BY DEF NodeInv, NTypes
  <1>2. /\ quit' = quit /\ booted' = booted /\ total' = total /\ gate' = gate
        /\ logger' = logger /\ born' = born /\ table' = table /\ destroyed' = destroyed
        /\ selfExit' = selfExit /\ life' = life /\ ticket' = ticket /\ hold' = hold
        /\ budgets' = budgets /\ todo' = todo /\ victim' = victim /\ stage' = stage
        /\ dead' = dead \cup {victim[t]} /\ victim[t] \in Services /\ permit' \subseteq permit \cup Exclusive
        /\ \/ token' = token
           \/ /\ victim[t] \in Shared
              /\ token' = [token EXCEPT ![victim[t]] = IF @ = "idle" THEN "queued" ELSE @]
    BY <1>1, Kinds DEF MarkDead, Goto, Mortality, NTypes, flags, services, exec, control, bounds
  <1>3. /\ Others(t) /\ t \in Threads
        /\ pc[t] = "mark_dead" /\ pc'[t] = "sweep" /\ HomeOf(t)' = HomeOf(t) /\ Top(t)' = Top(t)
        /\ HomeOf(t) \in UserPC \cup {"resume", "shutdown"}
    <2>1. pc[t] = "mark_dead" /\ pc' = [pc EXCEPT ![t] = "sweep"] /\ UNCHANGED stack
      BY DEF MarkDead, Goto
    <2>2. HomeOf(t) \in UserPC \cup {"resume", "shutdown"}
      BY <1>1, <2>1, Procs DEF ProcPC
    <2>3. QED
      BY <1>1, <2>1, <2>2, TurnMoves
  <1>4. NTypes'
    BY <1>1, <1>2, <1>3, Kinds DEF NTypes, Others
  <1>5. Publication'
    BY <1>1, <1>2, <1>3, Kinds DEF Publication, Unpublished, Others, Still, NTypes, UserPC
  <1>6. Mortality'
    BY <1>1, <1>2, <1>3, Kinds DEF Mortality, Others, Still, NTypes, UserPC
  <1>7. Holding'
    BY <1>1, <1>2, <1>3, Kinds DEF Holding, InHand, Ended, Others, Still, NTypes, UserPC, Mortality
  <1>8. Booting'
    BY <1>1, <1>2, <1>3, Kinds DEF Booting, Others, Still, UserPC
  <1>9. Ending'
    BY <1>1, <1>2, <1>3, Kinds DEF Ending, BootPhase, Others, Still, NTypes, UserPC
  <1>10. TotalCountsOrdinary'
    BY <1>1, <1>2, <1>3, CountSame DEF UserPC
  <1>11. QED
    BY <1>3, <1>4, <1>5, <1>6, <1>7, <1>8, <1>9, <1>10 DEF NodeInv, Others

(* Ctx::exit. *)
LEMMA ExitKeeps ==
    ASSUME NodeInv, NEW t \in Threads, Exit(t)
    PROVE  NodeInv'
  <1>1. /\ NTypes /\ Typed /\ Control /\ Publication /\ Mortality /\ Holding
        /\ Booting /\ Ending /\ TotalCountsOrdinary
    BY DEF NodeInv, NTypes
  <1>2. /\ quit' = quit /\ booted' = booted /\ total' = total /\ gate' = gate
        /\ logger' = logger /\ born' = born /\ dead' = dead /\ destroyed' = destroyed
        /\ selfExit' = selfExit /\ life' = life /\ ticket' = ticket /\ token' = token
        /\ permit' = permit /\ hold' = hold /\ budgets' = budgets /\ todo' = todo
        /\ stage' = stage
        /\ hold[t] \in table /\ table' = table \ {hold[t]} /\ victim' = [victim EXCEPT ![t] = hold[t]]
    BY DEF Exit, flags, services, exec, control, bounds
  <1>3. /\ Others(t) /\ t \in Threads
        /\ pc[t] \in UserPC /\ pc'[t] = "mark_dead" /\ HomeOf(t) = pc[t] /\ HomeOf(t)' = pc[t]
    <2>1. InUserCode(t) /\ t \notin Callers /\ pc' = [pc EXCEPT ![t] = "mark_dead"]
      BY DEF Exit, UserCall
    <2>2. pc[t] \in UserPC /\ pc[t] # "free"
      BY <1>1, <2>1, UserHome
    <2>3. PICK both \in BOOLEAN : both = (life[hold[t]] = "INITIALIZING")
      OBVIOUS
    <2>4. stack' = [stack EXCEPT ![t] = (IF both THEN <<"self_exit">> ELSE <<>>) \o <<pc[t]>> \o @]
      BY <2>3 DEF Exit
    <2>5. QED
      BY <1>1, <2>1, <2>2, <2>4, DoubleMoves
  <1>4. NTypes'
    BY <1>1, <1>2, <1>3, Kinds DEF NTypes, Others
  <1>5. Publication'
    BY <1>1, <1>2, <1>3, Kinds DEF Publication, Unpublished, Others, Still, NTypes, UserPC
  <1>6. Mortality'
    BY <1>1, <1>2, <1>3, Kinds DEF Mortality, Others, Still, NTypes, UserPC
  <1>7. Holding'
    BY <1>1, <1>2, <1>3, Kinds DEF Holding, InHand, Ended, Others, Still, NTypes, UserPC
  <1>8. Booting'
    BY <1>1, <1>2, <1>3, Kinds DEF Booting, Others, Still, UserPC
  <1>9. Ending'
    BY <1>1, <1>2, <1>3, Kinds DEF Ending, BootPhase, Others, Still, NTypes, UserPC
  <1>10. TotalCountsOrdinary'
    BY <1>1, <1>2, <1>3, CountSame DEF UserPC
  <1>11. QED
    BY <1>3, <1>4, <1>5, <1>6, <1>7, <1>8, <1>9, <1>10 DEF NodeInv, Others

(* A service marks itself as leaving. *)
LEMMA MarkSelfExitKeeps ==
    ASSUME NodeInv, NEW t \in Threads, MarkSelfExit(t)
    PROVE  NodeInv'
  <1>1. /\ NTypes /\ Typed /\ Control /\ Publication /\ Mortality /\ Holding
        /\ Booting /\ Ending /\ TotalCountsOrdinary
    BY DEF NodeInv, NTypes
  <1>2. /\ quit' = quit /\ booted' = booted /\ total' = total /\ gate' = gate
        /\ logger' = logger /\ born' = born /\ table' = table /\ dead' = dead
        /\ destroyed' = destroyed /\ life' = life /\ ticket' = ticket /\ token' = token
        /\ permit' = permit /\ hold' = hold /\ budgets' = budgets /\ todo' = todo
        /\ victim' = victim /\ stage' = stage
        /\ selfExit' = selfExit \cup {hold[t]}
    BY DEF MarkSelfExit, flags, services, exec, control, bounds
  <1>3. /\ Others(t) /\ t \in Threads
        /\ pc[t] = "self_exit" /\ pc'[t] = HomeOf(t) /\ HomeOf(t)' = HomeOf(t)
        /\ HomeOf(t) \in {"work", "final_drain"} /\ hold[t] \in born /\ hold[t] \in Services
    <2>1. pc[t] = "self_exit" /\ pc[t] \in ProcPC /\ Return(t)
      BY DEF MarkSelfExit, ProcPC
    <2>2. HomeOf(t) \in {"work", "final_drain"} /\ Top(t) = HomeOf(t)
      BY <1>1, <2>1, Procs DEF UserPC
    <2>3. hold[t] \in born /\ hold[t] \in Services
      BY <2>2, Held
    <2>4. QED
      BY <1>1, <2>1, <2>2, <2>3, ReturnMoves
  <1>4. NTypes'
    BY <1>1, <1>2, <1>3, Kinds DEF NTypes, Others
  <1>5. Publication'
    BY <1>1, <1>2, <1>3, Kinds DEF Publication, Unpublished, Others, Still, NTypes, UserPC
  <1>6. Mortality'
    BY <1>1, <1>2, <1>3, Kinds DEF Mortality, Others, Still, NTypes, UserPC
  <1>7. Holding'
    BY <1>1, <1>2, <1>3, Kinds DEF Holding, InHand, Ended, Others, Still, NTypes, UserPC
  <1>8. Booting'
    BY <1>1, <1>2, <1>3, Kinds DEF Booting, Others, Still, UserPC
  <1>9. Ending'
    BY <1>1, <1>2, <1>3, Kinds DEF Ending, BootPhase, Others, Still, NTypes, UserPC
  <1>10. TotalCountsOrdinary'
    BY <1>1, <1>2, <1>3, CountSame DEF UserPC
  <1>11. QED
    BY <1>3, <1>4, <1>5, <1>6, <1>7, <1>8, <1>9, <1>10 DEF NodeInv, Others

(* abort. *)
LEMMA AbortKeeps ==
    ASSUME NodeInv, NEW t \in Threads, Abort(t)
    PROVE  NodeInv'
  <1>1. /\ NTypes /\ Typed /\ Control /\ Publication /\ Mortality /\ Holding
        /\ Booting /\ Ending /\ TotalCountsOrdinary
    BY DEF NodeInv, NTypes
  <1>2. /\ booted' = booted /\ total' = total /\ gate' = gate /\ logger' = logger
        /\ born' = born /\ table' = table /\ dead' = dead /\ destroyed' = destroyed
        /\ selfExit' = selfExit /\ life' = life /\ ticket' = ticket /\ token' = token
        /\ permit' = permit /\ hold' = hold /\ budgets' = budgets /\ todo' = todo
        /\ victim' = victim /\ stage' = stage
        /\ quit' = TRUE
    BY DEF Abort, flags, services, exec, control, bounds
  <1>3. /\ Others(t) /\ t \in Threads
        /\ pc[t] \in UserPC /\ HomeOf(t) = pc[t] /\ HomeOf(t)' = pc[t]
        /\ pc'[t] \in {"retire_all", "interrupt_all"}
        /\ ~quit => pc'[t] = "interrupt_all" /\ Top(t)' = "retire_all"
    <2>1. InUserCode(t) /\ quit \in BOOLEAN
      BY <1>1 DEF Abort, UserCall, NTypes
    <2>2. pc[t] \in UserPC
      BY <1>1, <2>1, UserHome
    <2>3. CASE quit
      <3>1. /\ pc' = [pc EXCEPT ![t] = "retire_all"]
            /\ stack' = [stack EXCEPT ![t] =
                           (IF FALSE THEN <<"retire_all">> ELSE <<>>) \o <<pc[t]>> \o @]
        BY <2>3 DEF Abort
      <3>2. QED
        BY <1>1, <2>2, <2>3, <3>1, DoubleMoves
    <2>4. CASE ~quit
      <3>1. /\ pc' = [pc EXCEPT ![t] = "interrupt_all"]
            /\ stack' = [stack EXCEPT ![t] =
                           (IF TRUE THEN <<"retire_all">> ELSE <<>>) \o <<pc[t]>> \o @]
        BY <2>4 DEF Abort
      <3>2. QED
        BY <1>1, <2>2, <2>4, <3>1, DoubleMoves
    <2>5. QED
      BY <2>1, <2>3, <2>4
  <1>4. NTypes'
    BY <1>1, <1>2, <1>3, Kinds DEF NTypes, Others
  <1>5. Publication'
    BY <1>1, <1>2, <1>3, Kinds DEF Publication, Unpublished, Others, Still, NTypes, UserPC
  <1>6. Mortality'
    BY <1>1, <1>2, <1>3, Kinds DEF Mortality, Others, Still, NTypes, UserPC
  <1>7. Holding'
    BY <1>1, <1>2, <1>3, Kinds DEF Holding, InHand, Ended, Others, Still, NTypes, UserPC
  <1>8. Booting'
    BY <1>1, <1>2, <1>3, Kinds DEF Booting, Others, Still, UserPC
  <1>9. Ending'
    BY <1>1, <1>2, <1>3, Kinds DEF Ending, BootPhase, Others, Still, NTypes, UserPC
  <1>10. TotalCountsOrdinary'
    BY <1>1, <1>2, <1>3, CountSame DEF UserPC
  <1>11. QED
    BY <1>3, <1>4, <1>5, <1>6, <1>7, <1>8, <1>9, <1>10 DEF NodeInv, Others

(* The init future returns. *)
LEMMA InitReturnsKeeps ==
    ASSUME NodeInv, NEW t \in Threads, NEW ok \in BOOLEAN, InitReturns(t, ok)
    PROVE  NodeInv'
  <1>1. /\ NTypes /\ Typed /\ Control /\ Publication /\ Mortality /\ Holding
        /\ Booting /\ Ending /\ TotalCountsOrdinary
    BY DEF NodeInv, NTypes
  <1>2. /\ quit' = quit /\ booted' = booted /\ total' = total /\ gate' = gate
        /\ logger' = logger /\ born' = born /\ table' = table /\ dead' = dead
        /\ destroyed' = destroyed /\ selfExit' = selfExit /\ token' = token
        /\ permit' = permit /\ hold' = hold /\ budgets' = budgets /\ victim' = victim
        /\ stage' = stage
        /\ life' \in [Services -> {"INITIALIZING", "RUNNING", "FAILED"}]
        /\ ticket' \in [Services -> {"none", "ok", "err"}]
        /\ todo' = todo \/ todo' = [todo EXCEPT ![t] = {hold[t]}]
    BY <1>1 DEF InitReturns, FinishInit, NTypes, flags, services, exec, control, bounds
  <1>3. /\ Others(t) /\ t \in Threads
        /\ pc[t] = "work" /\ pc'[t] \in {"work", "sweep"} /\ HomeOf(t) = "work" /\ HomeOf(t)' = "work"
        /\ hold[t] \in Services
    <2>1. pc[t] = "work" /\ pc[t] \notin ProcPC \cup {"join"}
      BY DEF InitReturns, ProcPC
    <2>2. HomeOf(t) = "work" /\ "work" \in HomePC(t)
      BY <1>1, <2>1, Home
    <2>3. hold[t] \in Services
      BY <2>2, Held
    <2>4. CASE UNCHANGED <<pc, stack>>
      BY <1>1, <2>1, <2>2, <2>3, <2>4, Unmoved DEF Still
    <2>5. CASE Call(t, "sweep", "work")
      <3>1. "sweep" \in CalledFrom("work")
        BY DEF CalledFrom, UserPC, ProcPC
      <3>2. QED
        BY <1>1, <2>1, <2>2, <2>3, <2>5, <3>1, CallMoves
    <2>6. QED
      BY <2>4, <2>5 DEF InitReturns
  <1>4. NTypes'
    BY <1>1, <1>2, <1>3, Kinds DEF NTypes, Others
  <1>5. Publication'
    BY <1>1, <1>2, <1>3, Kinds DEF Publication, Unpublished, Others, Still, NTypes, UserPC
  <1>6. Mortality'
    BY <1>1, <1>2, <1>3, Kinds DEF Mortality, Others, Still, NTypes, UserPC
  <1>7. Holding'
    BY <1>1, <1>2, <1>3, Kinds DEF Holding, InHand, Ended, Others, Still, NTypes, UserPC
  <1>8. Booting'
    BY <1>1, <1>2, <1>3, Kinds DEF Booting, Others, Still, UserPC
  <1>9. Ending'
    BY <1>1, <1>2, <1>3, Kinds DEF Ending, BootPhase, Others, Still, NTypes, UserPC
  <1>10. TotalCountsOrdinary'
    BY <1>1, <1>2, <1>3, CountSame DEF UserPC
  <1>11. QED
    BY <1>3, <1>4, <1>5, <1>6, <1>7, <1>8, <1>9, <1>10 DEF NodeInv, Others

(* A worker comes round. *)
LEMMA WorkerLoopKeeps ==
    ASSUME NodeInv, NEW t \in Threads, WorkerLoop(t)
    PROVE  NodeInv'
  <1>1. /\ NTypes /\ Typed /\ Control /\ Publication /\ Mortality /\ Holding
        /\ Booting /\ Ending /\ TotalCountsOrdinary
    BY DEF NodeInv, NTypes
  <1>2. /\ quit' = quit /\ booted' = booted /\ total' = total /\ gate' = gate
        /\ logger' = logger /\ born' = born /\ table' = table /\ dead' = dead
        /\ destroyed' = destroyed /\ selfExit' = selfExit /\ life' = life /\ ticket' = ticket
        /\ token' = token /\ permit' = permit /\ hold' = hold /\ budgets' = budgets
        /\ todo' = todo /\ victim' = victim /\ stage' = stage
    BY DEF WorkerLoop, flags, services, exec, control, bounds
  <1>3. /\ Others(t) /\ t \in Threads
        /\ t \in Workers /\ pc[t] = "next" /\ HomeOf(t) = "next"
        /\ pc'[t] \in {"look", "exited"} /\ HomeOf(t)' = pc'[t] /\ (pc'[t] = "exited" => quit)
    <2>1. /\ t \in Workers /\ pc[t] = "next" /\ UNCHANGED stack
          /\ pc' = [pc EXCEPT ![t] = IF quit THEN "exited" ELSE "look"]
      BY DEF WorkerLoop, Goto
    <2>2. PICK to \in {"exited", "look"} : to = IF quit THEN "exited" ELSE "look"
      OBVIOUS
    <2>3. to \in HomePC(t) /\ Below(t, to) = Below(t, pc[t])
      BY <2>1, Kinds DEF HomePC, DrainPC, Below
    <2>4. pc[t] \notin ProcPC \cup {"join"}
      BY <2>1 DEF ProcPC
    <2>5. QED
      BY <1>1, <2>1, <2>2, <2>3, <2>4, GotoMoves
  <1>4. NTypes'
    BY <1>1, <1>2, <1>3, Kinds DEF NTypes, Others
  <1>5. Publication'
    BY <1>1, <1>2, <1>3, Kinds DEF Publication, Unpublished, Others, Still, NTypes, UserPC
  <1>6. Mortality'
    BY <1>1, <1>2, <1>3, Kinds DEF Mortality, Others, Still, NTypes, UserPC
  <1>7. Holding'
    BY <1>1, <1>2, <1>3, Kinds DEF Holding, InHand, Ended, Others, Still, NTypes, UserPC
  <1>8. Booting'
    BY <1>1, <1>2, <1>3, Kinds DEF Booting, Others, Still, UserPC
  <1>9. Ending'
    BY <1>1, <1>2, <1>3, Kinds DEF Ending, BootPhase, Others, Still, NTypes, UserPC
  <1>10. TotalCountsOrdinary'
    BY <1>1, <1>2, <1>3, CountSame DEF UserPC
  <1>11. QED
    BY <1>3, <1>4, <1>5, <1>6, <1>7, <1>8, <1>9, <1>10 DEF NodeInv, Others

(* A queued service is taken. *)
LEMMA TakeKeeps ==
    ASSUME NodeInv, NEW t \in Threads, Take(t)
    PROVE  NodeInv'
  <1>0. PICK s \in Waiting :
          /\ token' = [token EXCEPT ![s] = "held"]
          /\ hold' = [hold EXCEPT ![t] = s]
          /\ Goto(t, "look", IF s \in dead THEN "clean" ELSE "work")
    BY DEF Take
  <1>1. /\ NTypes /\ Typed /\ Control /\ Publication /\ Mortality /\ Holding
        /\ Booting /\ Ending /\ TotalCountsOrdinary
    BY DEF NodeInv, NTypes
  <1>2. /\ quit' = quit /\ booted' = booted /\ total' = total /\ gate' = gate
        /\ logger' = logger /\ born' = born /\ table' = table /\ dead' = dead
        /\ destroyed' = destroyed /\ selfExit' = selfExit /\ life' = life /\ ticket' = ticket
        /\ permit' = permit /\ budgets' = budgets /\ todo' = todo /\ victim' = victim
        /\ stage' = stage
        /\ s \in Shared /\ token[s] = "queued"
        /\ token' = [token EXCEPT ![s] = "held"] /\ hold' = [hold EXCEPT ![t] = s]
    BY <1>0 DEF Take, Waiting, flags, services, exec, control, bounds
  <1>3. /\ Others(t) /\ t \in Threads
        /\ t \in Runners /\ pc[t] = "look" /\ HomeOf(t) = "look"
        /\ pc'[t] = (IF s \in dead THEN "clean" ELSE "work") /\ HomeOf(t)' = pc'[t]
    <2>1. pc[t] = "look" /\ pc[t] \notin ProcPC \cup {"join"} /\ UNCHANGED stack
      BY <1>0 DEF Take, Goto, ProcPC
    <2>2. t \in Runners /\ HomeOf(t) = "look"
      BY <1>1, <2>1, Home, HomeWho
    <2>3. PICK to \in {"clean", "work"} : to = IF s \in dead THEN "clean" ELSE "work"
      OBVIOUS
    <2>4. to \in HomePC(t) /\ Below(t, to) = Below(t, pc[t])
      BY <2>1, <2>2, Kinds DEF HomePC, DrainPC, Below, Runners
    <2>5. pc' = [pc EXCEPT ![t] = to]
      BY <1>0, <2>3 DEF Goto
    <2>6. QED
      BY <1>1, <2>1, <2>2, <2>3, <2>4, <2>5, GotoMoves
  <1>4. NTypes'
    BY <1>1, <1>2, <1>3, Kinds DEF NTypes, Others
  <1>5. Publication'
    BY <1>1, <1>2, <1>3, Kinds DEF Publication, Unpublished, Others, Still, NTypes, UserPC
  <1>6. Mortality'
    BY <1>1, <1>2, <1>3, Kinds DEF Mortality, Others, Still, NTypes, UserPC
  <1>7. Holding'
    BY <1>1, <1>2, <1>3, Kinds DEF Holding, InHand, Ended, Others, Still, NTypes, UserPC
  <1>8. Booting'
    BY <1>1, <1>2, <1>3, Kinds DEF Booting, Others, Still, UserPC
  <1>9. Ending'
    BY <1>1, <1>2, <1>3, Kinds DEF Ending, BootPhase, Others, Still, NTypes, UserPC
  <1>10. TotalCountsOrdinary'
    <2>1. \A u \in Threads \ {t} : hold'[u] = hold[u]
      BY <1>1, <1>2, <1>3 DEF NTypes
    <2>2. QED
      BY <1>1, <1>2, <1>3, <1>0, <2>1, CountSame DEF UserPC
  <1>11. QED
    BY <1>3, <1>4, <1>5, <1>6, <1>7, <1>8, <1>9, <1>10 DEF NodeInv, Others

(* Nothing is queued. *)
LEMMA TakeNothingKeeps ==
    ASSUME NodeInv, NEW t \in Threads, TakeNothing(t)
    PROVE  NodeInv'
  <1>1. /\ NTypes /\ Typed /\ Control /\ Publication /\ Mortality /\ Holding
        /\ Booting /\ Ending /\ TotalCountsOrdinary
    BY DEF NodeInv, NTypes
  <1>2. /\ quit' = quit /\ booted' = booted /\ total' = total /\ gate' = gate
        /\ logger' = logger /\ born' = born /\ table' = table /\ dead' = dead
        /\ destroyed' = destroyed /\ selfExit' = selfExit /\ life' = life /\ ticket' = ticket
        /\ token' = token /\ permit' = permit /\ hold' = hold /\ budgets' = budgets
        /\ todo' = todo /\ victim' = victim /\ stage' = stage
    BY DEF TakeNothing, flags, services, exec, control, bounds
  <1>3. /\ Others(t) /\ t \in Threads
        /\ t \in Runners /\ pc[t] = "look" /\ HomeOf(t) = "look" /\ HomeOf(t)' = pc'[t]
        /\ \/ t \in Workers /\ pc'[t] = "next"
           \/ t = Main /\ pc'[t] = "shutdown"
    <2>1. pc[t] = "look" /\ pc[t] \notin ProcPC \cup {"join"}
      BY DEF TakeNothing, ProcPC
    <2>2. t \in Runners /\ HomeOf(t) = "look"
      BY <1>1, <2>1, Home, HomeWho
    <2>3. CASE t \in Workers
      <3>1. "next" \in HomePC(t) /\ Below(t, "next") = Below(t, pc[t])
        BY <2>3, Kinds DEF HomePC, Below
      <3>2. pc' = [pc EXCEPT ![t] = "next"] /\ UNCHANGED stack
        BY <2>3 DEF TakeNothing
      <3>3. QED
        BY <1>1, <2>1, <2>2, <2>3, <3>1, <3>2, GotoMoves
    <2>4. CASE t = Main
      <3>1. Return(Main)
        BY <2>4, Kinds DEF TakeNothing
      <3>2. QED
        BY <1>1, <2>1, <2>2, <2>4, <3>1, DrainReturned
    <2>5. QED
      BY <2>2, <2>3, <2>4 DEF Runners
  <1>4. NTypes'
    BY <1>1, <1>2, <1>3, Kinds DEF NTypes, Others
  <1>5. Publication'
    BY <1>1, <1>2, <1>3, Kinds DEF Publication, Unpublished, Others, Still, NTypes, UserPC
  <1>6. Mortality'
    BY <1>1, <1>2, <1>3, Kinds DEF Mortality, Others, Still, NTypes, UserPC
  <1>7. Holding'
    BY <1>1, <1>2, <1>3, Kinds DEF Holding, InHand, Ended, Others, Still, NTypes, UserPC
  <1>8. Booting'
    BY <1>1, <1>2, <1>3, Kinds DEF Booting, Others, Still, UserPC
  <1>9. Ending'
    BY <1>1, <1>2, <1>3, Kinds DEF Ending, BootPhase, Others, Still, NTypes, UserPC
  <1>10. TotalCountsOrdinary'
    BY <1>1, <1>2, <1>3, CountSame DEF UserPC
  <1>11. QED
    BY <1>3, <1>4, <1>5, <1>6, <1>7, <1>8, <1>9, <1>10 DEF NodeInv, Others

(* A visit ends. *)
LEMMA EndVisitKeeps ==
    ASSUME NodeInv, NEW t \in Threads, EndVisit(t)
    PROVE  NodeInv'
  <1>1. /\ NTypes /\ Typed /\ Control /\ Publication /\ Mortality /\ Holding
        /\ Booting /\ Ending /\ TotalCountsOrdinary
    BY DEF NodeInv, NTypes
  <1>2. /\ quit' = quit /\ booted' = booted /\ total' = total /\ gate' = gate
        /\ logger' = logger /\ born' = born /\ table' = table /\ dead' = dead
        /\ destroyed' = destroyed /\ selfExit' = selfExit /\ life' = life /\ ticket' = ticket
        /\ permit' = permit /\ budgets' = budgets /\ todo' = todo /\ victim' = victim
        /\ stage' = stage
    BY DEF EndVisit, flags, services, exec, control, bounds
  <1>3. /\ Others(t) /\ t \in Threads
        /\ pc[t] = "work" /\ HomeOf(t) = "work" /\ HomeOf(t)' = pc'[t]
        /\ hold[t] \notin destroyed
        /\ \/ /\ t \in Exclusive /\ token' = token /\ hold' = hold /\ hold[t] = t
              /\ pc'[t] = IF t \in dead THEN "final_drain" ELSE "idle"
           \/ /\ t \in Runners /\ hold[t] \in dead /\ token' = token /\ hold' = hold
              /\ pc'[t] = "clean"
           \/ /\ t \in Runners /\ hold[t] \in Shared /\ token[hold[t]] = "held"
              /\ pc'[t] \in {"next", "look"}
              /\ token' = [token EXCEPT ![hold[t]] = "idle"] /\ hold' = [hold EXCEPT ![t] = None]
    <2>1. pc[t] = "work" /\ pc[t] \notin ProcPC \cup {"join"} /\ UNCHANGED stack
      BY DEF EndVisit, ProcPC
    <2>2. HomeOf(t) = "work" /\ pc[t] \in HomePC(t)
      BY <1>1, <2>1, Home
    <2>3. /\ hold[t] \notin destroyed
          /\ t \in Runners => hold[t] \in Shared /\ token[hold[t]] = "held"
          /\ t \in Exclusive => hold[t] = t
      BY <2>1, <2>2, Held
    <2>4. CASE /\ t \in Exclusive /\ UNCHANGED <<token, hold>>
               /\ pc' = [pc EXCEPT ![t] = IF t \in dead THEN "final_drain" ELSE "idle"]
      <3>1. PICK to \in {"final_drain", "idle"} : to = IF t \in dead THEN "final_drain" ELSE "idle"
        OBVIOUS
      <3>2. to \in HomePC(t) /\ Below(t, to) = Below(t, pc[t])
        BY <2>4, Kinds DEF HomePC, Below
      <3>3. QED
        BY <1>1, <2>1, <2>2, <2>3, <2>4, <3>1, <3>2, GotoMoves
    <2>5. CASE /\ t \in Runners /\ hold[t] \in dead /\ UNCHANGED <<token, hold>>
               /\ pc' = [pc EXCEPT ![t] = "clean"]
      <3>1. "clean" \in HomePC(t) /\ Below(t, "clean") = Below(t, pc[t])
        BY <2>1, <2>5, Kinds DEF HomePC, Below, DrainPC, Runners
      <3>2. QED
        BY <1>1, <2>1, <2>2, <2>3, <2>5, <3>1, GotoMoves
    <2>6. CASE /\ t \in Runners /\ pc' = [pc EXCEPT ![t] = Loop(t)]
               /\ token' = [token EXCEPT ![hold[t]] = "idle"]
               /\ hold' = [hold EXCEPT ![t] = None]
      <3>1. Loop(t) \in {"next", "look"} /\ Loop(t) \in HomePC(t) /\ Below(t, Loop(t)) = Below(t, pc[t])
        BY <2>1, <2>6, Kinds DEF HomePC, Below, DrainPC, Runners, Loop
      <3>2. QED
        BY <1>1, <2>1, <2>2, <2>3, <2>6, <3>1, GotoMoves
    <2>7. QED
      BY <2>4, <2>5, <2>6 DEF EndVisit
  <1>4. NTypes'
    BY <1>1, <1>2, <1>3, Kinds DEF NTypes, Others
  <1>5. Publication'
    BY <1>1, <1>2, <1>3, Kinds DEF Publication, Unpublished, Others, Still, NTypes, UserPC
  <1>6. Mortality'
    BY <1>1, <1>2, <1>3, Kinds DEF Mortality, Others, Still, NTypes, UserPC
  <1>7. Holding'
    BY <1>1, <1>2, <1>3, Kinds DEF Holding, InHand, Ended, Others, Still, NTypes, UserPC
  <1>8. Booting'
    BY <1>1, <1>2, <1>3, Kinds DEF Booting, Others, Still, UserPC
  <1>9. Ending'
    BY <1>1, <1>2, <1>3, Kinds DEF Ending, BootPhase, Others, Still, NTypes, UserPC
  <1>10. TotalCountsOrdinary'
    <2>1. \A u \in Threads \ {t} : hold'[u] = hold[u]
      BY <1>1, <1>2, <1>3 DEF NTypes
    <2>2. QED
      BY <1>1, <1>2, <1>3, <2>1, CountSame DEF UserPC
  <1>11. QED
    BY <1>3, <1>4, <1>5, <1>6, <1>7, <1>8, <1>9, <1>10 DEF NodeInv, Others

(* A service that stays runnable yields. *)
LEMMA YieldKeeps ==
    ASSUME NodeInv, NEW t \in Threads, Yield(t)
    PROVE  NodeInv'
  <1>0. /\ pc[t] = "work" /\ HomeOf(t) = "work" /\ t \in Runners
        /\ hold[t] \in Shared /\ token[hold[t]] = "held"
    <2>1. pc[t] = "work" /\ t \in Runners /\ pc[t] \notin ProcPC \cup {"join"} /\ Control
      BY DEF Yield, ProcPC, NodeInv
    <2>2. HomeOf(t) = "work"
      BY <2>1, Home
    <2>3. QED
      BY <2>1, <2>2, Held
  <1>1. /\ NTypes /\ Typed /\ Control /\ Publication /\ Mortality /\ Holding
        /\ Booting /\ Ending /\ TotalCountsOrdinary
    BY DEF NodeInv, NTypes
  <1>2. /\ quit' = quit /\ booted' = booted /\ total' = total /\ gate' = gate
        /\ logger' = logger /\ born' = born /\ table' = table /\ dead' = dead
        /\ destroyed' = destroyed /\ selfExit' = selfExit /\ life' = life /\ ticket' = ticket
        /\ permit' = permit /\ victim' = victim /\ stage' = stage
        /\ budgets' \in [Shared -> 0 .. DRAIN_BUDGET - 1]
        /\ todo' = todo \/ (hold[t] \in Services /\ todo' = [todo EXCEPT ![t] = {hold[t]}])
        /\ \/ token' = token /\ hold' = hold
           \/ \E s \in Shared : /\ token[s] = "queued" /\ s # hold[t]
                               /\ token' = [token EXCEPT ![s] = "held", ![hold[t]] = "queued"]
                               /\ hold' = [hold EXCEPT ![t] = s]
    <2>1. budgets' \in [Shared -> 0 .. DRAIN_BUDGET - 1]
      <3>1. budgets[hold[t]] \in 0 .. DRAIN_BUDGET - 1 /\ DRAIN_BUDGET \in Nat \ {0}
        BY <1>0, <1>1, NodeAssumption DEF NTypes
      <3>2. (IF budgets[hold[t]] + 1 = DRAIN_BUDGET THEN 0 ELSE budgets[hold[t]] + 1)
              \in 0 .. DRAIN_BUDGET - 1
        BY <3>1
      <3>3. QED
        BY <1>0, <1>1, <3>2 DEF NTypes, Yield
    <2>2. todo' = todo \/ (hold[t] \in Services /\ todo' = [todo EXCEPT ![t] = {hold[t]}])
      BY <1>0, Kinds DEF Yield
    <2>3. \/ token' = token /\ hold' = hold
          \/ \E s \in Shared : /\ token[s] = "queued" /\ s # hold[t]
                              /\ token' = [token EXCEPT ![s] = "held", ![hold[t]] = "queued"]
                              /\ hold' = [hold EXCEPT ![t] = s]
      BY <1>0 DEF Yield, Waiting
    <2>4. QED
      BY <2>1, <2>2, <2>3 DEF Yield, flags, services, exec, control, bounds
  <1>3. /\ Others(t) /\ t \in Threads
        /\ pc'[t] \in {"resume", "sweep"} /\ HomeOf(t)' = "resume"
    <2>1. pc[t] \notin ProcPC \cup {"join"}
      BY <1>0 DEF ProcPC
    <2>2. "resume" \in HomePC(t) /\ Below(t, "resume") = Below(t, pc[t])
      BY <1>0, Kinds DEF HomePC, Below, DrainPC, Runners
    <2>3. CASE pc' = [pc EXCEPT ![t] = "resume"] /\ UNCHANGED stack
      BY <1>1, <1>0, <2>1, <2>2, <2>3, GotoMoves
    <2>4. CASE Call(t, "sweep", "resume")
      <3>1. "sweep" \in CalledFrom("resume")
        BY DEF CalledFrom, UserPC
      <3>2. QED
        BY <1>1, <1>0, <2>1, <2>2, <2>4, <3>1, CallMoves
    <2>5. QED
      BY <2>3, <2>4 DEF Yield
  <1>4. NTypes'
    BY <1>1, <1>2, <1>3, Kinds DEF NTypes, Others
  <1>5. Publication'
    BY <1>1, <1>2, <1>3, Kinds, <1>0 DEF Publication, Unpublished, Others, Still, NTypes, UserPC
  <1>6. Mortality'
    BY <1>1, <1>2, <1>3, Kinds, <1>0 DEF Mortality, Others, Still, NTypes, UserPC
  <1>7. Holding'
    BY <1>1, <1>2, <1>3, Kinds, <1>0 DEF Holding, InHand, Ended, Others, Still, NTypes, UserPC
  <1>8. Booting'
    BY <1>1, <1>2, <1>3, Kinds, <1>0 DEF Booting, Others, Still, UserPC
  <1>9. Ending'
    BY <1>1, <1>2, <1>3, Kinds, <1>0 DEF Ending, BootPhase, Others, Still, NTypes, UserPC
  <1>10. TotalCountsOrdinary'
    <2>1. \A u \in Threads \ {t} : hold'[u] = hold[u]
      BY <1>1, <1>2, <1>3 DEF NTypes
    <2>2. QED
      BY <1>1, <1>2, <1>3, <1>0, <2>1, CountSame DEF UserPC
  <1>11. QED
    BY <1>3, <1>4, <1>5, <1>6, <1>7, <1>8, <1>9, <1>10 DEF NodeInv, Others

(* The sets that total counts are finite. *)
LEMMA Finite ==
    ASSUME NTypes
    PROVE  /\ IsFiniteSet(Outstanding) /\ Cardinality(Outstanding) \in Nat
           /\ IsFiniteSet(Accounting) /\ Cardinality(Accounting) \in Nat
  <1>1. IsFiniteSet(Services) /\ IsFiniteSet(Threads)
    BY NodeAssumption
  <1>2. Outstanding \subseteq Services /\ Accounting \subseteq Threads
    BY DEF Outstanding, Accounting, Ordinary
  <1>3. IsFiniteSet(Outstanding) /\ IsFiniteSet(Accounting)
    BY <1>1, <1>2, FS_Subset
  <1>4. QED
    BY <1>3, FS_CardinalityType

(* total is the size of two named sets. *)
LEMMA Totals ==
    TotalCountsOrdinary <=> total = Cardinality(Outstanding) + Cardinality(Accounting)
  BY DEF TotalCountsOrdinary, Outstanding, Accounting

(* The loop comes round with a service in hand. *)
LEMMA ResumeKeeps ==
    ASSUME NodeInv, NEW t \in Threads, Resume(t)
    PROVE  NodeInv'
  <1>1. /\ NTypes /\ Typed /\ Control /\ Publication /\ Mortality /\ Holding
        /\ Booting /\ Ending /\ TotalCountsOrdinary
    BY DEF NodeInv, NTypes
  <1>2. /\ quit' = quit /\ booted' = booted /\ total' = total /\ gate' = gate
        /\ logger' = logger /\ born' = born /\ table' = table /\ dead' = dead
        /\ destroyed' = destroyed /\ selfExit' = selfExit /\ life' = life /\ ticket' = ticket
        /\ permit' = permit /\ budgets' = budgets /\ todo' = todo /\ victim' = victim
        /\ stage' = stage
    BY DEF Resume, flags, services, exec, control, bounds
  <1>3. /\ Others(t) /\ t \in Threads
        /\ pc[t] = "resume" /\ HomeOf(t) = "resume" /\ HomeOf(t)' = pc'[t] /\ hold[t] \notin destroyed
        /\ \/ /\ t \in Runners /\ pc'[t] = "next" /\ hold[t] \in Shared /\ token[hold[t]] = "held"
              /\ token' = [token EXCEPT ![hold[t]] = "queued"] /\ hold' = [hold EXCEPT ![t] = None]
           \/ /\ token' = token /\ hold' = hold
              /\ \/ pc'[t] = "work"
                 \/ pc'[t] \in {"final_drain", "clean"} /\ hold[t] \in dead
    <2>1. pc[t] = "resume" /\ pc[t] \notin ProcPC \cup {"join"} /\ UNCHANGED stack
      BY DEF Resume, Goto, ProcPC
    <2>2. HomeOf(t) = "resume" /\ pc[t] \in HomePC(t)
      BY <1>1, <2>1, Home
    <2>3. /\ hold[t] \notin destroyed /\ (t \in Runners \/ t \in Exclusive)
          /\ t \in Runners => hold[t] \in Shared /\ token[hold[t]] = "held"
      BY <2>1, <2>2, Held
    <2>4. CASE /\ t \in Workers /\ Goto(t, "resume", "next")
               /\ token' = [token EXCEPT ![hold[t]] = "queued"] /\ hold' = [hold EXCEPT ![t] = None]
      <3>1. "next" \in HomePC(t) /\ Below(t, "next") = Below(t, pc[t]) /\ t \in Runners
        BY <2>4, Kinds DEF HomePC, Below
      <3>2. QED
        BY <1>1, <2>1, <2>2, <2>3, <2>4, <3>1, GotoMoves DEF Goto
    <2>5. CASE Goto(t, "resume", Resumed(t)) /\ UNCHANGED <<token, hold>>
      <3>1. /\ Resumed(t) \in {"work", "final_drain", "clean"}
            /\ Resumed(t) = "final_drain" => t \in Exclusive
            /\ Resumed(t) = "clean" => t \notin Exclusive
            /\ Resumed(t) # "work" => hold[t] \in dead
        BY DEF Resumed
      <3>2. Resumed(t) \in HomePC(t)
        BY <2>3, <3>1, Kinds DEF HomePC, DrainPC, Runners
      <3>3. Below(t, Resumed(t)) = Below(t, pc[t])
        BY <2>1, <3>1, Kinds DEF Below, DrainPC
      <3>4. QED
        BY <1>1, <2>1, <2>2, <2>3, <2>5, <3>1, <3>2, <3>3, GotoMoves DEF Goto
    <2>6. QED
      BY <2>4, <2>5 DEF Resume
  <1>4. NTypes'
    BY <1>1, <1>2, <1>3, Kinds DEF NTypes, Others
  <1>5. Publication'
    BY <1>1, <1>2, <1>3, Kinds DEF Publication, Unpublished, Others, Still, NTypes, UserPC
  <1>6. Mortality'
    BY <1>1, <1>2, <1>3, Kinds DEF Mortality, Others, Still, NTypes, UserPC
  <1>7. Holding'
    BY <1>1, <1>2, <1>3, Kinds DEF Holding, InHand, Ended, Others, Still, NTypes, UserPC
  <1>8. Booting'
    BY <1>1, <1>2, <1>3, Kinds DEF Booting, Others, Still, UserPC
  <1>9. Ending'
    BY <1>1, <1>2, <1>3, Kinds DEF Ending, BootPhase, Others, Still, NTypes, UserPC
  <1>10. TotalCountsOrdinary'
    <2>1. \A u \in Threads \ {t} : hold'[u] = hold[u]
      BY <1>1, <1>2, <1>3 DEF NTypes
    <2>2. QED
      BY <1>1, <1>2, <1>3, <2>1, CountSame DEF UserPC
  <1>11. QED
    BY <1>3, <1>4, <1>5, <1>6, <1>7, <1>8, <1>9, <1>10 DEF NodeInv, Others

(* The idle hook returns. *)
LEMMA IdleReturnsKeeps ==
    ASSUME NodeInv, NEW t \in Threads, IdleReturns(t)
    PROVE  NodeInv'
  <1>1. /\ NTypes /\ Typed /\ Control /\ Publication /\ Mortality /\ Holding
        /\ Booting /\ Ending /\ TotalCountsOrdinary
    BY DEF NodeInv, NTypes
  <1>2. /\ quit' = quit /\ booted' = booted /\ total' = total /\ gate' = gate
        /\ logger' = logger /\ born' = born /\ table' = table /\ dead' = dead
        /\ destroyed' = destroyed /\ selfExit' = selfExit /\ life' = life /\ ticket' = ticket
        /\ token' = token /\ hold' = hold /\ budgets' = budgets /\ todo' = todo
        /\ victim' = victim /\ stage' = stage
        /\ permit' = permit \ {t}
    BY DEF IdleReturns, flags, services, exec, control, bounds
  <1>3. /\ Others(t) /\ t \in Threads
        /\ pc[t] = "idle" /\ HomeOf(t) = "idle" /\ pc'[t] = "resume" /\ HomeOf(t)' = "resume" /\ t \in Exclusive
    <2>1. /\ pc[t] = "idle" /\ pc[t] \notin ProcPC \cup {"join"} /\ UNCHANGED stack
          /\ pc' = [pc EXCEPT ![t] = "resume"]
      BY DEF IdleReturns, Goto, ProcPC
    <2>2. t \in Exclusive
      BY <1>1, <2>1, Home, HomeWho
    <2>3. "resume" \in HomePC(t) /\ Below(t, "resume") = Below(t, pc[t])
      BY <2>2, Kinds DEF HomePC, Below
    <2>4. QED
      BY <1>1, <2>1, <2>2, <2>3, GotoMoves
  <1>4. NTypes'
    BY <1>1, <1>2, <1>3, Kinds DEF NTypes, Others
  <1>5. Publication'
    BY <1>1, <1>2, <1>3, Kinds DEF Publication, Unpublished, Others, Still, NTypes, UserPC
  <1>6. Mortality'
    BY <1>1, <1>2, <1>3, Kinds DEF Mortality, Others, Still, NTypes, UserPC
  <1>7. Holding'
    BY <1>1, <1>2, <1>3, Kinds DEF Holding, InHand, Ended, Others, Still, NTypes, UserPC
  <1>8. Booting'
    BY <1>1, <1>2, <1>3, Kinds DEF Booting, Others, Still, UserPC
  <1>9. Ending'
    BY <1>1, <1>2, <1>3, Kinds DEF Ending, BootPhase, Others, Still, NTypes, UserPC
  <1>10. TotalCountsOrdinary'
    BY <1>1, <1>2, <1>3, CountSame DEF UserPC
  <1>11. QED
    BY <1>3, <1>4, <1>5, <1>6, <1>7, <1>8, <1>9, <1>10 DEF NodeInv, Others

(* The mailbox is worked off. *)
LEMMA FinalDrainKeeps ==
    ASSUME NodeInv, NEW t \in Threads, FinalDrain(t)
    PROVE  NodeInv'
  <1>1. /\ NTypes /\ Typed /\ Control /\ Publication /\ Mortality /\ Holding
        /\ Booting /\ Ending /\ TotalCountsOrdinary
    BY DEF NodeInv, NTypes
  <1>2. /\ quit' = quit /\ booted' = booted /\ total' = total /\ gate' = gate
        /\ logger' = logger /\ born' = born /\ table' = table /\ dead' = dead
        /\ destroyed' = destroyed /\ selfExit' = selfExit /\ life' = life /\ ticket' = ticket
        /\ token' = token /\ permit' = permit /\ hold' = hold /\ budgets' = budgets
        /\ todo' = todo /\ victim' = victim /\ stage' = stage
    BY DEF FinalDrain, flags, services, exec, control, bounds
  <1>3. /\ Others(t) /\ t \in Threads
        /\ pc[t] = "final_drain" /\ HomeOf(t) = "final_drain" /\ pc'[t] = "clean" /\ HomeOf(t)' = "clean"
        /\ t \in Exclusive
    <2>1. /\ pc[t] = "final_drain" /\ pc[t] \notin ProcPC \cup {"join"} /\ UNCHANGED stack
          /\ pc' = [pc EXCEPT ![t] = "clean"]
      BY DEF FinalDrain, Goto, ProcPC
    <2>2. t \in Exclusive
      BY <1>1, <2>1, Home, HomeWho
    <2>3. "clean" \in HomePC(t) /\ Below(t, "clean") = Below(t, pc[t])
      BY <2>2, Kinds DEF HomePC, Below
    <2>4. QED
      BY <1>1, <2>1, <2>2, <2>3, GotoMoves
  <1>4. NTypes'
    BY <1>1, <1>2, <1>3, Kinds DEF NTypes, Others
  <1>5. Publication'
    BY <1>1, <1>2, <1>3, Kinds DEF Publication, Unpublished, Others, Still, NTypes, UserPC
  <1>6. Mortality'
    BY <1>1, <1>2, <1>3, Kinds DEF Mortality, Others, Still, NTypes, UserPC
  <1>7. Holding'
    BY <1>1, <1>2, <1>3, Kinds DEF Holding, InHand, Ended, Others, Still, NTypes, UserPC
  <1>8. Booting'
    BY <1>1, <1>2, <1>3, Kinds DEF Booting, Others, Still, UserPC
  <1>9. Ending'
    BY <1>1, <1>2, <1>3, Kinds DEF Ending, BootPhase, Others, Still, NTypes, UserPC
  <1>10. TotalCountsOrdinary'
    BY <1>1, <1>2, <1>3, CountSame DEF UserPC
  <1>11. QED
    BY <1>3, <1>4, <1>5, <1>6, <1>7, <1>8, <1>9, <1>10 DEF NodeInv, Others

(* A service is destroyed. *)
LEMMA CleanKeeps ==
    ASSUME NodeInv, NEW t \in Threads, Clean(t)
    PROVE  NodeInv'
  <1>1. /\ NTypes /\ Typed /\ Control /\ Publication /\ Mortality /\ Holding
        /\ Booting /\ Ending /\ TotalCountsOrdinary
    BY DEF NodeInv, NTypes
  <1>2. /\ quit' = quit /\ booted' = booted /\ total' = total /\ gate' = gate
        /\ logger' = logger /\ born' = born /\ table' = table /\ dead' = dead
        /\ selfExit' = selfExit /\ permit' = permit /\ hold' = hold /\ budgets' = budgets
        /\ todo' = todo /\ victim' = victim /\ stage' = stage
        /\ destroyed' = destroyed \cup {hold[t]}
        /\ token' = [s \in Shared |-> IF s = hold[t] THEN "idle" ELSE token[s]]
        /\ life' \in [Services -> {"INITIALIZING", "RUNNING", "FAILED"}]
        /\ ticket' \in [Services -> {"none", "ok", "err"}]
    BY <1>1 DEF Clean, FinishInit, NTypes, flags, services, exec, control, bounds
  <1>3. /\ Others(t) /\ t \in Threads
        /\ pc[t] = "clean" /\ HomeOf(t) = "clean" /\ pc'[t] = "account" /\ HomeOf(t)' = "account"
        /\ hold[t] \in born /\ hold[t] \in Services /\ hold[t] \notin destroyed /\ hold[t] \in dead
        /\ t \in Runners => hold[t] \in Shared /\ token[hold[t]] = "held"
        /\ t \in Exclusive => hold[t] = t
        /\ t \in Runners \/ t \in Exclusive
    <2>1. /\ pc[t] = "clean" /\ pc[t] \notin ProcPC \cup {"join"} /\ UNCHANGED stack
          /\ pc' = [pc EXCEPT ![t] = "account"]
      BY DEF Clean, Goto, ProcPC
    <2>2. HomeOf(t) = "clean"
      BY <1>1, <2>1, Home
    <2>3. /\ hold[t] \in born /\ hold[t] \in Services /\ hold[t] \notin destroyed
          /\ t \in Runners => hold[t] \in Shared /\ token[hold[t]] = "held"
          /\ t \in Exclusive => hold[t] = t
          /\ t \in Runners \/ t \in Exclusive
      BY <2>1, <2>2, Held
    <2>4. hold[t] \in dead
      BY <1>1, <2>2 DEF Holding
    <2>5. "account" \in HomePC(t) /\ Below(t, "account") = Below(t, pc[t])
      BY <2>1, <2>3, Kinds DEF HomePC, Below, DrainPC, Runners
    <2>6. QED
      BY <1>1, <2>1, <2>2, <2>3, <2>4, <2>5, GotoMoves
  <1>4. NTypes'
    BY <1>1, <1>2, <1>3, Kinds DEF NTypes, Others
  <1>5. Publication'
    BY <1>1, <1>2, <1>3, Kinds DEF Publication, Unpublished, Others, Still, NTypes, UserPC
  <1>6. Mortality'
    BY <1>1, <1>2, <1>3, Kinds DEF Mortality, Others, Still, NTypes, UserPC
  <1>7. Holding'
    BY <1>1, <1>2, <1>3, Kinds DEF Holding, InHand, Ended, Others, Still, NTypes, UserPC
  <1>8. Booting'
    BY <1>1, <1>2, <1>3, Kinds DEF Booting, Others, Still, UserPC
  <1>9. Ending'
    BY <1>1, <1>2, <1>3, Kinds DEF Ending, BootPhase, Others, Still, NTypes, UserPC
  <1>10. TotalCountsOrdinary'
    <2>1. /\ IsFiniteSet(Outstanding) /\ Cardinality(Outstanding) \in Nat
          /\ IsFiniteSet(Accounting) /\ Cardinality(Accounting) \in Nat
      BY <1>1, Finite
    <2>2. CASE hold[t] \in Ordinary
      <3>1. Outstanding' = Outstanding \ {hold[t]} /\ hold[t] \in Outstanding
        BY <1>2, <1>3, <2>2 DEF Outstanding
      <3>2. Accounting' = Accounting \cup {t} /\ t \notin Accounting
        BY <1>2, <1>3, <2>2 DEF Accounting, Others, Still
      <3>3. Cardinality(Outstanding') = Cardinality(Outstanding) - 1
        BY <2>1, <3>1, FS_RemoveElement
      <3>4. Cardinality(Accounting') = Cardinality(Accounting) + 1
        BY <2>1, <3>2, FS_AddElement
      <3>5. total' = Cardinality(Outstanding') + Cardinality(Accounting')
        BY <1>1, <1>2, <2>1, <3>3, <3>4, Totals
      <3>6. QED
        BY <3>5 DEF TotalCountsOrdinary, Outstanding, Accounting
    <2>3. CASE hold[t] \notin Ordinary
      <3>1. Outstanding' = Outstanding /\ Accounting' = Accounting
        BY <1>2, <1>3, <2>3 DEF Outstanding, Accounting, Others, Still
      <3>2. QED
        BY <1>1, <1>2, <3>1 DEF TotalCountsOrdinary, Outstanding, Accounting
    <2>4. QED
      BY <2>2, <2>3
  <1>11. QED
    BY <1>3, <1>4, <1>5, <1>6, <1>7, <1>8, <1>9, <1>10 DEF NodeInv, Others

(* A service is accounted for. *)
LEMMA AccountKeeps ==
    ASSUME NodeInv, NEW t \in Threads, Account(t)
    PROVE  NodeInv'
  <1>1. /\ NTypes /\ Typed /\ Control /\ Publication /\ Mortality /\ Holding
        /\ Booting /\ Ending /\ TotalCountsOrdinary
    BY DEF NodeInv, NTypes
  <1>2. /\ booted' = booted /\ gate' = gate /\ logger' = logger /\ born' = born
        /\ table' = table /\ dead' = dead /\ destroyed' = destroyed /\ selfExit' = selfExit
        /\ life' = life /\ ticket' = ticket /\ token' = token /\ permit' = permit
        /\ budgets' = budgets /\ todo' = todo /\ victim' = victim /\ stage' = stage
        /\ hold' = [hold EXCEPT ![t] = IF t \in Exclusive THEN t ELSE None]
        /\ quit' \in BOOLEAN /\ (quit => quit')
        /\ total' = IF hold[t] \in Ordinary THEN total - 1 ELSE total
    BY <1>1 DEF Account, SetQuitAndCall, NTypes, Ordinary, flags, services, exec, control, bounds
  <1>3. /\ Others(t) /\ t \in Threads
        /\ pc[t] = "account" /\ HomeOf(t) = "account" /\ pc'[t] \in {HomeOf(t)', "interrupt_all"}
        /\ \/ t \in Exclusive /\ HomeOf(t)' = "gone" /\ hold[t] = t
           \/ t \in Runners /\ HomeOf(t)' \in {"next", "look"}
                /\ (t = Main => HomeOf(t)' = "look")
    <2>1. pc[t] = "account" /\ pc[t] \notin ProcPC \cup {"join"}
      BY DEF Account, ProcPC
    <2>2. HomeOf(t) = "account"
      BY <1>1, <2>1, Home
    <2>3. (t \in Runners \/ t \in Exclusive) /\ (t \in Exclusive => hold[t] = t)
      BY <2>2, Held
    <2>4. /\ t \in Exclusive => Gone(t) = "gone"
          /\ t \in Runners => Gone(t) \in {"next", "look"} /\ (t = Main => Gone(t) = "look")
          /\ t \in Workers => Gone(t) = "next"
      BY Kinds DEF Gone, Loop
    <2>5. Gone(t) \in HomePC(t) /\ Below(t, Gone(t)) = Below(t, pc[t])
      BY <2>1, <2>3, <2>4, Kinds DEF HomePC, Below, DrainPC, Runners
    <2>6. "interrupt_all" \in CalledFrom(Gone(t))
      BY <2>3, <2>4 DEF CalledFrom, UserPC
    <2>7. CASE pc' = [pc EXCEPT ![t] = Gone(t)] /\ UNCHANGED stack
      BY <1>1, <2>1, <2>2, <2>3, <2>4, <2>5, <2>7, GotoMoves
    <2>8. CASE Call(t, "interrupt_all", Gone(t))
      BY <1>1, <2>1, <2>2, <2>3, <2>4, <2>5, <2>6, <2>8, CallMoves
    <2>9. QED
      BY <2>7, <2>8 DEF Account, SetQuitAndCall
  <1>4. NTypes'
    BY <1>1, <1>2, <1>3, Kinds DEF NTypes, Others
  <1>5. Publication'
    BY <1>1, <1>2, <1>3, Kinds DEF Publication, Unpublished, Others, Still, NTypes, UserPC
  <1>6. Mortality'
    BY <1>1, <1>2, <1>3, Kinds DEF Mortality, Others, Still, NTypes, UserPC
  <1>7. Holding'
    BY <1>1, <1>2, <1>3, Kinds DEF Holding, InHand, Ended, Others, Still, NTypes, UserPC
  <1>8. Booting'
    BY <1>1, <1>2, <1>3, Kinds DEF Booting, Others, Still, UserPC
  <1>9. Ending'
    BY <1>1, <1>2, <1>3, Kinds DEF Ending, BootPhase, Others, Still, NTypes, UserPC
  <1>10. TotalCountsOrdinary'
    <2>1. /\ IsFiniteSet(Outstanding) /\ Cardinality(Outstanding) \in Nat
          /\ IsFiniteSet(Accounting) /\ Cardinality(Accounting) \in Nat
      BY <1>1, Finite
    <2>2. Outstanding' = Outstanding
      BY <1>2 DEF Outstanding
    <2>3. pc'[t] # "account"
      BY <1>3
    <2>4. \A u \in Threads \ {t} : hold'[u] = hold[u]
      BY <1>1, <1>2 DEF NTypes
    <2>5. CASE hold[t] \in Ordinary
      <3>1. Accounting' = Accounting \ {t} /\ t \in Accounting
        BY <1>3, <2>3, <2>4, <2>5 DEF Accounting, Others, Still
      <3>2. Cardinality(Accounting') = Cardinality(Accounting) - 1
        BY <2>1, <3>1, FS_RemoveElement
      <3>3. total' = Cardinality(Outstanding') + Cardinality(Accounting')
        BY <1>1, <1>2, <2>1, <2>2, <2>5, <3>2, Totals
      <3>4. QED
        BY <3>3 DEF TotalCountsOrdinary, Outstanding, Accounting
    <2>6. CASE hold[t] \notin Ordinary
      <3>1. Accounting' = Accounting
        BY <1>3, <2>3, <2>4, <2>6 DEF Accounting, Others, Still
      <3>2. QED
        BY <1>1, <1>2, <2>2, <2>6, <3>1 DEF TotalCountsOrdinary, Outstanding, Accounting
    <2>7. QED
      BY <2>5, <2>6
  <1>11. QED
    BY <1>3, <1>4, <1>5, <1>6, <1>7, <1>8, <1>9, <1>10 DEF NodeInv, Others

(* A launch is admitted. *)
LEMMA AdmitKeeps ==
    ASSUME NodeInv, NEW t \in Threads, NEW s \in Services \ born, NEW back \in HomePC(t),
           Admit(t, s, back), pc[t] \notin ProcPC \cup {"join"}, Below(t, back) = Below(t, pc[t]),
           "publish" \in CalledFrom(back),
           \/ back = pc[t] /\ pc[t] \in UserPC /\ s \notin Boot
           \/ t = Main /\ pc[t] = "boot" /\ back = "boot_wait" /\ s = BootOrder[stage]
                /\ stage \in DOMAIN BootOrder
    PROVE  NodeInv'
  <1>1. /\ NTypes /\ Typed /\ Control /\ Publication /\ Mortality /\ Holding
        /\ Booting /\ Ending /\ TotalCountsOrdinary
    BY DEF NodeInv, NTypes
  <1>2. /\ quit' = quit /\ booted' = booted /\ logger' = logger /\ dead' = dead
        /\ destroyed' = destroyed /\ selfExit' = selfExit /\ life' = life /\ ticket' = ticket
        /\ token' = token /\ permit' = permit /\ hold' = hold /\ budgets' = budgets
        /\ victim' = victim /\ stage' = stage
        /\ gate = None /\ gate' = t /\ quit = FALSE
        /\ born' = born \cup {s} /\ table' = table \cup {s} /\ todo' = [todo EXCEPT ![t] = {s}]
        /\ total' = IF s \in Reserved THEN total ELSE total + 1
    BY <1>1 DEF Admit, NTypes, flags, services, exec, control, bounds
  <1>3. /\ Others(t) /\ t \in Threads
        /\ pc'[t] = "publish" /\ HomeOf(t)' = back /\ HomeOf(t) = pc[t]
        /\ pc[t] \notin {"absent", "publish", "mark_dead", "account", "clean"}
    <2>1. Call(t, "publish", back)
      BY DEF Admit
    <2>2. pc[t] \notin {"absent", "publish", "mark_dead", "account", "clean"}
      BY DEF UserPC
    <2>3. QED
      BY <1>1, <2>1, <2>2, CallMoves
  <1>4. NTypes'
    BY <1>1, <1>2, <1>3, Kinds DEF NTypes, Others
  <1>5. Publication'
    BY <1>1, <1>2, <1>3, Kinds DEF Publication, Unpublished, Others, Still, NTypes, UserPC, Mortality
  <1>6. Mortality'
    BY <1>1, <1>2, <1>3, Kinds DEF Mortality, Others, Still, NTypes, UserPC
  <1>7. Holding'
    BY <1>1, <1>2, <1>3, Kinds DEF Holding, InHand, Ended, Others, Still, NTypes, UserPC
  <1>8. Booting'
    BY <1>1, <1>2, <1>3, Kinds, NodeAssumption DEF Booting, Others, Still, UserPC, Boot, NTypes
  <1>9. Ending'
    BY <1>1, <1>2, <1>3, Kinds DEF Ending, BootPhase, Others, Still, NTypes, UserPC
  <1>10. TotalCountsOrdinary'
    <2>1. /\ IsFiniteSet(Outstanding) /\ Cardinality(Outstanding) \in Nat
          /\ IsFiniteSet(Accounting) /\ Cardinality(Accounting) \in Nat
      BY <1>1, Finite
    <2>2. Accounting' = Accounting
      BY <1>2, <1>3 DEF Accounting, Others, Still
    <2>3. CASE s \in Ordinary
      <3>1. Outstanding' = Outstanding \cup {s} /\ s \notin Outstanding
        BY <1>1, <1>2, <2>3 DEF Outstanding, Mortality
      <3>2. Cardinality(Outstanding') = Cardinality(Outstanding) + 1
        BY <2>1, <3>1, FS_AddElement
      <3>3. total' = Cardinality(Outstanding') + Cardinality(Accounting')
        BY <1>1, <1>2, <2>1, <2>2, <2>3, <3>2, Totals DEF Ordinary
      <3>4. QED
        BY <3>3 DEF TotalCountsOrdinary, Outstanding, Accounting
    <2>4. CASE s \notin Ordinary
      <3>1. Outstanding' = Outstanding /\ total' = total
        BY <1>2, <2>4 DEF Outstanding, Ordinary
      <3>2. QED
        BY <1>1, <2>2, <3>1 DEF TotalCountsOrdinary, Outstanding, Accounting
    <2>5. QED
      BY <2>3, <2>4
  <1>11. QED
    BY <1>3, <1>4, <1>5, <1>6, <1>7, <1>8, <1>9, <1>10 DEF NodeInv, Others

(* User code launches a service. *)
LEMMA LaunchKeeps ==
    ASSUME NodeInv, NEW t \in Threads, NEW s \in Services, Launch(t, s)
    PROVE  NodeInv'
  <1>1. InUserCode(t) /\ s \notin Boot /\ s \notin born /\ Admit(t, s, pc[t])
    BY DEF Launch, UserCall
  <1>2. /\ pc[t] \in UserPC /\ pc[t] \notin ProcPC \cup {"join"} /\ pc[t] \in HomePC(t)
        /\ "publish" \in CalledFrom(pc[t])
    BY <1>1, UserHome DEF NodeInv, ProcPC
  <1>3. QED
    BY <1>1, <1>2, AdmitKeeps

(* Boot launches the next service of its order. *)
LEMMA BootLaunchKeeps ==
    ASSUME NodeInv, BootLaunch
    PROVE  NodeInv'
  <1>1. /\ pc[Main] = "boot" /\ stage <= Len(BootOrder)
        /\ Admit(Main, BootOrder[stage], "boot_wait")
    BY DEF BootLaunch
  <1>2. stage \in DOMAIN BootOrder /\ BootOrder[stage] \in Services
    BY <1>1, NodeAssumption DEF NodeInv, NTypes
  <1>3. BootOrder[stage] \notin born
    BY <1>1, <1>2 DEF NodeInv, Booting, NTypes
  <1>4. /\ "boot_wait" \in HomePC(Main) /\ Below(Main, "boot_wait") = Below(Main, pc[Main])
        /\ pc[Main] \notin ProcPC \cup {"join"} /\ "publish" \in CalledFrom("boot_wait")
    BY <1>1, Kinds DEF HomePC, Below, DrainPC, ProcPC, CalledFrom, UserPC
  <1>5. QED
    BY <1>1, <1>2, <1>3, <1>4, Kinds, AdmitKeeps

(* The service goes to its executor. *)
LEMMA PublishKeeps ==
    ASSUME NodeInv, NEW t \in Threads, Publish(t)
    PROVE  NodeInv'
  <1>1. /\ NTypes /\ Typed /\ Control /\ Publication /\ Mortality /\ Holding
        /\ Booting /\ Ending /\ TotalCountsOrdinary
    BY DEF NodeInv, NTypes
  <1>2. /\ quit' = quit /\ booted' = booted /\ total' = total /\ logger' = logger
        /\ born' = born /\ table' = table /\ dead' = dead /\ destroyed' = destroyed
        /\ selfExit' = selfExit /\ life' = life /\ ticket' = ticket /\ permit' = permit
        /\ hold' = hold /\ budgets' = budgets /\ victim' = victim /\ stage' = stage
        /\ token' = [s \in Shared |-> IF s \in todo[t] THEN "queued" ELSE token[s]]
        /\ gate' = None /\ todo' = [todo EXCEPT ![t] = {}]
    BY DEF Publish, flags, services, exec, control, bounds
  <1>3. /\ Control' /\ Typed' /\ t \in Threads
        /\ pc[t] = "publish" /\ pc'[t] = HomeOf(t) /\ HomeOf(t)' = HomeOf(t)
        /\ HomeOf(t) \in UserPC \cup {"boot_wait"}
        /\ \A u \in Threads \ {t} :
             \/ u \notin todo[t] /\ Still(u)
             \/ /\ u \in todo[t] /\ u \in Exclusive
                /\ pc[u] = "absent" /\ HomeOf(u) = "absent"
                /\ pc'[u] = "resume" /\ HomeOf(u)' = "resume"
    <2>1. pc[t] = "publish" /\ pc[t] \in ProcPC
      BY DEF Publish, ProcPC
    <2>2. HomeOf(t) \in UserPC \cup {"boot_wait"} /\ Top(t) = HomeOf(t)
      BY <1>1, <2>1, Procs
    <2>3. /\ pc'[t] = Head(stack[t]) /\ stack'[t] = Tail(stack[t])
          /\ \A u \in Threads \ {t} : stack'[u] = stack[u]
          /\ \A u \in Threads \ {t} : pc'[u] = IF u \in todo[t] THEN "resume" ELSE pc[u]
      BY <1>1 DEF Publish, Typed
    <2>4. Legal(t)
      BY <1>1 DEF Control
    <2>5. Legal(t)' /\ HomeOf(t)' = HomeOf(t) /\ pc'[t] = Top(t)
      BY <2>1, <2>3, <2>4, ReturnStep
    <2>6. ASSUME NEW u \in Threads \ {t}, u \notin todo[t]
          PROVE  Legal(u)' /\ Still(u)
      <3>1. Legal(u)
        BY <1>1 DEF Control
      <3>2. pc'[u] = pc[u] /\ stack'[u] = stack[u]
        BY <2>3, <2>6
      <3>3. QED
        BY <3>1, <3>2 DEF Legal, AtHome, InCall, InRetireAll, InExit, Still, HomeOf, Top
    <2>7. ASSUME NEW u \in Threads \ {t}, u \in todo[t]
          PROVE  /\ Legal(u)' /\ u \in Exclusive
                 /\ pc[u] = "absent" /\ HomeOf(u) = "absent"
                 /\ pc'[u] = "resume" /\ HomeOf(u)' = "resume"
      <3>1. u \in Services
        BY <1>1, <2>7 DEF NTypes
      <3>2. u \in Exclusive
        BY <3>1, NodeAssumption DEF Services, Threads
      <3>3. pc[u] = "absent"
        BY <1>1, <2>1, <2>7, <3>2, Kinds DEF Publication, Unpublished
      <3>4. HomeOf(u) = "absent" /\ stack[u] = Below(u, "absent") /\ Legal(u)
        BY <1>1, <3>3, Home DEF ProcPC, Control
      <3>5. pc'[u] = "resume" /\ stack'[u] = stack[u]
        BY <2>3, <2>7
      <3>6. /\ "resume" \in HomePC(u) /\ "absent" \in HomePC(u)
            /\ Below(u, "resume") = Below(u, "absent")
        BY <3>2, Kinds DEF HomePC, Below
      <3>7. QED
        BY <3>2, <3>3, <3>4, <3>5, <3>6, GotoStep
    <2>8. Control'
      BY <2>5, <2>6, <2>7 DEF Control
    <2>9. DOMAIN pc' = Threads /\ DOMAIN stack' = Threads
      BY <1>1 DEF Publish, Typed
    <2>10. Typed'
      <3>1. \A u \in Threads : pc'[u] \in Labels /\ stack'[u] \in Seq(Labels)
        BY <2>8, Labelled DEF Control
      <3>2. pc' = [u \in Threads |-> pc'[u]]
        BY DEF Publish
      <3>3. stack' = [stack EXCEPT ![t] = Tail(@)]
        BY DEF Publish
      <3>4. QED
        BY <1>1, <3>1, <3>2, <3>3 DEF Typed
    <2>11. QED
      BY <2>1, <2>2, <2>5, <2>6, <2>7, <2>8, <2>10
  <1>4. NTypes'
    BY <1>1, <1>2, <1>3, Kinds DEF NTypes, Others
  <1>5. Publication'
    BY <1>1, <1>2, <1>3, Kinds DEF Publication, Unpublished, Others, Still, NTypes, UserPC
  <1>6. Mortality'
    BY <1>1, <1>2, <1>3, Kinds DEF Mortality, Others, Still, NTypes, UserPC
  <1>7. Holding'
    <2>1. \A s \in todo[t] : s \notin destroyed /\ (s \in Shared => token[s] = "unborn")
      BY <1>1, <1>3 DEF Publication, Unpublished
    <2>2. /\ \A u \in Runners : HomeOf(u)' = HomeOf(u)
          /\ \A u \in Runners : pc'[u] = "account" <=> pc[u] = "account"
      BY <1>3, Kinds DEF Still, UserPC
    <2>3. \A u \in Exclusive : u \in destroyed <=> Ended(u)'
      BY <1>1, <1>3, <2>1, Kinds DEF Holding, Ended, Still
    <2>4. \A u \in Threads : HomeOf(u)' \in {"final_drain", "clean"} => hold[u] \in dead
      BY <1>1, <1>3 DEF Holding, Still
    <2>5. \A s \in destroyed \cap Shared : token'[s] = "idle"
      <3>1. \A s \in destroyed \cap Shared : token[s] = "idle" /\ s \notin todo[t]
        <4>1. \A s \in destroyed \cap Shared : token[s] = "idle"
          BY <1>1 DEF Holding
        <4>2. \A s \in destroyed : s \notin todo[t]
          BY <2>1
        <4>3. QED
          BY <4>1, <4>2
      <3>2. \A s \in Shared : token'[s] = IF s \in todo[t] THEN "queued" ELSE token[s]
        BY <1>2
      <3>3. QED
        BY <3>1, <3>2
    <2>6. \A u \in Runners : InHand(u)' => hold[u] # None
      BY <1>1, <2>2 DEF Holding, InHand
    <2>7. \A u \in Runners : hold[u] # None =>
            /\ hold[u] \in Shared
            /\ IF pc'[u] = "account" THEN hold[u] \in destroyed ELSE token'[hold[u]] = "held"
      BY <1>1, <1>2, <2>1, <2>2 DEF Holding
    <2>8. QED
      BY <1>1, <1>2, <2>3, <2>4, <2>5, <2>6, <2>7 DEF Holding
  <1>8. Booting'
    BY <1>1, <1>2, <1>3, Kinds DEF Booting, Others, Still, UserPC
  <1>9. Ending'
    BY <1>1, <1>2, <1>3, Kinds DEF Ending, BootPhase, Others, Still, NTypes, UserPC
  <1>10. TotalCountsOrdinary'
    <2>1. Accounting' = Accounting
      BY <1>2, <1>3 DEF Accounting, Still, UserPC
    <2>2. QED
      BY <1>1, <1>2, <2>1 DEF TotalCountsOrdinary, Accounting
  <1>11. QED
    BY <1>3, <1>4, <1>5, <1>6, <1>7, <1>8, <1>9, <1>10 DEF NodeInv, Others

(* Boot has waited for a service. *)
LEMMA BootWaitKeeps ==
    ASSUME NodeInv, BootWait
    PROVE  NodeInv'
  <1>1. /\ NTypes /\ Typed /\ Control /\ Publication /\ Mortality /\ Holding
        /\ Booting /\ Ending /\ TotalCountsOrdinary
    BY DEF NodeInv, NTypes
  <1>2. /\ quit' = quit /\ booted' = booted /\ total' = total /\ gate' = gate /\ born' = born
        /\ table' = table /\ dead' = dead /\ destroyed' = destroyed /\ selfExit' = selfExit
        /\ life' = life /\ ticket' = ticket /\ token' = token /\ permit' = permit
        /\ hold' = hold /\ budgets' = budgets /\ todo' = todo /\ victim' = victim
        /\ stage' = stage + 1 /\ logger' \in {Logger, None}
    BY <1>1 DEF BootWait, NTypes, flags, services, exec, control, bounds
  <1>3. /\ Others(Main) /\ Main \in Threads
        /\ pc[Main] = "boot_wait" /\ HomeOf(Main) = "boot_wait" /\ pc'[Main] = HomeOf(Main)'
        /\ HomeOf(Main)' \in {"boot", "boot_failed"}
    <2>1. pc[Main] = "boot_wait" /\ pc[Main] \notin ProcPC \cup {"join"} /\ UNCHANGED stack
      BY DEF BootWait, ProcPC
    <2>2. PICK to \in {"boot", "boot_failed"} : pc' = [pc EXCEPT ![Main] = to]
      BY DEF BootWait
    <2>3. to \in HomePC(Main) /\ Below(Main, to) = Below(Main, pc[Main])
      BY <2>1, Kinds DEF HomePC, Below, DrainPC
    <2>4. QED
      BY <1>1, <2>1, <2>2, <2>3, Kinds, GotoMoves
  <1>4. NTypes'
    BY <1>1, <1>2, <1>3, Kinds DEF NTypes, Others
  <1>5. Publication'
    BY <1>1, <1>2, <1>3, Kinds DEF Publication, Unpublished, Others, Still, NTypes, UserPC
  <1>6. Mortality'
    BY <1>1, <1>2, <1>3, Kinds DEF Mortality, Others, Still, NTypes, UserPC
  <1>7. Holding'
    BY <1>1, <1>2, <1>3, Kinds DEF Holding, InHand, Ended, Others, Still, NTypes, UserPC
  <1>8. Booting'
    <2>1. DOMAIN BootOrder = 1 .. Len(BootOrder) /\ Len(BootOrder) \in Nat /\ stage \in Nat
      BY <1>1, NodeAssumption DEF NTypes
    <2>2. \A i \in DOMAIN BootOrder : i >= stage' => i > stage
      BY <1>2, <2>1
    <2>3. \A i \in DOMAIN BootOrder : i > stage => BootOrder[i] \notin born
      BY <1>1, <1>3 DEF Booting
    <2>4. QED
      BY <1>2, <1>3, <2>2, <2>3 DEF Booting
  <1>9. Ending'
    BY <1>1, <1>2, <1>3, Kinds DEF Ending, BootPhase, Others, Still, NTypes, UserPC
  <1>10. TotalCountsOrdinary'
    BY <1>1, <1>2, <1>3, CountSame DEF UserPC
  <1>11. QED
    BY <1>3, <1>4, <1>5, <1>6, <1>7, <1>8, <1>9, <1>10 DEF NodeInv, Others

(* Boot ends. *)
LEMMA EndBootKeeps ==
    ASSUME NodeInv, EndBoot
    PROVE  NodeInv'
  <1>1. /\ NTypes /\ Typed /\ Control /\ Publication /\ Mortality /\ Holding
        /\ Booting /\ Ending /\ TotalCountsOrdinary
    BY DEF NodeInv, NTypes
  <1>2. /\ total' = total /\ gate' = gate /\ logger' = logger /\ born' = born
        /\ table' = table /\ dead' = dead /\ destroyed' = destroyed /\ selfExit' = selfExit
        /\ life' = life /\ ticket' = ticket /\ token' = token /\ permit' = permit
        /\ hold' = hold /\ budgets' = budgets /\ todo' = todo /\ victim' = victim
        /\ stage' = stage
        /\ booted' \in BOOLEAN /\ quit' \in BOOLEAN /\ (quit => quit')
    BY <1>1 DEF EndBoot, SetQuitAndCall, NTypes, flags, services, exec, control, bounds
  <1>3. /\ Others(Main) /\ Main \in Threads
        /\ pc[Main] \in {"boot", "boot_failed"} /\ HomeOf(Main) = pc[Main]
        /\ pc'[Main] \in {"join_workers", "interrupt_all"} /\ HomeOf(Main)' = "join_workers"
    <2>1. pc[Main] \in {"boot", "boot_failed"} /\ pc[Main] \notin ProcPC \cup {"join"}
      BY DEF EndBoot, ProcPC
    <2>2. /\ "join_workers" \in HomePC(Main) /\ Below(Main, "join_workers") = Below(Main, pc[Main])
          /\ "interrupt_all" \in CalledFrom("join_workers")
      BY <2>1, Kinds DEF HomePC, Below, DrainPC, CalledFrom, UserPC
    <2>3. CASE pc' = [pc EXCEPT ![Main] = "join_workers"] /\ UNCHANGED stack
      BY <1>1, <2>1, <2>2, <2>3, Kinds, GotoMoves
    <2>4. CASE Call(Main, "interrupt_all", "join_workers")
      BY <1>1, <2>1, <2>2, <2>4, Kinds, CallMoves
    <2>5. QED
      BY <2>3, <2>4 DEF EndBoot, SetQuitAndCall
  <1>4. NTypes'
    BY <1>1, <1>2, <1>3, Kinds DEF NTypes, Others
  <1>5. Publication'
    BY <1>1, <1>2, <1>3, Kinds DEF Publication, Unpublished, Others, Still, NTypes, UserPC
  <1>6. Mortality'
    BY <1>1, <1>2, <1>3, Kinds DEF Mortality, Others, Still, NTypes, UserPC
  <1>7. Holding'
    BY <1>1, <1>2, <1>3, Kinds DEF Holding, InHand, Ended, Others, Still, NTypes, UserPC
  <1>8. Booting'
    BY <1>1, <1>2, <1>3, Kinds DEF Booting, Others, Still, UserPC
  <1>9. Ending'
    BY <1>1, <1>2, <1>3, Kinds DEF Ending, BootPhase, Others, Still, NTypes, UserPC
  <1>10. TotalCountsOrdinary'
    BY <1>1, <1>2, <1>3, CountSame DEF UserPC
  <1>11. QED
    BY <1>3, <1>4, <1>5, <1>6, <1>7, <1>8, <1>9, <1>10 DEF NodeInv, Others

(* The workers have left. *)
LEMMA JoinWorkersKeeps ==
    ASSUME NodeInv, JoinWorkers
    PROVE  NodeInv'
  <1>1. /\ NTypes /\ Typed /\ Control /\ Publication /\ Mortality /\ Holding
        /\ Booting /\ Ending /\ TotalCountsOrdinary
    BY DEF NodeInv, NTypes
  <1>2. /\ quit' = quit /\ booted' = booted /\ total' = total /\ gate' = gate
        /\ logger' = logger /\ born' = born /\ table' = table /\ dead' = dead
        /\ destroyed' = destroyed /\ selfExit' = selfExit /\ life' = life /\ ticket' = ticket
        /\ token' = token /\ permit' = permit /\ hold' = hold /\ budgets' = budgets
        /\ todo' = todo /\ victim' = victim
        /\ stage' = 1 /\ quit = TRUE
    <2>1. PICK w \in Workers : pc[w] = "exited"
      BY NodeAssumption DEF JoinWorkers
    <2>2. quit = TRUE
      BY <1>1, <2>1 DEF Ending, NTypes
    <2>3. QED
      BY <2>2 DEF JoinWorkers, flags, services, exec, control, bounds
  <1>3. /\ Others(Main) /\ Main \in Threads
        /\ pc[Main] = "join_workers" /\ HomeOf(Main) = pc[Main]
        /\ pc'[Main] = "shutdown" /\ HomeOf(Main)' = "shutdown"
    <2>1. /\ pc[Main] = "join_workers" /\ pc[Main] \notin ProcPC \cup {"join"} /\ UNCHANGED stack
          /\ pc' = [pc EXCEPT ![Main] = "shutdown"]
      BY DEF JoinWorkers, ProcPC, Goto
    <2>2. "shutdown" \in HomePC(Main) /\ Below(Main, "shutdown") = Below(Main, pc[Main])
      BY <2>1, Kinds DEF HomePC, Below, DrainPC
    <2>3. QED
      BY <1>1, <2>1, <2>2, Kinds, GotoMoves
  <1>4. NTypes'
    BY <1>1, <1>2, <1>3, Kinds DEF NTypes, Others
  <1>5. Publication'
    BY <1>1, <1>2, <1>3, Kinds DEF Publication, Unpublished, Others, Still, NTypes, UserPC
  <1>6. Mortality'
    BY <1>1, <1>2, <1>3, Kinds DEF Mortality, Others, Still, NTypes, UserPC
  <1>7. Holding'
    BY <1>1, <1>2, <1>3, Kinds DEF Holding, InHand, Ended, Others, Still, NTypes, UserPC
  <1>8. Booting'
    BY <1>1, <1>2, <1>3, Kinds DEF Booting, Others, Still, UserPC
  <1>9. Ending'
    BY <1>1, <1>2, <1>3, Kinds DEF Ending, BootPhase, Others, Still, NTypes, UserPC
  <1>10. TotalCountsOrdinary'
    BY <1>1, <1>2, <1>3, CountSame DEF UserPC
  <1>11. QED
    BY <1>3, <1>4, <1>5, <1>6, <1>7, <1>8, <1>9, <1>10 DEF NodeInv, Others

(* A step of shutdown. *)
LEMMA ShutdownKeeps ==
    ASSUME NodeInv, Shutdown
    PROVE  NodeInv'
  <1>1. /\ NTypes /\ Typed /\ Control /\ Publication /\ Mortality /\ Holding
        /\ Booting /\ Ending /\ TotalCountsOrdinary
    BY DEF NodeInv, NTypes
  <1>2. /\ quit' = quit /\ booted' = booted /\ total' = total /\ gate' = gate
        /\ logger' = logger /\ born' = born /\ table' = table /\ dead' = dead
        /\ destroyed' = destroyed /\ selfExit' = selfExit /\ life' = life /\ ticket' = ticket
        /\ token' = token /\ permit' = permit /\ hold' = hold /\ victim' = victim
        /\ stage' = stage + 1 /\ stage \in 1 .. 10 /\ budgets' = [s \in Shared |-> 0]
        /\ todo'[Main] \subseteq Services /\ todo' = [todo EXCEPT ![Main] = todo'[Main]]
        /\ stage = 8 => todo'[Main] = table
    <2>1. Len(ShutdownSteps) = 10
      BY DEF ShutdownSteps
    <2>2. stage \in 1 .. 10
      BY <1>1, <2>1 DEF Shutdown, NTypes
    <2>3. todo' = [todo EXCEPT ![Main] = Targets(ShutdownSteps[stage])]
      BY DEF Shutdown
    <2>4. todo'[Main] = Targets(ShutdownSteps[stage])
      BY <1>1, <2>3, Kinds DEF NTypes
    <2>5. ShutdownSteps[stage] \in {"drain", "retire_all", "retire_others", "retire_logger",
                                   "join_retired", "join_all"}
      BY <2>2 DEF ShutdownSteps
    <2>6. Targets(ShutdownSteps[stage]) \subseteq Services
      BY <1>1, <2>5 DEF Targets, NTypes
    <2>7. stage = 8 => Targets(ShutdownSteps[stage]) = table
      BY DEF ShutdownSteps, Targets
    <2>8. QED
      BY <2>2, <2>3, <2>4, <2>6, <2>7 DEF Shutdown, flags, services, exec, control, bounds
  <1>3. /\ Others(Main) /\ Main \in Threads
        /\ pc[Main] = "shutdown" /\ HomeOf(Main) = "shutdown"
        /\ \/ pc'[Main] = "look" /\ HomeOf(Main)' = "look" /\ stage \in {1, 3, 6, 9}
           \/ pc'[Main] = "retire_all" /\ HomeOf(Main)' = "shutdown" /\ stage = 2
           \/ /\ pc'[Main] = "sweep" /\ HomeOf(Main)' = "shutdown" /\ Top(Main)' = "shutdown"
              /\ stage \in {5, 8}
           \/ pc'[Main] = "join" /\ HomeOf(Main)' = "shutdown" /\ stage \in {4, 7, 10}
    <2>1. /\ pc[Main] = "shutdown" /\ pc[Main] \notin ProcPC \cup {"join"}
          /\ "shutdown" \in HomePC(Main)
      BY Kinds DEF Shutdown, ProcPC, HomePC, DrainPC
    <2>2. HomeOf(Main) = "shutdown"
      BY <1>1, <2>1, Home, Kinds
    <2>3. {"retire_all", "sweep", "join"} \subseteq CalledFrom("shutdown")
      BY DEF CalledFrom, UserPC
    <2>4. CASE stage \in {1, 3, 6, 9}
      <3>1. ShutdownSteps[stage] = "drain"
        BY <2>4 DEF ShutdownSteps
      <3>2. Call(Main, "look", "shutdown")
        BY <3>1 DEF Shutdown
      <3>3. QED
        BY <1>1, <2>1, <2>4, <3>2, Kinds, DrainCalled
    <2>5. CASE stage = 2
      <3>1. ShutdownSteps[stage] = "retire_all"
        BY <2>5 DEF ShutdownSteps
      <3>2. Call(Main, "retire_all", "shutdown")
        BY <3>1 DEF Shutdown
      <3>3. QED
        BY <1>1, <2>1, <2>2, <2>3, <2>5, <3>2, Kinds, CallMoves
    <2>6. CASE stage \in {5, 8}
      <3>1. ShutdownSteps[stage] \in {"retire_others", "retire_logger"}
        BY <2>6 DEF ShutdownSteps
      <3>2. Call(Main, "sweep", "shutdown")
        BY <3>1 DEF Shutdown
      <3>3. QED
        BY <1>1, <2>1, <2>2, <2>3, <2>6, <3>2, Kinds, CallMoves
    <2>7. CASE stage \in {4, 7, 10}
      <3>1. ShutdownSteps[stage] \in {"join_retired", "join_all"}
        BY <2>7 DEF ShutdownSteps
      <3>2. Call(Main, "join", "shutdown")
        BY <3>1 DEF Shutdown
      <3>3. QED
        BY <1>1, <2>1, <2>2, <2>3, <2>7, <3>2, Kinds, CallMoves
    <2>8. QED
      BY <1>2, <2>4, <2>5, <2>6, <2>7
  <1>4. NTypes'
    BY <1>1, <1>2, <1>3, Kinds, NodeAssumption DEF NTypes, Others
  <1>5. Publication'
    BY <1>1, <1>2, <1>3, Kinds DEF Publication, Unpublished, Others, Still, NTypes, UserPC
  <1>6. Mortality'
    BY <1>1, <1>2, <1>3, Kinds DEF Mortality, Others, Still, NTypes, UserPC
  <1>7. Holding'
    BY <1>1, <1>2, <1>3, Kinds DEF Holding, InHand, Ended, Others, Still, NTypes, UserPC
  <1>8. Booting'
    BY <1>1, <1>2, <1>3, Kinds DEF Booting, Others, Still, UserPC
  <1>9. Ending'
    BY <1>1, <1>2, <1>3, Kinds DEF Ending, BootPhase, Others, Still, NTypes, UserPC
  <1>10. TotalCountsOrdinary'
    BY <1>1, <1>2, <1>3, CountSame DEF UserPC
  <1>11. QED
    BY <1>3, <1>4, <1>5, <1>6, <1>7, <1>8, <1>9, <1>10 DEF NodeInv, Others

(* The threads have been joined. *)
LEMMA JoinKeeps ==
    ASSUME NodeInv, Join
    PROVE  NodeInv'
  <1>1. /\ NTypes /\ Typed /\ Control /\ Publication /\ Mortality /\ Holding
        /\ Booting /\ Ending /\ TotalCountsOrdinary
    BY DEF NodeInv, NTypes
  <1>2. /\ quit' = quit /\ booted' = booted /\ total' = total /\ gate' = gate
        /\ logger' = logger /\ born' = born /\ table' = table /\ dead' = dead
        /\ destroyed' = destroyed /\ selfExit' = selfExit /\ life' = life /\ ticket' = ticket
        /\ token' = token /\ permit' = permit /\ hold' = hold /\ budgets' = budgets
        /\ victim' = victim /\ stage' = stage
        /\ todo' = [todo EXCEPT ![Main] = {}]
    BY DEF Join, flags, services, exec, control, bounds
  <1>3. /\ Others(Main) /\ Main \in Threads
        /\ pc[Main] = "join" /\ HomeOf(Main) = "shutdown"
        /\ pc'[Main] = "shutdown" /\ HomeOf(Main)' = "shutdown"
    <2>1. pc[Main] = "join" /\ Return(Main)
      BY DEF Join
    <2>2. HomeOf(Main) = "shutdown" /\ Top(Main) = "shutdown"
      BY <1>1, <2>1, Kinds, Procs
    <2>3. QED
      BY <1>1, <2>1, <2>2, Kinds, ReturnMoves
  <1>4. NTypes'
    BY <1>1, <1>2, <1>3, Kinds DEF NTypes, Others
  <1>5. Publication'
    BY <1>1, <1>2, <1>3, Kinds DEF Publication, Unpublished, Others, Still, NTypes, UserPC
  <1>6. Mortality'
    BY <1>1, <1>2, <1>3, Kinds DEF Mortality, Others, Still, NTypes, UserPC
  <1>7. Holding'
    BY <1>1, <1>2, <1>3, Kinds DEF Holding, InHand, Ended, Others, Still, NTypes, UserPC
  <1>8. Booting'
    BY <1>1, <1>2, <1>3, Kinds DEF Booting, Others, Still, UserPC
  <1>9. Ending'
    BY <1>1, <1>2, <1>3, Kinds DEF Ending, BootPhase, Others, Still, NTypes, UserPC
  <1>10. TotalCountsOrdinary'
    BY <1>1, <1>2, <1>3, CountSame DEF UserPC
  <1>11. QED
    BY <1>3, <1>4, <1>5, <1>6, <1>7, <1>8, <1>9, <1>10 DEF NodeInv, Others

(* start returns. *)
LEMMA FinishKeeps ==
    ASSUME NodeInv, Finish
    PROVE  NodeInv'
  <1>1. /\ NTypes /\ Typed /\ Control /\ Publication /\ Mortality /\ Holding
        /\ Booting /\ Ending /\ TotalCountsOrdinary
    BY DEF NodeInv, NTypes
  <1>2. /\ quit' = quit /\ booted' = booted /\ total' = total /\ gate' = gate
        /\ logger' = logger /\ born' = born /\ table' = table /\ dead' = dead
        /\ destroyed' = destroyed /\ selfExit' = selfExit /\ life' = life /\ ticket' = ticket
        /\ token' = token /\ permit' = permit /\ hold' = hold /\ budgets' = budgets
        /\ todo' = todo /\ victim' = victim /\ stage' = stage
        /\ stage > 10
    <2>1. Len(ShutdownSteps) = 10
      BY DEF ShutdownSteps
    <2>2. QED
      BY <2>1 DEF Finish, flags, services, exec, control, bounds
  <1>3. /\ Others(Main) /\ Main \in Threads
        /\ pc[Main] = "shutdown" /\ HomeOf(Main) = "shutdown"
        /\ pc'[Main] = "finished" /\ HomeOf(Main)' = "finished"
    <2>1. /\ pc[Main] = "shutdown" /\ pc[Main] \notin ProcPC \cup {"join"} /\ UNCHANGED stack
          /\ pc' = [pc EXCEPT ![Main] = "finished"]
      BY DEF Finish, ProcPC, Goto
    <2>2. "finished" \in HomePC(Main) /\ Below(Main, "finished") = Below(Main, pc[Main])
      BY <2>1, Kinds DEF HomePC, Below, DrainPC
    <2>3. QED
      BY <1>1, <2>1, <2>2, Kinds, GotoMoves
  <1>4. NTypes'
    BY <1>1, <1>2, <1>3, Kinds DEF NTypes, Others
  <1>5. Publication'
    BY <1>1, <1>2, <1>3, Kinds DEF Publication, Unpublished, Others, Still, NTypes, UserPC
  <1>6. Mortality'
    BY <1>1, <1>2, <1>3, Kinds DEF Mortality, Others, Still, NTypes, UserPC
  <1>7. Holding'
    BY <1>1, <1>2, <1>3, Kinds DEF Holding, InHand, Ended, Others, Still, NTypes, UserPC
  <1>8. Booting'
    BY <1>1, <1>2, <1>3, Kinds DEF Booting, Others, Still, UserPC
  <1>9. Ending'
    BY <1>1, <1>2, <1>3, Kinds DEF Ending, BootPhase, Others, Still, NTypes, UserPC
  <1>10. TotalCountsOrdinary'
    BY <1>1, <1>2, <1>3, CountSame DEF UserPC
  <1>11. QED
    BY <1>3, <1>4, <1>5, <1>6, <1>7, <1>8, <1>9, <1>10 DEF NodeInv, Others

(* A node begins with nothing born. *)
LEMMA InitNodeInv ==
    ASSUME Init
    PROVE  NodeInv
  <1>1. \A t \in Threads : AtHome(t) /\ HomeOf(t) = pc[t]
    <2> TAKE t \in Threads
    <2>1. stack[t] = <<>>
      BY DEF Init
    <2>2. CASE t \in Workers
      BY <2>1, <2>2, Kinds DEF Init, AtHome, HomePC, Below, HomeOf, ProcPC
    <2>3. CASE t \in Callers
      BY <2>1, <2>3, Who DEF Init, AtHome, HomePC, Below, HomeOf, ProcPC
    <2>4. CASE t \in Exclusive
      BY <2>1, <2>4, Who DEF Init, AtHome, HomePC, Below, HomeOf, ProcPC
    <2>5. CASE t = Main
      BY <2>1, <2>5, Kinds DEF Init, AtHome, HomePC, Below, HomeOf, ProcPC, DrainPC
    <2>6. QED
      BY <2>2, <2>3, <2>4, <2>5 DEF Threads
  <1>2. Control
    BY <1>1 DEF Control, Legal
  <1>3. \A t \in Threads : pc[t] \in {"next", "free", "boot", "absent"}
    BY DEF Init
  <1>4. Typed
    <2>1. \A t \in Threads : pc[t] \in Labels /\ stack[t] \in Seq(Labels)
      <3>1. \A t \in Threads : pc[t] \in Labels
        BY <1>3 DEF Labels, UserPC
      <3>2. \A t \in Threads : stack[t] = <<>>
        BY DEF Init
      <3>3. <<>> \in Seq(Labels)
        BY EmptySeq
      <3>4. QED
        BY <3>1, <3>2, <3>3
    <2>2. QED
      BY <2>1 DEF Init, Typed
  <1>5. NTypes
    <2>1. hold \in [Threads -> Services \cup {None}] /\ victim \in [Threads -> Services \cup {None}]
      BY Kinds DEF Init
    <2>2. budgets \in [Shared -> 0 .. DRAIN_BUDGET - 1]
      BY NodeAssumption DEF Init
    <2>3. /\ life \in [Services -> {"INITIALIZING", "RUNNING", "FAILED"}]
          /\ ticket \in [Services -> {"none", "ok", "err"}]
          /\ token \in [Shared -> {"unborn", "idle", "queued", "held"}]
          /\ todo \in [Threads -> SUBSET Services]
      BY DEF Init
    <2>4. /\ quit = FALSE /\ booted = FALSE /\ gate = None /\ logger = None
          /\ born = {} /\ table = {} /\ dead = {} /\ destroyed = {} /\ selfExit = {}
          /\ permit = {} /\ stage = 1 /\ total = 0
      BY DEF Init
    <2>5. quit \in BOOLEAN /\ booted \in BOOLEAN
      BY <2>4
    <2>6. /\ gate \in Threads \cup {None} /\ logger \in {Logger, None}
          /\ born \subseteq Services /\ table \subseteq Services
          /\ dead \subseteq Services /\ destroyed \subseteq Services /\ selfExit \subseteq Services
          /\ permit \subseteq Exclusive /\ stage \in Nat \ {0} /\ total \in Int
      BY <2>4
    <2>7. QED
      BY <1>4, <2>1, <2>2, <2>3, <2>5, <2>6 DEF NTypes
  <1>6. Publication
    BY <1>3, Kinds DEF Init, Publication, Unpublished
  <1>7. Mortality
    BY <1>3, Kinds DEF Init, Mortality
  <1>8. Holding
    BY <1>1, <1>3, Kinds DEF Init, Holding, InHand, Ended
  <1>9. Booting
    BY DEF Init, Booting
  <1>10. pc[Main] = "boot" /\ HomeOf(Main) = "boot"
    BY <1>1, Kinds DEF Init
  <1>11. Ending
    BY <1>3, <1>10, Kinds DEF Init, Ending, BootPhase
  <1>12. TotalCountsOrdinary
    <2>1. (born \cap Ordinary) \ destroyed = {}
      BY DEF Init
    <2>2. {t \in Threads : pc[t] = "account" /\ hold[t] \in Ordinary} = {}
      BY <1>3
    <2>3. total = 0
      BY DEF Init
    <2>4. QED
      BY <2>1, <2>2, <2>3, FS_EmptySet DEF TotalCountsOrdinary
  <1>13. QED
    BY <1>2, <1>5, <1>6, <1>7, <1>8, <1>9, <1>11, <1>12 DEF NodeInv

(* A step in which nothing happens. *)
LEMMA StutterNodeInv ==
    ASSUME NodeInv, UNCHANGED vars
    PROVE  NodeInv'
  <1>1. /\ quit' = quit /\ booted' = booted /\ total' = total /\ gate' = gate /\ logger' = logger
        /\ born' = born /\ table' = table /\ dead' = dead /\ destroyed' = destroyed
        /\ selfExit' = selfExit /\ life' = life /\ ticket' = ticket /\ token' = token
        /\ permit' = permit /\ hold' = hold /\ budgets' = budgets /\ pc' = pc /\ stack' = stack
        /\ todo' = todo /\ victim' = victim /\ stage' = stage
    BY DEF vars, flags, services, exec, control, bounds
  <1>2. Typed' /\ Control' /\ (\A u \in Threads : Still(u)) /\ Main \in Threads
    BY <1>1, Unmoved, Kinds DEF NodeInv, NTypes
  <1>3. NTypes'
    BY <1>1, <1>2 DEF NodeInv, NTypes
  <1>4. Publication' /\ Mortality'
    BY <1>1 DEF NodeInv, Publication, Unpublished, Mortality
  <1>5. Holding'
    BY <1>1, <1>2, Kinds DEF NodeInv, Holding, InHand, Ended, Still
  <1>6. Booting' /\ Ending'
    BY <1>1, <1>2 DEF NodeInv, Booting, Ending, BootPhase, Still
  <1>7. TotalCountsOrdinary'
    BY <1>1 DEF NodeInv, TotalCountsOrdinary
  <1>8. QED
    BY <1>2, <1>3, <1>4, <1>5, <1>6, <1>7 DEF NodeInv

(* Every step of the node keeps the invariant. *)
LEMMA StepNodeInv ==
    ASSUME NodeInv, [Next]_vars
    PROVE  NodeInv'
  <1>1. CASE MainStep
    BY <1>1, BootLaunchKeeps, BootWaitKeeps, EndBootKeeps, JoinWorkersKeeps, ShutdownKeeps,
       JoinKeeps, FinishKeeps DEF MainStep
  <1>2. ASSUME NEW t \in Threads, Step(t)
        PROVE  NodeInv'
    BY <1>2, PublishKeeps, SweepKeeps, MarkDeadKeeps, MarkSelfExitKeeps, RetireAllKeeps,
       InterruptAllKeeps, WorkerLoopKeeps, TakeKeeps, TakeNothingKeeps, EndVisitKeeps,
       ResumeKeeps, IdleReturnsKeeps, FinalDrainKeeps, CleanKeeps, AccountKeeps DEF Step
  <1>3. ASSUME NEW t \in Threads, User(t)
        PROVE  NodeInv'
    BY <1>3, LaunchKeeps, KillKeeps, WakeKeeps, ExitKeeps, AbortKeeps, YieldKeeps,
       InitReturnsKeeps DEF User
  <1>4. CASE UNCHANGED vars
    BY <1>4, StutterNodeInv
  <1>5. QED
    BY <1>1, <1>2, <1>3, <1>4 DEF Next

(* The inductive invariant holds in every reachable state of a node.       *)
THEOREM NodeInductive == Spec => []NodeInv
  <1>1. Init => NodeInv
    BY InitNodeInv
  <1>2. NodeInv /\ [Next]_vars => NodeInv'
    BY StepNodeInv
  <1>3. QED
    BY <1>1, <1>2, PTL DEF Spec

(* What CountedAlways needs. *)
LEMMA InvImpliesCounted ==
    ASSUME NodeInv
    PROVE  Counted
  <1>1. NTypes /\ Mortality /\ TotalCountsOrdinary
    BY DEF NodeInv
  <1>2. Cardinality(Outstanding) \in Nat /\ Cardinality(Accounting) \in Nat
    BY <1>1, Finite
  <1>3. total \in Nat
    BY <1>1, <1>2, Totals
  <1>4. 0 .. DRAIN_BUDGET - 1 \subseteq 0 .. DRAIN_BUDGET
    BY NodeAssumption
  <1>5. DOMAIN pc = Threads /\ DOMAIN stack = Threads
    BY <1>1 DEF NTypes, Typed
  <1>6. budgets \in [Shared -> 0 .. DRAIN_BUDGET]
    BY <1>1, <1>4 DEF NTypes
  <1>7. TypeOK
    BY <1>1, <1>3, <1>5, <1>6 DEF NTypes, TypeOK, Mortality
  <1>8. QED
    BY <1>1, <1>7 DEF Counted

(* The count of ordinary services in server.rs is exact: through launches, *)
(* kills, exits and destructions on any number of threads, total is the    *)
(* number of services launched and not yet accounted for, and so never     *)
(* goes below zero.                                                        *)
THEOREM CountedAlways == Spec => []Counted
  <1>1. NodeInv => Counted
    BY InvImpliesCounted
  <1>2. QED
    BY <1>1, NodeInductive, PTL

(* What ShutdownSealedAlways needs. *)
LEMMA InvImpliesSealed ==
    ASSUME NodeInv
    PROVE  ShutdownSealed
  <1>1. Control /\ Ending /\ Main \in Threads
    BY Kinds DEF NodeInv
  <1>2. NoStragglers
    <2>1. SUFFICES ASSUME Sealed PROVE table \subseteq Reserved
      BY DEF NoStragglers
    <2>2. ~BootPhase
      <3>1. CASE pc[Main] \in ProcPC \cup {"join"}
        BY <1>1, <2>1, <3>1, Procs DEF Sealed, BootPhase, ProcPC, UserPC
      <3>2. CASE pc[Main] \notin ProcPC \cup {"join"}
        BY <1>1, <2>1, <3>2, Home DEF Sealed, BootPhase
      <3>3. QED
        BY <3>1, <3>2
    <2>3. QED
      BY <1>1, <2>1, <2>2 DEF Ending, Sealed
  <1>3. JoinAllRetired
    <2>1. SUFFICES ASSUME pc[Main] = "join", stage > Len(ShutdownSteps)
                   PROVE  table \cap Exclusive = {}
      BY DEF JoinAllRetired
    <2>2. HomeOf(Main) = "shutdown"
      BY <1>1, <2>1, Procs
    <2>3. Len(ShutdownSteps) = 10 /\ stage \in Nat
      BY DEF ShutdownSteps, NodeInv, NTypes
    <2>4. stage > 9
      BY <2>1, <2>3
    <2>5. QED
      BY <1>1, <2>2, <2>4 DEF Ending, BootPhase
  <1>4. QED
    BY <1>2, <1>3 DEF ShutdownSealed

(* Once the main thread's retire_all is done the table holds reserved      *)
(* services only, and nothing exclusive is left in it when all exclusive   *)
(* threads are joined: no launch slips in behind the shutdown of start.rs. *)
THEOREM ShutdownSealedAlways == Spec => []ShutdownSealed
  <1>1. NodeInv => ShutdownSealed
    BY InvImpliesSealed
  <1>2. QED
    BY <1>1, NodeInductive, PTL

(* What makes a step set the flag. *)
LEMMA QuitStep ==
    ASSUME NodeInv, Next, ~quit, quit'
    PROVE  \/ EndBoot
           \/ \E t \in Threads : Account(t) \/ Abort(t)
  <1>1. quit # quit'
    OBVIOUS
  <1>2. CASE MainStep
    BY <1>1, <1>2 DEF MainStep, BootLaunch, Admit, BootWait, JoinWorkers, Shutdown, Join, Finish,
       flags
  <1>3. ASSUME NEW t \in Threads, Step(t)
        PROVE  Account(t)
    BY <1>1, <1>3 DEF Step, Publish, Sweep, MarkDead, MarkSelfExit, RetireAll, InterruptAll,
       WorkerLoop, Take, TakeNothing, EndVisit, Resume, IdleReturns, FinalDrain, Clean, flags
  <1>4. ASSUME NEW t \in Threads, User(t)
        PROVE  Abort(t)
    BY <1>1, <1>4 DEF User, Launch, Admit, Kill, Wake, Exit, Yield, InitReturns, flags
  <1>5. QED
    BY <1>2, <1>3, <1>4 DEF Next

(* The node ends by itself only when its last ordinary service has been    *)
(* destroyed and boot is complete; otherwise abort was called or boot      *)
(* failed (quit, mark_booted and destroy in server.rs).                    *)
THEOREM QuitHasReasonAlways == Spec => QuitHasReason
  <1> DEFINE Reason ==
        \/ \E t \in Threads : pc'[t] = "interrupt_all" /\ Head(stack'[t]) = "retire_all"
        \/ pc[Main] = "boot_failed"
        \/ booted' /\ total' = 0 /\ (born \cap Ordinary) \subseteq destroyed
  <1>1. ASSUME NodeInv, Next, ~quit, quit'
        PROVE  Reason
    <2>1. NTypes /\ Typed /\ Control /\ TotalCountsOrdinary
      BY <1>1 DEF NodeInv, NTypes
    <2>2. /\ IsFiniteSet(Outstanding) /\ Cardinality(Outstanding) \in Nat
          /\ IsFiniteSet(Accounting) /\ Cardinality(Accounting) \in Nat
          /\ total = Cardinality(Outstanding) + Cardinality(Accounting)
      BY <2>1, Finite, Totals
    <2>3. Cardinality(Outstanding) = 0 => (born \cap Ordinary) \subseteq destroyed
      BY <2>2, FS_EmptySet DEF Outstanding
    <2>4. CASE EndBoot
      <3>1. \/ pc[Main] = "boot_failed"
            \/ booted' /\ total = 0 /\ total' = total
        BY <1>1, <2>4 DEF EndBoot, BootedEmpty
      <3>2. QED
        BY <2>2, <2>3, <3>1
    <2>5. ASSUME NEW t \in Threads, Account(t)
          PROVE  Reason
      <3>1. /\ pc[t] = "account" /\ hold[t] \in Ordinary /\ total = 1 /\ total' = 0
            /\ booted /\ booted' = booted
        <4>1. pc[t] = "account" /\ booted' = booted
          BY <2>5 DEF Account
        <4>2. hold[t] \in Ordinary /\ LastExit /\ total' = total - 1
          BY <1>1, <2>5 DEF Account
        <4>3. QED
          BY <4>1, <4>2 DEF LastExit
      <3>2. Accounting # {}
        BY <3>1 DEF Accounting
      <3>3. Cardinality(Accounting) # 0
        BY <2>2, <3>2, FS_EmptySet
      <3>4. QED
        BY <2>2, <2>3, <3>1, <3>3
    <2>6. ASSUME NEW t \in Threads, Abort(t)
          PROVE  Reason
      <3>1. InUserCode(t)
        BY <2>6 DEF Abort, UserCall
      <3>2. pc[t] \in UserPC
        BY <2>1, <3>1, UserHome
      <3>3. /\ pc' = [pc EXCEPT ![t] = "interrupt_all"]
            /\ stack' = [stack EXCEPT ![t] =
                           (IF TRUE THEN <<"retire_all">> ELSE <<>>) \o <<pc[t]>> \o @]
        BY <1>1, <2>6 DEF Abort
      <3>4. pc'[t] = "interrupt_all" /\ Top(t)' = "retire_all"
        BY <2>1, <3>2, <3>3, DoubleMoves
      <3>5. QED
        BY <3>4 DEF Top
    <2>7. QED
      BY <1>1, <2>4, <2>5, <2>6, QuitStep
  <1>2. NodeInv /\ [Next]_vars => [~quit /\ quit' => Reason]_vars
    BY <1>1
  <1>3. QED
    BY <1>2, NodeInductive, PTL DEF Spec, QuitHasReason
====
