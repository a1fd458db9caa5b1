---------------------------- MODULE TimerWheel ----------------------------
(***************************************************************************)
(* Sleep of a service: WheelTimer, through whose queue every thread arms and *)
(* cancels timers, and the exclusive thread of TimerService, which puts them *)
(* into a hierarchical wheel, advances it to the real time and answers what  *)
(* is due (crates/rskynet-timer/src).                                        *)
(*                                                                         *)
(* The clock is external: it advances at any moment and the timer's thread   *)
(* may be late by any number of ticks.                                       *)
(***************************************************************************)
EXTENDS Integers, Sequences, FiniteSets

CONSTANTS
    TwNear, TwLevel, TwLevels,   \* TIME_NEAR, TIME_LEVEL, TIME_LEVELS
    TwTick,                      \* milliseconds of a tick
    TwEnd,                       \* bound: the ticks of a run
    TwLate,                      \* bound: the ticks that the timer's thread may be late
    TwArmBy,                     \* bound: the millisecond after which nothing is armed
    TwTimers,                    \* bound: the timers of a run
    TwMenus                      \* their delays, in milliseconds

\* The slots of a level and the ticks that one of them stands for; level 0 is the
\* near wheel.
TwSize(l) == IF l = 0 THEN TwNear ELSE TwLevel
TwSpan[l \in 0 .. TwLevels + 1] == IF l = 0 THEN 1 ELSE TwSpan[l - 1] * TwSize(l - 1)

ASSUME TwAssumption ==
    /\ {TwNear, TwLevel, TwLevels, TwTick, TwEnd} \subseteq Nat \ {0}
    /\ TwEnd <= TwSpan[TwLevels + 1] /\ TwLate \in Nat \ {0} /\ TwArmBy \in Nat
    /\ TwTimers \in Nat /\ TwMenus \subseteq [1 .. TwTimers -> 1 .. TwEnd * TwTick]

VARIABLES
    twWheel,   \* Wheel: time, the buckets, and the place of each timer (locations)
    twIn,      \* incoming: Arm and Cancel
    twNow,     \* the clock, in milliseconds
    twRun,     \* the timer's thread: pc, target tick, expired timers not yet sent
    twSleep    \* the timers: what their service has done, and when they were answered

twVars == <<twWheel, twIn, twNow, twRun, twSleep>>

\* A place is a bucket.
TwPlaces == UNION {{l} \X (0 .. TwSize(l) - 1) : l \in 0 .. TwLevels}
TwKeys == 1 .. TwTimers
TwNowhere == [place |-> <<0, 0>>, index |-> 0]

TwInit ==
    \E menu \in TwMenus :
       /\ twWheel = [time |-> 0, at |-> [p \in TwPlaces |-> <<>>],
                     loc |-> [k \in TwKeys |-> TwNowhere]]
       /\ twIn = <<>> /\ twNow = 0
       /\ twRun = [pc |-> "idle", target |-> 0, out |-> <<>>]
       /\ twSleep = [k \in TwKeys |->
            [st |-> "new", delay |-> menu[k], deadline |-> 0, cancel |-> "no", answers |-> 0]]

----------------------------------------------------------------------------
(* Wheel *)

\* add: the lowest level whose whole revolution holds both the time and the timer
TwSelect(time, expire) ==
    LET same(l) == expire \div TwSpan[l + 1] = time \div TwSpan[l + 1] \/ l = TwLevels
    IN  CHOOSE l \in 0 .. TwLevels : same(l) /\ \A m \in 0 .. l - 1 : ~same(m)

\* add: a timer that is late goes to the current slot.
TwDue(time, e) == IF e.expire <= time THEN time ELSE e.expire
TwBucket(expire, l) == <<l, (expire \div TwSpan[l]) % TwSize(l)>>
TwAdd(w, e) ==
    LET due == TwDue(w.time, e)
        p == TwBucket(due, TwSelect(w.time, due))
    IN  [w EXCEPT !.at[p] = Append(@, [e EXCEPT !.expire = due]),
                  !.loc[e.key] = [place |-> p, index |-> Len(w.at[p]) + 1]]

\* Mutant: the timer that fills the gap keeps its old location.
TwCancelledStale(w, k) ==
    IF w.loc[k].index = 0 THEN w
    ELSE LET p == w.loc[k].place
             i == w.loc[k].index
             n == Len(w.at[p])
         IN  [w EXCEPT !.at[p] = IF i > n THEN @ ELSE SubSeq([@ EXCEPT ![i] = w.at[p][n]], 1, n - 1),
                       !.loc[k] = TwNowhere]

\* cancel: swap_remove, after which the last timer of the bucket has a new place.
TwCancelled(w, k) ==
    IF w.loc[k].index = 0 THEN w
    ELSE LET p == w.loc[k].place
             i == w.loc[k].index
             n == Len(w.at[p])
             moved == w.at[p][n].key
         IN  [w EXCEPT !.at[p] = SubSeq([@ EXCEPT ![i] = w.at[p][n]], 1, n - 1),
                       !.loc = [@ EXCEPT ![moved] = [place |-> p, index |-> i], ![k] = TwNowhere]]

\* move_list: the timers of a bucket are added again, in order.
TwMoveList(w, p) ==
    LET moved[i \in 0 .. Len(w.at[p])] ==
          IF i = 0 THEN [w EXCEPT !.at[p] = <<>>] ELSE TwAdd(moved[i - 1], w.at[p][i])
    IN  moved[Len(w.at[p])]

\* shift: one tick, and the bucket of the level that turns over is moved down.
TwShift(w) ==
    LET now == [w EXCEPT !.time = @ + 1]
        slot(l) == TwBucket(now.time, l)
        turned == {l \in 1 .. TwLevels : slot(l)[2] # 0}
    IN  IF now.time % TwNear # 0 \/ turned = {} THEN now
        ELSE TwMoveList(now, slot(CHOOSE l \in turned : \A m \in turned : l <= m))

\* execute: take the timers of the current slot.
TwSlot(w) == <<0, w.time % TwNear>>
TwExecute(w) ==
    LET due == {w.at[TwSlot(w)][i].key : i \in 1 .. Len(w.at[TwSlot(w)])}
    IN  [w EXCEPT !.at[TwSlot(w)] = <<>>,
                  !.loc = [k \in DOMAIN @ |-> IF k \in due THEN TwNowhere ELSE @[k]]]

----------------------------------------------------------------------------
(* WheelTimer: any thread *)

TwClock == /\ twNow < TwEnd * TwTick - 1 /\ twNow \div TwTick < twWheel.time + TwLate
           /\ twNow' = twNow + 1 /\ UNCHANGED <<twWheel, twIn, twRun, twSleep>>

\* Mutant: a deadline inside a tick is rounded down.
TwExpireFloor(deadline) == deadline \div TwTick
TwExpire(deadline) == (deadline + TwTick - 1) \div TwTick

\* timeout reads the clock, and later pushes.
TwTimeout(k) ==
    /\ twSleep[k].st = "new" /\ twNow <= TwArmBy /\ TwExpire(twNow + twSleep[k].delay) < TwEnd
    /\ twSleep' = [twSleep EXCEPT ![k].st = "arming", ![k].deadline = twNow + twSleep[k].delay]
    /\ UNCHANGED <<twWheel, twIn, twNow, twRun>>
TwArm(k) ==
    /\ twSleep[k].st = "arming"
    /\ twSleep' = [twSleep EXCEPT ![k].st = "armed"]
    /\ twIn' = Append(twIn, [op |-> "arm", key |-> k, expire |-> TwExpire(twSleep[k].deadline)])
    /\ UNCHANGED <<twWheel, twNow, twRun>>

\* cancel: the sleep is dropped before its answer was taken.
TwCancel(k) ==
    /\ twSleep[k].st = "armed" /\ twSleep[k].cancel = "no"
    /\ twSleep' = [twSleep EXCEPT ![k].cancel = "asked"]
    /\ twIn' = Append(twIn, [op |-> "cancel", key |-> k, expire |-> 0])
    /\ UNCHANGED <<twWheel, twNow, twRun>>

----------------------------------------------------------------------------
(* TimerService: idle and WheelTimer::update *)

TwWake ==
    /\ twRun.pc = "idle"
    /\ twRun' = [twRun EXCEPT !.pc = "drain", !.target = twNow \div TwTick]
    /\ UNCHANGED <<twWheel, twIn, twNow, twSleep>>

\* One command of incoming is put into the wheel.
TwPop ==
    /\ twRun.pc = "drain" /\ twIn # <<>>
    /\ \E c \in {Head(twIn)} :
          IF c.op = "arm"
          THEN twWheel' = TwAdd(twWheel, [key |-> c.key, expire |-> c.expire]) /\ UNCHANGED twSleep
          ELSE /\ twWheel' = TwCancelled(twWheel, c.key)
               /\ twSleep' = [twSleep EXCEPT ![c.key].cancel = "done"]
    /\ twIn' = Tail(twIn) /\ UNCHANGED <<twNow, twRun>>

\* Mutant: the ticks that are due are counted, and the current slot is not looked at.
TwAdvanceOnly(w, diff) == IF diff = 0 THEN <<w, <<>>>>
                          ELSE LET v == TwShift(w) IN <<TwExecute(v), v.at[TwSlot(v)]>>

\* execute, or execute, shift, execute: the wheel and what has expired
TwAdvance(w, diff) ==
    IF diff = 0 THEN <<TwExecute(w), w.at[TwSlot(w)]>>
    ELSE LET v == TwShift(TwExecute(w))
         IN  <<TwExecute(v), w.at[TwSlot(w)] \o v.at[TwSlot(v)]>>

\* update once incoming is empty: one turn of its loop.
TwUpdate ==
    /\ twRun.pc \in {"drain", "turn"} /\ (twRun.pc = "drain" => twIn = <<>>)
    /\ \E diff \in {twRun.target - twWheel.time} : \E r \in {TwAdvance(twWheel, diff)} :
          /\ twWheel' = r[1]
          /\ twRun' = [twRun EXCEPT !.out = @ \o r[2],
                                    !.pc = IF diff > 1 THEN "turn" ELSE "send"]
    /\ UNCHANGED <<twIn, twNow, twSleep>>

\* idle answers each timer that has expired, then sleeps.
TwSend ==
    /\ twRun.pc = "send"
    /\ twSleep' = [k \in TwKeys |-> [twSleep[k] EXCEPT !.answers =
         @ + Cardinality({i \in 1 .. Len(twRun.out) : twRun.out[i].key = k})]]
    /\ twRun' = [twRun EXCEPT !.pc = "idle", !.out = <<>>]
    /\ UNCHANGED <<twWheel, twIn, twNow>>

TwNext == TwClock \/ TwWake \/ TwPop \/ TwUpdate \/ TwSend
          \/ \E k \in TwKeys : TwTimeout(k) \/ TwArm(k) \/ TwCancel(k)

TwSpec == TwInit /\ [][TwNext]_twVars

----------------------------------------------------------------------------
(* Properties *)

TwHeld == {h \in TwPlaces \X (1 .. TwTimers) : h[2] <= Len(twWheel.at[h[1]])}

\* The wheel's index is exact, so that cancel removes the timer it is asked to and
\* no other: every timer is in one bucket, at the place that locations gives.
TwIndexed ==
    /\ \A h \in TwHeld : twWheel.loc[twWheel.at[h[1]][h[2]].key] = [place |-> h[1], index |-> h[2]]
    /\ \A k \in TwKeys : twWheel.loc[k].index # 0 =>
          <<twWheel.loc[k].place, twWheel.loc[k].index>> \in TwHeld
          /\ twWheel.at[twWheel.loc[k].place][twWheel.loc[k].index].key = k

\* A sleep is answered once, never before its time and never after its cancel has
\* been handled; and whenever the timer's thread goes to sleep, every timer it knows
\* is due after the tick it has reached, however late it woke.
TwPunctual ==
    /\ \A k \in TwKeys : twSleep[k].answers > 0 => twSleep[k].answers = 1 /\ twNow >= twSleep[k].deadline
    /\ \A i \in 1 .. Len(twRun.out) :
          LET k == twRun.out[i].key
          IN  twSleep[k].cancel # "done" /\ twSleep[k].answers = 0 /\ twRun.target * TwTick >= twSleep[k].deadline
    /\ twRun.pc \in {"send", "idle"} =>
          \A h \in TwHeld : twWheel.at[h[1]][h[2]].expire > twRun.target

\* The wheel's index is exact and sleeps end once, not early and not late
\* (Wheel::add, cancel, shift, execute).
TwSafe == TwIndexed /\ TwPunctual
=============================================================================
