---------------------------- MODULE KernelProofs ----------------------------
(***************************************************************************)
(* Theorems about the structures of the kernel that many threads use: the  *)
(* two that are read without a lock, the timer, and the log.               *)
(*                                                                         *)
(* HandleTable: what a reader answers is true of some moment of its call,  *)
(* and the table is whole whenever no writer is inside, for any number of  *)
(* readers, writers, names, handles and growths, and any initial size.     *)
(*                                                                         *)
(* Monitor: no false alarm, for any number of polls.  What the worker has  *)
(* stored is a function of where it stands (Words); what the monitor has   *)
(* loaded is pinned by the sequence number it loaded first (Loaded) and by *)
(* the two versions around it (Dated).                                     *)
(*                                                                         *)
(* TimerWheel: a sleep is answered once, not early, not after its cancel   *)
(* was handled, and none is left behind by a late thread, for any sizes    *)
(* and number of levels, any tick and any number of timers.  A timer is on *)
(* the lowest level on which its slot is not the current one (TwFits), so  *)
(* that each turn of a level moves it before it is due; and it is in one   *)
(* of the queue, the wheel and the expired list (TwQueued, TwWaiting,      *)
(* TwExpired).                                                             *)
(*                                                                         *)
(* Logger: no line and no dropped line is unaccounted for, and log files   *)
(* stay bounded, for any limits and any number of lines, days and faults.  *)
(***************************************************************************)
EXTENDS HandleTable, Monitor, TimerWheel, Logger, FiniteSetTheorems, WellFoundedInduction,
        NaturalsInduction, SequenceTheorems, TLAPS

(***************************************************************************)
(* Handle table.                                                           *)
(***************************************************************************)

(* The parts of the inductive invariant.                                   *)
ArraysTyped ==
  /\ htArrays \in Seq(Seq(Nat)) /\ Len(htArrays) > 0
  /\ \A k \in 1 .. Len(htArrays) : Len(htArrays[k]) > 0
BooksTyped ==
  /\ htNext \in Nat /\ htNext > 0
  /\ htLive \in SUBSET HtHandles
  /\ \A n \in DOMAIN htNames : htNames[n] \in HtHandles
WritersTyped ==
  htWriter \in [HtWriters -> [pc : {"idle", "probe", "swap", "retire", "unname", "name"},
                              handle : Nat, name : HtNameSet \cup {0}, copy : Seq(Nat)]]
ReadersTyped ==
  htReader \in [HtReaders -> [pc : {"idle", "slot", "answer"}, op : {"none", "grab", "all"},
                              handle : Nat, array : Nat, at : Nat,
                              found : SUBSET Nat, held : SUBSET Nat, met : SUBSET Nat]]

(* The lock is taken exactly while its holder is inside.                   *)
Locked ==
  /\ htLock \in HtWriters \cup {"free"}
  /\ \A w \in HtWriters : htWriter[w].pc # "idle" <=> htLock = w

(* An array holds exactly the services given, each where its handle points.*)
Places(array, live) ==
  /\ \A h \in live : HtAt(array, h) = h
  /\ \A i \in 1 .. Len(array) :
       array[i] # 0 => array[i] \in live /\ HtSlot(array, array[i]) = i - 1

(* The current array holds the live services at every moment, and so does  *)
(* the copy that is about to replace it.                                   *)
Placed ==
  /\ Places(HtCurrent, htLive)
  /\ \A h \in htLive : h < htNext
  /\ \A w \in HtWriters : htWriter[w].pc = "swap" =>
       Len(htWriter[w].copy) > 0 /\ Places(htWriter[w].copy, htLive)

(* A name leads to a live service, or to the one being retired; the handle *)
(* that is to be named is not that of an empty slot.                       *)
Named ==
  /\ \A n \in DOMAIN htNames :
       \/ htNames[n] \in htLive
       \/ \E w \in HtWriters : htWriter[w].pc = "unname" /\ htWriter[w].handle = htNames[n]
  /\ \A w \in HtWriters : htWriter[w].pc = "name" => htWriter[w].handle # 0

(* The array a reader has loaded, be it replaced or not, holds whoever has *)
(* been there throughout, and nobody the reader has not met.               *)
Sees(me, array) ==
  /\ me.op # "none" /\ (me.op = "grab" => me.handle # 0)
  /\ me.held \subseteq htLive /\ htLive \subseteq me.met
  /\ \A h \in me.held : HtAt(array, h) = h
  /\ \A i \in 1 .. Len(array) : array[i] # 0 => array[i] \in me.met /\ array[i] \in HtHandles

(* What the reader has found so far.                                       *)
Answers(me, array) ==
  /\ me.op = "grab" /\ me.pc = "answer" =>
       /\ me.handle \in me.held => me.handle \in me.found
       /\ me.found \subseteq me.met /\ me.found \subseteq {me.handle}
  /\ me.op = "all" => me.found \subseteq me.met /\ me.found \subseteq HtHandles
  /\ me.op = "all" /\ me.pc = "slot" =>
       /\ me.at \in 1 .. Len(array)
       /\ \A h \in me.held : HtSlot(array, h) + 1 < me.at => h \in me.found
  /\ me.op = "all" /\ me.pc = "answer" => me.held \subseteq me.found

Reading ==
  \A r \in HtReaders : htReader[r].pc # "idle" =>
    /\ htReader[r].array \in 1 .. Len(htArrays)
    /\ Sees(htReader[r], htArrays[htReader[r].array])
    /\ Answers(htReader[r], htArrays[htReader[r].array])

HtTypes == ArraysTyped /\ BooksTyped /\ WritersTyped /\ ReadersTyped
HtInv == HtTypes /\ Locked /\ Placed /\ Named /\ Reading

-----------------------------------------------------------------------------
(* The remainder is what is left after taking out a multiple.              *)
LEMMA ModIs ==
  ASSUME NEW n \in Nat, n > 0, NEW q \in Int, NEW r \in 0 .. (n - 1), NEW g \in Int,
         g = n * q + r
  PROVE  g % n = r
  <1> DEFINE d == g \div n
             m == g % n
  <1>1. d \in Int /\ m \in 0 .. (n - 1) /\ g = n * d + m
    BY SMT
  <1> HIDE DEF d, m
  <1>2. CASE q > d
    <2>1. PICK x \in Nat : q = d + 1 + x
      <3>1. q - d - 1 \in Nat /\ q = d + 1 + (q - d - 1)
        BY <1>1, <1>2
      <3>2. QED
        BY <3>1
    <2>2. n * q = n * d + n + n * x /\ n * x >= 0
      BY <1>1, <2>1
    <2>3. QED
      BY <1>1, <2>2
  <1>3. CASE d > q
    <2>1. PICK x \in Nat : d = q + 1 + x
      <3>1. d - q - 1 \in Nat /\ d = q + 1 + (d - q - 1)
        BY <1>1, <1>3
      <3>2. QED
        BY <3>1
    <2>2. n * d = n * q + n + n * x /\ n * x >= 0
      BY <1>1, <2>1
    <2>3. QED
      BY <1>1, <2>2
  <1>4. CASE d = q
    BY <1>1, <1>4 DEF m
  <1>5. QED
    BY <1>1, <1>2, <1>3, <1>4

(* A remainder is below its divisor.                                       *)
LEMMA ModBelow ==
  ASSUME NEW n \in Nat, n > 0, NEW g \in Int
  PROVE  g % n \in 0 .. (n - 1)
  BY SMT

(* Handles that share a slot of an array twice as long share one now.      *)
LEMMA ModTwice ==
  ASSUME NEW n \in Nat, n > 0, NEW g \in Int, NEW h \in Int, g % (2 * n) = h % (2 * n)
  PROVE  g % n = h % n
  <1>1. PICK t \in Nat : t = 2 * n
    BY SMT
  <1>2. PICK r \in 0 .. (t - 1), p \in Int, q \in Int : g = t * p + r /\ h = t * q + r
    <2>1. /\ g \div t \in Int /\ g = t * (g \div t) + (g % t) /\ g % t \in 0 .. (t - 1)
          /\ h \div t \in Int /\ h = t * (h \div t) + (h % t)
      BY <1>1, SMT
    <2>2. g % t = h % t
      BY <1>1
    <2>3. QED
      BY <2>1, <2>2
  <1>3. t * p = n * (2 * p) /\ t * q = n * (2 * q)
    BY <1>1, SMT
  <1>4. CASE r < n
    <2>1. r \in 0 .. (n - 1) /\ 2 * p \in Int /\ 2 * q \in Int
      BY <1>4
    <2>2. QED
      BY <1>2, <1>3, <2>1, ModIs
  <1>5. CASE r >= n
    <2>1. r - n \in 0 .. (n - 1) /\ 2 * p + 1 \in Int /\ 2 * q + 1 \in Int
      BY <1>1, <1>5
    <2>2. n * (2 * p + 1) = n * (2 * p) + n /\ n * (2 * q + 1) = n * (2 * q) + n
      BY SMT
    <2>3. g = n * (2 * p + 1) + (r - n) /\ h = n * (2 * q + 1) + (r - n)
      BY <1>2, <1>3, <2>2
    <2>4. PICK c \in 0 .. (n - 1), u \in Int, v \in Int : g = n * u + c /\ h = n * v + c
      BY <2>1, <2>3
    <2>5. QED
      BY <2>4, ModIs
  <1>6. QED
    BY <1>2, <1>4, <1>5

(* The slot of a handle is a slot of the array.                            *)
LEMMA SlotIs ==
  ASSUME NEW a \in Seq(Nat), Len(a) > 0, NEW h \in Nat
  PROVE  /\ HtSlot(a, h) \in 0 .. (Len(a) - 1) /\ HtSlot(a, h) + 1 \in 1 .. Len(a)
         /\ HtAt(a, h) = a[HtSlot(a, h) + 1] /\ HtAt(a, h) \in Nat
  <1>1. Len(a) \in Nat /\ a \in [1 .. Len(a) -> Nat]
    BY LenProperties
  <1>2. HtSlot(a, h) \in 0 .. (Len(a) - 1)
    BY <1>1, ModBelow DEF HtSlot
  <1>3. HtSlot(a, h) + 1 \in 1 .. Len(a)
    BY <1>1, <1>2
  <1>4. QED
    BY <1>1, <1>2, <1>3 DEF HtAt

(* What a store changes of an array.                                       *)
LEMMA StoreIs ==
  ASSUME NEW a \in Seq(Nat), Len(a) > 0, NEW h \in Nat, NEW v \in Nat,
         NEW b, b = HtStore(a, HtSlot(a, h), v), NEW p, p = HtSlot(a, h) + 1
  PROVE  /\ p \in 1 .. Len(a) /\ HtSlot(a, h) = p - 1 /\ a[p] = HtAt(a, h)
         /\ b \in Seq(Nat) /\ Len(b) = Len(a) /\ b[p] = v
         /\ \A i \in 1 .. Len(a) : i # p => b[i] = a[i]
         /\ \A g : HtSlot(b, g) = HtSlot(a, g)
  <1>1. p \in 1 .. Len(a) /\ HtSlot(a, h) \in 0 .. (Len(a) - 1)
    BY SlotIs
  <1>2. HtSlot(a, h) = p - 1
    BY <1>1
  <1>3. a[p] = HtAt(a, h)
    BY DEF HtAt
  <1>4. b = [a EXCEPT ![p] = v]
    BY DEF HtStore
  <1>5. /\ b \in Seq(Nat) /\ Len(b) = Len(a) /\ b[p] = v
        /\ \A i \in 1 .. Len(a) : i # p => b[i] = a[i]
    BY <1>1, <1>4, ExceptSeq
  <1>6. \A g : HtSlot(b, g) = HtSlot(a, g)
    BY <1>5 DEF HtSlot
  <1>7. QED
    BY <1>1, <1>2, <1>3, <1>5, <1>6

(* A service stored in an empty slot (register_with).                      *)
LEMMA PlacesAdd ==
  ASSUME NEW a \in Seq(Nat), Len(a) > 0, NEW live \in SUBSET Nat, NEW h \in Nat,
         Places(a, live), HtAt(a, h) = 0, h # 0, 0 \notin live
  PROVE  Places(HtStore(a, HtSlot(a, h), h), live \cup {h})
  <1>1. PICK b : b = HtStore(a, HtSlot(a, h), h)
    OBVIOUS
  <1>2. PICK p : p = HtSlot(a, h) + 1
    OBVIOUS
  <1>3. /\ p \in 1 .. Len(a) /\ HtSlot(a, h) = p - 1 /\ b \in Seq(Nat)
        /\ Len(b) = Len(a) /\ b[p] = h /\ \A i \in 1 .. Len(a) : i # p => b[i] = a[i]
    BY <1>1, <1>2, StoreIs
  <1>4. a[p] = 0 /\ \A g : HtSlot(b, g) = HtSlot(a, g)
    BY <1>1, <1>2, StoreIs
  <1>5. ASSUME NEW g \in live \cup {h} PROVE HtAt(b, g) = g
    <2>0. HtSlot(a, g) + 1 \in 1 .. Len(a)
      BY <1>5, SlotIs
    <2>1. HtAt(b, g) = b[HtSlot(a, g) + 1]
      BY <1>4 DEF HtAt
    <2>2. CASE g = h
      BY <1>2, <1>3, <2>0, <2>1, <2>2
    <2>3. CASE g # h
      <3>1. a[HtSlot(a, g) + 1] = g
        BY <1>5, <2>3 DEF Places, HtAt
      <3>2. QED
        BY <1>3, <1>4, <1>5, <2>0, <2>1, <2>3, <3>1
    <2>4. QED
      BY <2>2, <2>3
  <1>6. ASSUME NEW i \in 1 .. Len(b), b[i] # 0
        PROVE  b[i] \in live \cup {h} /\ HtSlot(b, b[i]) = i - 1
    <2>1. CASE i = p
      BY <1>2, <1>3, <1>4, <2>1
    <2>2. CASE i # p
      BY <1>3, <1>4, <1>6, <2>2 DEF Places
    <2>3. QED
      BY <2>1, <2>2
  <1>7. QED
    BY <1>1, <1>5, <1>6 DEF Places

(* A service taken out of its slot (retire).                               *)
LEMMA PlacesDrop ==
  ASSUME NEW a \in Seq(Nat), Len(a) > 0, NEW live \in SUBSET Nat, NEW h \in Nat,
         Places(a, live), HtAt(a, h) = h
  PROVE  Places(HtStore(a, HtSlot(a, h), 0), live \ {h})
  <1>1. PICK b : b = HtStore(a, HtSlot(a, h), 0)
    OBVIOUS
  <1>2. PICK p : p = HtSlot(a, h) + 1
    OBVIOUS
  <1>3. /\ p \in 1 .. Len(a) /\ HtSlot(a, h) = p - 1 /\ b \in Seq(Nat)
        /\ Len(b) = Len(a) /\ b[p] = 0 /\ \A i \in 1 .. Len(a) : i # p => b[i] = a[i]
    BY <1>1, <1>2, StoreIs
  <1>4. a[p] = h /\ \A g : HtSlot(b, g) = HtSlot(a, g)
    BY <1>1, <1>2, StoreIs
  <1>5. ASSUME NEW g \in live \ {h} PROVE HtAt(b, g) = g
    <2>0. HtSlot(a, g) + 1 \in 1 .. Len(a)
      BY <1>5, SlotIs
    <2>1. HtAt(b, g) = b[HtSlot(a, g) + 1]
      BY <1>4 DEF HtAt
    <2>2. a[HtSlot(a, g) + 1] = g
      BY <1>5 DEF Places, HtAt
    <2>3. QED
      BY <1>3, <1>4, <1>5, <2>0, <2>1, <2>2
  <1>6. ASSUME NEW i \in 1 .. Len(b), b[i] # 0
        PROVE  b[i] \in live \ {h} /\ HtSlot(b, b[i]) = i - 1
    <2>1. i # p /\ b[i] = a[i] /\ a[i] \in live /\ HtSlot(a, a[i]) = i - 1
      BY <1>3, <1>6 DEF Places
    <2>2. a[i] # h
      BY <1>2, <1>3, <1>6, <2>1
    <2>3. QED
      BY <1>4, <2>1, <2>2
  <1>7. QED
    BY <1>1, <1>5, <1>6 DEF Places

(* Growing loses nobody and gives everybody his new place (grow).          *)
LEMMA MovedPlaces ==
  ASSUME NEW a \in Seq(Nat), Len(a) > 0, NEW live \in SUBSET Nat, 0 \notin live,
         Places(a, live)
  PROVE  /\ HtMoved(a) \in Seq(Nat) /\ Len(HtMoved(a)) > 0
         /\ Places(HtMoved(a), live)
  <1>1. PICK n \in Nat : n = Len(a) /\ n > 0 /\ DOMAIN a = 1 .. n /\ a \in [1 .. n -> Nat]
    BY LenProperties
  <1>2. PICK t \in Nat : t = 2 * n /\ t > 0
    BY <1>1
  <1> DEFINE Here(i) == {h \in live : h % t = i - 1}
  <1>3. \A i \in 1 .. t :
          {a[j] : j \in {k \in DOMAIN a : a[k] # 0 /\ a[k] % (2 * Len(a)) = i - 1}} = Here(i)
    <2> SUFFICES ASSUME NEW i \in 1 .. t
                 PROVE  {a[j] : j \in {k \in 1 .. n : a[k] # 0 /\ a[k] % t = i - 1}} = Here(i)
      BY <1>1, <1>2
    <2>1. ASSUME NEW h \in Here(i) PROVE \E k \in 1 .. n : a[k] = h /\ a[k] # 0
      <3>1. HtSlot(a, h) + 1 \in 1 .. n
        BY <1>1, SlotIs
      <3>2. a[HtSlot(a, h) + 1] = h
        BY DEF Places, HtAt
      <3>3. QED
        BY <3>1, <3>2
    <2>2. \A k \in 1 .. n : a[k] # 0 => a[k] \in live
      BY <1>1 DEF Places
    <2>3. QED
      BY <2>1, <2>2
  <1>4. ASSUME NEW i \in 1 .. t, NEW g \in Here(i), NEW h \in Here(i) PROVE g = h
    <2>0. g \in Int /\ h \in Int /\ g % (2 * n) = h % (2 * n)
      BY <1>2
    <2>1. g % n = h % n
      BY <1>1, <2>0, ModTwice
    <2>2. HtSlot(a, g) = HtSlot(a, h)
      BY <1>1, <2>1 DEF HtSlot
    <2>3. HtAt(a, g) = HtAt(a, h) /\ HtAt(a, g) = g /\ HtAt(a, h) = h
      BY <2>2 DEF HtAt, Places
    <2>4. QED
      BY <2>3
  <1>5. PICK m : m = HtMoved(a)
    OBVIOUS
  <1>6. m = [i \in 1 .. t |-> m[i]]
    BY <1>1, <1>2, <1>5 DEF HtMoved
  <1>7. ASSUME NEW i \in 1 .. t PROVE IF Here(i) = {} THEN m[i] = 0 ELSE m[i] \in Here(i)
    <2> DEFINE There ==
          {a[j] : j \in {k \in DOMAIN a : a[k] # 0 /\ a[k] % (2 * Len(a)) = i - 1}}
    <2>1. i \in 1 .. (2 * Len(a))
      BY <1>1, <1>2
    <2>2. m[i] = IF There = {} THEN 0 ELSE CHOOSE h \in There : TRUE
      BY <1>5, <2>1, Zenon DEF HtMoved
    <2>3. There = Here(i)
      BY <1>3
    <2> HIDE DEF There, Here
    <2>4. QED
      BY <2>2, <2>3
  <1>8. m \in [1 .. t -> Nat]
    <2>0. \A i : Here(i) \subseteq Nat
      OBVIOUS
    <2> HIDE DEF Here
    <2>1. \A i \in 1 .. t : m[i] \in Nat
      BY <1>7, <2>0
    <2>2. QED
      BY <1>6, <2>1
  <1>9. m \in Seq(Nat) /\ Len(m) = t
    <2>1. m \in Seq(Nat)
      BY <1>8, SeqDef
    <2>2. Len(m) \in Nat /\ DOMAIN m = 1 .. Len(m)
      BY <2>1, LenProperties
    <2>3. 1 .. t = 1 .. Len(m)
      <3>1. DOMAIN m = 1 .. t
        BY <1>6
      <3>2. QED
        BY <2>2, <3>1
    <2>4. t \in 1 .. t /\ (Len(m) > 0 => Len(m) \in 1 .. Len(m))
      BY <1>2, <2>2
    <2>5. t \in 1 .. Len(m) /\ (Len(m) > 0 => Len(m) \in 1 .. t)
      BY <2>2, <2>3, <2>4
    <2>6. Len(m) \in Nat
      BY <2>2
    <2>7. Len(m) = t
      <3>1. \A l \in Nat : t \in 1 .. l /\ (l > 0 => l \in 1 .. t) => l = t
        BY <1>2
      <3>2. QED
        BY <2>5, <2>6, <3>1
    <2>8. QED
      BY <2>1, <2>7
  <1>10. ASSUME NEW h \in live PROVE HtAt(m, h) = h
    <2>1. h % t \in 0 .. (t - 1)
      BY <1>2, ModBelow
    <2>2. PICK i \in 1 .. t : i = (h % t) + 1 /\ h % t = i - 1
      <3>1. (h % t) + 1 \in 1 .. t /\ h % t = ((h % t) + 1) - 1
        BY <1>2, <2>1
      <3>2. QED
        BY <3>1
    <2>3. h \in Here(i)
      BY <2>2
    <2>4. m[i] = h
      BY <1>4, <1>7, <2>3
    <2>5. QED
      BY <1>9, <2>2, <2>4 DEF HtAt, HtSlot
  <1>11. ASSUME NEW i \in 1 .. t, m[i] # 0 PROVE m[i] \in live /\ HtSlot(m, m[i]) = i - 1
    BY <1>7, <1>9, <1>11 DEF HtSlot
  <1>12. QED
    BY <1>2, <1>5, <1>9, <1>10, <1>11 DEF Places

(* The handle a registration takes is new, and its slot is empty.          *)
LEMMA ChosenIs ==
  ASSUME NEW a \in Seq(Nat), Len(a) > 0, htNext \in Nat, HtTried(a) # {}
  PROVE  HtChosen(a) \in Nat /\ HtChosen(a) >= htNext /\ HtAt(a, HtChosen(a)) = 0
  <1>1. PICK S : S = HtTried(a)
    OBVIOUS
  <1>2. Len(a) \in Nat
    BY LenProperties
  <1>3. \A h \in S : h \in Nat /\ h >= htNext /\ HtAt(a, h) = 0
    BY <1>1, <1>2 DEF HtTried
  <1>4. PICK x \in S : \A y \in S : ~(<<y, x>> \in OpToRel(<, Nat))
    BY <1>1, <1>3, WFMin, NatLessThanWellFounded
  <1>5. ASSUME NEW y \in S PROVE x <= y
    <2>1. ~(<<y, x>> \in {p \in Nat \X Nat : p[1] < p[2]})
      BY <1>4 DEF OpToRel
    <2>2. QED
      BY <1>3, <2>1
  <1>6. HtChosen(a) \in S
    BY <1>1, <1>5 DEF HtChosen
  <1>7. QED
    BY <1>3, <1>6

-----------------------------------------------------------------------------
(* The current array is one of the arrays.                                 *)
LEMMA CurrentIs ==
  ASSUME ArraysTyped
  PROVE  /\ Len(htArrays) \in Nat /\ Len(htArrays) \in 1 .. Len(htArrays)
         /\ HtCurrent \in Seq(Nat) /\ Len(HtCurrent) > 0
         /\ HtCurrent = htArrays[Len(htArrays)]
         /\ \A k \in 1 .. Len(htArrays) : htArrays[k] \in Seq(Nat) /\ Len(htArrays[k]) > 0
  <1>1. Len(htArrays) \in Nat /\ htArrays \in [1 .. Len(htArrays) -> Seq(Nat)]
    BY LenProperties DEF ArraysTyped
  <1>2. QED
    BY <1>1 DEF ArraysTyped, HtCurrent

(* Live services are numbers, and not zero.                                *)
LEMMA LiveIs ==
  ASSUME BooksTyped
  PROVE  htLive \in SUBSET Nat /\ 0 \notin htLive /\ HtHandles \subseteq Nat /\ 0 \notin HtHandles
  BY HtAssumption DEF BooksTyped, HtHandles

(* A store into the current array, and what readers under way make of it.  *)
LEMMA ReadersMeet ==
  ASSUME ArraysTyped, ReadersTyped, Reading, BooksTyped,
         NEW live, live \subseteq HtHandles, htLive' = live, HtWitness(live),
         NEW b \in Seq(Nat), Len(b) = Len(HtCurrent), Places(b, live),
         htArrays' = [htArrays EXCEPT ![Len(htArrays)] = b]
  PROVE  ArraysTyped' /\ ReadersTyped' /\ Reading' /\ HtCurrent' = b
  <1>1. PICK n \in Nat : n = Len(htArrays) /\ n \in 1 .. n /\ Len(b) > 0
    BY CurrentIs
  <1>2. /\ htArrays' \in Seq(Seq(Nat)) /\ Len(htArrays') = n /\ htArrays'[n] = b
        /\ \A k \in 1 .. n : k # n => htArrays'[k] = htArrays[k]
    BY <1>1, ExceptSeq DEF ArraysTyped
  <1>3. ArraysTyped' /\ HtCurrent' = b
    BY <1>1, <1>2, CurrentIs DEF ArraysTyped, HtCurrent
  <1>4. live \subseteq Nat
    BY LiveIs
  <1>5. htReader' = [r \in HtReaders |->
          IF htReader[r].pc = "idle" THEN htReader[r]
          ELSE [htReader[r] EXCEPT !.met = @ \cup live, !.held = @ \cap live]]
    BY DEF HtWitness
  <1>6. ReadersTyped'
    <2>1. PICK R : R = [pc : {"idle", "slot", "answer"}, op : {"none", "grab", "all"},
                        handle : Nat, array : Nat, at : Nat,
                        found : SUBSET Nat, held : SUBSET Nat, met : SUBSET Nat]
      OBVIOUS
    <2>2. \A me \in R : [me EXCEPT !.met = @ \cup live, !.held = @ \cap live] \in R
      BY <1>4, <2>1
    <2>3. htReader' \in [HtReaders -> R]
      BY <1>5, <2>1, <2>2 DEF ReadersTyped
    <2> QED BY <2>1, <2>3 DEF ReadersTyped
  <1>7. ASSUME NEW r \in HtReaders, htReader'[r].pc # "idle"
        PROVE  /\ htReader'[r].array \in 1 .. Len(htArrays')
               /\ Sees(htReader[r], htArrays[htReader[r].array])'
               /\ Answers(htReader[r], htArrays[htReader[r].array])'
    <2>1. PICK me : me = htReader[r]
      OBVIOUS
    <2>2. /\ htReader'[r].pc = me.pc /\ htReader'[r].op = me.op /\ htReader'[r].at = me.at
          /\ htReader'[r].handle = me.handle /\ htReader'[r].array = me.array
          /\ htReader'[r].found = me.found /\ htReader'[r].met = me.met \cup live
          /\ htReader'[r].held = me.held \cap live
      BY <1>5, <1>7, <2>1 DEF ReadersTyped
    <2>3. PICK k \in 1 .. n : k = me.array
      BY <1>1, <1>7, <2>1, <2>2 DEF Reading
    <2>4. Sees(me, htArrays[k]) /\ Answers(me, htArrays[k])
      BY <1>7, <2>1, <2>2, <2>3 DEF Reading
    <2>5. PICK c : c = htArrays'[k]
      OBVIOUS
    <2>6. Len(c) = Len(htArrays[k]) /\ \A h : HtSlot(c, h) = HtSlot(htArrays[k], h)
      BY <1>1, <1>2, <2>5, CurrentIs DEF HtSlot
    <2>7. \A h \in me.held \cap live : HtAt(c, h) = h
      BY <1>2, <2>4, <2>5 DEF Sees, Places
    <2>8. \A i \in 1 .. Len(c) : c[i] # 0 => c[i] \in me.met \cup live /\ c[i] \in HtHandles
      BY <1>2, <2>4, <2>5, <2>6 DEF Sees, Places
    <2>9. Sees(htReader[r], htArrays[htReader[r].array])'
      BY <2>2, <2>3, <2>4, <2>5, <2>7, <2>8 DEF Sees
    <2>10. Answers(htReader[r], htArrays[htReader[r].array])'
      BY <2>2, <2>3, <2>4, <2>5, <2>6 DEF Answers
    <2>11. QED
      BY <1>2, <2>2, <2>3, <2>9, <2>10
  <1>8. QED
    BY <1>3, <1>6, <1>7 DEF Reading

(* What a step of a writer leaves to the readers when it stores nothing.   *)
LEMMA ReadersKeep ==
  ASSUME ArraysTyped, ReadersTyped, Reading, UNCHANGED <<htReader, htLive>>,
         Len(htArrays') \in Nat, Len(htArrays') >= Len(htArrays),
         \A k \in 1 .. Len(htArrays) : htArrays'[k] = htArrays[k]
  PROVE  ReadersTyped' /\ Reading'
  <1>1. Len(htArrays) \in Nat
    BY CurrentIs
  <1>2. ASSUME NEW r \in HtReaders, htReader[r].pc # "idle"
        PROVE  /\ htReader[r].array \in 1 .. Len(htArrays')
               /\ htArrays'[htReader[r].array] = htArrays[htReader[r].array]
    BY <1>1, <1>2 DEF Reading
  <1>3. Reading'
    BY <1>2 DEF Reading, Sees, Answers
  <1>4. QED
    BY <1>3 DEF ReadersTyped

(* Initially nobody is inside and no service is registered.                *)
LEMMA InitInv == HtInit => HtInv
  <1> SUFFICES ASSUME HtInit PROVE HtInv
    OBVIOUS
  <1>1. PICK a : a = HtFresh(HtInitSize)
    OBVIOUS
  <1>2. HtInitSize \in Nat /\ HtInitSize > 0
    BY HtAssumption
  <1>3. a \in [1 .. HtInitSize -> Nat] /\ \A i \in 1 .. HtInitSize : a[i] = 0
    BY <1>1 DEF HtFresh
  <1>4. a \in Seq(Nat) /\ Len(a) = HtInitSize
    <2>1. a \in Seq(Nat)
      BY <1>2, <1>3, SeqDef
    <2>2. Len(a) = HtInitSize
      BY <1>1, <1>2 DEF HtFresh
    <2>3. QED
      BY <2>1, <2>2
  <1>5. htArrays = <<a>> /\ Len(htArrays) = 1 /\ htArrays[1] = a /\ htArrays \in Seq(Seq(Nat))
    BY <1>1, <1>4 DEF HtInit
  <1>6. ArraysTyped /\ HtCurrent = a
    BY <1>2, <1>4, <1>5 DEF ArraysTyped, HtCurrent
  <1>7. BooksTyped
    <2>1. DOMAIN htNames = {}
      BY DEF HtInit
    <2>2. QED
      BY <2>1 DEF HtInit, BooksTyped
  <1>8. WritersTyped /\ Locked
    <2>1. <<>> \in Seq(Nat)
      BY EmptySeq
    <2>2. QED
      BY <2>1, HtAssumption DEF HtInit, HtIdle, WritersTyped, Locked
  <1>9. ReadersTyped /\ Reading
    BY DEF HtInit, HtResting, ReadersTyped, Reading
  <1>10. Placed
    BY <1>3, <1>4, <1>6 DEF HtInit, HtIdle, Placed, Places
  <1>11. Named
    <2>1. DOMAIN htNames = {}
      BY DEF HtInit
    <2>2. QED
      BY <2>1 DEF HtInit, HtIdle, Named
  <1>12. QED
    BY <1>6, <1>7, <1>8, <1>9, <1>10, <1>11 DEF HtInv, HtTypes

-----------------------------------------------------------------------------
(* Whoever is inside is the only one.                                      *)
LEMMA OneInside ==
  ASSUME Locked, NEW w \in HtWriters, htWriter[w].pc # "idle"
  PROVE  htLock = w /\ \A v \in HtWriters \ {w} : htWriter[v].pc = "idle"
  BY DEF Locked

(* A writer that leaves: nobody is inside after that.                      *)
LEMMA ReleaseIs ==
  ASSUME WritersTyped, Locked, NEW w \in HtWriters, htWriter[w].pc # "idle", HtRelease(w)
  PROVE  WritersTyped' /\ Locked' /\ \A v \in HtWriters : htWriter'[v].pc = "idle"
  <1>1. HtIdle \in [pc : {"idle", "probe", "swap", "retire", "unname", "name"},
                    handle : Nat, name : HtNameSet \cup {0}, copy : Seq(Nat)]
    BY EmptySeq DEF HtIdle
  <1>2. HtIdle.pc = "idle"
    BY DEF HtIdle
  <1>3. WritersTyped'
    BY <1>1 DEF WritersTyped, HtRelease
  <1>4. \A v \in HtWriters : htWriter'[v].pc = "idle"
    BY <1>2, OneInside DEF WritersTyped, HtRelease
  <1>5. QED
    BY <1>3, <1>4, HtAssumption DEF HtRelease, Locked

(* A writer that goes on inside.                                           *)
LEMMA GoesOn ==
  ASSUME WritersTyped, Locked, NEW w \in HtWriters, htWriter[w].pc # "idle", UNCHANGED htLock,
         htWriter'[w].pc # "idle", \A v \in HtWriters \ {w} : htWriter'[v] = htWriter[v]
  PROVE  Locked'
  BY DEF Locked

(* alloc.lock().                                                           *)
LEMMA AcquireInv ==
  ASSUME HtInv, NEW w \in HtWriters, NEW pc \in {"probe", "retire", "name"},
         NEW h \in Nat, pc = "name" => h # 0,
         NEW n \in HtNameSet \cup {0}, HtAcquire(w, pc, h, n)
  PROVE  HtInv'
  <1>1. /\ htWriter[w].pc = "idle" /\ htLock = "free" /\ htLock' = w
        /\ UNCHANGED <<htArrays, htNames, htNext, htReader, htLive>>
    BY DEF HtAcquire
  <1>2. PICK e : e = [HtIdle EXCEPT !.pc = pc, !.handle = h, !.name = n]
    OBVIOUS
  <1>3. /\ e \in [pc : {"idle", "probe", "swap", "retire", "unname", "name"},
                  handle : Nat, name : HtNameSet \cup {0}, copy : Seq(Nat)]
        /\ e.pc = pc /\ e.handle = h
    BY <1>2, EmptySeq DEF HtIdle
  <1>4. htWriter' = [htWriter EXCEPT ![w] = e]
    BY <1>2 DEF HtAcquire
  <1>5. ArraysTyped' /\ BooksTyped' /\ ReadersTyped'
    BY <1>1 DEF HtInv, HtTypes, ArraysTyped, BooksTyped, ReadersTyped
  <1>6. WritersTyped'
    BY <1>3, <1>4 DEF HtInv, HtTypes, WritersTyped
  <1>7. /\ htWriter'[w] = e /\ \A v \in HtWriters \ {w} : htWriter'[v] = htWriter[v]
        /\ \A v \in HtWriters : htWriter[v].pc = "idle"
    BY <1>1, <1>4, HtAssumption DEF HtInv, HtTypes, WritersTyped, Locked
  <1>8. Locked'
    BY <1>1, <1>3, <1>7, HtAssumption DEF Locked
  <1>9. Placed' /\ Named'
    BY <1>1, <1>3, <1>7 DEF HtInv, Placed, Named, HtCurrent
  <1>10. Reading'
    BY <1>1 DEF HtInv, Reading, Sees, Answers
  <1>11. QED
    BY <1>5, <1>6, <1>8, <1>9, <1>10 DEF HtInv, HtTypes

(* register_with places the service.                                       *)
LEMMA PlaceInv ==
  ASSUME HtInv, NEW w \in HtWriters, HtPlace(w)
  PROVE  HtInv'
  <1> USE DEF HtInv, HtTypes
  <1>1. PICK a : a = HtCurrent /\ a \in Seq(Nat) /\ Len(a) > 0 /\ Places(a, htLive)
    BY CurrentIs DEF Placed
  <1>2. PICK h : h = HtChosen(a)
    OBVIOUS
  <1>3. h \in Nat /\ h >= htNext /\ HtAt(a, h) = 0
    BY <1>1, <1>2, ChosenIs DEF HtPlace, BooksTyped
  <1>4. PICK b : b = HtStore(a, HtSlot(a, h), h)
    OBVIOUS
  <1>5. /\ htWriter[w].pc = "probe" /\ h <= HtMaxHandle /\ htNext' = h + 1
        /\ htArrays' = [htArrays EXCEPT ![Len(htArrays)] = b]
        /\ htLive' = htLive \cup {h} /\ HtWitness(htLive \cup {h}) /\ HtRelease(w)
        /\ UNCHANGED htNames
    BY <1>1, <1>2, <1>4 DEF HtPlace, HtCurrent
  <1>6. h \in HtHandles /\ h # 0 /\ htLive \cup {h} \subseteq HtHandles
    BY <1>3, <1>5, HtAssumption DEF BooksTyped, HtHandles
  <1>7. b \in Seq(Nat) /\ Len(b) = Len(a)
    BY <1>1, <1>3, <1>4, StoreIs
  <1>8. Places(b, htLive \cup {h})
    BY <1>1, <1>3, <1>4, <1>6, LiveIs, PlacesAdd
  <1>9. ArraysTyped' /\ ReadersTyped' /\ Reading' /\ HtCurrent' = b
    BY <1>1, <1>5, <1>6, <1>7, <1>8, ReadersMeet
  <1>10. WritersTyped' /\ Locked' /\ \A v \in HtWriters : htWriter'[v].pc = "idle"
    BY <1>5, ReleaseIs
  <1>11. BooksTyped'
    BY <1>3, <1>5, <1>6 DEF BooksTyped
  <1>12. Placed'
    <2>1. \A g \in htLive \cup {h} : g < h + 1
      BY <1>3, LiveIs DEF Placed, BooksTyped
    <2>2. QED
      BY <1>5, <1>8, <1>9, <1>10, <2>1 DEF Placed
  <1>13. Named'
    BY <1>5, <1>10, OneInside DEF Named
  <1>14. QED
    BY <1>9, <1>10, <1>11, <1>12, <1>13

(* grow makes the copy, then puts it in place.                             *)
LEMMA GrowInv ==
  ASSUME HtInv, NEW w \in HtWriters, HtGrow(w)
  PROVE  HtInv'
  <1> USE DEF HtInv, HtTypes
  <1>1. PICK m : m = HtMoved(HtCurrent)
    OBVIOUS
  <1>2. m \in Seq(Nat) /\ Len(m) > 0 /\ Places(m, htLive)
    BY <1>1, CurrentIs, LiveIs, MovedPlaces DEF Placed
  <1>3. /\ htWriter[w].pc = "probe"
        /\ htWriter' = [htWriter EXCEPT ![w].pc = "swap", ![w].copy = m]
        /\ UNCHANGED <<htArrays, htNames, htNext, htLock, htReader, htLive>>
    BY <1>1 DEF HtGrow
  <1>4. ArraysTyped' /\ BooksTyped' /\ ReadersTyped'
    BY <1>3 DEF ArraysTyped, BooksTyped, ReadersTyped
  <1>5. WritersTyped'
    BY <1>2, <1>3 DEF WritersTyped
  <1>6. /\ htWriter'[w].pc = "swap" /\ htWriter'[w].copy = m
        /\ \A v \in HtWriters \ {w} : htWriter'[v] = htWriter[v]
    BY <1>3 DEF WritersTyped
  <1>7. Locked'
    BY <1>3, <1>6, GoesOn
  <1>8. Placed' /\ Named'
    BY <1>2, <1>3, <1>6, OneInside DEF Placed, Named, HtCurrent
  <1>9. Reading'
    BY <1>3 DEF Reading, Sees, Answers
  <1>10. QED
    BY <1>4, <1>5, <1>7, <1>8, <1>9

(* The copy holds who is live: nobody was registered or retired since.     *)
LEMMA SwapInv ==
  ASSUME HtInv, NEW w \in HtWriters, HtSwap(w)
  PROVE  HtInv'
  <1> USE DEF HtInv, HtTypes
  <1>1. PICK m : m = htWriter[w].copy /\ m \in Seq(Nat)
    BY DEF WritersTyped
  <1>2. /\ htWriter[w].pc = "swap" /\ htArrays' = Append(htArrays, m)
        /\ htWriter' = [htWriter EXCEPT ![w].pc = "probe", ![w].copy = <<>>]
        /\ UNCHANGED <<htNames, htNext, htLock, htReader, htLive>>
    BY <1>1 DEF HtSwap
  <1>3. Len(m) > 0 /\ Places(m, htLive)
    BY <1>1, <1>2 DEF Placed
  <1>4. PICK n \in Nat : n = Len(htArrays)
    BY CurrentIs
  <1>5. /\ htArrays' \in Seq(Seq(Nat)) /\ Len(htArrays') = n + 1 /\ htArrays'[n + 1] = m
        /\ \A k \in 1 .. n : htArrays'[k] = htArrays[k]
    BY <1>1, <1>2, <1>4, AppendProperties DEF ArraysTyped
  <1>6. ArraysTyped' /\ HtCurrent' = m
    <2>1. \A k \in 1 .. (n + 1) : k = n + 1 \/ k \in 1 .. n
      OBVIOUS
    <2>2. QED
      <3>1. Len(htArrays') \in Nat /\ Len(htArrays') > 0 /\ HtCurrent' = m
        BY <1>4, <1>5 DEF HtCurrent
      <3>2. \A k \in 1 .. n : Len(htArrays[k]) > 0
        BY <1>4 DEF ArraysTyped
      <3>3. \A k \in 1 .. (n + 1) : Len(htArrays'[k]) > 0
        BY <1>3, <1>5, <2>1, <3>2
      <3>4. QED
        BY <1>5, <3>1, <3>3 DEF ArraysTyped
  <1>7. ReadersTyped' /\ Reading'
    BY <1>2, <1>4, <1>5, ReadersKeep
  <1>8. WritersTyped'
    BY <1>2, EmptySeq DEF WritersTyped
  <1>9. htWriter'[w].pc = "probe" /\ \A v \in HtWriters \ {w} : htWriter'[v] = htWriter[v]
    BY <1>2 DEF WritersTyped
  <1>10. Locked' /\ BooksTyped'
    BY <1>2, <1>9, GoesOn DEF BooksTyped
  <1>11. Placed' /\ Named'
    BY <1>2, <1>3, <1>6, <1>9, OneInside DEF Placed, Named
  <1>12. QED
    BY <1>6, <1>7, <1>8, <1>10, <1>11

(* retire empties the slot.                                                *)
LEMMA ClearInv ==
  ASSUME HtInv, NEW w \in HtWriters, HtClear(w)
  PROVE  HtInv'
  <1> USE DEF HtInv, HtTypes
  <1>1. PICK h \in Nat : h = htWriter[w].handle
    BY DEF WritersTyped
  <1>2. PICK a : a = HtCurrent /\ a \in Seq(Nat) /\ Len(a) > 0 /\ Places(a, htLive)
    BY CurrentIs DEF Placed
  <1>3. htWriter[w].pc = "retire" /\ UNCHANGED <<htNames, htNext>>
    BY DEF HtClear
  <1>4. CASE HtRelease(w) /\ UNCHANGED <<htArrays, htLive, htReader>>
    <2>1. WritersTyped' /\ Locked' /\ \A v \in HtWriters : htWriter'[v].pc = "idle"
      BY <1>3, <1>4, ReleaseIs
    <2>2. ArraysTyped' /\ BooksTyped' /\ ReadersTyped' /\ Reading'
      BY <1>3, <1>4 DEF ArraysTyped, BooksTyped, ReadersTyped, Reading, Sees, Answers
    <2>3. Placed' /\ Named'
      BY <1>3, <1>4, <2>1, OneInside DEF Placed, Named, HtCurrent
    <2>4. QED
      BY <2>1, <2>2, <2>3
  <1>5. PICK b : b = HtStore(a, HtSlot(a, h), 0)
    OBVIOUS
  <1>6. CASE /\ HtAt(a, h) = h /\ htArrays' = [htArrays EXCEPT ![Len(htArrays)] = b]
             /\ htLive' = htLive \ {h} /\ HtWitness(htLive \ {h})
             /\ htWriter' = [htWriter EXCEPT ![w].pc = "unname"] /\ UNCHANGED htLock
    <2>0. b \in Seq(Nat) /\ Len(b) = Len(a)
      BY <1>2, <1>5, StoreIs
    <2>1. Places(b, htLive \ {h})
      BY <1>2, <1>5, <1>6, LiveIs, PlacesDrop
    <2>2. htLive \ {h} \subseteq HtHandles
      BY DEF BooksTyped
    <2>3. ArraysTyped' /\ ReadersTyped' /\ Reading' /\ HtCurrent' = b
      BY <1>2, <1>6, <2>0, <2>1, <2>2, ReadersMeet
    <2>4. WritersTyped' /\ BooksTyped'
      BY <1>3, <1>6, <2>2 DEF WritersTyped, BooksTyped
    <2>5. /\ htWriter'[w].pc = "unname" /\ htWriter'[w].handle = h
          /\ \A v \in HtWriters \ {w} : htWriter'[v] = htWriter[v]
      BY <1>1, <1>6 DEF WritersTyped
    <2>6. Locked'
      BY <1>3, <1>6, <2>5, GoesOn
    <2>7. Placed'
      BY <1>3, <1>6, <2>1, <2>3, <2>5, OneInside DEF Placed
    <2>8. Named'
      BY <1>3, <1>6, <2>5, OneInside DEF Named
    <2>9. QED
      BY <2>3, <2>4, <2>6, <2>7, <2>8
  <1>7. QED
    BY <1>1, <1>2, <1>4, <1>5, <1>6 DEF HtClear, HtCurrent

(* retire takes the names away.                                            *)
LEMMA UnnameInv ==
  ASSUME HtInv, NEW w \in HtWriters, HtUnname(w)
  PROVE  HtInv'
  <1> USE DEF HtInv, HtTypes
  <1>1. /\ htWriter[w].pc = "unname" /\ HtRelease(w)
        /\ UNCHANGED <<htArrays, htNext, htReader, htLive>>
        /\ DOMAIN htNames' = {m \in DOMAIN htNames : htNames[m] # htWriter[w].handle}
        /\ \A n \in DOMAIN htNames' : htNames'[n] = htNames[n]
    BY DEF HtUnname
  <1>2. WritersTyped' /\ Locked' /\ \A v \in HtWriters : htWriter'[v].pc = "idle"
    BY <1>1, ReleaseIs
  <1>3. ArraysTyped' /\ BooksTyped' /\ ReadersTyped' /\ Reading'
    BY <1>1 DEF ArraysTyped, BooksTyped, ReadersTyped, Reading, Sees, Answers
  <1>4. Placed'
    BY <1>1, <1>2 DEF Placed, HtCurrent
  <1>5. Named'
    BY <1>1, <1>2, OneInside DEF Named
  <1>6. QED
    BY <1>2, <1>3, <1>4, <1>5

(* register_name names a live service.                                     *)
LEMMA NameInv ==
  ASSUME HtInv, NEW w \in HtWriters, HtName(w)
  PROVE  HtInv'
  <1> USE DEF HtInv, HtTypes
  <1>1. /\ htWriter[w].pc = "name" /\ HtRelease(w)
        /\ UNCHANGED <<htArrays, htNext, htReader, htLive>>
    BY DEF HtName
  <1>2. WritersTyped' /\ Locked' /\ \A v \in HtWriters : htWriter'[v].pc = "idle"
    BY <1>1, ReleaseIs
  <1>3. ArraysTyped' /\ ReadersTyped' /\ Reading'
    BY <1>1 DEF ArraysTyped, ReadersTyped, Reading, Sees, Answers
  <1>4. Placed'
    BY <1>1, <1>2 DEF Placed, HtCurrent
  <1>5. \A n \in DOMAIN htNames : htNames[n] \in htLive
    BY <1>1, OneInside DEF Named
  <1>6. PICK h \in Nat : h = htWriter[w].handle
    BY DEF WritersTyped
  <1>7. HtAt(HtCurrent, h) = h => h \in htLive
    <2>1. HtSlot(HtCurrent, h) + 1 \in 1 .. Len(HtCurrent)
      BY CurrentIs, SlotIs
    <2>2. QED
      BY <1>1, <1>6, <2>1 DEF Placed, Places, HtAt, Named
  <1>8. \A n \in DOMAIN htNames' : htNames'[n] \in htLive
    BY <1>5, <1>6, <1>7 DEF HtName
  <1>9. BooksTyped' /\ Named'
    BY <1>1, <1>2, <1>8 DEF BooksTyped, Named
  <1>10. QED
    BY <1>2, <1>3, <1>4, <1>9

-----------------------------------------------------------------------------
ReaderState == [pc : {"idle", "slot", "answer"}, op : {"none", "grab", "all"},
                handle : Nat, array : Nat, at : Nat,
                found : SUBSET Nat, held : SUBSET Nat, met : SUBSET Nat]

(* A step of a reader changes that reader only.                            *)
LEMMA ReaderStep ==
  ASSUME HtInv, NEW r \in HtReaders, NEW e \in ReaderState,
         htReader' = [htReader EXCEPT ![r] = e],
         UNCHANGED <<htArrays, htNames, htNext, htLock, htWriter, htLive>>,
         e.pc # "idle" => /\ e.array \in 1 .. Len(htArrays)
                          /\ Sees(e, htArrays[e.array]) /\ Answers(e, htArrays[e.array])
  PROVE  HtInv'
  <1> USE DEF HtInv, HtTypes
  <1>1. ArraysTyped' /\ BooksTyped' /\ WritersTyped' /\ Locked' /\ Placed' /\ Named'
    BY DEF ArraysTyped, BooksTyped, WritersTyped, Locked, Placed, Named, HtCurrent
  <1>2. ReadersTyped'
    BY DEF ReadersTyped, ReaderState
  <1>3. htReader'[r] = e /\ \A q \in HtReaders \ {r} : htReader'[q] = htReader[q]
    BY DEF ReadersTyped
  <1>4. Reading'
    <2>1. ASSUME NEW q \in HtReaders, htReader'[q].pc # "idle"
          PROVE  /\ htReader'[q].array \in 1 .. Len(htArrays)
                 /\ Sees(htReader'[q], htArrays[htReader'[q].array])
                 /\ Answers(htReader'[q], htArrays[htReader'[q].array])
      BY <1>3, <2>1 DEF Reading
    <2>2. QED
      BY <2>1 DEF Reading, Sees, Answers
  <1>5. QED
    BY <1>1, <1>2, <1>4

(* A reader loads the current array; everybody in it is live.              *)
LEMMA BeginInv ==
  ASSUME HtInv, NEW r \in HtReaders, NEW op \in {"grab", "all"}, NEW h \in Nat,
         op = "grab" => h # 0, HtBegin(r, op, h)
  PROVE  HtInv'
  <1> USE DEF HtInv, HtTypes
  <1>1. PICK e : e = [pc |-> "slot", op |-> op, handle |-> h, array |-> Len(htArrays), at |-> 1,
                      found |-> {}, held |-> htLive, met |-> htLive]
    OBVIOUS
  <1>2. e \in ReaderState
    BY <1>1, CurrentIs, LiveIs DEF ReaderState
  <1>3. e.array \in 1 .. Len(htArrays) /\ htArrays[e.array] = HtCurrent
    BY <1>1, CurrentIs
  <1>4. Sees(e, HtCurrent)
    BY <1>1 DEF Sees, Placed, Places, BooksTyped
  <1>5. Answers(e, HtCurrent)
    <2>1. Len(HtCurrent) \in Nat /\ Len(HtCurrent) > 0
      BY CurrentIs, LenProperties
    <2>2. \A g \in htLive : HtSlot(HtCurrent, g) \in 0 .. (Len(HtCurrent) - 1)
      BY CurrentIs, LiveIs, SlotIs
    <2>3. \A g \in htLive : ~(HtSlot(HtCurrent, g) + 1 < 1)
      BY <2>2
    <2>4. QED
      BY <1>1, <2>1, <2>3 DEF Answers
  <1>6. /\ htReader' = [htReader EXCEPT ![r] = e]
        /\ UNCHANGED <<htArrays, htNames, htNext, htLock, htWriter, htLive>>
    BY <1>1 DEF HtBegin
  <1>7. QED
    BY <1>2, <1>3, <1>4, <1>5, <1>6, ReaderStep

(* grab compares what is in the slot with the handle it looks for.         *)
LEMMA GrabSlotInv ==
  ASSUME HtInv, NEW r \in HtReaders, HtGrabSlot(r)
  PROVE  HtInv'
  <1> USE DEF HtInv, HtTypes
  <1>1. PICK me \in ReaderState : me = htReader[r]
    BY DEF ReadersTyped, ReaderState
  <1>2. PICK a : a = htArrays[me.array]
    OBVIOUS
  <1>3. /\ me.pc = "slot" /\ me.op = "grab" /\ me.array \in 1 .. Len(htArrays)
        /\ Sees(me, a) /\ a \in Seq(Nat) /\ Len(a) > 0
    BY <1>1, <1>2, CurrentIs DEF HtGrabSlot, Reading
  <1>4. PICK f : f = IF HtAt(a, me.handle) = me.handle THEN {me.handle} ELSE {}
    OBVIOUS
  <1>5. PICK e : e = [me EXCEPT !.pc = "answer", !.found = f]
    OBVIOUS
  <1>6. /\ e \in ReaderState /\ e.pc = "answer" /\ e.op = "grab" /\ e.found = f
        /\ e.handle = me.handle /\ e.array = me.array /\ e.held = me.held /\ e.met = me.met
    BY <1>3, <1>4, <1>5 DEF ReaderState
  <1>7. /\ htReader' = [htReader EXCEPT ![r] = e]
        /\ UNCHANGED <<htArrays, htNames, htNext, htLock, htWriter, htLive>>
    BY <1>1, <1>2, <1>4, <1>5 DEF HtGrabSlot, HtMatches, ReadersTyped
  <1>8. Sees(e, a)
    BY <1>3, <1>6 DEF Sees
  <1>9. Answers(e, a)
    <2>1. e.handle \in e.held => e.handle \in e.found
      BY <1>3, <1>4, <1>6 DEF Sees
    <2>2. HtAt(a, me.handle) = me.handle => me.handle \in me.met
      <3>1. HtSlot(a, me.handle) + 1 \in 1 .. Len(a)
        BY <1>3, SlotIs DEF ReaderState
      <3>2. QED
        BY <1>3, <3>1 DEF Sees, HtAt
    <2>3. QED
      BY <1>4, <1>6, <2>1, <2>2 DEF Answers
  <1>10. QED
    BY <1>2, <1>3, <1>6, <1>7, <1>8, <1>9, ReaderStep

(* contexts walks the array slot by slot.                                  *)
LEMMA WalkSlotInv ==
  ASSUME HtInv, NEW r \in HtReaders, HtWalkSlot(r)
  PROVE  HtInv'
  <1> USE DEF HtInv, HtTypes
  <1>1. PICK me \in ReaderState : me = htReader[r]
    BY DEF ReadersTyped, ReaderState
  <1>2. PICK a : a = htArrays[me.array]
    OBVIOUS
  <1>3. /\ me.pc = "slot" /\ me.op = "all" /\ me.array \in 1 .. Len(htArrays)
        /\ Sees(me, a) /\ Answers(me, a) /\ a \in Seq(Nat) /\ Len(a) > 0
    BY <1>1, <1>2, CurrentIs DEF HtWalkSlot, Reading
  <1>4. PICK i \in 1 .. Len(a) : i = me.at /\ Len(a) \in Nat /\ a[i] \in Nat
    BY <1>3, LenProperties DEF Answers
  <1>5. PICK f \in SUBSET Nat, j \in Nat, pc \in {"slot", "answer"} :
          /\ f = me.found \cup ({a[i]} \ {0}) /\ j = i + 1
          /\ i = Len(a) => pc = "answer"
          /\ i # Len(a) => pc = "slot"
    <2>1. me.found \cup ({a[i]} \ {0}) \in SUBSET Nat /\ i + 1 \in Nat
      BY <1>4 DEF ReaderState
    <2>2. QED
      BY <2>1
  <1>0. PICK e : e = [me EXCEPT !.found = f, !.at = j, !.pc = pc]
    OBVIOUS
  <1>6. /\ e \in ReaderState /\ e.op = "all" /\ e.found = f /\ e.at = j /\ e.pc = pc
        /\ e.array = me.array /\ e.held = me.held /\ e.met = me.met
    BY <1>0, <1>3 DEF ReaderState
  <1>7. /\ htReader' = [htReader EXCEPT ![r] = e]
        /\ UNCHANGED <<htArrays, htNames, htNext, htLock, htWriter, htLive>>
    <2>1. PICK q \in {"slot", "answer"} : q = IF me.at = Len(a) THEN "answer" ELSE "slot"
      OBVIOUS
    <2>2. q = pc
      BY <1>4, <1>5, <2>1
    <2>3. htReader' = [htReader EXCEPT ![r].found = f, ![r].at = j, ![r].pc = q]
      BY <1>1, <1>2, <1>4, <1>5, <2>1 DEF HtWalkSlot, ReadersTyped
    <2>4. QED
      BY <1>0, <1>1, <2>2, <2>3 DEF HtWalkSlot, ReadersTyped
  <1>8. Sees(e, a)
    BY <1>3, <1>6 DEF Sees
  <1>9. Answers(e, a)
    <2>1. e.found \subseteq e.met /\ e.found \subseteq HtHandles
      BY <1>3, <1>4, <1>5, <1>6 DEF Sees, Answers
    <2>2. ASSUME NEW h \in e.held
          PROVE  /\ HtSlot(a, h) + 1 \in 1 .. Len(a)
                 /\ HtSlot(a, h) + 1 < i + 1 => h \in e.found
      <3>1. h \in Nat /\ h # 0 /\ a[HtSlot(a, h) + 1] = h
        BY <1>3, <1>6, LiveIs DEF Sees, HtAt
      <3>2. HtSlot(a, h) + 1 \in 1 .. Len(a)
        BY <1>3, <3>1, SlotIs
      <3>3. HtSlot(a, h) + 1 < i => h \in me.found
        BY <1>3, <1>4, <1>6 DEF Answers
      <3>4. HtSlot(a, h) + 1 = i => h = a[i]
        BY <3>1
      <3>5. HtSlot(a, h) + 1 < i + 1 => HtSlot(a, h) + 1 < i \/ HtSlot(a, h) + 1 = i
        BY <1>4, <3>2
      <3>6. QED
        BY <1>5, <1>6, <3>1, <3>2, <3>3, <3>4, <3>5
    <2>3. CASE i = Len(a)
      <3>1. ASSUME NEW h \in e.held PROVE h \in e.found
        <4>1. HtSlot(a, h) + 1 \in 1 .. i
          BY <2>2, <2>3
        <4>2. HtSlot(a, h) + 1 < i + 1
          BY <1>4, <4>1
        <4>3. QED
          BY <2>2, <4>2
      <3>2. QED
        BY <1>5, <1>6, <2>1, <2>3, <3>1 DEF Answers
    <2>4. CASE i # Len(a)
      <3>1. i + 1 \in 1 .. Len(a)
        BY <1>4, <2>4
      <3>2. QED
        BY <1>5, <1>6, <2>1, <2>2, <2>4, <3>1 DEF Answers
    <2>5. QED
      BY <2>3, <2>4
  <1>10. QED
    BY <1>2, <1>3, <1>6, <1>7, <1>8, <1>9, ReaderStep

(* A reader returns.                                                       *)
LEMMA ReturnInv ==
  ASSUME HtInv, NEW r \in HtReaders, HtReturn(r)
  PROVE  HtInv'
  <1>1. HtResting \in ReaderState /\ HtResting.pc = "idle"
    BY DEF HtResting, ReaderState
  <1>2. QED
    BY <1>1, ReaderStep DEF HtReturn

(* Every step keeps the invariant.                                         *)
LEMMA StepInv ==
  ASSUME HtInv, [HtNext]_htVars
  PROVE  HtInv'
  <1>1. ASSUME NEW w \in HtWriters, HtRegister(w) PROVE HtInv'
    BY <1>1, AcquireInv DEF HtRegister
  <1>2. ASSUME NEW w \in HtWriters, HtRetire(w) PROVE HtInv'
    <2>1. PICK h \in HtHandles : HtAcquire(w, "retire", h, 0)
      BY <1>2 DEF HtRetire
    <2>2. h \in Nat
      BY LiveIs DEF HtInv, HtTypes
    <2>3. QED
      BY <2>1, <2>2, AcquireInv
  <1>3. ASSUME NEW w \in HtWriters, HtRegisterName(w) PROVE HtInv'
    <2>1. PICK h \in HtHandles, n \in HtNameSet : HtAcquire(w, "name", h, n)
      BY <1>3 DEF HtRegisterName
    <2>2. h \in Nat /\ h # 0
      BY LiveIs DEF HtInv, HtTypes
    <2>3. QED
      BY <2>1, <2>2, AcquireInv
  <1>4. ASSUME NEW r \in HtReaders, HtGrab(r) PROVE HtInv'
    <2>1. PICK h \in HtHandles : HtBegin(r, "grab", h)
      BY <1>4 DEF HtGrab
    <2>2. h \in Nat /\ h # 0
      BY LiveIs DEF HtInv, HtTypes
    <2>3. QED
      BY <2>1, <2>2, BeginInv
  <1>5. ASSUME NEW r \in HtReaders, HtContexts(r) PROVE HtInv'
    BY <1>5, BeginInv DEF HtContexts
  <1>6. ASSUME NEW r \in HtReaders, HtFindName(r) PROVE HtInv'
    <2>1. PICK n \in DOMAIN htNames : HtBegin(r, "grab", htNames[n])
      BY <1>6 DEF HtFindName
    <2>2. htNames[n] \in Nat /\ htNames[n] # 0
      BY LiveIs DEF HtInv, HtTypes, BooksTyped
    <2>3. QED
      BY <2>1, <2>2, BeginInv
  <1>7. CASE UNCHANGED htVars
    BY <1>7 DEF htVars, HtInv, HtTypes, ArraysTyped, BooksTyped, WritersTyped, ReadersTyped,
                Locked, Placed, Named, Reading, Sees, Answers, HtCurrent
  <1>8. QED
    BY <1>1, <1>2, <1>3, <1>4, <1>5, <1>6, <1>7, PlaceInv, GrowInv, SwapInv, ClearInv,
       UnnameInv, NameInv, GrabSlotInv, WalkSlotInv, ReturnInv
    DEF HtNext

(* HtInv holds always, however often the array is replaced.                *)
THEOREM TableInductive == HtSpec => []HtInv
  <1>1. HtInv /\ [HtNext]_htVars => HtInv'
    BY StepInv
  <1>2. QED
    BY InitInv, <1>1, PTL DEF HtSpec

(* The answers of grab and contexts are true of some moment of the call,   *)
(* and writers leave the table whole: every live service is where its      *)
(* handle points, nobody else is, and names lead to live services only     *)
(* (HandleStorage: grab, contexts, register_with, grow, retire).           *)
THEOREM TableAlways == HtSpec => []HtSafe
  <1>1. HtInv => HtReadsTrue
    <2> SUFFICES ASSUME HtInv, NEW r \in HtReaders, htReader[r].pc = "answer"
                 PROVE  \E asked \in {IF htReader[r].op = "grab" THEN {htReader[r].handle}
                                                               ELSE HtHandles} :
                          /\ htReader[r].held \cap asked \subseteq htReader[r].found
                          /\ htReader[r].found \subseteq htReader[r].met \cap asked
      BY DEF HtReadsTrue
    <2>1. PICK me : me = htReader[r]
      OBVIOUS
    <2>2. Sees(me, htArrays[me.array]) /\ Answers(me, htArrays[me.array]) /\ me.pc = "answer"
      BY <2>1 DEF HtInv, Reading
    <2>3. me.op \in {"grab", "all"}
      BY <2>1, <2>2 DEF HtInv, HtTypes, ReadersTyped, Sees
    <2>4. QED
      BY <2>1, <2>2, <2>3 DEF Answers
  <1>2. HtInv => HtTable
    <2> SUFFICES ASSUME HtInv, htLock = "free"
                 PROVE  /\ \A h \in htLive : HtAt(HtCurrent, h) = h /\ h < htNext
                        /\ {HtCurrent[i] : i \in DOMAIN HtCurrent} \ {0} = htLive
                        /\ \A n \in DOMAIN htNames : htNames[n] \in htLive
      BY DEF HtTable
    <2> USE DEF HtInv, HtTypes
    <2>1. \A w \in HtWriters : htWriter[w].pc = "idle"
      BY HtAssumption DEF Locked
    <2>2. \A n \in DOMAIN htNames : htNames[n] \in htLive
      BY <2>1 DEF Named
    <2>3. DOMAIN HtCurrent = 1 .. Len(HtCurrent)
      BY CurrentIs, LenProperties
    <2>4. ASSUME NEW h \in htLive
          PROVE  h # 0 /\ \E i \in 1 .. Len(HtCurrent) : HtCurrent[i] = h
      <3>1. HtSlot(HtCurrent, h) + 1 \in 1 .. Len(HtCurrent)
        BY CurrentIs, LiveIs, SlotIs
      <3>2. QED
        BY <3>1, LiveIs DEF Placed, Places, HtAt
    <2>5. \A i \in 1 .. Len(HtCurrent) : HtCurrent[i] # 0 => HtCurrent[i] \in htLive
      BY DEF Placed, Places
    <2>6. {HtCurrent[i] : i \in DOMAIN HtCurrent} \ {0} = htLive
      BY <2>3, <2>4, <2>5
    <2>7. QED
      BY <2>2, <2>6 DEF Placed, Places
  <1>3. HtInv => HtSafe
    BY <1>1, <1>2 DEF HtSafe
  <1>4. QED
    BY <1>3, TableInductive, PTL

(***************************************************************************)
(* Monitor.                                                                *)
(***************************************************************************)
(* The stores of the sequence lock a worker has made within its poll.      *)
Stores(at) == IF at <= 2 THEN 0 ELSE IF at <= 5 THEN 1 ELSE IF at <= 7 THEN 2
              ELSE IF at <= 10 THEN 3 ELSE 4

(* The shared words, as the worker's place determines them.                *)
Words ==
  /\ mnWorker \in [n : Nat \ {0}, at : 1 .. 11]
  /\ mnVersion = 2 * mnWorker.n - (IF mnWorker.at = 1 THEN 2 ELSE 1)
  /\ mnSeq = 4 * mnWorker.n - 4 + Stores(mnWorker.at)
  /\ mnSource = IF mnWorker.at \in 4 .. 8 THEN mnWorker.n ELSE 0
  /\ mnDestination = IF mnWorker.at \in 5 .. 9 THEN mnWorker.n ELSE 0

CheckerTyped ==
  /\ mnChecker \in [pc : {"rest", "seq", "source", "destination", "confirm", "after", "judge"},
                    before : Nat, seq : Nat, route : Nat \X Nat, after : Nat]
  /\ mnChecked \in Nat /\ mnOpen \in Nat
  /\ mnReport \in [route : Nat \X Nat, version : Nat, was : Nat]

(* While the sequence number has not moved since it was loaded, neither    *)
(* has the route; a route that was confirmed is that of one poll.          *)
Loaded ==
  /\ mnChecker.pc \in {"source", "destination", "confirm"} =>
       mnChecker.seq <= mnSeq /\ mnChecker.seq % 2 = 0
  /\ mnChecker.pc = "destination" /\ mnSeq = mnChecker.seq => mnChecker.route[1] = mnSource
  /\ mnChecker.pc = "confirm" /\ mnSeq = mnChecker.seq =>
       mnChecker.route = <<mnSource, mnDestination>>
  /\ mnChecker.pc \in {"after", "judge"} /\ mnChecker.route[2] # 0 =>
       /\ mnChecker.route[1] = mnChecker.route[2]
       /\ mnChecker.seq = 4 * mnChecker.route[2] - 2

(* The versions a check has loaded are in the order of time, and a         *)
(* sequence number that says "poll r is on the route" was loaded while the *)
(* version was that of poll r.                                             *)
Dated ==
  /\ mnChecked <= mnVersion
  /\ mnChecker.pc # "rest" => mnChecked <= mnChecker.before /\ mnChecker.before <= mnVersion
  /\ mnChecker.pc \in {"source", "destination", "confirm", "after", "judge"} =>
       \A r \in Nat \ {0} : mnChecker.seq = 4 * r - 2 =>
         mnChecker.before <= 2 * r - 1 /\ 2 * r - 1 <= mnVersion
  /\ mnChecker.pc = "judge" =>
       /\ mnChecker.before <= mnChecker.after /\ mnChecker.after <= mnVersion
       /\ \A r \in Nat \ {0} : mnChecker.seq = 4 * r - 2 => 2 * r - 1 <= mnChecker.after

(* The version this check goes by has been the same since the check before *)
(* it only if the same poll was under way when that one ended.             *)
Since == IF mnChecker.pc = "rest" THEN mnVersion ELSE mnChecker.before
OpenThen == \A r \in Nat \ {0} : mnChecked = 2 * r - 1 /\ Since = 2 * r - 1 => mnOpen = r

MnInv == Words /\ CheckerTyped /\ Loaded /\ Dated /\ OpenThen /\ MnNoFalseAlarm

-----------------------------------------------------------------------------
(* The worker's stores in their order. *)
LEMMA ScriptIs ==
    /\ MnScript[1] = "version" /\ MnScript[2] = "odd" /\ MnScript[3] = "source"
    /\ MnScript[4] = "destination" /\ MnScript[5] = "even" /\ MnScript[6] = "poll"
    /\ MnScript[7] = "odd" /\ MnScript[8] = "clear_source"
    /\ MnScript[9] = "clear_destination" /\ MnScript[10] = "even"
    /\ MnScript[11] = "version" /\ Len(MnScript) = 11
  BY DEF MnScript

(* The worker's stores keep the words what its place says they are.        *)
LEMMA WorkWords ==
    ASSUME Words, MnWork
    PROVE  /\ Words'
           /\ mnVersion <= mnVersion' /\ mnSeq <= mnSeq'
           /\ mnSeq' = mnSeq /\ mnSeq % 2 = 0 =>
                mnSource' = mnSource /\ mnDestination' = mnDestination
  <1> DEFINE n == mnWorker.n
             at == mnWorker.at
  <1>1. n \in Nat \ {0} /\ at \in 1 .. 11
    BY DEF Words
  <1>2. mnWorker' = IF at = 11 THEN [n |-> n + 1, at |-> 1] ELSE [n |-> n, at |-> at + 1]
    BY ScriptIs DEF MnWork, Words
  <1>3. /\ mnVersion' = IF at \in {1, 11} THEN mnVersion + 1 ELSE mnVersion
        /\ mnSeq' = IF at \in {2, 5, 7, 10} THEN mnSeq + 1 ELSE mnSeq
        /\ mnSource' = IF at = 3 THEN n ELSE IF at = 8 THEN 0 ELSE mnSource
        /\ mnDestination' = IF at = 4 THEN n ELSE IF at = 9 THEN 0 ELSE mnDestination
    <2>1. CASE at \in 1 .. 4
      BY <1>1, <2>1, ScriptIs DEF MnWork, MnStepIs
    <2>2. CASE at \in 5 .. 8
      BY <1>1, <2>2, ScriptIs DEF MnWork, MnStepIs
    <2>3. CASE at \in 9 .. 11
      BY <1>1, <2>3, ScriptIs DEF MnWork, MnStepIs
    <2>4. QED
      BY <1>1, <2>1, <2>2, <2>3
  <1> HIDE DEF n, at
  <1>4. /\ mnVersion = 2 * n - (IF at = 1 THEN 2 ELSE 1)
        /\ mnSeq = 4 * n - 4 + Stores(at)
        /\ mnSource = IF at \in 4 .. 8 THEN n ELSE 0
        /\ mnDestination = IF at \in 5 .. 9 THEN n ELSE 0
    BY DEF Words, n, at
  <1>5. CASE at = 11
    <2>1. mnWorker'.n = n + 1 /\ mnWorker'.at = 1 /\ mnWorker' \in [n : Nat \ {0}, at : 1 .. 11]
      BY <1>1, <1>2, <1>5
    <2>2. QED
      BY <1>1, <1>3, <1>4, <1>5, <2>1 DEF Words, Stores
  <1>6. CASE at # 11
    <2>1. mnWorker'.n = n /\ mnWorker'.at = at + 1 /\ mnWorker' \in [n : Nat \ {0}, at : 1 .. 11]
      BY <1>1, <1>2, <1>6
    <2>2. mnVersion' = 2 * n - (IF at + 1 = 1 THEN 2 ELSE 1)
      BY <1>1, <1>3, <1>4, <1>6
    <2>3. mnSeq' = 4 * n - 4 + Stores(at + 1)
      BY <1>1, <1>3, <1>4, <1>6 DEF Stores
    <2>4. /\ mnSource' = IF at + 1 \in 4 .. 8 THEN n ELSE 0
          /\ mnDestination' = IF at + 1 \in 5 .. 9 THEN n ELSE 0
      BY <1>1, <1>3, <1>4, <1>6
    <2>5. Words'
      BY <2>1, <2>2, <2>3, <2>4 DEF Words
    <2>6. mnVersion <= mnVersion' /\ mnSeq <= mnSeq'
      BY <1>1, <1>3, <1>4 DEF Stores
    <2>7. ASSUME mnSeq' = mnSeq, mnSeq % 2 = 0
          PROVE  mnSource' = mnSource /\ mnDestination' = mnDestination
      BY <1>1, <1>3, <1>4, <2>7 DEF Stores
    <2>8. QED
      BY <2>5, <2>6, <2>7
  <1>7. QED
    BY <1>5, <1>6

(* What an even sequence number says of the route and of the version.      *)
LEMMA EvenSeq ==
    ASSUME Words, mnSeq % 2 = 0
    PROVE  /\ mnSource = mnDestination
           /\ mnDestination # 0 => mnSeq = 4 * mnDestination - 2
           /\ \A r \in Nat \ {0} : mnSeq = 4 * r - 2 => mnVersion = 2 * r - 1
  BY DEF Words, Stores

(* An odd version names the poll under way. *)
LEMMA OddVersion ==
    ASSUME Words, NEW r \in Nat \ {0}, mnVersion = 2 * r - 1
    PROVE  MnUnderWay = r
  BY DEF Words, MnUnderWay

(* Before the first poll. *)
LEMMA MnInitInv == MnInit => MnInv
  BY DEF MnInit, MnInv, Words, Stores, CheckerTyped, Loaded, Dated, OpenThen, Since,
         MnNoFalseAlarm, MnQuiet, MnNothing

(* Every load and store keeps the invariant. *)
LEMMA MnStep ==
    ASSUME MnInv, [MnNext]_mnVars
    PROVE  MnInv'
  <1> USE DEF MnInv
  <1>1. CASE MnWork
    <2>1. /\ Words' /\ mnVersion <= mnVersion' /\ mnSeq <= mnSeq'
          /\ mnSeq' = mnSeq /\ mnSeq % 2 = 0 =>
               mnSource' = mnSource /\ mnDestination' = mnDestination
          /\ mnVersion \in Nat /\ mnVersion' \in Nat /\ mnSeq \in Nat /\ mnSeq' \in Nat
      BY <1>1, WorkWords DEF Words, Stores
    <2>2. UNCHANGED <<mnChecker, mnChecked, mnOpen, mnReport>>
      BY <1>1 DEF MnWork, MnBeside
    <2>3. CheckerTyped' /\ MnNoFalseAlarm'
      BY <2>2 DEF CheckerTyped, MnNoFalseAlarm
    <2>4. Loaded'
      BY <2>1, <2>2 DEF Loaded, CheckerTyped
    <2>5. Dated'
      BY <2>1, <2>2 DEF Dated, CheckerTyped
    <2>6. OpenThen'
      BY <2>1, <2>2 DEF OpenThen, Since, Dated, CheckerTyped
    <2>7. QED
      BY <2>1, <2>3, <2>4, <2>5, <2>6
  <1>2. CASE MnCheck
    <2>1. /\ Words' /\ UNCHANGED <<mnVersion, mnSeq, mnSource, mnDestination>>
          /\ UNCHANGED <<mnChecked, mnOpen, mnReport>>
      BY <1>2 DEF MnCheck, MnShared, Words
    <2>2. /\ mnChecker.pc = "rest"
          /\ mnChecker' = [mnChecker EXCEPT !.pc = "seq", !.before = mnVersion]
      BY <1>2 DEF MnCheck, MnTo
    <2>3. mnVersion \in Nat /\ mnSeq \in Nat /\ mnSource \in Nat /\ mnDestination \in Nat
      BY DEF Words, Stores
    <2>4. CheckerTyped' /\ MnNoFalseAlarm'
      BY <2>1, <2>2, <2>3 DEF CheckerTyped, MnNoFalseAlarm
    <2>5. Loaded'
      BY <2>1, <2>2, <2>3 DEF Loaded, CheckerTyped
    <2>6. Dated'
      BY <2>1, <2>2, <2>3 DEF Dated, CheckerTyped
    <2>7. OpenThen'
      BY <2>1, <2>2, <2>3 DEF OpenThen, Since, Dated, CheckerTyped
    <2>8. QED
      BY <2>1, <2>4, <2>5, <2>6, <2>7
  <1>3. CASE MnLoadSeq
    <2>1. /\ Words' /\ UNCHANGED <<mnVersion, mnSeq, mnSource, mnDestination>>
          /\ UNCHANGED <<mnChecked, mnOpen, mnReport>>
      BY <1>3 DEF MnLoadSeq, MnShared, Words
    <2>2. /\ mnChecker.pc = "seq"
          /\ mnChecker' = [mnChecker EXCEPT !.pc = "source", !.seq = mnSeq]
      BY <1>3 DEF MnLoadSeq, MnTo
    <2>3. /\ mnVersion \in Nat /\ mnSeq \in Nat /\ mnSource \in Nat /\ mnDestination \in Nat
          /\ mnSeq % 2 = 0
          /\ \A r \in Nat \ {0} : mnSeq = 4 * r - 2 => mnVersion = 2 * r - 1
      BY <1>3, EvenSeq DEF Words, Stores, MnLoadSeq
    <2>4. CheckerTyped' /\ MnNoFalseAlarm'
      BY <2>1, <2>2, <2>3 DEF CheckerTyped, MnNoFalseAlarm
    <2>5. Loaded'
      BY <2>1, <2>2, <2>3 DEF Loaded, CheckerTyped
    <2>6. Dated'
      BY <2>1, <2>2, <2>3 DEF Dated, CheckerTyped
    <2>7. OpenThen'
      BY <2>1, <2>2, <2>3 DEF OpenThen, Since, Dated, CheckerTyped
    <2>8. QED
      BY <2>1, <2>4, <2>5, <2>6, <2>7
  <1>4. CASE MnLoadSource
    <2>1. /\ Words' /\ UNCHANGED <<mnVersion, mnSeq, mnSource, mnDestination>>
          /\ UNCHANGED <<mnChecked, mnOpen, mnReport>>
      BY <1>4 DEF MnLoadSource, MnShared, Words
    <2>2. /\ mnChecker.pc = "source"
          /\ mnChecker' = [mnChecker EXCEPT !.pc = "destination", !.route = <<mnSource, 0>>]
      BY <1>4 DEF MnLoadSource, MnTo
    <2>3. mnVersion \in Nat /\ mnSeq \in Nat /\ mnSource \in Nat /\ mnDestination \in Nat
      BY DEF Words, Stores
    <2>4. CheckerTyped' /\ MnNoFalseAlarm'
      BY <2>1, <2>2, <2>3 DEF CheckerTyped, MnNoFalseAlarm
    <2>5. Loaded'
      BY <2>1, <2>2, <2>3 DEF Loaded, CheckerTyped
    <2>6. Dated'
      BY <2>1, <2>2, <2>3 DEF Dated, CheckerTyped
    <2>7. OpenThen'
      BY <2>1, <2>2, <2>3 DEF OpenThen, Since, Dated, CheckerTyped
    <2>8. QED
      BY <2>1, <2>4, <2>5, <2>6, <2>7
  <1>5. CASE MnLoadDestination
    <2>1. /\ Words' /\ UNCHANGED <<mnVersion, mnSeq, mnSource, mnDestination>>
          /\ UNCHANGED <<mnChecked, mnOpen, mnReport>>
      BY <1>5 DEF MnLoadDestination, MnShared, Words
    <2>2. /\ mnChecker.pc = "destination"
          /\ mnChecker' = [mnChecker EXCEPT !.pc = "confirm",
                                            !.route = <<mnChecker.route[1], mnDestination>>]
      BY <1>5 DEF MnLoadDestination, MnTo
    <2>3. mnVersion \in Nat /\ mnSeq \in Nat /\ mnSource \in Nat /\ mnDestination \in Nat
      BY DEF Words, Stores
    <2>4. CheckerTyped' /\ MnNoFalseAlarm'
      BY <2>1, <2>2, <2>3 DEF CheckerTyped, MnNoFalseAlarm
    <2>5. Loaded'
      BY <2>1, <2>2, <2>3 DEF Loaded, CheckerTyped
    <2>6. Dated'
      BY <2>1, <2>2, <2>3 DEF Dated, CheckerTyped
    <2>7. OpenThen'
      BY <2>1, <2>2, <2>3 DEF OpenThen, Since, Dated, CheckerTyped
    <2>8. QED
      BY <2>1, <2>4, <2>5, <2>6, <2>7
  <1>6. CASE MnConfirm
    <2>1. /\ Words' /\ UNCHANGED <<mnVersion, mnSeq, mnSource, mnDestination>>
          /\ UNCHANGED <<mnChecked, mnOpen, mnReport>>
      BY <1>6 DEF MnConfirm, MnShared, Words
    <2>2. /\ mnChecker.pc = "confirm"
          /\ mnChecker' = [mnChecker EXCEPT !.pc = (IF mnSeq = mnChecker.seq THEN "after" ELSE "seq"),
                                            !.seq = mnChecker.seq]
      BY <1>6 DEF MnConfirm, MnTo, MnSameSeq
    <2>3. /\ mnVersion \in Nat /\ mnSeq \in Nat /\ mnSource \in Nat /\ mnDestination \in Nat
          /\ mnSeq % 2 = 0 => /\ mnSource = mnDestination
                              /\ mnDestination # 0 => mnSeq = 4 * mnDestination - 2
      BY EvenSeq DEF Words, Stores
    <2>4. CheckerTyped' /\ MnNoFalseAlarm'
      BY <2>1, <2>2, <2>3 DEF CheckerTyped, MnNoFalseAlarm
    <2>5. Loaded'
      BY <2>1, <2>2, <2>3 DEF Loaded, CheckerTyped
    <2>6. Dated'
      BY <2>1, <2>2, <2>3 DEF Dated, CheckerTyped
    <2>7. OpenThen'
      BY <2>1, <2>2, <2>3 DEF OpenThen, Since, Dated, CheckerTyped
    <2>8. QED
      BY <2>1, <2>4, <2>5, <2>6, <2>7
  <1>7. CASE MnLoadAfter
    <2>1. /\ Words' /\ UNCHANGED <<mnVersion, mnSeq, mnSource, mnDestination>>
          /\ UNCHANGED <<mnChecked, mnOpen, mnReport>>
      BY <1>7 DEF MnLoadAfter, MnShared, Words
    <2>2. /\ mnChecker.pc = "after"
          /\ mnChecker' = [mnChecker EXCEPT !.pc = "judge", !.after = mnVersion]
      BY <1>7 DEF MnLoadAfter, MnTo
    <2>3. mnVersion \in Nat /\ mnSeq \in Nat /\ mnSource \in Nat /\ mnDestination \in Nat
      BY DEF Words, Stores
    <2>4. CheckerTyped' /\ MnNoFalseAlarm'
      BY <2>1, <2>2, <2>3 DEF CheckerTyped, MnNoFalseAlarm
    <2>5. Loaded'
      BY <2>1, <2>2, <2>3 DEF Loaded, CheckerTyped
    <2>6. Dated'
      BY <2>1, <2>2, <2>3 DEF Dated, CheckerTyped
    <2>7. OpenThen'
      BY <2>1, <2>2, <2>3 DEF OpenThen, Since, Dated, CheckerTyped
    <2>8. QED
      BY <2>1, <2>4, <2>5, <2>6, <2>7
  <1>8. CASE MnJudge
    <2>1. /\ Words' /\ UNCHANGED <<mnVersion, mnSeq, mnSource, mnDestination, mnWorker>>
          /\ mnVersion \in Nat
      BY <1>8 DEF MnJudge, MnShared, Words
    <2>2. /\ mnChecker.pc = "judge" /\ mnChecker' = MnQuiet
          /\ mnChecked' = mnChecker.after /\ mnOpen' = MnUnderWay /\ MnUnderWay \in Nat
      BY <1>8 DEF MnJudge, MnUnderWay, Words
    <2>3. ASSUME mnReport' = mnReport PROVE CheckerTyped' /\ MnNoFalseAlarm'
      BY <2>2, <2>3 DEF CheckerTyped, MnNoFalseAlarm, MnQuiet
    <2>4. ASSUME MnStuck(mnChecker), mnChecker.route[2] # 0,
                 mnReport' = [route |-> mnChecker.route, version |-> mnChecker.after,
                              was |-> mnOpen]
          PROVE  CheckerTyped' /\ MnNoFalseAlarm'
      <3> DEFINE r == mnChecker.route[2]
      <3>1. /\ r \in Nat \ {0} /\ mnChecker.route[1] = r /\ mnChecker.seq = 4 * r - 2
            /\ mnChecker.before \in Nat /\ mnChecker.after \in Nat
        BY <2>2, <2>4 DEF Loaded, CheckerTyped
      <3>2. mnChecker.before = mnChecker.after /\ mnChecker.after = mnChecked
        BY <2>4 DEF MnStuck
      <3>3. mnChecker.before <= 2 * r - 1 /\ 2 * r - 1 <= mnChecker.after
        BY <2>2, <3>1 DEF Dated
      <3>4. mnChecker.after = 2 * r - 1 /\ mnOpen = r
        BY <2>2, <3>1, <3>2, <3>3 DEF OpenThen, Since
      <3>5. mnReport'.route = mnChecker.route /\ mnReport'.was = r /\ mnReport'.version = 2 * r - 1
        BY <2>4, <3>4
      <3>6. MnNoFalseAlarm'
        BY <3>1, <3>5 DEF MnNoFalseAlarm
      <3>7. CheckerTyped'
        BY <2>2, <2>4 DEF CheckerTyped, MnQuiet
      <3>8. QED
        BY <3>6, <3>7
    <2>5. CheckerTyped' /\ MnNoFalseAlarm'
      BY <1>8, <2>3, <2>4 DEF MnJudge
    <2>6. Loaded' /\ Dated'
      BY <2>1, <2>2 DEF Loaded, Dated, MnQuiet, CheckerTyped
    <2>7. OpenThen'
      BY <2>1, <2>2, OddVersion DEF OpenThen, Since, Dated, MnQuiet, CheckerTyped
    <2>8. QED
      BY <2>1, <2>5, <2>6, <2>7
  <1>9. CASE UNCHANGED mnVars
    BY <1>9
    DEF mnVars, Words, CheckerTyped, Loaded, Dated, OpenThen, Since, MnNoFalseAlarm
  <1>10. QED
    BY <1>1, <1>2, <1>3, <1>4, <1>5, <1>6, <1>7, <1>8, <1>9 DEF MnNext, MnLook

(* What the monitor reports is one poll, and one that was already under    *)
(* way at the check before: no poll that has just begun and no mixture of  *)
(* two polls (check and read_route of monitor.rs).                         *)
THEOREM MnNoFalseAlarmAlways == MnSpec => []MnNoFalseAlarm
  <1>1. MnInv => MnNoFalseAlarm
    BY DEF MnInv
  <1>2. QED
    BY <1>1, MnInitInv, MnStep, PTL DEF MnSpec

(***************************************************************************)
(* Arithmetic of the wheel, and functions defined by recursion below a     *)
(* bound: the spans of the levels, and the loop of move_list.              *)
(***************************************************************************)
\* A set of numbers has a least one.
LEMMA LeastOf == ASSUME NEW S, S \subseteq Nat, S # {} PROVE \E n \in S : \A m \in S : n <= m
<1>1. PICK n \in S : \A m \in S : ~(<<m, n>> \in OpToRel(<, Nat))
  BY WFMin, NatLessThanWellFounded
<1> SUFFICES ASSUME NEW m \in S PROVE n <= m
  OBVIOUS
<1>2. ~(<<m, n>> \in {p \in Nat \X Nat : p[1] < p[2]})
  BY <1>1 DEF OpToRel
<1> QED BY <1>2

\* Induction, over the set of the numbers that have a property.
LEMMA SetInduction == ASSUME NEW S, 0 \in S, \A n \in Nat : n \in S => n + 1 \in S
                      PROVE  Nat \subseteq S
<1> SUFFICES ASSUME Nat \ S # {} PROVE FALSE
  OBVIOUS
<1>1. PICK n \in Nat \ S : \A m \in Nat \ S : n <= m
  BY LeastOf
<1>2. n # 0 /\ n - 1 \in Nat /\ n - 1 \notin Nat \ S
  BY <1>1
<1> QED BY <1>1, <1>2

\* Division with a remainder.
LEMMA DivMod ==
  ASSUME NEW a \in Nat, NEW b \in Nat \ {0}
  PROVE  a \div b \in Nat /\ a % b \in Nat /\ a % b < b /\ a = (b * (a \div b)) + (a % b)
OBVIOUS

\* Products are a factor apart.
LEMMA MulStep ==
  ASSUME NEW b \in Nat, NEW x \in Nat, NEW y \in Nat, x < y
  PROVE  b * x \in Nat /\ b * y \in Nat /\ (b * x) + b <= b * y
<1>1. y - x - 1 \in Nat
  OBVIOUS
<1> DEFINE z == y - x - 1
<1>2. b * z \in Nat
  BY <1>1
<1>3. b * y = b * (x + (1 + z))
  OBVIOUS
<1>4. b * (x + (1 + z)) = (b * x) + (b + (b * z))
  BY <1>1
<1> QED BY <1>2, <1>3, <1>4

\* What lies between two multiples has the quotient of the lower.
LEMMA DivIs ==
  ASSUME NEW a \in Nat, NEW b \in Nat \ {0}, NEW q \in Nat, b * q <= a, a < (b * q) + b
  PROVE  a \div b = q /\ a % b = a - (b * q)
<1>1. a \div b \in Nat /\ a % b \in Nat /\ a % b < b /\ a = (b * (a \div b)) + (a % b)
  BY DivMod
<1>2. ~(a \div b < q)
  BY <1>1, MulStep
<1>3. ~(q < a \div b)
  BY <1>1, MulStep
<1>4. a \div b = q
  BY <1>1, <1>2, <1>3
<1> QED BY <1>1, <1>4

\* Division keeps the order.
LEMMA DivMono ==
  ASSUME NEW a \in Nat, NEW c \in Nat, NEW b \in Nat \ {0}, a <= c
  PROVE  a \div b <= c \div b
<1>1. /\ a \div b \in Nat /\ a % b \in Nat /\ a % b < b /\ a = (b * (a \div b)) + (a % b)
      /\ c \div b \in Nat /\ c % b \in Nat /\ c % b < b /\ c = (b * (c \div b)) + (c % b)
  BY DivMod
<1> SUFFICES ASSUME c \div b < a \div b PROVE FALSE
  BY <1>1
<1>2. (b * (c \div b)) + b <= b * (a \div b)
  BY <1>1, MulStep
<1> QED BY <1>1, <1>2

\* One tick later.
LEMMA DivNext ==
  ASSUME NEW t \in Nat, NEW b \in Nat \ {0}
  PROVE  (t + 1) \div b = IF (t + 1) % b = 0 THEN (t \div b) + 1 ELSE t \div b
<1>1. t \div b \in Nat /\ t % b \in Nat /\ t % b < b /\ t = (b * (t \div b)) + (t % b)
  BY DivMod
<1> DEFINE q == t \div b
<1>2. b * (q + 1) = (b * q) + b /\ b * q \in Nat
  BY <1>1
<1>3. CASE t % b = b - 1
  <2>1. b * (q + 1) <= t + 1 /\ t + 1 < (b * (q + 1)) + b
    BY <1>1, <1>2, <1>3
  <2>2. q + 1 \in Nat /\ t + 1 \in Nat
    BY <1>1
  <2> HIDE DEF q
  <2>3. (t + 1) \div b = q + 1 /\ (t + 1) % b = (t + 1) - (b * (q + 1))
    BY <2>1, <2>2, DivIs
  <2> QED BY <2>3, <1>1, <1>2, <1>3 DEF q
<1>4. CASE t % b < b - 1
  <2>1. b * q <= t + 1 /\ t + 1 < (b * q) + b
    BY <1>1, <1>2, <1>4
  <2>2. q \in Nat /\ t + 1 \in Nat
    BY <1>1
  <2> HIDE DEF q
  <2>3. (t + 1) \div b = q /\ (t + 1) % b = (t + 1) - (b * q)
    BY <2>1, <2>2, DivIs
  <2> QED BY <2>3, <1>1, <1>2, <1>4 DEF q
<1> QED BY <1>1, <1>3, <1>4

\* A division in two steps.
LEMMA DivTwice ==
  ASSUME NEW a \in Nat, NEW b \in Nat \ {0}, NEW c \in Nat \ {0}
  PROVE  /\ b * c \in Nat \ {0}
         /\ (a \div b) \div c = a \div (b * c)
         /\ a % (b * c) = (b * ((a \div b) % c)) + (a % b)
<1> DEFINE q == a \div b
           Q == q \div c
           s == q % c
           r == a % b
<1>1. q \in Nat /\ r \in Nat /\ r < b /\ a = (b * q) + r
  BY DivMod
<1>2. Q \in Nat /\ s \in Nat /\ s < c /\ q = (c * Q) + s
  <2> HIDE DEF q
  <2> QED BY <1>1, DivMod
<1>0. b * c \in Nat \ {0}
  <2>1. 0 < c /\ b * 0 = 0
    OBVIOUS
  <2> QED BY <2>1, MulStep
<1> HIDE DEF q, Q, s, r
<1>3. (b * s) + b <= b * c /\ b * s \in Nat
  BY <1>2, MulStep
<1>4. a = ((b * c) * Q) + ((b * s) + r)
  <2>1. b * ((c * Q) + s) = ((b * c) * Q) + (b * s)
    BY <1>2
  <2> QED BY <2>1, <1>1, <1>2, <1>3
<1>5. (b * c) * Q <= a /\ a < ((b * c) * Q) + (b * c)
  <2> DEFINE z == (b * c) * Q
  <2>1. z \in Nat
    BY <1>0, <1>2
  <2> HIDE DEF z
  <2>2. a = z + ((b * s) + r)
    BY <1>4 DEF z
  <2>3. z <= a /\ a < z + (b * c)
    BY <2>1, <2>2, <1>0, <1>1, <1>3
  <2> QED BY <2>3 DEF z
<1>6. a \div (b * c) = Q /\ a % (b * c) = a - ((b * c) * Q)
  BY <1>0, <1>2, <1>5, DivIs
<1>7. a - ((b * c) * Q) = (b * s) + r
  <2> DEFINE z == (b * c) * Q
  <2>1. z \in Nat
    BY <1>0, <1>2
  <2> HIDE DEF z
  <2>2. a = z + ((b * s) + r)
    BY <1>4 DEF z
  <2>3. a - z = (b * s) + r
    BY <2>1, <2>2, <1>1, <1>3
  <2> QED BY <2>3 DEF z
<1> QED BY <1>0, <1>6, <1>7 DEF q, Q, s, r

\* A function on the naturals may be defined by its first value and its next.
Iterates(g, S, F, a) == g \in [Nat -> S] /\ g[0] = a /\ \A n \in Nat : g[n + 1] = F[n][g[n]]

\* There is such a function.
LEMMA RecursionHas ==
  ASSUME NEW S, NEW F, F \in [Nat -> [S -> S]], NEW a, a \in S
  PROVE  \E g : Iterates(g, S, F, a)
<1> DEFINE A(n) == {h \in [0 .. n -> S] : h[0] = a /\ \A m \in 0 .. n - 1 : h[m + 1] = F[m][h[m]]}
<1>1. \A n \in Nat : A(n) # {}
  <2> DEFINE P == {n \in Nat : A(n) # {}}
  <2>1. 0 \in P
    <3>1. [m \in 0 .. 0 |-> a] \in A(0)
      OBVIOUS
    <3> QED BY <3>1
  <2>2. ASSUME NEW n \in Nat, n \in P PROVE n + 1 \in P
    <3>1. PICK h \in [0 .. n -> S] : h[0] = a /\ \A m \in 0 .. n - 1 : h[m + 1] = F[m][h[m]]
      BY <2>2
    <3> DEFINE k == [m \in 0 .. n + 1 |-> IF m = n + 1 THEN F[n][h[n]] ELSE h[m]]
    <3>2. h[n] \in S /\ F[n][h[n]] \in S
      BY <3>1
    <3>3. k \in [0 .. n + 1 -> S] /\ k[0] = a
      BY <3>1, <3>2
    <3>4. ASSUME NEW m \in 0 .. n PROVE k[m + 1] = F[m][k[m]]
      <4>1. CASE m = n
        <5>1. n \in 0 .. n + 1 /\ n + 1 \in 0 .. n + 1 /\ n # n + 1
          OBVIOUS
        <5>2. k[n + 1] = F[n][h[n]] /\ k[n] = h[n]
          BY <5>1
        <5> QED BY <4>1, <5>2
      <4>2. CASE m # n
        <5>1. m \in 0 .. n - 1 /\ m + 1 \in 0 .. n /\ m \in 0 .. n
          BY <4>2
        <5>2. k[m + 1] = h[m + 1] /\ k[m] = h[m]
          BY <5>1, <4>2
        <5> QED BY <3>1, <5>1, <5>2
      <4> QED BY <4>1, <4>2
    <3> HIDE DEF k
    <3>5. k \in A(n + 1)
      BY <3>3, <3>4
    <3> QED BY <3>5
  <2> HIDE DEF P
  <2>3. Nat \subseteq P
    BY <2>1, <2>2, SetInduction
  <2> QED BY <2>3 DEF P
<1>2. ASSUME NEW n \in Nat, NEW m \in Nat, n <= m, NEW h \in A(n), NEW k \in A(m)
      PROVE  h[n] = k[n]
  <2> DEFINE P == {i \in Nat : i <= n => h[i] = k[i]}
  <2>1. 0 \in P
    BY <1>2
  <2>2. ASSUME NEW i \in Nat, i \in P PROVE i + 1 \in P
    <3> SUFFICES ASSUME i + 1 <= n PROVE h[i + 1] = k[i + 1]
      OBVIOUS
    <3>1. i \in 0 .. n - 1 /\ i \in 0 .. m - 1 /\ h[i] = k[i]
      BY <1>2, <2>2
    <3>2. h[i + 1] = F[i][h[i]] /\ k[i + 1] = F[i][k[i]]
      BY <1>2, <3>1
    <3> QED BY <3>1, <3>2
  <2> HIDE DEF P
  <2>3. Nat \subseteq P
    BY <2>1, <2>2, SetInduction
  <2> QED BY <2>3 DEF P
<1> DEFINE g == [n \in Nat |-> (CHOOSE h \in A(n) : TRUE)[n]]
<1>3. ASSUME NEW n \in Nat PROVE (CHOOSE h \in A(n) : TRUE) \in A(n)
  <2> HIDE DEF A
  <2> QED BY <1>1
<1>4. ASSUME NEW n \in Nat PROVE \E h \in A(n) : g[n] = h[n]
  <2> HIDE DEF A
  <2> QED BY <1>3
<1> HIDE DEF g
<1>5. g \in [Nat -> S]
  <2>1. ASSUME NEW n \in Nat PROVE g[n] \in S
    <3>1. PICK h \in A(n) : g[n] = h[n]
      BY <1>4
    <3> QED BY <3>1
  <2> QED BY <2>1 DEF g
<1>6. g[0] = a
  <2>1. PICK h \in A(0) : g[0] = h[0]
    BY <1>4
  <2> QED BY <2>1
<1>7. ASSUME NEW n \in Nat PROVE g[n + 1] = F[n][g[n]]
  <2>1. n + 1 \in Nat /\ n <= n + 1
    OBVIOUS
  <2>2. PICK h \in A(n) : g[n] = h[n]
    BY <1>4
  <2>3. PICK k \in A(n + 1) : g[n + 1] = k[n + 1]
    BY <1>4, <2>1
  <2>4. h[n] = k[n]
    <3> HIDE DEF A
    <3> QED BY <1>2, <2>1
  <2>5. k[n + 1] = F[n][k[n]]
    BY <2>3
  <2> QED BY <2>2, <2>3, <2>4, <2>5
<1> QED BY <1>5, <1>6, <1>7 DEF Iterates

\* The spans of the levels are what their recursion says.
LEMMA SpanRec ==
  TwSpan = [l \in 0 .. TwLevels + 1 |-> IF l = 0 THEN 1 ELSE TwSpan[l - 1] * TwSize(l - 1)]
<1>0. PICK F : F = [l \in Nat |-> [x \in Nat |-> x * TwSize(l)]]
  OBVIOUS
<1>1. F \in [Nat -> [Nat -> Nat]]
  <2>1. \A l \in Nat : TwSize(l) \in Nat
    BY TwAssumption DEF TwSize
  <2>2. \A l \in Nat : F[l] \in [Nat -> Nat]
    BY <1>0, <2>1
  <2> QED BY <1>0, <2>2
<1>2. PICK g : g \in [Nat -> Nat] /\ g[0] = 1 /\ \A n \in Nat : g[n + 1] = F[n][g[n]]
  <2>1. 1 \in Nat
    OBVIOUS
  <2>2. \E g : Iterates(g, Nat, F, 1)
    BY <1>1, <2>1, RecursionHas
  <2> QED BY <2>2 DEF Iterates
<1> DEFINE f == [l \in 0 .. TwLevels + 1 |-> g[l]]
<1>3. ASSUME NEW l \in 0 .. TwLevels + 1
      PROVE  g[l] = IF l = 0 THEN 1 ELSE f[l - 1] * TwSize(l - 1)
  <2>1. CASE l = 0
    BY <1>2, <2>1
  <2>2. CASE l # 0
    <3>1. l - 1 \in Nat /\ l - 1 \in 0 .. TwLevels + 1 /\ (l - 1) + 1 = l
      BY <2>2, TwAssumption
    <3>2. g[(l - 1) + 1] = F[l - 1][g[l - 1]] /\ g[l - 1] \in Nat
      BY <1>2, <3>1
    <3>3. F[l - 1][g[l - 1]] = g[l - 1] * TwSize(l - 1)
      BY <1>0, <3>1, <3>2
    <3> QED BY <2>2, <3>1, <3>2, <3>3
  <2> QED BY <2>1, <2>2
<1>4. f = [l \in 0 .. TwLevels + 1 |-> IF l = 0 THEN 1 ELSE f[l - 1] * TwSize(l - 1)]
  BY <1>3
<1> HIDE DEF f
<1> QED BY <1>4 DEF TwSpan

\* A slot of the next level stands for a whole revolution of this one.
LEMMA Spans ==
  /\ TwSpan[0] = 1 /\ TwSpan[1] = TwNear
  /\ \A l \in 0 .. TwLevels + 1 : TwSpan[l] \in Nat \ {0}
  /\ \A l \in 0 .. TwLevels : TwSpan[l + 1] = TwSpan[l] * TwSize(l)
  /\ \A l \in 0 .. TwLevels : TwSize(l) \in Nat \ {0}
<1>0. TwLevels \in Nat /\ TwLevels > 0 /\ TwNear \in Nat \ {0} /\ TwLevel \in Nat \ {0}
  BY TwAssumption
<1>1. \A l \in 0 .. TwLevels : TwSize(l) \in Nat \ {0}
  BY <1>0 DEF TwSize
<1>2. TwSpan[0] = 1
  BY <1>0, SpanRec
<1>3. ASSUME NEW l \in 0 .. TwLevels PROVE TwSpan[l + 1] = TwSpan[l] * TwSize(l)
  <2>1. l + 1 \in 0 .. TwLevels + 1 /\ l + 1 # 0 /\ (l + 1) - 1 = l
    BY <1>0
  <2> QED BY <2>1, SpanRec
<1>4. \A l \in 0 .. TwLevels + 1 : TwSpan[l] \in Nat \ {0}
  <2> DEFINE P == {l \in Nat : l <= TwLevels + 1 => TwSpan[l] \in Nat \ {0}}
  <2>1. 0 \in P
    BY <1>2
  <2>2. ASSUME NEW l \in Nat, l \in P PROVE l + 1 \in P
    <3> SUFFICES ASSUME l + 1 <= TwLevels + 1 PROVE TwSpan[l + 1] \in Nat \ {0}
      OBVIOUS
    <3>1. l \in 0 .. TwLevels /\ TwSpan[l] \in Nat \ {0}
      BY <1>0, <2>2
    <3>2. TwSpan[l] * TwSize(l) \in Nat \ {0}
      BY <3>1, <1>1, DivTwice
    <3> QED BY <3>1, <3>2, <1>3
  <2> HIDE DEF P
  <2>3. Nat \subseteq P
    BY <2>1, <2>2, SetInduction
  <2> QED BY <1>0, <2>3 DEF P
<1>5. TwSpan[1] = TwNear
  <2>1. TwSpan[0 + 1] = TwSpan[0] * TwSize(0)
    BY <1>0, <1>3
  <2> QED BY <1>0, <1>2, <2>1 DEF TwSize
<1> QED BY <1>1, <1>2, <1>3, <1>4, <1>5

(***************************************************************************)
(* Timer.  The wheel, what is in it, where the code may find it, and the   *)
(* way of a timer through the queue, the wheel and the expired list.       *)
(***************************************************************************)
TwEvent == [key : TwKeys, expire : Nat]
TwWheels == [time : Nat, at : [TwPlaces -> Seq(TwEvent)],
             loc : [TwKeys -> [place : TwPlaces, index : Nat]]]
TwCommands == [op : {"arm", "cancel"}, key : TwKeys, expire : Nat]
TwSleeps == [st : {"new", "arming", "armed"}, delay : Nat, deadline : Nat,
             cancel : {"no", "asked", "done"}, answers : Nat]

TwTyped ==
  /\ twWheel \in TwWheels /\ twIn \in Seq(TwCommands) /\ twNow \in Nat
  /\ twRun \in [pc : {"idle", "drain", "turn", "send"}, target : Nat, out : Seq(TwEvent)]
  /\ twSleep \in [TwKeys -> TwSleeps]

\* Wheel w holds event x.
TwHas(w, x) == \E p \in TwPlaces : \E i \in 1 .. Len(w.at[p]) : w.at[p][i] = x

\* The index of wheel w is exact, but for the timers of ks: they are in no bucket and
\* their entries are stale, as in the middle of move_list.
TwExactBut(w, ks) ==
  /\ \A p \in TwPlaces : \A i \in 1 .. Len(w.at[p]) :
       /\ w.loc[w.at[p][i].key] = [place |-> p, index |-> i]
       /\ w.at[p][i].key \notin ks
  /\ \A k \in TwKeys \ ks : w.loc[k].index # 0 =>
       /\ w.loc[k].index \in 1 .. Len(w.at[w.loc[k].place])
       /\ w.at[w.loc[k].place][w.loc[k].index].key = k

\* A timer that expires at e is, at time t, on the lowest level on which its slot is
\* not the current one, and in the slot in which its time will come.
TwFits(t, e, p) ==
  /\ t <= e /\ e < TwEnd
  /\ e \div TwSpan[p[1] + 1] = t \div TwSpan[p[1] + 1]
  /\ p[1] > 0 => e \div TwSpan[p[1]] > t \div TwSpan[p[1]]
  /\ p[2] = (e \div TwSpan[p[1]]) % TwSize(p[1])
TwPlaced(w) ==
  \A p \in TwPlaces : \A i \in 1 .. Len(w.at[p]) : TwFits(w.time, w.at[p][i].expire, p)

TwGood(w) == w \in TwWheels /\ TwExactBut(w, {}) /\ TwPlaced(w) /\ w.time < TwEnd

\* Where the timer's thread is and what the wheel's time is.
TwTimes ==
  /\ twNow < TwEnd * TwTick /\ twRun.target * TwTick <= twNow
  /\ twWheel.time <= twRun.target
  /\ twRun.pc \in {"idle", "send"} => twWheel.time = twRun.target
  /\ twRun.pc = "turn" => twWheel.time < twRun.target
  /\ twRun.pc \in {"idle", "drain"} => twRun.out = <<>>
  /\ twRun.pc # "drain" => \A x \in TwEvent : TwHas(twWheel, x) => x.expire > twWheel.time

\* A timer that was armed and is not answered or cancelled.
TwPends(s) == s.st = "armed" /\ s.answers = 0 /\ s.cancel # "done"

\* The commands of a timer in incoming: its arm, and behind it its cancel.
TwQueued ==
  /\ \A i \in 1 .. Len(twIn) :
       /\ twIn[i].op = "arm" =>
            /\ TwPends(twSleep[twIn[i].key])
            /\ twIn[i].expire = TwExpire(twSleep[twIn[i].key].deadline)
            /\ \A x \in TwEvent : TwHas(twWheel, x) => x.key # twIn[i].key
            /\ \A j \in 1 .. Len(twRun.out) : twRun.out[j].key # twIn[i].key
       /\ twIn[i].op = "cancel" => twSleep[twIn[i].key].cancel = "asked"
  /\ \A i, j \in 1 .. Len(twIn) :
       i < j /\ twIn[i].key = twIn[j].key => twIn[i].op = "arm" /\ twIn[j].op = "cancel"

\* A timer in the wheel or expired is pending and not before its time, and it is in
\* one place.
TwWaiting ==
  \A x \in TwEvent : TwHas(twWheel, x) =>
     /\ TwPends(twSleep[x.key]) /\ x.expire >= TwExpire(twSleep[x.key].deadline)
     /\ \A j \in 1 .. Len(twRun.out) : twRun.out[j].key # x.key
TwExpired ==
  /\ \A i \in 1 .. Len(twRun.out) :
       LET x == twRun.out[i]
       IN  TwPends(twSleep[x.key]) /\ x.expire >= TwExpire(twSleep[x.key].deadline) /\ x.expire <= twRun.target
  /\ \A i, j \in 1 .. Len(twRun.out) : i # j => twRun.out[i].key # twRun.out[j].key
TwAnswered ==
  \A k \in TwKeys :
     /\ twSleep[k].st # "armed" => twSleep[k].cancel = "no" /\ twSleep[k].answers = 0
     /\ twSleep[k].st # "new" => TwExpire(twSleep[k].deadline) < TwEnd
     /\ twSleep[k].answers # 0 => twSleep[k].answers = 1 /\ twSleep[k].deadline <= twNow

TwInductive == /\ TwTyped /\ TwGood(twWheel) /\ TwTimes
               /\ TwQueued /\ TwWaiting /\ TwExpired /\ TwAnswered

\* The constants are numbers.
LEMMA TwNumbers ==
  /\ TwNear \in Nat \ {0} /\ TwLevel \in Nat \ {0} /\ TwLevels \in Nat \ {0} /\ TwTick \in Nat \ {0}
  /\ TwEnd \in Nat \ {0} /\ TwEnd <= TwSpan[TwLevels + 1] /\ TwTimers \in Nat
BY TwAssumption

\* A place is a level and a slot of it.
LEMMA TwPlaceIs ==
  /\ \A p \in TwPlaces : /\ p[1] \in 0 .. TwLevels /\ p[2] \in 0 .. TwSize(p[1]) - 1
                         /\ p = <<p[1], p[2]>>
  /\ \A l \in 0 .. TwLevels : \A s \in 0 .. TwSize(l) - 1 : <<l, s>> \in TwPlaces
BY DEF TwPlaces

\* The spans of a level and of the next.
LEMMA TwLevelIs ==
  ASSUME NEW l \in 0 .. TwLevels
  PROVE  /\ l \in Nat /\ l + 1 \in 0 .. TwLevels + 1 /\ l \in 0 .. TwLevels + 1
         /\ TwSpan[l] \in Nat \ {0} /\ TwSpan[l + 1] \in Nat \ {0} /\ TwSize(l) \in Nat \ {0}
         /\ TwSpan[l + 1] = TwSpan[l] * TwSize(l)
         /\ \A t \in Nat : t \div TwSpan[l] \in Nat /\ (t \div TwSpan[l]) % TwSize(l) \in 0 .. TwSize(l) - 1
<1>1. /\ l \in Nat /\ l + 1 \in 0 .. TwLevels + 1 /\ l \in 0 .. TwLevels + 1
  BY TwNumbers
<1>2. /\ TwSpan[l] \in Nat \ {0} /\ TwSpan[l + 1] \in Nat \ {0} /\ TwSize(l) \in Nat \ {0}
      /\ TwSpan[l + 1] = TwSpan[l] * TwSize(l)
  BY <1>1, Spans
<1>3. ASSUME NEW t \in Nat
      PROVE  t \div TwSpan[l] \in Nat /\ (t \div TwSpan[l]) % TwSize(l) \in 0 .. TwSize(l) - 1
  <2>1. t \div TwSpan[l] \in Nat
    BY <1>2, DivMod
  <2>2. (t \div TwSpan[l]) % TwSize(l) \in Nat /\ (t \div TwSpan[l]) % TwSize(l) < TwSize(l)
    BY <1>2, <2>1, DivMod
  <2> QED BY <1>2, <2>1, <2>2
<1> QED BY <1>1, <1>2, <1>3

\* All of a run is in one revolution of the highest level.
LEMMA TwTop ==
  ASSUME NEW t \in Nat, t < TwEnd
  PROVE  t \div TwSpan[TwLevels + 1] = 0 /\ t % TwSpan[TwLevels + 1] = t
<1> DEFINE b == TwSpan[TwLevels + 1]
<1>1. b \in Nat \ {0} /\ t < b
  <2>1. TwLevels + 1 \in 0 .. TwLevels + 1
    BY TwNumbers
  <2>2. TwSpan[TwLevels + 1] \in Nat \ {0}
    BY <2>1, Spans
  <2> QED BY <2>2, TwNumbers
<1> HIDE DEF b
<1>2. b * 0 = 0 /\ b * 0 <= t /\ t < (b * 0) + b /\ 0 \in Nat
  BY <1>1
<1>3. \A q \in Nat : b * q <= t /\ t < (b * q) + b => t \div b = q /\ t % b = t - (b * q)
  BY <1>1, DivIs
<1>4. t \div b = 0 /\ t % b = t - (b * 0)
  BY <1>2, <1>3
<1> QED BY <1>2, <1>4 DEF b

\* add puts a timer where it fits.
LEMMA TwSelectIs ==
  ASSUME NEW t \in Nat, NEW e \in Nat, t <= e, e < TwEnd
  PROVE  TwBucket(e, TwSelect(t, e)) \in TwPlaces /\ TwFits(t, e, TwBucket(e, TwSelect(t, e)))
<1> DEFINE same(l) == e \div TwSpan[l + 1] = t \div TwSpan[l + 1] \/ l = TwLevels
           S == {l \in 0 .. TwLevels : same(l)}
           sel == TwSelect(t, e)
<1>1. TwLevels \in S /\ S \subseteq Nat
  BY TwNumbers
<1>2. PICK n \in S : \A m \in S : n <= m
  <2> HIDE DEF S
  <2> QED BY <1>1, LeastOf
<1>3. \A m \in 0 .. n - 1 : ~same(m)
  BY <1>2, TwNumbers
<1>4. sel \in 0 .. TwLevels /\ same(sel) /\ \A m \in 0 .. sel - 1 : ~same(m)
  <2> HIDE DEF same
  <2>1. sel = CHOOSE l \in 0 .. TwLevels : same(l) /\ \A m \in 0 .. l - 1 : ~same(m)
    BY DEF sel, TwSelect, same
  <2> QED BY <1>2, <1>3, <2>1
<1> HIDE DEF sel, S
<1>5. e \div TwSpan[sel + 1] = t \div TwSpan[sel + 1]
  <2>1. t < TwEnd
    BY TwNumbers
  <2>2. e \div TwSpan[TwLevels + 1] = 0 /\ t \div TwSpan[TwLevels + 1] = 0
    BY <2>1, TwTop
  <2> QED BY <1>4, <2>2
<1>6. ASSUME sel > 0 PROVE e \div TwSpan[sel] > t \div TwSpan[sel]
  <2>1. sel - 1 \in 0 .. sel - 1 /\ (sel - 1) + 1 = sel /\ sel \in Nat
    BY <1>4, <1>6, TwNumbers
  <2>2. ~same(sel - 1)
    BY <1>4, <2>1
  <2>3. e \div TwSpan[sel] # t \div TwSpan[sel]
    BY <2>1, <2>2
  <2>4. TwSpan[sel] \in Nat \ {0} /\ e \div TwSpan[sel] \in Nat /\ t \div TwSpan[sel] \in Nat
    BY <1>4, TwLevelIs
  <2>5. t \div TwSpan[sel] <= e \div TwSpan[sel]
    BY <2>4, DivMono
  <2> QED BY <2>3, <2>4, <2>5
<1>7. (e \div TwSpan[sel]) % TwSize(sel) \in 0 .. TwSize(sel) - 1
  BY <1>4, TwLevelIs
<1>8. TwBucket(e, sel) \in TwPlaces
  BY <1>4, <1>7, TwPlaceIs DEF TwBucket
<1>9. TwFits(t, e, TwBucket(e, sel))
  BY <1>5, <1>6 DEF TwFits, TwBucket
<1> QED BY <1>8, <1>9 DEF sel

\* The levels that turn over at a tick are the lower ones.
LEMMA TwTurns ==
  ASSUME NEW t \in Nat, t + 1 < TwEnd
  PROVE  \E n \in 1 .. TwLevels + 1 :
            \A m \in 0 .. TwLevels + 1 : (t + 1) % TwSpan[m] = 0 <=> m < n
<1> DEFINE U(m) == (t + 1) % TwSpan[m] = 0
           S == {m \in 0 .. TwLevels + 1 : ~U(m)}
<1>1. ASSUME NEW m \in 0 .. TwLevels, U(m + 1) PROVE U(m)
  <2> DEFINE b == TwSpan[m]
             c == TwSize(m)
             T == t + 1
  <2>1. b \in Nat \ {0} /\ c \in Nat \ {0} /\ TwSpan[m + 1] = b * c /\ T \in Nat
    BY TwLevelIs
  <2>2. T % (b * c) = 0
    BY <1>1, <2>1
  <2> HIDE DEF b, c, T
  <2>3. T % (b * c) = (b * ((T \div b) % c)) + (T % b)
    BY <2>1, DivTwice
  <2>4. T \div b \in Nat /\ T % b \in Nat
    BY <2>1, DivMod
  <2>5. (T \div b) % c \in Nat
    BY <2>1, <2>4, DivMod
  <2>6. b * ((T \div b) % c) \in Nat
    BY <2>1, <2>5
  <2>7. T % b = 0
    BY <2>2, <2>3, <2>4, <2>6
  <2> QED BY <2>7 DEF b, T
<1>2. TwLevels + 1 \in S /\ S \subseteq Nat
  BY TwTop, TwNumbers
<1>3. 0 \notin S
  <2>1. (t + 1) % 1 = 0
    OBVIOUS
  <2> QED BY <2>1, Spans
<1>4. PICK n \in S : \A m \in S : n <= m
  <2> HIDE DEF S
  <2> QED BY <1>2, LeastOf
<1>5. n \in 1 .. TwLevels + 1
  BY <1>3, <1>4, TwNumbers
<1>6. ASSUME NEW m \in 0 .. TwLevels + 1, m < n PROVE U(m)
  BY <1>4, <1>6
<1>7. ASSUME NEW m \in 0 .. TwLevels + 1, m >= n, U(m) PROVE FALSE
  <2> DEFINE V == {x \in n .. TwLevels + 1 : U(x)}
  <2>1. m \in V /\ V \subseteq Nat
    BY <1>5, <1>7, TwNumbers
  <2>2. PICK x \in V : \A y \in V : x <= y
    <3> HIDE DEF V
    <3> QED BY <2>1, LeastOf
  <2>3. x # n /\ x \in n .. TwLevels + 1 /\ U(x)
    BY <1>4, <2>2
  <2>4. x - 1 \in 0 .. TwLevels /\ (x - 1) + 1 = x /\ x - 1 \in n .. TwLevels + 1
    BY <1>5, <2>3, TwNumbers
  <2>5. U(x - 1)
    <3> HIDE DEF U
    <3> QED BY <1>1, <2>3, <2>4
  <2>6. x - 1 \in V
    BY <2>4, <2>5
  <2> QED BY <2>2, <2>4, <2>6
<1> QED
  <2> HIDE DEF U
  <2>1. \A m \in 0 .. TwLevels + 1 : U(m) <=> m < n
    BY <1>5, <1>6, <1>7, TwNumbers
  <2> QED BY <1>5, <2>1 DEF U

\* The parts of a wheel.
LEMMA TwWheelIs ==
  ASSUME NEW w \in TwWheels
  PROVE  /\ w.time \in Nat
         /\ w.at \in [TwPlaces -> Seq(TwEvent)] /\ w.loc \in [TwKeys -> [place : TwPlaces, index : Nat]]
         /\ \A p \in TwPlaces :
              /\ w.at[p] \in Seq(TwEvent) /\ Len(w.at[p]) \in Nat
              /\ \A i \in 1 .. Len(w.at[p]) :
                   /\ w.at[p][i] \in TwEvent /\ w.at[p][i].key \in TwKeys /\ w.at[p][i].expire \in Nat
                   /\ TwHas(w, w.at[p][i])
<1>1. /\ w.time \in Nat
      /\ w.at \in [TwPlaces -> Seq(TwEvent)] /\ w.loc \in [TwKeys -> [place : TwPlaces, index : Nat]]
  BY DEF TwWheels
<1>2. ASSUME NEW p \in TwPlaces
      PROVE  /\ w.at[p] \in Seq(TwEvent) /\ Len(w.at[p]) \in Nat
             /\ \A i \in 1 .. Len(w.at[p]) :
                   /\ w.at[p][i] \in TwEvent /\ w.at[p][i].key \in TwKeys /\ w.at[p][i].expire \in Nat
                   /\ TwHas(w, w.at[p][i])
  <2>1. w.at[p] \in Seq(TwEvent)
    BY <1>1
  <2>2. Len(w.at[p]) \in Nat /\ \A i \in 1 .. Len(w.at[p]) : w.at[p][i] \in TwEvent
    BY <2>1, LenProperties, ElementOfSeq
  <2>3. \A x \in TwEvent : x.key \in TwKeys /\ x.expire \in Nat
    BY DEF TwEvent
  <2>4. \A i \in 1 .. Len(w.at[p]) : TwHas(w, w.at[p][i])
    BY DEF TwHas
  <2> QED BY <2>1, <2>2, <2>3, <2>4
<1> QED BY <1>1, <1>2

\* add: the timer is in one more bucket, where it fits, and its entry is exact.
LEMMA TwAddIs ==
  ASSUME NEW w \in TwWheels, NEW ks, TwExactBut(w, ks), TwPlaced(w), w.time < TwEnd,
         NEW e \in TwEvent, e.expire < TwEnd,
         \A x \in TwEvent : TwHas(w, x) => x.key # e.key
  PROVE  /\ TwAdd(w, e) \in TwWheels /\ TwAdd(w, e).time = w.time
         /\ TwExactBut(TwAdd(w, e), ks \ {e.key}) /\ TwPlaced(TwAdd(w, e))
         /\ \A x \in TwEvent : TwHas(TwAdd(w, e), x) <=>
              TwHas(w, x) \/ x = [key |-> e.key, expire |-> TwDue(w.time, e)]
<1>0. TwEnd \in Nat /\ w.time \in Nat /\ e.expire \in Nat /\ e.key \in TwKeys
  BY TwNumbers, TwWheelIs DEF TwEvent
<1> DEFINE due == TwDue(w.time, e)
<1>1. due \in Nat /\ w.time <= due /\ due < TwEnd
  BY <1>0 DEF TwDue
<1> DEFINE p == TwBucket(due, TwSelect(w.time, due))
<1>2. p \in TwPlaces /\ TwFits(w.time, due, p)
  <2> HIDE DEF due
  <2> QED BY <1>0, <1>1, TwSelectIs
<1> DEFINE d == [key |-> e.key, expire |-> due]
           n == Len(w.at[p])
           v == TwAdd(w, e)
<1>3. [e EXCEPT !.expire = due] = d /\ d \in TwEvent /\ d.key = e.key /\ d.expire = due
  BY <1>0, <1>1 DEF TwEvent
<1>4. v = [w EXCEPT !.at[p] = Append(@, d), !.loc[e.key] = [place |-> p, index |-> n + 1]]
  BY <1>3 DEF TwAdd
<1> HIDE DEF due, p, d, v
<1>5. w.at[p] \in Seq(TwEvent) /\ n \in Nat
  BY <1>2, TwWheelIs
<1>6. /\ Append(w.at[p], d) \in Seq(TwEvent) /\ Len(Append(w.at[p], d)) = n + 1
      /\ \A i \in 1 .. n + 1 : Append(w.at[p], d)[i] = IF i = n + 1 THEN d ELSE w.at[p][i]
  BY <1>3, <1>5, AppendProperties
<1>7. /\ v.time = w.time
      /\ v.at = [w.at EXCEPT ![p] = Append(@, d)]
      /\ v.loc = [w.loc EXCEPT ![e.key] = [place |-> p, index |-> n + 1]]
      /\ v = [time |-> v.time, at |-> v.at, loc |-> v.loc]
  BY <1>4, w \in TwWheels DEF TwWheels
<1>8. /\ v.at[p] = Append(w.at[p], d)
      /\ \A q \in TwPlaces : q # p => v.at[q] = w.at[q]
      /\ v.loc[e.key] = [place |-> p, index |-> n + 1]
      /\ \A k \in TwKeys : k # e.key => v.loc[k] = w.loc[k]
  BY <1>0, <1>2, <1>7, TwWheelIs
<1>9. v \in TwWheels
  <2>1. v.at \in [TwPlaces -> Seq(TwEvent)]
    BY <1>2, <1>6, <1>7, TwWheelIs
  <2>2. v.loc \in [TwKeys -> [place : TwPlaces, index : Nat]]
    BY <1>0, <1>2, <1>5, <1>7, TwWheelIs
  <2> QED BY <1>0, <1>7, <2>1, <2>2 DEF TwWheels
<1> HIDE DEF n
<1>10. \A q \in TwPlaces : Len(v.at[q]) = IF q = p THEN n + 1 ELSE Len(w.at[q])
  BY <1>6, <1>8
<1>11. /\ v.at[p][n + 1] = d /\ n + 1 \in 1 .. Len(v.at[p])
       /\ \A q \in TwPlaces : \A i \in 1 .. Len(w.at[q]) :
             v.at[q][i] = w.at[q][i] /\ i \in 1 .. Len(v.at[q])
       /\ \A q \in TwPlaces : \A i \in 1 .. Len(v.at[q]) :
             (q = p /\ i = n + 1) \/ i \in 1 .. Len(w.at[q])
  <2>1. v.at[p][n + 1] = d /\ n + 1 \in 1 .. Len(v.at[p]) /\ n \in Nat
    BY <1>2, <1>5, <1>6, <1>8, <1>10 DEF n
  <2>2. ASSUME NEW q \in TwPlaces, NEW i \in 1 .. Len(w.at[q])
        PROVE  v.at[q][i] = w.at[q][i] /\ i \in 1 .. Len(v.at[q])
    <3>1. CASE q = p
      <4>1. i \in 1 .. n + 1 /\ i # n + 1
        BY <3>1, <2>1 DEF n
      <4> QED BY <3>1, <4>1, <1>2, <1>6, <1>8, <1>10
    <3>2. CASE q # p
      BY <3>2, <1>8
    <3> QED BY <3>1, <3>2
  <2>3. ASSUME NEW q \in TwPlaces, NEW i \in 1 .. Len(v.at[q])
        PROVE  (q = p /\ i = n + 1) \/ i \in 1 .. Len(w.at[q])
    <3>1. CASE q = p
      BY <3>1, <2>1, <1>10 DEF n
    <3>2. CASE q # p
      BY <3>2, <1>8
    <3> QED BY <3>1, <3>2
  <2> QED BY <2>1, <2>2, <2>3
<1>12. ASSUME NEW q \in TwPlaces, NEW i \in 1 .. Len(w.at[q])
       PROVE  w.at[q][i].key # e.key /\ w.at[q][i].key \in TwKeys
  BY TwWheelIs
<1>13. TwExactBut(v, ks \ {e.key})
  <2>1. ASSUME NEW q \in TwPlaces, NEW i \in 1 .. Len(v.at[q])
        PROVE  /\ v.loc[v.at[q][i].key] = [place |-> q, index |-> i]
               /\ v.at[q][i].key \notin ks \ {e.key}
    <3>1. CASE q = p /\ i = n + 1
      BY <3>1, <1>3, <1>8, <1>11
    <3>2. CASE i \in 1 .. Len(w.at[q])
      <4>1. v.at[q][i] = w.at[q][i] /\ w.at[q][i].key # e.key /\ w.at[q][i].key \in TwKeys
        BY <3>2, <1>11, <1>12
      <4>2. w.loc[w.at[q][i].key] = [place |-> q, index |-> i] /\ w.at[q][i].key \notin ks
        BY <3>2 DEF TwExactBut
      <4> QED BY <4>1, <4>2, <1>8
    <3> QED BY <3>1, <3>2, <1>11
  <2>2. ASSUME NEW k \in TwKeys \ (ks \ {e.key}), v.loc[k].index # 0
        PROVE  /\ v.loc[k].index \in 1 .. Len(v.at[v.loc[k].place])
               /\ v.at[v.loc[k].place][v.loc[k].index].key = k
    <3>1. CASE k = e.key
      BY <3>1, <1>3, <1>8, <1>11
    <3>2. CASE k # e.key
      <4>1. k \in TwKeys \ ks /\ v.loc[k] = w.loc[k] /\ w.loc[k].place \in TwPlaces
        BY <3>2, <1>8, TwWheelIs
      <4>2. /\ w.loc[k].index \in 1 .. Len(w.at[w.loc[k].place])
            /\ w.at[w.loc[k].place][w.loc[k].index].key = k
        BY <2>2, <4>1 DEF TwExactBut
      <4> QED BY <4>1, <4>2, <1>11
    <3> QED BY <3>1, <3>2
  <2> QED BY <2>1, <2>2 DEF TwExactBut
<1>14. TwPlaced(v)
  <2> SUFFICES ASSUME NEW q \in TwPlaces, NEW i \in 1 .. Len(v.at[q])
               PROVE  TwFits(v.time, v.at[q][i].expire, q)
    BY DEF TwPlaced
  <2>1. CASE q = p /\ i = n + 1
    BY <2>1, <1>2, <1>3, <1>7, <1>11
  <2>2. CASE i \in 1 .. Len(w.at[q])
    <3>1. TwFits(w.time, w.at[q][i].expire, q)
      BY <2>2 DEF TwPlaced
    <3> QED BY <2>2, <3>1, <1>7, <1>11
  <2> QED BY <2>1, <2>2, <1>11
<1>15. ASSUME NEW x \in TwEvent PROVE TwHas(v, x) <=> TwHas(w, x) \/ x = d
  <2>1. ASSUME TwHas(v, x) PROVE TwHas(w, x) \/ x = d
    <3>1. PICK q \in TwPlaces : \E i \in 1 .. Len(v.at[q]) : v.at[q][i] = x
      BY <2>1 DEF TwHas
    <3>2. PICK i \in 1 .. Len(v.at[q]) : v.at[q][i] = x
      BY <3>1
    <3> QED BY <3>2, <1>11 DEF TwHas
  <2>2. ASSUME TwHas(w, x) PROVE TwHas(v, x)
    BY <2>2, <1>11 DEF TwHas
  <2>3. ASSUME x = d PROVE TwHas(v, x)
    BY <2>3, <1>2, <1>11 DEF TwHas
  <2> QED BY <2>1, <2>2, <2>3
<1> QED BY <1>7, <1>9, <1>13, <1>14, <1>15 DEF v, d, due

\* cancel: the timer is in no bucket, and the last of its bucket has its place.
LEMMA TwCancelIs ==
  ASSUME NEW w, TwGood(w), NEW k \in TwKeys
  PROVE  /\ TwGood(TwCancelled(w, k)) /\ TwCancelled(w, k).time = w.time
         /\ \A x \in TwEvent : TwHas(TwCancelled(w, k), x) <=> TwHas(w, x) /\ x.key # k
<1>0. w \in TwWheels /\ TwExactBut(w, {}) /\ TwPlaced(w) /\ w.time < TwEnd
  BY DEF TwGood
<1>1. CASE w.loc[k].index = 0
  <2>1. TwCancelled(w, k) = w
    BY <1>1 DEF TwCancelled
  <2>2. ASSUME NEW x \in TwEvent, TwHas(w, x) PROVE x.key # k
    <3>1. PICK p \in TwPlaces : \E i \in 1 .. Len(w.at[p]) : w.at[p][i] = x
      BY <2>2 DEF TwHas
    <3>2. PICK i \in 1 .. Len(w.at[p]) : w.at[p][i] = x
      BY <3>1
    <3>3. w.loc[x.key] = [place |-> p, index |-> i] /\ Len(w.at[p]) \in Nat
      BY <1>0, <3>2, TwWheelIs DEF TwExactBut
    <3> QED BY <1>1, <3>3
  <2> QED BY <2>1, <2>2
<1>2. CASE w.loc[k].index # 0
  <2> DEFINE p == w.loc[k].place
             i == w.loc[k].index
             n == Len(w.at[p])
             s == w.at[p]
             moved == w.at[p][n].key
             v == TwCancelled(w, k)
  <2>1. p \in TwPlaces /\ i \in 1 .. n /\ s[i].key = k
    BY <1>0, <1>2, TwWheelIs DEF TwExactBut
  <2>2. s \in Seq(TwEvent) /\ n \in Nat /\ n \in 1 .. n /\ s[n] \in TwEvent /\ moved \in TwKeys
    BY <1>0, <2>1, TwWheelIs
  <2>3. w.loc[moved] = [place |-> p, index |-> n]
    BY <1>0, <2>1, <2>2 DEF TwExactBut
  <2>4. v = [w EXCEPT !.at[p] = SubSeq([@ EXCEPT ![i] = w.at[p][n]], 1, n - 1),
                      !.loc = [@ EXCEPT ![moved] = [place |-> p, index |-> i], ![k] = TwNowhere]]
    BY <1>2 DEF TwCancelled
  <2> DEFINE r == SubSeq([s EXCEPT ![i] = s[n]], 1, n - 1)
  <2> HIDE DEF v
  <2>5. /\ v.time = w.time
        /\ v.at = [w.at EXCEPT ![p] = r]
        /\ v.loc = [w.loc EXCEPT ![moved] = [place |-> p, index |-> i], ![k] = TwNowhere]
        /\ v = [time |-> v.time, at |-> v.at, loc |-> v.loc]
    BY <2>4, <1>0 DEF TwWheels
  <2> HIDE DEF p, i, moved
  <2>6. /\ r \in Seq(TwEvent) /\ Len(r) = n - 1
        /\ \A j \in 1 .. n - 1 : r[j] = IF j = i THEN s[n] ELSE s[j]
    <3> HIDE DEF n, s
    <3>1. [s EXCEPT ![i] = s[n]] \in Seq(TwEvent) /\ Len([s EXCEPT ![i] = s[n]]) = n
      BY <2>1, <2>2, ExceptSeq DEF n, s
    <3>2. \A j \in 1 .. n : [s EXCEPT ![i] = s[n]][j] = IF j = i THEN s[n] ELSE s[j]
      BY <2>1, <2>2, ExceptSeq DEF n, s
    <3> QED BY <2>1, <2>2, <3>1, <3>2, SubSeqProperties
  <2> HIDE DEF r
  <2>7. v.at[p] = r /\ \A q \in TwPlaces : q # p => v.at[q] = w.at[q]
    BY <2>1, <2>5, <1>0, TwWheelIs
  <2>8. /\ v.loc[k].index = 0 /\ (moved # k => v.loc[moved] = [place |-> p, index |-> i])
        /\ \A m \in TwKeys : m # k /\ m # moved => v.loc[m] = w.loc[m]
    BY <2>2, <2>5, <1>0, TwWheelIs DEF TwNowhere
  <2>9. v \in TwWheels
    <3>1. <<0, 0>> \in TwPlaces
      BY TwPlaceIs, TwLevelIs, TwNumbers
    <3>2. TwNowhere \in [place : TwPlaces, index : Nat] /\ [place |-> p, index |-> i] \in [place : TwPlaces, index : Nat]
      BY <2>1, <2>2, <3>1 DEF TwNowhere
    <3>3. v.loc \in [TwKeys -> [place : TwPlaces, index : Nat]]
      <4>1. PICK R : R = [place : TwPlaces, index : Nat]
        OBVIOUS
      <4>2. w.loc \in [TwKeys -> R] /\ TwNowhere \in R /\ [place |-> p, index |-> i] \in R
        BY <3>2, <4>1, <1>0, TwWheelIs
      <4>3. v.loc \in [TwKeys -> R]
        BY <2>5, <4>2
      <4> QED BY <4>1, <4>3
    <3>4. v.at \in [TwPlaces -> Seq(TwEvent)]
      <4>1. PICK R : R = Seq(TwEvent)
        OBVIOUS
      <4>2. w.at \in [TwPlaces -> R] /\ r \in R
        BY <2>6, <4>1, <1>0, TwWheelIs
      <4>3. v.at \in [TwPlaces -> R]
        BY <2>5, <4>2
      <4> QED BY <4>1, <4>3
    <3> QED BY <2>5, <3>3, <3>4, <1>0, TwWheelIs DEF TwWheels
  <2>10. \A q \in TwPlaces : \A j \in 1 .. Len(w.at[q]) : w.at[q][j].key = k => q = p /\ j = i
    <3> SUFFICES ASSUME NEW q \in TwPlaces, NEW j \in 1 .. Len(w.at[q]), w.at[q][j].key = k
                 PROVE  q = p /\ j = i
      OBVIOUS
    <3>1. w.loc[k] = [place |-> q, index |-> j]
      BY <1>0 DEF TwExactBut
    <3> QED BY <3>1 DEF p, i
  <2>11. moved = k => i = n
    BY <2>1, <2>2, <2>3 DEF i
  \* What a place holds now was there or was the last of the bucket.
  <2>12. ASSUME NEW q \in TwPlaces, NEW j \in 1 .. Len(v.at[q])
         PROVE  /\ j \in 1 .. Len(w.at[q]) /\ (q = p => j < n)
                /\ v.at[q][j] = IF q = p /\ j = i THEN s[n] ELSE w.at[q][j]
    <3>1. CASE q = p
      <4>1. j \in 1 .. n - 1
        BY <3>1, <2>6, <2>7
      <4> QED BY <3>1, <4>1, <2>2, <2>6, <2>7
    <3>2. CASE q # p
      BY <3>2, <2>7
    <3> QED BY <3>1, <3>2
  <2>13. TwExactBut(v, {})
    <3>1. ASSUME NEW q \in TwPlaces, NEW j \in 1 .. Len(v.at[q])
          PROVE  v.loc[v.at[q][j].key] = [place |-> q, index |-> j]
      <4>1. j \in 1 .. Len(w.at[q]) /\ (q = p => j < n)
            /\ v.at[q][j] = IF q = p /\ j = i THEN s[n] ELSE w.at[q][j]
        BY <2>12
      <4>2. CASE q = p /\ j = i
        <5>1. moved # k
          BY <4>1, <4>2, <2>2, <2>11
        <5>2. v.at[q][j].key = moved
          BY <4>1, <4>2 DEF moved
        <5> QED BY <4>2, <5>1, <5>2, <2>8
      <4>3. CASE ~(q = p /\ j = i)
        <5>1. w.at[q][j].key # k /\ w.at[q][j].key \in TwKeys /\ v.at[q][j] = w.at[q][j]
          BY <4>1, <4>3, <2>10, <1>0, TwWheelIs
        <5>2. w.loc[w.at[q][j].key] = [place |-> q, index |-> j]
          BY <4>1, <1>0 DEF TwExactBut
        <5>3. w.at[q][j].key # moved
          <6> SUFFICES ASSUME w.at[q][j].key = moved PROVE FALSE
            OBVIOUS
          <6>1. q = p /\ j = n
            BY <2>3, <5>2
          <6> QED BY <6>1, <4>1, <2>2
        <5> QED BY <5>1, <5>2, <5>3, <2>8
      <4> QED BY <4>2, <4>3
    <3>2. ASSUME NEW m \in TwKeys, v.loc[m].index # 0
          PROVE  /\ v.loc[m].index \in 1 .. Len(v.at[v.loc[m].place])
                 /\ v.at[v.loc[m].place][v.loc[m].index].key = m
      <4>0. m # k
        BY <3>2, <2>8
      <4>1. CASE m = moved
        <5>1. v.loc[m].place = p /\ v.loc[m].index = i
          BY <4>0, <4>1, <2>8
        <5>2. i # n
          BY <4>0, <4>1, <2>1 DEF moved
        <5>3. i \in 1 .. n - 1
          BY <5>2, <2>1, <2>2
        <5>4. r[i].key = m
          BY <5>3, <4>1, <2>6 DEF moved
        <5> QED BY <5>1, <5>3, <5>4, <2>6, <2>7
      <4>2. CASE m # moved
        <5>1. v.loc[m] = w.loc[m] /\ w.loc[m].place \in TwPlaces
          BY <4>0, <4>2, <2>8, <1>0, TwWheelIs
        <5>2. /\ w.loc[m].index \in 1 .. Len(w.at[w.loc[m].place])
              /\ w.at[w.loc[m].place][w.loc[m].index].key = m
          BY <1>0, <3>2, <5>1 DEF TwExactBut
        <5>3. CASE w.loc[m].place = p
          <6>1. w.loc[m].index # n /\ w.loc[m].index # i
            BY <4>0, <4>2, <5>2, <5>3, <2>1 DEF moved
          <6>2. w.loc[m].index \in 1 .. n - 1
            BY <5>2, <5>3, <6>1, <2>2
          <6> QED BY <5>1, <5>2, <5>3, <6>1, <6>2, <2>6, <2>7
        <5>4. CASE w.loc[m].place # p
          BY <5>1, <5>2, <5>4, <2>7
        <5> QED BY <5>3, <5>4
      <4> QED BY <4>1, <4>2
    <3> QED BY <3>1, <3>2 DEF TwExactBut
  <2>14. TwPlaced(v)
    <3> SUFFICES ASSUME NEW q \in TwPlaces, NEW j \in 1 .. Len(v.at[q])
                 PROVE  TwFits(v.time, v.at[q][j].expire, q)
      BY DEF TwPlaced
    <3>1. PICK m \in 1 .. Len(w.at[q]) : v.at[q][j] = w.at[q][m]
      BY <2>12, <2>2
    <3>2. TwFits(w.time, w.at[q][m].expire, q)
      BY <1>0 DEF TwPlaced
    <3> QED BY <3>1, <3>2, <2>5
  <2>15. ASSUME NEW x \in TwEvent PROVE TwHas(v, x) <=> TwHas(w, x) /\ x.key # k
    <3>1. ASSUME TwHas(v, x) PROVE TwHas(w, x) /\ x.key # k
      <4>1. PICK q \in TwPlaces : \E j \in 1 .. Len(v.at[q]) : v.at[q][j] = x
        BY <3>1 DEF TwHas
      <4>2. PICK j \in 1 .. Len(v.at[q]) : v.at[q][j] = x
        BY <4>1
      <4>3. j \in 1 .. Len(w.at[q]) /\ (q = p => j < n)
            /\ v.at[q][j] = IF q = p /\ j = i THEN s[n] ELSE w.at[q][j]
        BY <2>12
      <4>4. CASE q = p /\ j = i
        <5>1. x = w.at[p][n] /\ n # i
          BY <4>2, <4>3, <4>4, <2>2
        <5> QED BY <5>1, <2>1, <2>2, <2>10 DEF TwHas
      <4>5. CASE ~(q = p /\ j = i)
        <5>1. x = w.at[q][j]
          BY <4>2, <4>3, <4>5
        <5> QED BY <5>1, <4>3, <4>5, <2>10 DEF TwHas
      <4> QED BY <4>4, <4>5
    <3>2. ASSUME TwHas(w, x), x.key # k PROVE TwHas(v, x)
      <4>1. PICK q \in TwPlaces : \E j \in 1 .. Len(w.at[q]) : w.at[q][j] = x
        BY <3>2 DEF TwHas
      <4>2. PICK j \in 1 .. Len(w.at[q]) : w.at[q][j] = x
        BY <4>1
      <4>3. CASE q # p
        BY <4>2, <4>3, <2>7 DEF TwHas
      <4>4. CASE q = p /\ j # n
        <5>1. j \in 1 .. n - 1 /\ j # i
          BY <4>2, <4>4, <2>1, <2>2, <3>2
        <5>2. r[j] = x
          BY <4>2, <4>4, <5>1, <2>6
        <5> QED BY <4>4, <5>1, <5>2, <2>1, <2>6, <2>7 DEF TwHas
      <4>5. CASE q = p /\ j = n
        <5>1. i # n
          BY <4>2, <4>5, <2>1, <3>2
        <5>2. i \in 1 .. n - 1
          BY <5>1, <2>1, <2>2
        <5>3. r[i] = x
          BY <4>2, <4>5, <5>2, <2>6
        <5> QED BY <5>2, <5>3, <2>1, <2>6, <2>7 DEF TwHas
      <4> QED BY <4>3, <4>4, <4>5
    <3> QED BY <3>1, <3>2
  <2> QED BY <2>5, <2>9, <2>13, <2>14, <2>15, <1>0 DEF TwGood, v
<1> QED BY <1>1, <1>2

\* The current slot of the near wheel holds what is due now, and nothing else does.
LEMMA TwSlotIs ==
  ASSUME NEW t \in Nat
  PROVE  /\ <<0, t % TwNear>> \in TwPlaces
         /\ \A e \in Nat, p \in TwPlaces : TwFits(t, e, p) => (e = t <=> p = <<0, t % TwNear>>)
<1>0. /\ TwNear \in Nat \ {0} /\ 0 \in 0 .. TwLevels /\ TwSize(0) = TwNear
      /\ TwSpan[0] = 1 /\ TwSpan[1] = TwNear
  BY TwNumbers, Spans DEF TwSize
<1>1. t % TwNear \in Nat /\ t % TwNear < TwNear /\ t = (TwNear * (t \div TwNear)) + (t % TwNear)
  BY <1>0, DivMod
<1>2. <<0, t % TwNear>> \in TwPlaces
  BY <1>0, <1>1, TwPlaceIs
<1>3. ASSUME NEW e \in Nat, NEW p \in TwPlaces, TwFits(t, e, p) PROVE e = t <=> p = <<0, t % TwNear>>
  <2>0. p[1] \in 0 .. TwLevels /\ p = <<p[1], p[2]>>
    BY TwPlaceIs
  <2>1. e \div 1 = e
    OBVIOUS
  <2>2. ASSUME e = t PROVE p = <<0, t % TwNear>>
    <3>1. TwSpan[p[1]] \in Nat \ {0} /\ t \div TwSpan[p[1]] \in Nat
      BY <2>0, TwLevelIs
    <3>2. ~(p[1] > 0)
      BY <1>3, <2>2, <3>1 DEF TwFits
    <3>3. p[1] = 0
      BY <2>0, <3>2, TwNumbers
    <3>4. p[2] = (e \div TwSpan[0]) % TwSize(0)
      BY <1>3, <3>3 DEF TwFits
    <3> QED BY <2>0, <2>1, <2>2, <3>3, <3>4, <1>0
  <2>3. ASSUME p = <<0, t % TwNear>> PROVE e = t
    <3>1. p[1] = 0 /\ p[2] = t % TwNear
      BY <2>3
    <3>2. e \div TwSpan[0 + 1] = t \div TwSpan[0 + 1] /\ p[2] = (e \div TwSpan[0]) % TwSize(0)
      BY <1>3, <3>1 DEF TwFits
    <3>3. e \div TwNear = t \div TwNear /\ e % TwNear = t % TwNear
      BY <3>1, <3>2, <2>1, <1>0
    <3>4. e = (TwNear * (e \div TwNear)) + (e % TwNear)
      BY <1>0, DivMod
    <3> QED BY <3>3, <3>4, <1>1
  <2> QED BY <2>2, <2>3
<1> QED BY <1>2, <1>3

\* execute takes what is due, and each timer once.
LEMMA TwExecuteIs ==
  ASSUME NEW w, TwGood(w)
  PROVE  /\ TwGood(TwExecute(w)) /\ TwExecute(w).time = w.time
         /\ \A x \in TwEvent : TwHas(TwExecute(w), x) <=> TwHas(w, x) /\ x.expire > w.time
         /\ w.at[TwSlot(w)] \in Seq(TwEvent)
         /\ \A i \in 1 .. Len(w.at[TwSlot(w)]) :
              TwHas(w, w.at[TwSlot(w)][i]) /\ w.at[TwSlot(w)][i].expire = w.time
         /\ \A i, j \in 1 .. Len(w.at[TwSlot(w)]) :
              i # j => w.at[TwSlot(w)][i].key # w.at[TwSlot(w)][j].key
<1> DEFINE p == TwSlot(w)
           s == w.at[p]
           due == {s[i].key : i \in 1 .. Len(s)}
           v == TwExecute(w)
<1>0. w \in TwWheels /\ TwExactBut(w, {}) /\ TwPlaced(w) /\ w.time < TwEnd /\ w.time \in Nat
  BY TwWheelIs DEF TwGood
<1>1. p \in TwPlaces
  BY <1>0, TwSlotIs DEF TwSlot
<1>2. ASSUME NEW q \in TwPlaces, NEW i \in 1 .. Len(w.at[q])
      PROVE  /\ w.at[q][i].expire = w.time <=> q = p
             /\ w.at[q][i].expire >= w.time /\ w.at[q][i].expire \in Nat /\ w.at[q][i].key \in TwKeys
             /\ w.loc[w.at[q][i].key] = [place |-> q, index |-> i]
  <2>1. TwFits(w.time, w.at[q][i].expire, q) /\ w.at[q][i].expire \in Nat /\ w.at[q][i].key \in TwKeys
    BY <1>0, TwWheelIs DEF TwPlaced
  <2>2. w.at[q][i].expire = w.time <=> q = p
    BY <1>0, <2>1, TwSlotIs DEF TwSlot
  <2>3. w.at[q][i].expire >= w.time
    BY <1>0, <2>1 DEF TwFits
  <2> QED BY <2>1, <2>2, <2>3, <1>0 DEF TwExactBut
<1>3. /\ s \in Seq(TwEvent) /\ Len(s) \in Nat
      /\ \A i \in 1 .. Len(s) : TwHas(w, s[i]) /\ s[i].expire = w.time
      /\ \A i, j \in 1 .. Len(s) : i # j => s[i].key # s[j].key
  <2>1. s \in Seq(TwEvent) /\ Len(s) \in Nat /\ \A i \in 1 .. Len(s) : TwHas(w, s[i])
    BY <1>0, <1>1, TwWheelIs
  <2>2. \A i \in 1 .. Len(s) : s[i].expire = w.time
    BY <1>1, <1>2
  <2>3. ASSUME NEW i \in 1 .. Len(s), NEW j \in 1 .. Len(s), s[i].key = s[j].key PROVE i = j
    <3>1. w.loc[s[i].key] = [place |-> p, index |-> i] /\ w.loc[s[j].key] = [place |-> p, index |-> j]
      BY <1>1, <1>2
    <3> QED BY <2>3, <3>1
  <2> QED BY <2>1, <2>2, <2>3
<1>4. v = [w EXCEPT !.at[p] = <<>>,
                    !.loc = [k \in DOMAIN @ |-> IF k \in due THEN TwNowhere ELSE @[k]]]
  BY DEF TwExecute
<1> HIDE DEF v
<1>5. /\ v.time = w.time /\ v.at = [w.at EXCEPT ![p] = <<>>]
      /\ v.loc = [k \in TwKeys |-> IF k \in due THEN TwNowhere ELSE w.loc[k]]
      /\ v = [time |-> v.time, at |-> v.at, loc |-> v.loc]
  <2>1. DOMAIN w.loc = TwKeys
    BY <1>0, TwWheelIs
  <2> QED BY <1>0, <1>4, <2>1 DEF TwWheels
<1> HIDE DEF p, due
<1>6. /\ v.at[p] = <<>> /\ \A q \in TwPlaces : q # p => v.at[q] = w.at[q]
      /\ \A k \in TwKeys : v.loc[k] = IF k \in due THEN TwNowhere ELSE w.loc[k]
  BY <1>0, <1>1, <1>5, TwWheelIs
<1>7. v \in TwWheels
  <2>1. <<0, 0>> \in TwPlaces
    BY TwPlaceIs, TwLevelIs, TwNumbers
  <2>2. PICK R : R = [place : TwPlaces, index : Nat]
    OBVIOUS
  <2>3. TwNowhere \in R /\ w.loc \in [TwKeys -> R]
    BY <2>1, <2>2, <1>0, TwWheelIs DEF TwNowhere
  <2>4. v.loc \in [TwKeys -> R]
    BY <2>3, <1>5
  <2>5. v.at \in [TwPlaces -> Seq(TwEvent)]
    <3>1. <<>> \in Seq(TwEvent)
      OBVIOUS
    <3> QED BY <3>1, <1>0, <1>5, TwWheelIs
  <2> QED BY <2>2, <2>4, <2>5, <1>0, <1>5 DEF TwWheels
<1>8. ASSUME NEW q \in TwPlaces, NEW i \in 1 .. Len(v.at[q])
      PROVE  /\ q # p /\ v.at[q] = w.at[q] /\ i \in 1 .. Len(w.at[q])
             /\ w.at[q][i].key \notin due
  <2>1. q # p
    BY <1>6
  <2>2. v.at[q] = w.at[q] /\ i \in 1 .. Len(w.at[q])
    BY <2>1, <1>6
  <2>3. ASSUME w.at[q][i].key \in due PROVE FALSE
    <3>1. PICK j \in 1 .. Len(s) : w.at[q][i].key = s[j].key
      BY <2>3 DEF due
    <3>2. w.loc[s[j].key] = [place |-> p, index |-> j] /\ w.loc[w.at[q][i].key] = [place |-> q, index |-> i]
      BY <2>2, <1>1, <1>2
    <3> QED BY <2>1, <3>1, <3>2
  <2> QED BY <2>1, <2>2, <2>3
<1>9. TwExactBut(v, {})
  <2>1. ASSUME NEW q \in TwPlaces, NEW i \in 1 .. Len(v.at[q])
        PROVE  v.loc[v.at[q][i].key] = [place |-> q, index |-> i]
    BY <1>2, <1>6, <1>8
  <2>2. ASSUME NEW k \in TwKeys, v.loc[k].index # 0
        PROVE  /\ v.loc[k].index \in 1 .. Len(v.at[v.loc[k].place])
               /\ v.at[v.loc[k].place][v.loc[k].index].key = k
    <3>1. k \notin due /\ v.loc[k] = w.loc[k] /\ w.loc[k].place \in TwPlaces
      BY <2>2, <1>0, <1>6, TwWheelIs DEF TwNowhere
    <3>2. /\ w.loc[k].index \in 1 .. Len(w.at[w.loc[k].place])
          /\ w.at[w.loc[k].place][w.loc[k].index].key = k
      BY <2>2, <3>1, <1>0 DEF TwExactBut
    <3>3. w.loc[k].place # p
      BY <3>1, <3>2 DEF due
    <3> QED BY <3>1, <3>2, <3>3, <1>6
  <2> QED BY <2>1, <2>2 DEF TwExactBut
<1>10. TwPlaced(v)
  <2> SUFFICES ASSUME NEW q \in TwPlaces, NEW i \in 1 .. Len(v.at[q])
               PROVE  TwFits(v.time, v.at[q][i].expire, q)
    BY DEF TwPlaced
  <2>1. v.at[q] = w.at[q] /\ i \in 1 .. Len(w.at[q])
    BY <1>8
  <2>2. TwFits(w.time, w.at[q][i].expire, q)
    BY <2>1, <1>0 DEF TwPlaced
  <2> QED BY <2>1, <2>2, <1>5
<1>11. ASSUME NEW x \in TwEvent PROVE TwHas(v, x) <=> TwHas(w, x) /\ x.expire > w.time
  <2>1. ASSUME TwHas(v, x) PROVE TwHas(w, x) /\ x.expire > w.time
    <3>1. PICK q \in TwPlaces : \E i \in 1 .. Len(v.at[q]) : v.at[q][i] = x
      BY <2>1 DEF TwHas
    <3>2. PICK i \in 1 .. Len(v.at[q]) : v.at[q][i] = x
      BY <3>1
    <3>3. q # p /\ i \in 1 .. Len(w.at[q]) /\ w.at[q][i] = x
      BY <3>2, <1>8
    <3>4. x.expire # w.time /\ x.expire >= w.time /\ x.expire \in Nat
      BY <3>3, <1>2
    <3> QED BY <3>3, <3>4, <1>0 DEF TwHas
  <2>2. ASSUME TwHas(w, x), x.expire > w.time PROVE TwHas(v, x)
    <3>1. PICK q \in TwPlaces : \E i \in 1 .. Len(w.at[q]) : w.at[q][i] = x
      BY <2>2 DEF TwHas
    <3>2. PICK i \in 1 .. Len(w.at[q]) : w.at[q][i] = x
      BY <3>1
    <3>3. x.expire # w.time
      BY <2>2, <1>0 DEF TwEvent
    <3>4. q # p
      BY <3>2, <3>3, <1>2
    <3> QED BY <3>2, <3>4, <1>6 DEF TwHas
  <2> QED BY <2>1, <2>2
<1> QED BY <1>0, <1>3, <1>5, <1>7, <1>9, <1>10, <1>11 DEF TwGood, v, p

\* move_list is its loop: add after add.
LEMMA TwMoveListIs ==
  ASSUME NEW w, NEW p, NEW g,
         g = [i \in 0 .. Len(w.at[p]) |->
                IF i = 0 THEN [w EXCEPT !.at[p] = <<>>] ELSE TwAdd(g[i - 1], w.at[p][i])]
  PROVE  \E h : /\ h = [i \in 0 .. Len(w.at[p]) |->
                          IF i = 0 THEN [w EXCEPT !.at[p] = <<>>] ELSE TwAdd(h[i - 1], w.at[p][i])]
                /\ TwMoveList(w, p) = h[Len(w.at[p])]
<1> DEFINE h == CHOOSE h : h = [i \in 0 .. Len(w.at[p]) |->
                          IF i = 0 THEN [w EXCEPT !.at[p] = <<>>] ELSE TwAdd(h[i - 1], w.at[p][i])]
<1>1. TwMoveList(w, p) = h[Len(w.at[p])]
  BY DEF TwMoveList
<1>2. h = [i \in 0 .. Len(w.at[p]) |->
             IF i = 0 THEN [w EXCEPT !.at[p] = <<>>] ELSE TwAdd(h[i - 1], w.at[p][i])]
  OBVIOUS
<1> HIDE DEF h
<1> QED BY <1>1, <1>2

\* Wherever they are but in p, timers fit.
TwFitsBut(w, p) ==
  \A q \in TwPlaces \ {p} : \A i \in 1 .. Len(w.at[q]) : TwFits(w.time, w.at[q][i].expire, q)

\* Wheel v is w without the timers of bucket p.
TwWithout(v, w, p) ==
  /\ v \in TwWheels /\ v.time = w.time /\ TwPlaced(v)
  /\ TwExactBut(v, {w.at[p][j].key : j \in 1 .. Len(w.at[p])})
  /\ \A x \in TwEvent :
       TwHas(w, x) <=> TwHas(v, x) \/ \E j \in 1 .. Len(w.at[p]) : x = w.at[p][j]

\* The bucket is emptied, and its timers are no longer in the wheel.
LEMMA TwEmptied ==
  ASSUME NEW w \in TwWheels, TwExactBut(w, {}), NEW p \in TwPlaces,
         TwFitsBut(w, p),
         NEW v, v = [w EXCEPT !.at[p] = <<>>]
  PROVE  TwWithout(v, w, p)
<1> DEFINE ks == {w.at[p][j].key : j \in 1 .. Len(w.at[p])}
<1>1. /\ v.time = w.time /\ v.at = [w.at EXCEPT ![p] = <<>>] /\ v.loc = w.loc
      /\ v = [time |-> v.time, at |-> v.at, loc |-> v.loc]
  BY w \in TwWheels DEF TwWheels
<1>2. v.at[p] = <<>> /\ \A q \in TwPlaces : q # p => v.at[q] = w.at[q]
  BY <1>1, TwWheelIs
<1>3. v \in TwWheels
  <2>1. <<>> \in Seq(TwEvent)
    OBVIOUS
  <2>2. v.at \in [TwPlaces -> Seq(TwEvent)]
    BY <2>1, <1>1, TwWheelIs
  <2> QED BY <2>2, <1>1, TwWheelIs DEF TwWheels
<1>4. ASSUME NEW q \in TwPlaces, NEW i \in 1 .. Len(v.at[q])
      PROVE  q # p /\ v.at[q] = w.at[q] /\ i \in 1 .. Len(w.at[q])
  <2>1. q # p
    BY <1>2
  <2> QED BY <2>1, <1>2
<1>5. TwPlaced(v)
  BY <1>1, <1>4 DEF TwPlaced, TwFitsBut
<1>6. TwExactBut(v, ks)
  <2>1. ASSUME NEW q \in TwPlaces, NEW i \in 1 .. Len(v.at[q])
        PROVE  /\ v.loc[v.at[q][i].key] = [place |-> q, index |-> i]
               /\ v.at[q][i].key \notin ks
    <3>1. q # p /\ v.at[q] = w.at[q] /\ i \in 1 .. Len(w.at[q])
      BY <1>4
    <3>2. w.loc[w.at[q][i].key] = [place |-> q, index |-> i]
      BY <3>1 DEF TwExactBut
    <3>3. ASSUME NEW j \in 1 .. Len(w.at[p]) PROVE w.at[q][i].key # w.at[p][j].key
      <4>1. w.loc[w.at[p][j].key] = [place |-> p, index |-> j]
        BY DEF TwExactBut
      <4> QED BY <3>1, <3>2, <4>1
    <3> QED BY <3>1, <3>2, <3>3, <1>1
  <2>2. ASSUME NEW k \in TwKeys \ ks, v.loc[k].index # 0
        PROVE  /\ v.loc[k].index \in 1 .. Len(v.at[v.loc[k].place])
               /\ v.at[v.loc[k].place][v.loc[k].index].key = k
    <3>1. v.loc[k] = w.loc[k] /\ w.loc[k].place \in TwPlaces
      BY <1>1, TwWheelIs
    <3>2. /\ w.loc[k].index \in 1 .. Len(w.at[w.loc[k].place])
          /\ w.at[w.loc[k].place][w.loc[k].index].key = k
      BY <2>2, <3>1 DEF TwExactBut
    <3>3. w.loc[k].place # p
      BY <3>2
    <3> QED BY <3>1, <3>2, <3>3, <1>2
  <2> HIDE DEF ks
  <2> QED BY <2>1, <2>2 DEF TwExactBut
<1>7. ASSUME NEW x \in TwEvent
      PROVE  TwHas(w, x) <=> TwHas(v, x) \/ \E j \in 1 .. Len(w.at[p]) : x = w.at[p][j]
  <2>1. ASSUME TwHas(w, x) PROVE TwHas(v, x) \/ \E j \in 1 .. Len(w.at[p]) : x = w.at[p][j]
    <3>1. PICK q \in TwPlaces : \E i \in 1 .. Len(w.at[q]) : w.at[q][i] = x
      BY <2>1 DEF TwHas
    <3>2. CASE q = p
      BY <3>1, <3>2
    <3>3. CASE q # p
      BY <3>1, <3>3, <1>2 DEF TwHas
    <3> QED BY <3>2, <3>3
  <2>2. ASSUME TwHas(v, x) PROVE TwHas(w, x)
    <3>1. PICK q \in TwPlaces : \E i \in 1 .. Len(v.at[q]) : v.at[q][i] = x
      BY <2>2 DEF TwHas
    <3> QED BY <3>1, <1>4 DEF TwHas
  <2>3. ASSUME NEW j \in 1 .. Len(w.at[p]), x = w.at[p][j] PROVE TwHas(w, x)
    BY <2>3 DEF TwHas
  <2> QED BY <2>1, <2>2, <2>3
<1> QED BY <1>1, <1>3, <1>5, <1>6, <1>7 DEF TwWithout

\* move_list keeps what the wheel holds, and puts it where it fits.
LEMMA TwMoveIs ==
  ASSUME NEW w \in TwWheels, TwExactBut(w, {}), NEW p \in TwPlaces, w.time < TwEnd,
         TwFitsBut(w, p),
         \A i \in 1 .. Len(w.at[p]) : w.at[p][i].expire >= w.time /\ w.at[p][i].expire < TwEnd
  PROVE  /\ TwGood(TwMoveList(w, p)) /\ TwMoveList(w, p).time = w.time
         /\ \A x \in TwEvent : TwHas(TwMoveList(w, p), x) <=> TwHas(w, x)
<1> DEFINE es == w.at[p]
           n == Len(es)
           w0 == [w EXCEPT !.at[p] = <<>>]
           ks(i) == {es[j].key : j \in i + 1 .. n}
           J(v, i) == /\ v \in TwWheels /\ v.time = w.time /\ TwPlaced(v) /\ TwExactBut(v, ks(i))
                      /\ \A x \in TwEvent : TwHas(v, x) <=> TwHas(w0, x) \/ \E j \in 1 .. i : x = es[j]
<1>0. w.time \in Nat /\ n \in Nat /\ \A i \in 1 .. n : es[i] \in TwEvent /\ es[i].key \in TwKeys /\ es[i].expire \in Nat
  BY TwWheelIs
<1>1. \A i, j \in 1 .. n : i # j => es[i].key # es[j].key
  <2> SUFFICES ASSUME NEW i \in 1 .. n, NEW j \in 1 .. n, es[i].key = es[j].key PROVE i = j
    OBVIOUS
  <2>1. w.loc[es[i].key] = [place |-> p, index |-> i] /\ w.loc[es[j].key] = [place |-> p, index |-> j]
    BY DEF TwExactBut
  <2> QED BY <2>1
<1>2. /\ w0 \in TwWheels /\ w0.time = w.time /\ TwPlaced(w0)
      /\ TwExactBut(w0, {es[j].key : j \in 1 .. n})
      /\ \A x \in TwEvent : TwHas(w, x) <=> TwHas(w0, x) \/ \E j \in 1 .. n : x = es[j]
  <2>1. PICK v : v = w0
    OBVIOUS
  <2>2. /\ v \in TwWheels /\ v.time = w.time /\ TwPlaced(v)
        /\ TwExactBut(v, {es[j].key : j \in 1 .. n})
        /\ \A x \in TwEvent : TwHas(w, x) <=> TwHas(v, x) \/ \E j \in 1 .. n : x = es[j]
    <3>1. v = [w EXCEPT !.at[p] = <<>>]
      BY <2>1
    <3>2. TwWithout(v, w, p)
      BY <3>1, TwEmptied
    <3> QED BY <3>2 DEF TwWithout
  <2> HIDE DEF w0, es, n
  <2> QED BY <2>1, <2>2
<1> HIDE DEF es, n, w0
<1>3. J(w0, 0)
  <2>1. ks(0) = {es[j].key : j \in 1 .. n}
    OBVIOUS
  <2>2. \A x : ~ \E j \in 1 .. 0 : x = es[j]
    OBVIOUS
  <2> HIDE DEF ks
  <2> QED BY <1>2, <2>1, <2>2
<1>4. ASSUME NEW v, NEW i \in 0 .. n - 1, J(v, i)
      PROVE  J(TwAdd(v, es[i + 1]), i + 1)
  <2> DEFINE e == es[i + 1]
             u == TwAdd(v, e)
  <2>1. i \in Nat /\ i + 1 \in 1 .. n /\ e \in TwEvent /\ e.expire >= w.time /\ e.expire < TwEnd /\ e.expire \in Nat
    BY <1>0 DEF es, n
  <2>2. e.key \in ks(i)
    BY <1>0, <2>1
  <2>3. \A x \in TwEvent : TwHas(v, x) => x.key # e.key
    <3> HIDE DEF ks, e
    <3>1. TwExactBut(v, ks(i))
      BY <1>4
    <3> SUFFICES ASSUME NEW x \in TwEvent, TwHas(v, x) PROVE x.key \notin ks(i)
      BY <2>2
    <3>2. PICK q \in TwPlaces : \E j \in 1 .. Len(v.at[q]) : v.at[q][j] = x
      BY DEF TwHas
    <3>3. PICK j \in 1 .. Len(v.at[q]) : v.at[q][j] = x
      BY <3>2
    <3>4. \A K : TwExactBut(v, K) => v.at[q][j].key \notin K
      BY DEF TwExactBut
    <3> QED BY <3>1, <3>3, <3>4
  <2>4. ks(i) \ {e.key} = ks(i + 1)
    <3>1. \A j \in i + 1 .. n : j = i + 1 \/ j \in (i + 1) + 1 .. n
      BY <1>0, <2>1
    <3>2. \A j \in (i + 1) + 1 .. n : j \in i + 1 .. n /\ j # i + 1 /\ j \in 1 .. n
      BY <1>0, <2>1
    <3>3. \A j \in (i + 1) + 1 .. n : es[j].key # e.key
      BY <3>2, <2>1, <1>1
    <3> QED BY <3>1, <3>2, <3>3
  <2>5. /\ u \in TwWheels /\ u.time = v.time /\ TwExactBut(u, ks(i) \ {e.key}) /\ TwPlaced(u)
        /\ \A x \in TwEvent : TwHas(u, x) <=>
              TwHas(v, x) \/ x = [key |-> e.key, expire |-> TwDue(v.time, e)]
    <3> HIDE DEF ks, e
    <3> QED BY <1>4, <2>1, <2>3, TwAddIs
  <2>6. [key |-> e.key, expire |-> TwDue(v.time, e)] = e
    <3>1. TwDue(v.time, e) = e.expire
      BY <1>0, <1>4, <2>1 DEF TwDue
    <3> HIDE DEF e
    <3> QED BY <3>1, <2>1 DEF TwEvent
  <2>7. \A x \in TwEvent : (\E j \in 1 .. i + 1 : x = es[j]) <=> (\E j \in 1 .. i : x = es[j]) \/ x = e
    <3>1. \A j \in 1 .. i + 1 : j = i + 1 \/ j \in 1 .. i
      BY <2>1
    <3>2. \A j \in 1 .. i : j \in 1 .. i + 1
      BY <2>1
    <3>3. i + 1 \in 1 .. i + 1
      BY <2>1
    <3> QED BY <3>1, <3>2, <3>3
  <2>8. \A x \in TwEvent : TwHas(u, x) <=> TwHas(w0, x) \/ \E j \in 1 .. i + 1 : x = es[j]
    <3>1. \A x \in TwEvent : TwHas(v, x) <=> TwHas(w0, x) \/ \E j \in 1 .. i : x = es[j]
      BY <1>4
    <3> HIDE DEF u, e
    <3> QED BY <2>5, <2>6, <2>7, <3>1
  <2>9. TwExactBut(u, ks(i + 1)) /\ u.time = w.time
    <3> HIDE DEF ks, u, e
    <3> QED BY <1>4, <2>4, <2>5
  <2> HIDE DEF ks, u, e
  <2>10. J(u, i + 1)
    BY <2>5, <2>8, <2>9
  <2> HIDE DEF J
  <2> QED BY <2>10 DEF u, e
<1> HIDE DEF J
<1>5. PICK g : Iterates(g, TwWheels, [i \in Nat |-> [v \in TwWheels |->
                 IF i \in 0 .. n - 1 /\ TwAdd(v, es[i + 1]) \in TwWheels THEN TwAdd(v, es[i + 1]) ELSE v]], w0)
  <2>1. PICK F : F = [i \in Nat |-> [v \in TwWheels |->
                 IF i \in 0 .. n - 1 /\ TwAdd(v, es[i + 1]) \in TwWheels THEN TwAdd(v, es[i + 1]) ELSE v]]
    OBVIOUS
  <2>2. \A i \in Nat : F[i] \in [TwWheels -> TwWheels]
    BY <2>1
  <2>3. F \in [Nat -> [TwWheels -> TwWheels]]
    BY <2>1, <2>2
  <2>4. \E g : Iterates(g, TwWheels, F, w0)
    BY <2>3, <1>2, RecursionHas
  <2> QED BY <2>1, <2>4
<1>6. /\ g \in [Nat -> TwWheels] /\ g[0] = w0
      /\ \A i \in Nat : g[i + 1] =
           IF i \in 0 .. n - 1 /\ TwAdd(g[i], es[i + 1]) \in TwWheels THEN TwAdd(g[i], es[i + 1]) ELSE g[i]
  BY <1>5 DEF Iterates
<1>7. \A v, i : J(v, i) => v \in TwWheels
  BY DEF J
<1>8. \A i \in Nat : i <= n => J(g[i], i)
  <2> DEFINE P == {i \in Nat : i <= n => J(g[i], i)}
  <2>1. 0 \in P
    BY <1>3, <1>6
  <2>2. ASSUME NEW i \in Nat, i \in P PROVE i + 1 \in P
    <3> SUFFICES ASSUME i + 1 <= n PROVE J(g[i + 1], i + 1)
      OBVIOUS
    <3>1. i \in 0 .. n - 1 /\ J(g[i], i)
      BY <1>0, <2>2
    <3>2. J(TwAdd(g[i], es[i + 1]), i + 1)
      BY <1>4, <3>1
    <3>3. g[i + 1] = TwAdd(g[i], es[i + 1])
      BY <1>6, <1>7, <3>1, <3>2
    <3> QED BY <3>2, <3>3
  <2> HIDE DEF P
  <2>3. Nat \subseteq P
    BY <2>1, <2>2, SetInduction
  <2> QED BY <2>3 DEF P
<1>9. ASSUME NEW i \in 0 .. n - 1 PROVE g[i + 1] = TwAdd(g[i], es[i + 1])
  <2>1. i \in Nat /\ i <= n
    BY <1>0
  <2>2. J(TwAdd(g[i], es[i + 1]), i + 1)
    BY <1>4, <1>8, <2>1
  <2> QED BY <1>6, <1>7, <2>1, <2>2
<1> DEFINE f == [i \in 0 .. n |-> g[i]]
<1>10. f = [i \in 0 .. n |-> IF i = 0 THEN w0 ELSE TwAdd(f[i - 1], es[i])]
  <2>1. ASSUME NEW i \in 0 .. n PROVE g[i] = IF i = 0 THEN w0 ELSE TwAdd(f[i - 1], es[i])
    <3>1. CASE i = 0
      BY <3>1, <1>6
    <3>2. CASE i # 0
      <4>1. i - 1 \in 0 .. n - 1 /\ (i - 1) + 1 = i /\ i - 1 \in 0 .. n
        BY <3>2, <1>0
      <4>2. f[i - 1] = g[i - 1]
        BY <4>1
      <4> HIDE DEF f
      <4>3. g[(i - 1) + 1] = TwAdd(g[i - 1], es[(i - 1) + 1])
        BY <1>9, <4>1
      <4> QED BY <3>2, <4>1, <4>2, <4>3
    <3> QED BY <3>1, <3>2
  <2> QED BY <2>1
<1> HIDE DEF f
<1>11. PICK h : /\ h = [i \in 0 .. n |-> IF i = 0 THEN w0 ELSE TwAdd(h[i - 1], es[i])]
                /\ TwMoveList(w, p) = h[n]
  BY <1>10, TwMoveListIs DEF es, n, w0
<1>12. \A i \in Nat : i <= n => h[i] = g[i]
  <2> DEFINE P == {i \in Nat : i <= n => h[i] = g[i]}
  <2>1. 0 \in P
    BY <1>0, <1>6, <1>11
  <2>2. ASSUME NEW i \in Nat, i \in P PROVE i + 1 \in P
    <3> SUFFICES ASSUME i + 1 <= n PROVE h[i + 1] = g[i + 1]
      OBVIOUS
    <3>1. i \in 0 .. n - 1 /\ i + 1 \in 0 .. n /\ (i + 1) - 1 = i /\ i + 1 # 0 /\ h[i] = g[i]
      BY <1>0, <2>2
    <3>2. h[i + 1] = TwAdd(h[(i + 1) - 1], es[i + 1])
      BY <1>11, <3>1
    <3> QED BY <1>9, <3>1, <3>2
  <2> HIDE DEF P
  <2>3. Nat \subseteq P
    BY <2>1, <2>2, SetInduction
  <2> QED BY <2>3 DEF P
<1>13. J(TwMoveList(w, p), n)
  BY <1>0, <1>8, <1>11, <1>12
<1>14. ks(n) = {}
  BY <1>0
<1> QED BY <1>2, <1>13, <1>14 DEF J, TwGood

\* A level turns over with the one below, when that comes to its first slot.
LEMMA TwTurnsWith ==
  ASSUME NEW m \in 0 .. TwLevels, NEW T \in Nat
  PROVE  T % TwSpan[m + 1] = 0 <=> T % TwSpan[m] = 0 /\ (T \div TwSpan[m]) % TwSize(m) = 0
<1> DEFINE b == TwSpan[m]
           c == TwSize(m)
           s == (T \div b) % c
           r == T % b
<1>1. b \in Nat \ {0} /\ c \in Nat \ {0} /\ TwSpan[m + 1] = b * c
  BY TwLevelIs
<1> HIDE DEF b, c
<1>2. T % (b * c) = (b * s) + r
  BY <1>1, DivTwice
<1>3. T \div b \in Nat /\ r \in Nat
  BY <1>1, DivMod
<1>4. s \in Nat
  BY <1>1, <1>3, DivMod
<1> HIDE DEF s, r
<1>5. b * s \in Nat /\ (s = 0 => b * s = 0)
  BY <1>1, <1>4
<1>6. s # 0 => b * s # 0
  <2> SUFFICES ASSUME 0 < s PROVE b * s # 0
    BY <1>4
  <2>1. b * 0 = 0 /\ (b * 0) + b <= b * s
    BY <1>1, <1>4, MulStep
  <2> QED BY <1>1, <1>5, <2>1
<1>7. (b * s) + r = 0 <=> r = 0 /\ s = 0
  BY <1>3, <1>5, <1>6
<1> QED BY <1>1, <1>2, <1>7 DEF b, c, s, r

\* A timer that is not due stays where it fits when the time goes on by a tick, unless
\* it is in the slot that the lowest level not to turn over has come to.
LEMMA TwFitsLater ==
  ASSUME NEW t \in Nat, t + 1 < TwEnd, NEW n \in 1 .. TwLevels + 1,
         \A m \in 0 .. TwLevels + 1 : (t + 1) % TwSpan[m] = 0 <=> m < n,
         NEW e \in Nat, e > t, NEW q \in TwPlaces, TwFits(t, e, q)
  PROVE  /\ q[1] >= n - 1
         /\ q[1] = 0 \/ q # TwBucket(t + 1, n - 1) => TwFits(t + 1, e, q)
<1> DEFINE T == t + 1
           l == q[1]
<1>0. l \in 0 .. TwLevels /\ l \in Nat /\ l + 1 \in 0 .. TwLevels + 1 /\ l \in 0 .. TwLevels + 1 /\ T \in Nat
      /\ n \in Nat /\ q = <<l, q[2]>>
  BY TwPlaceIs, TwLevelIs, TwNumbers
<1>1. /\ t <= e /\ e < TwEnd
      /\ e \div TwSpan[l + 1] = t \div TwSpan[l + 1]
      /\ l > 0 => e \div TwSpan[l] > t \div TwSpan[l]
      /\ q[2] = (e \div TwSpan[l]) % TwSize(l)
  BY DEF TwFits
<1>2. /\ TwSpan[l] \in Nat \ {0} /\ TwSpan[l + 1] \in Nat \ {0}
  BY <1>0, TwLevelIs
<1>3. ASSUME NEW m \in {l, l + 1}
      PROVE  T \div TwSpan[m] = IF m < n THEN (t \div TwSpan[m]) + 1 ELSE t \div TwSpan[m]
  <2>1. T \div TwSpan[m] = IF T % TwSpan[m] = 0 THEN (t \div TwSpan[m]) + 1 ELSE t \div TwSpan[m]
    BY <1>2, DivNext
  <2> QED BY <2>1, <1>0
<1> HIDE DEF l, T
<1>4. l >= n - 1
  <2> SUFFICES ASSUME l + 1 < n PROVE FALSE
    BY <1>0
  <2> DEFINE b == TwSpan[l + 1]
  <2>1. b \in Nat \ {0} /\ T % b = 0 /\ T \div b = (t \div b) + 1 /\ e \div b = t \div b
    BY <1>0, <1>1, <1>2, <1>3 DEF T
  <2>2. e \div b \in Nat /\ e % b \in Nat /\ e % b < b /\ e = (b * (e \div b)) + (e % b)
    <3> HIDE DEF b
    <3> QED BY <2>1, DivMod
  <2>3. T \div b \in Nat /\ T = (b * (T \div b)) + (T % b)
    <3> HIDE DEF b
    <3> QED BY <2>1, <1>0, DivMod
  <2> HIDE DEF b
  <2>4. (b * (e \div b)) + b <= b * (T \div b)
    <3>1. e \div b < T \div b
      BY <2>1, <2>2
    <3> QED BY <2>1, <2>2, <2>3, <3>1, MulStep
  <2>5. b * (T \div b) = T
    BY <2>1, <2>3, <1>0
  <2>6. b * (e \div b) \in Nat
    BY <2>1, <2>2
  <2> QED BY <2>1, <2>2, <2>4, <2>5, <2>6 DEF T
<1>5. ASSUME l = 0 \/ q # TwBucket(T, n - 1) PROVE TwFits(T, e, q)
  <2>1. T <= e /\ e < TwEnd
    BY <1>1 DEF T
  <2>2. e \div TwSpan[l + 1] = T \div TwSpan[l + 1]
    <3>1. ~(l + 1 < n)
      BY <1>0, <1>4
    <3> QED BY <1>1, <1>3, <3>1
  <2>3. ASSUME l > 0 PROVE e \div TwSpan[l] > T \div TwSpan[l]
    <3>1. e \div TwSpan[l] > t \div TwSpan[l] /\ t \div TwSpan[l] \in Nat /\ e \div TwSpan[l] \in Nat
      BY <1>0, <1>1, <2>3, TwLevelIs
    <3>2. CASE l >= n
      BY <1>0, <1>3, <3>1, <3>2
    <3>3. CASE l = n - 1
      <4>1. T \div TwSpan[l] = (t \div TwSpan[l]) + 1
        BY <1>0, <1>3, <3>3
      <4>2. e \div TwSpan[l] # T \div TwSpan[l]
        <5> SUFFICES ASSUME e \div TwSpan[l] = T \div TwSpan[l] PROVE FALSE
          OBVIOUS
        <5>1. q = TwBucket(T, l)
          BY <1>0, <1>1 DEF TwBucket
        <5> QED BY <5>1, <1>0, <1>5, <2>3, <3>3
      <4> QED BY <3>1, <4>1, <4>2
    <3> QED BY <1>0, <1>4, <3>2, <3>3
  <2> QED BY <1>1, <2>1, <2>2, <2>3 DEF TwFits, l
<1> QED BY <1>4, <1>5 DEF l, T

\* shift keeps what the wheel holds, and all of it is where it will be due.
LEMMA TwShiftIs ==
  ASSUME NEW w, TwGood(w), w.time + 1 < TwEnd,
         \A x \in TwEvent : TwHas(w, x) => x.expire > w.time
  PROVE  /\ TwGood(TwShift(w)) /\ TwShift(w).time = w.time + 1
         /\ \A x \in TwEvent : TwHas(TwShift(w), x) <=> TwHas(w, x)
<1> DEFINE T == w.time + 1
<1>0. w \in TwWheels /\ TwExactBut(w, {}) /\ TwPlaced(w) /\ w.time \in Nat /\ T \in Nat
  BY TwWheelIs DEF TwGood
<1>1. PICK now : now = [w EXCEPT !.time = @ + 1]
  OBVIOUS
<1>2. /\ now \in TwWheels /\ now.time = T /\ now.at = w.at /\ now.loc = w.loc
  BY <1>0, <1>1 DEF TwWheels
<1>3. TwExactBut(now, {}) /\ \A x : TwHas(now, x) <=> TwHas(w, x)
  BY <1>0, <1>2 DEF TwExactBut, TwHas
<1>4. PICK n \in 1 .. TwLevels + 1 : \A m \in 0 .. TwLevels + 1 : T % TwSpan[m] = 0 <=> m < n
  BY <1>0, TwTurns
<1>5. ASSUME NEW q \in TwPlaces, NEW i \in 1 .. Len(now.at[q])
      PROVE  /\ q[1] >= n - 1 /\ now.at[q][i].expire \in Nat /\ now.at[q][i].expire >= T
             /\ now.at[q][i].expire < TwEnd
             /\ q[1] = 0 \/ q # TwBucket(T, n - 1) => TwFits(T, now.at[q][i].expire, q)
  <2> DEFINE e == now.at[q][i].expire
  <2>1. w.at[q][i] \in TwEvent /\ TwHas(w, w.at[q][i]) /\ e \in Nat /\ e = w.at[q][i].expire
    BY <1>0, <1>2, TwWheelIs
  <2>2. e > w.time
    BY <2>1
  <2>3. TwFits(w.time, e, q)
    BY <1>0, <1>2, <2>1 DEF TwPlaced
  <2> HIDE DEF e
  <2>4. /\ q[1] >= n - 1
        /\ q[1] = 0 \/ q # TwBucket(T, n - 1) => TwFits(T, e, q)
    BY <1>0, <1>4, <2>1, <2>2, <2>3, TwFitsLater
  <2>5. e < TwEnd
    BY <2>3 DEF TwFits
  <2> QED BY <2>1, <2>2, <2>4, <2>5, <1>0 DEF e
<1> DEFINE slot(k) == TwBucket(now.time, k)
           turned == {k \in 1 .. TwLevels : slot(k)[2] # 0}
<1>6. TwShift(w) = IF now.time % TwNear # 0 \/ turned = {} THEN now
                   ELSE TwMoveList(now, slot(CHOOSE k \in turned : \A m \in turned : k <= m))
  BY <1>1 DEF TwShift
<1>7. T % TwNear = 0 <=> 1 < n
  BY <1>4, Spans, TwNumbers
<1>8. CASE n = 1
  <2>1. TwShift(w) = now
    BY <1>2, <1>6, <1>7, <1>8
  <2>2. TwPlaced(now)
    <3> SUFFICES ASSUME NEW q \in TwPlaces, NEW i \in 1 .. Len(now.at[q])
                 PROVE  TwFits(now.time, now.at[q][i].expire, q)
      BY DEF TwPlaced
    <3>1. q[1] = 0 \/ q # TwBucket(T, n - 1)
      BY <1>8 DEF TwBucket
    <3> QED BY <1>2, <1>5, <3>1
  <2> QED BY <1>2, <1>3, <2>1, <2>2 DEF TwGood
<1>9. CASE n > 1
  <2> DEFINE l == n - 1
             p == TwBucket(T, l)
  <2>0. l \in 1 .. TwLevels /\ l \in 0 .. TwLevels /\ l + 1 = n /\ l \in Nat
    BY <1>9, TwNumbers
  <2>1. ASSUME NEW k \in 1 .. TwLevels
        PROVE  /\ slot(k)[2] = (T \div TwSpan[k]) % TwSize(k) /\ slot(k)[2] \in Nat
               /\ k < l => slot(k)[2] = 0
               /\ k = l => slot(k)[2] # 0
    <3>1. k \in 0 .. TwLevels /\ k + 1 \in 0 .. TwLevels + 1 /\ k \in 0 .. TwLevels + 1 /\ k \in Nat
      BY TwNumbers
    <3>2. slot(k)[2] = (T \div TwSpan[k]) % TwSize(k)
      BY <1>2 DEF TwBucket
    <3>3. (T \div TwSpan[k]) % TwSize(k) \in Nat
      BY <3>1, <1>0, TwLevelIs
    <3>4. T % TwSpan[k + 1] = 0 <=> T % TwSpan[k] = 0 /\ (T \div TwSpan[k]) % TwSize(k) = 0
      BY <3>1, <1>0, TwTurnsWith
    <3>5. (T % TwSpan[k + 1] = 0 <=> k + 1 < n) /\ (T % TwSpan[k] = 0 <=> k < n)
      BY <3>1, <1>4
    <3>6. (k < l <=> k + 1 < n) /\ (k = l => k < n /\ ~(k + 1 < n))
      BY <2>0, <3>1
    <3> QED BY <3>2, <3>3, <3>4, <3>5, <3>6
  <2> HIDE DEF slot, l
  <2>2. l \in turned /\ \A m \in turned : l <= m
    BY <2>0, <2>1, TwNumbers
  <2>3. (CHOOSE k \in turned : \A m \in turned : k <= m) = l
    <3>1. turned \subseteq Nat
      OBVIOUS
    <3> HIDE DEF turned
    <3>2. PICK c : c = CHOOSE k \in turned : \A m \in turned : k <= m
      OBVIOUS
    <3>3. c \in turned /\ \A m \in turned : c <= m
      BY <2>2, <3>2
    <3>4. c <= l /\ l <= c /\ c \in Nat
      BY <2>2, <3>1, <3>3
    <3>5. c = l
      BY <2>0, <3>4
    <3> QED BY <3>2, <3>5
  <2>4. TwShift(w) = TwMoveList(now, p)
    <3>1. now.time % TwNear = 0 /\ turned # {}
      BY <1>2, <1>7, <1>9, <2>2
    <3> HIDE DEF turned
    <3>2. TwShift(w) = TwMoveList(now, slot(l))
      BY <1>6, <2>3, <3>1
    <3> QED BY <3>2, <1>2 DEF slot
  <2>5. p \in TwPlaces /\ p[1] = l
    <3>1. (T \div TwSpan[l]) % TwSize(l) \in 0 .. TwSize(l) - 1
      BY <1>0, <2>0, TwLevelIs
    <3> QED BY <2>0, <3>1, TwPlaceIs DEF TwBucket
  <2>6. p = TwBucket(T, n - 1)
    BY DEF l
  <2> HIDE DEF p
  <2>7. TwFitsBut(now, p)
    <3> SUFFICES ASSUME NEW q \in TwPlaces \ {p}, NEW i \in 1 .. Len(now.at[q])
                 PROVE  TwFits(now.time, now.at[q][i].expire, q)
      BY DEF TwFitsBut
    <3> QED BY <1>2, <1>5, <2>6
  <2>8. \A i \in 1 .. Len(now.at[p]) : now.at[p][i].expire >= now.time /\ now.at[p][i].expire < TwEnd
    BY <1>2, <1>5, <2>5
  <2>9. /\ TwGood(TwMoveList(now, p)) /\ TwMoveList(now, p).time = now.time
        /\ \A x \in TwEvent : TwHas(TwMoveList(now, p), x) <=> TwHas(now, x)
    BY <1>2, <1>3, <2>5, <2>7, <2>8, TwMoveIs
  <2> QED BY <1>2, <1>3, <2>4, <2>9
<1> QED BY <1>4, <1>8, <1>9, TwNumbers

\* A timer is in the wheel once.
LEMMA TwSameKey ==
  ASSUME NEW w, TwGood(w), NEW x, NEW y, TwHas(w, x), TwHas(w, y), x.key = y.key
  PROVE  x = y
<1>0. w \in TwWheels /\ TwExactBut(w, {})
  BY DEF TwGood
<1>1. PICK p \in TwPlaces : \E i \in 1 .. Len(w.at[p]) : w.at[p][i] = x
  BY DEF TwHas
<1>2. PICK i \in 1 .. Len(w.at[p]) : w.at[p][i] = x
  BY <1>1
<1>3. PICK q \in TwPlaces : \E j \in 1 .. Len(w.at[q]) : w.at[q][j] = y
  BY DEF TwHas
<1>4. PICK j \in 1 .. Len(w.at[q]) : w.at[q][j] = y
  BY <1>3
<1>5. w.loc[x.key] = [place |-> p, index |-> i] /\ w.loc[y.key] = [place |-> q, index |-> j]
  BY <1>0, <1>2, <1>4 DEF TwExactBut
<1>6. p = q /\ i = j
  BY <1>5
<1> QED BY <1>2, <1>4, <1>6

\* A turn of update's loop takes out what is due by then, each timer once.
TwTurn(w, v, out, time) ==
  /\ TwGood(v) /\ v.time = time
  /\ \A x \in TwEvent : TwHas(v, x) <=> TwHas(w, x) /\ x.expire > time
  /\ out \in Seq(TwEvent)
  /\ \A i \in 1 .. Len(out) : TwHas(w, out[i]) /\ out[i].expire <= time
  /\ \A i, j \in 1 .. Len(out) : i # j => out[i].key # out[j].key

\* update's execute, shift, execute is such a turn.
LEMMA TwAdvanceIs ==
  ASSUME NEW w, TwGood(w), NEW diff \in Nat, w.time + diff < TwEnd
  PROVE  TwTurn(w, TwAdvance(w, diff)[1], TwAdvance(w, diff)[2],
                IF diff = 0 THEN w.time ELSE w.time + 1)
<1>0. w.time \in Nat /\ TwEnd \in Nat
  BY TwNumbers, TwWheelIs DEF TwGood
<1> DEFINE s == w.at[TwSlot(w)]
           a == TwExecute(w)
<1>1. /\ TwGood(a) /\ a.time = w.time
      /\ \A x \in TwEvent : TwHas(a, x) <=> TwHas(w, x) /\ x.expire > w.time
      /\ s \in Seq(TwEvent)
      /\ \A i \in 1 .. Len(s) : TwHas(w, s[i]) /\ s[i].expire = w.time
      /\ \A i, j \in 1 .. Len(s) : i # j => s[i].key # s[j].key
  BY TwExecuteIs
<1>2. CASE diff = 0
  <2>1. TwAdvance(w, diff)[1] = a /\ TwAdvance(w, diff)[2] = s
    BY <1>2 DEF TwAdvance
  <2> HIDE DEF a, s
  <2> QED BY <1>0, <1>1, <1>2, <2>1 DEF TwTurn
<1>3. CASE diff # 0
  <2> DEFINE v == TwShift(a)
             r == v.at[TwSlot(v)]
             b == TwExecute(v)
  <2>1. TwAdvance(w, diff)[1] = b /\ TwAdvance(w, diff)[2] = s \o r
    BY <1>3 DEF TwAdvance
  <2>2. w.time + 1 < TwEnd
    BY <1>0, <1>3
  <2>3. /\ TwGood(v) /\ v.time = w.time + 1
        /\ \A x \in TwEvent : TwHas(v, x) <=> TwHas(a, x)
    <3> HIDE DEF a
    <3> QED BY <1>1, <2>2, TwShiftIs
  <2> HIDE DEF a, s, v
  <2>4. /\ TwGood(b) /\ b.time = v.time
        /\ \A x \in TwEvent : TwHas(b, x) <=> TwHas(v, x) /\ x.expire > v.time
        /\ r \in Seq(TwEvent)
        /\ \A i \in 1 .. Len(r) : TwHas(v, r[i]) /\ r[i].expire = v.time
        /\ \A i, j \in 1 .. Len(r) : i # j => r[i].key # r[j].key
    BY <2>3, TwExecuteIs
  <2> HIDE DEF r, b
  <2>5. /\ s \o r \in Seq(TwEvent) /\ Len(s \o r) = Len(s) + Len(r) /\ Len(s) \in Nat /\ Len(r) \in Nat
        /\ \A i \in 1 .. Len(s) + Len(r) : (s \o r)[i] = IF i <= Len(s) THEN s[i] ELSE r[i - Len(s)]
    BY <1>1, <2>4, ConcatProperties, LenProperties
  <2>6. \A i \in 1 .. Len(r) : r[i] \in TwEvent
    BY <2>4, ElementOfSeq
  <2>7. \A x \in TwEvent : TwHas(b, x) <=> TwHas(w, x) /\ x.expire > w.time + 1
    <3> SUFFICES ASSUME NEW x \in TwEvent PROVE TwHas(b, x) <=> TwHas(w, x) /\ x.expire > w.time + 1
      OBVIOUS
    <3>1. x.expire \in Nat /\ (x.expire > w.time + 1 => x.expire > w.time)
      BY <1>0 DEF TwEvent
    <3> QED BY <3>1, <1>1, <2>3, <2>4
  <2>8. \A i \in 1 .. Len(r) : TwHas(w, r[i]) /\ r[i].expire = w.time + 1
    BY <1>1, <2>3, <2>4, <2>6
  <2>9. \A i \in 1 .. Len(s), j \in 1 .. Len(r) : s[i].key # r[j].key
    <3> SUFFICES ASSUME NEW i \in 1 .. Len(s), NEW j \in 1 .. Len(r), s[i].key = r[j].key PROVE FALSE
      OBVIOUS
    <3>1. TwHas(w, s[i]) /\ TwHas(w, r[j]) /\ s[i].expire = w.time /\ r[j].expire = w.time + 1
      BY <1>1, <2>8
    <3>2. s[i] = r[j]
      BY <3>1, TwSameKey
    <3> QED BY <3>1, <3>2, <1>0
  <2> DEFINE o == s \o r
  <2>10. ASSUME NEW i \in 1 .. Len(o)
         PROVE  \/ i \in 1 .. Len(s) /\ o[i] = s[i]
                \/ i - Len(s) \in 1 .. Len(r) /\ o[i] = r[i - Len(s)]
    BY <2>5
  <2>11. ASSUME NEW i \in 1 .. Len(o) PROVE TwHas(w, o[i]) /\ o[i].expire <= w.time + 1
    <3> HIDE DEF o
    <3>1. CASE i \in 1 .. Len(s) /\ o[i] = s[i]
      <4>1. TwHas(w, o[i]) /\ o[i].expire = w.time
        BY <1>1, <3>1
      <4> QED BY <1>0, <4>1
    <3>2. CASE i - Len(s) \in 1 .. Len(r) /\ o[i] = r[i - Len(s)]
      <4>1. TwHas(w, o[i]) /\ o[i].expire = w.time + 1
        BY <2>8, <3>2
      <4> QED BY <1>0, <4>1
    <3> QED BY <2>10, <3>1, <3>2
  <2>12. ASSUME NEW i \in 1 .. Len(o), NEW j \in 1 .. Len(o), i # j PROVE o[i].key # o[j].key
    <3> HIDE DEF o
    <3>1. CASE i \in 1 .. Len(s) /\ o[i] = s[i] /\ j \in 1 .. Len(s) /\ o[j] = s[j]
      BY <1>1, <2>12, <3>1
    <3>2. CASE i \in 1 .. Len(s) /\ o[i] = s[i] /\ j - Len(s) \in 1 .. Len(r) /\ o[j] = r[j - Len(s)]
      BY <2>9, <3>2
    <3>3. CASE i - Len(s) \in 1 .. Len(r) /\ o[i] = r[i - Len(s)] /\ j \in 1 .. Len(s) /\ o[j] = s[j]
      BY <2>9, <3>3
    <3>4. CASE i - Len(s) \in 1 .. Len(r) /\ o[i] = r[i - Len(s)] /\ j - Len(s) \in 1 .. Len(r) /\ o[j] = r[j - Len(s)]
      <4>1. i - Len(s) # j - Len(s)
        BY <2>5, <2>12
      <4> QED BY <2>4, <3>4, <4>1
    <3> QED BY <2>10, <3>1, <3>2, <3>3, <3>4
  <2>13. o \in Seq(TwEvent) /\ TwAdvance(w, diff)[2] = o
    BY <2>1, <2>5
  <2> HIDE DEF o
  <2>14. TwGood(b) /\ b.time = w.time + 1
    BY <2>3, <2>4
  <2> QED BY <1>3, <2>1, <2>7, <2>11, <2>12, <2>13, <2>14 DEF TwTurn
<1> QED BY <1>2, <1>3

\* timeout rounds a deadline up to a tick.
LEMMA TwExpireIs ==
  ASSUME NEW d \in Nat
  PROVE  TwExpire(d) \in Nat /\ \A e \in Nat : TwExpire(d) <= e => d <= e * TwTick
<1> DEFINE a == d + TwTick - 1
           q == TwExpire(d)
<1>0. TwTick \in Nat \ {0} /\ a \in Nat
  BY TwNumbers
<1>1. q \in Nat /\ a % TwTick \in Nat /\ a % TwTick < TwTick /\ a = (TwTick * q) + (a % TwTick)
  <2>1. q = a \div TwTick
    BY DEF TwExpire
  <2> HIDE DEF a, q
  <2> QED BY <1>0, <2>1, DivMod
<1> HIDE DEF q
<1>2. TwTick * q \in Nat /\ d <= TwTick * q
  BY <1>0, <1>1
<1>3. ASSUME NEW e \in Nat, q <= e PROVE d <= e * TwTick
  <2>1. e * TwTick = TwTick * e /\ TwTick * e \in Nat
    BY <1>0
  <2>2. q = e \/ (TwTick * q) + TwTick <= TwTick * e
    BY <1>0, <1>1, <1>3, MulStep
  <2> QED BY <1>0, <1>2, <2>1, <2>2
<1> QED BY <1>1, <1>3 DEF q

\* The tick of a millisecond.
LEMMA TwTicks ==
  ASSUME NEW now \in Nat
  PROVE  /\ now \div TwTick \in Nat /\ (now \div TwTick) * TwTick <= now
         /\ \A t \in Nat : t * TwTick <= now => t <= now \div TwTick
         /\ now < TwEnd * TwTick => \A t \in Nat : t * TwTick <= now => t < TwEnd
<1>0. TwTick \in Nat \ {0} /\ TwEnd \in Nat
  BY TwNumbers
<1> DEFINE q == now \div TwTick
<1>1. q \in Nat /\ now % TwTick \in Nat /\ now % TwTick < TwTick /\ now = (TwTick * q) + (now % TwTick)
  BY <1>0, DivMod
<1> HIDE DEF q
<1>2. \A t \in Nat : t * TwTick = TwTick * t /\ TwTick * t \in Nat
  BY <1>0
<1>3. q * TwTick <= now
  BY <1>0, <1>1, <1>2
<1>4. ASSUME NEW t \in Nat, t * TwTick <= now PROVE t <= q
  <2> SUFFICES ASSUME q < t PROVE FALSE
    BY <1>1
  <2>1. (TwTick * q) + TwTick <= TwTick * t
    BY <1>0, <1>1, MulStep
  <2> QED BY <1>0, <1>1, <1>2, <1>4, <2>1
<1>5. ASSUME now < TwEnd * TwTick, NEW t \in Nat, t * TwTick <= now PROVE t < TwEnd
  <2> SUFFICES ASSUME TwEnd <= t PROVE FALSE
    BY <1>0
  <2>1. TwEnd = t \/ (TwTick * TwEnd) + TwTick <= TwTick * t
    BY <1>0, MulStep
  <2> QED BY <1>0, <1>2, <1>5, <2>1
<1> QED BY <1>1, <1>3, <1>4, <1>5 DEF q

\* Initially nothing is armed.
LEMMA TwInitInductive == TwInit => TwInductive
<1> SUFFICES ASSUME TwInit PROVE TwInductive
  OBVIOUS
<1>0. TwTimers \in Nat /\ TwEnd \in Nat \ {0} /\ TwTick \in Nat \ {0} /\ TwEnd * TwTick \in Nat \ {0} /\ 0 < TwEnd * TwTick
  <2>1. TwTimers \in Nat /\ TwEnd \in Nat \ {0} /\ TwTick \in Nat \ {0}
    BY TwNumbers
  <2> QED BY <2>1, DivTwice
<1>1. PICK menu \in TwMenus :
       /\ twWheel = [time |-> 0, at |-> [p \in TwPlaces |-> <<>>], loc |-> [k \in TwKeys |-> TwNowhere]]
       /\ twIn = <<>> /\ twNow = 0
       /\ twRun = [pc |-> "idle", target |-> 0, out |-> <<>>]
       /\ twSleep = [k \in TwKeys |->
            [st |-> "new", delay |-> menu[k], deadline |-> 0, cancel |-> "no", answers |-> 0]]
  BY DEF TwInit
<1>2. \A k \in TwKeys : menu[k] \in Nat
  <2>1. menu \in [TwKeys -> 1 .. TwEnd * TwTick]
    BY TwAssumption DEF TwKeys
  <2> QED BY <2>1, <1>0
<1>3. twWheel \in TwWheels
  <2>1. <<0, 0>> \in TwPlaces
    BY TwPlaceIs, TwLevelIs, TwNumbers
  <2>2. TwNowhere \in [place : TwPlaces, index : Nat] /\ <<>> \in Seq(TwEvent)
    BY <2>1 DEF TwNowhere
  <2> QED BY <1>1, <2>2 DEF TwWheels
<1>4. /\ twWheel.time = 0 /\ \A p \in TwPlaces : twWheel.at[p] = <<>> /\ Len(twWheel.at[p]) = 0
      /\ \A k \in TwKeys : twWheel.loc[k].index = 0
  BY <1>1 DEF TwNowhere
<1>5. TwGood(twWheel)
  BY <1>0, <1>3, <1>4 DEF TwGood, TwExactBut, TwPlaced
<1>6. \A x : ~TwHas(twWheel, x)
  BY <1>4 DEF TwHas
<1>7. twSleep \in [TwKeys -> TwSleeps]
  BY <1>1, <1>2 DEF TwSleeps
<1>8. /\ twIn \in Seq(TwCommands) /\ Len(twIn) = 0 /\ twRun.out = <<>> /\ Len(twRun.out) = 0
      /\ twRun \in [pc : {"idle", "drain", "turn", "send"}, target : Nat, out : Seq(TwEvent)]
  BY <1>1
<1>9. TwTyped
  BY <1>1, <1>3, <1>7, <1>8 DEF TwTyped
<1>10. TwTimes
  BY <1>0, <1>1, <1>4, <1>6, <1>8 DEF TwTimes
<1>11. TwQueued /\ TwWaiting /\ TwExpired
  BY <1>6, <1>8 DEF TwQueued, TwWaiting, TwExpired
<1>12. TwAnswered
  BY <1>1 DEF TwAnswered
<1> QED BY <1>5, <1>9, <1>10, <1>11, <1>12 DEF TwInductive

\* The clock alone takes no timer out of its place.
LEMMA TwClockKeeps == TwInductive /\ TwClock => TwInductive'
<1> SUFFICES ASSUME TwInductive, TwClock PROVE TwInductive'
  OBVIOUS
<1>1. /\ twNow \in Nat /\ twNow' = twNow + 1 /\ twNow < TwEnd * TwTick - 1
      /\ UNCHANGED <<twWheel, twIn, twRun, twSleep>>
  BY DEF TwInductive, TwTyped, TwClock
<1>2. TwEnd * TwTick \in Nat
  BY TwNumbers
<1>3. twRun.target \in Nat /\ twRun.target * TwTick \in Nat
  BY TwNumbers DEF TwInductive, TwTyped
<1>4. TwTyped' /\ TwGood(twWheel)' /\ TwQueued' /\ TwWaiting' /\ TwExpired'
  <2>1. /\ twNow' \in Nat /\ twWheel' = twWheel /\ twIn' = twIn /\ twRun' = twRun
        /\ twSleep' = twSleep
    BY <1>1
  <2>2. TwTyped'
    BY <2>1 DEF TwInductive, TwTyped
  <2>3. TwGood(twWheel)'
    BY <2>1 DEF TwInductive
  <2>4. TwQueued'
    BY <2>1, Zenon DEF TwInductive, TwQueued
  <2>5. TwWaiting'
    BY <2>1, Zenon DEF TwInductive, TwWaiting
  <2>6. TwExpired'
    BY <2>1, Zenon DEF TwInductive, TwExpired
  <2> QED BY <2>2, <2>3, <2>4, <2>5, <2>6
<1>5. TwTimes'
  <2>1. twNow' < TwEnd * TwTick /\ twRun.target * TwTick <= twNow'
    BY <1>1, <1>2, <1>3 DEF TwInductive, TwTimes
  <2> QED BY <1>1, <2>1 DEF TwInductive, TwTimes
<1>6. TwAnswered'
  <2>1. \A k \in TwKeys : twSleep[k].deadline \in Nat
    BY DEF TwInductive, TwTyped, TwSleeps
  <2> QED BY <1>1, <2>1 DEF TwInductive, TwAnswered
<1> QED BY <1>4, <1>5, <1>6 DEF TwInductive

\* The thread wakes with a target that is not in the future.
LEMMA TwWakeKeeps == TwInductive /\ TwWake => TwInductive'
<1> SUFFICES ASSUME TwInductive, TwWake PROVE TwInductive'
  OBVIOUS
<1>1. /\ twRun.pc = "idle" /\ twRun' = [twRun EXCEPT !.pc = "drain", !.target = twNow \div TwTick]
      /\ UNCHANGED <<twWheel, twIn, twNow, twSleep>>
  BY DEF TwWake
<1>2. /\ twNow \in Nat /\ twRun \in [pc : {"idle", "drain", "turn", "send"}, target : Nat, out : Seq(TwEvent)]
      /\ twRun.out = <<>> /\ twWheel.time = twRun.target /\ twRun.target * TwTick <= twNow /\ twRun.target \in Nat
      /\ twNow < TwEnd * TwTick
  BY <1>1 DEF TwInductive, TwTyped, TwTimes
<1>3. /\ twNow \div TwTick \in Nat /\ (twNow \div TwTick) * TwTick <= twNow
      /\ twWheel.time <= twNow \div TwTick
  BY <1>2, TwTicks
<1>4. /\ twRun'.pc = "drain" /\ twRun'.target = twNow \div TwTick /\ twRun'.out = <<>>
      /\ twRun' \in [pc : {"idle", "drain", "turn", "send"}, target : Nat, out : Seq(TwEvent)]
  BY <1>1, <1>2, <1>3
<1>5. TwTyped' /\ TwGood(twWheel)' /\ TwAnswered'
  BY <1>1, <1>4 DEF TwInductive, TwTyped, TwAnswered
<1>6. TwTimes'
  BY <1>1, <1>2, <1>3, <1>4 DEF TwTimes
<1>7. TwQueued' /\ TwWaiting'
  BY <1>1, <1>2, <1>4 DEF TwInductive, TwQueued, TwWaiting, TwPends
<1>8. TwExpired'
  <2>1. Len(twRun'.out) = 0
    BY <1>4
  <2> QED BY <2>1 DEF TwExpired
<1> QED BY <1>5, <1>6, <1>7, <1>8 DEF TwInductive

\* What has the key of a timer is pending with it.
LEMMA TwKnows ==
  ASSUME TwInductive
  PROVE  /\ Len(twIn) \in Nat /\ \A i \in 1 .. Len(twIn) : twIn[i] \in TwCommands /\ twIn[i].key \in TwKeys
         /\ Len(twRun.out) \in Nat
         /\ \A j \in 1 .. Len(twRun.out) : twRun.out[j] \in TwEvent /\ twRun.out[j].key \in TwKeys
         /\ \A k \in TwKeys : twSleep[k] \in TwSleeps
         /\ \A k \in TwKeys : twSleep[k].st # "armed" =>
              /\ \A i \in 1 .. Len(twIn) : twIn[i].key # k
              /\ \A x \in TwEvent : TwHas(twWheel, x) => x.key # k
              /\ \A j \in 1 .. Len(twRun.out) : twRun.out[j].key # k
<1>1. twIn \in Seq(TwCommands) /\ twRun.out \in Seq(TwEvent) /\ \A k \in TwKeys : twSleep[k] \in TwSleeps
  BY DEF TwInductive, TwTyped
<1>2. Len(twIn) \in Nat /\ \A i \in 1 .. Len(twIn) : twIn[i] \in TwCommands
  BY <1>1, LenProperties, ElementOfSeq
<1>3. Len(twRun.out) \in Nat /\ \A j \in 1 .. Len(twRun.out) : twRun.out[j] \in TwEvent
  BY <1>1, LenProperties, ElementOfSeq
<1>4. \A c \in TwCommands : c.key \in TwKeys /\ c.op \in {"arm", "cancel"}
  BY DEF TwCommands
<1>5. \A x \in TwEvent : x.key \in TwKeys
  BY DEF TwEvent
<1>6. ASSUME NEW k \in TwKeys, twSleep[k].st # "armed"
      PROVE  /\ \A i \in 1 .. Len(twIn) : twIn[i].key # k
             /\ \A x \in TwEvent : TwHas(twWheel, x) => x.key # k
             /\ \A j \in 1 .. Len(twRun.out) : twRun.out[j].key # k
  <2>1. twSleep[k].cancel = "no"
    BY <1>6 DEF TwInductive, TwAnswered
  <2>2. ASSUME NEW i \in 1 .. Len(twIn) PROVE twIn[i].key # k
    BY <2>1, <1>2, <1>4, <1>6 DEF TwInductive, TwQueued, TwPends
  <2>3. \A x \in TwEvent : TwHas(twWheel, x) => x.key # k
    BY <1>6 DEF TwInductive, TwWaiting, TwPends
  <2>4. \A j \in 1 .. Len(twRun.out) : twRun.out[j].key # k
    BY <1>6 DEF TwInductive, TwExpired, TwPends
  <2> QED BY <2>2, <2>3, <2>4
<1> QED BY <1>1, <1>2, <1>3, <1>4, <1>5, <1>6

\* timeout has read the clock; nobody knows the timer yet.
LEMMA TwTimeoutKeeps == ASSUME TwInductive, NEW k \in TwKeys, TwTimeout(k) PROVE TwInductive'
<1>1. /\ twSleep[k].st = "new" /\ TwExpire(twNow + twSleep[k].delay) < TwEnd
      /\ twSleep' = [twSleep EXCEPT ![k].st = "arming", ![k].deadline = twNow + twSleep[k].delay]
      /\ UNCHANGED <<twWheel, twIn, twNow, twRun>>
  BY DEF TwTimeout
<1>2. twSleep \in [TwKeys -> TwSleeps] /\ twNow \in Nat
  BY DEF TwInductive, TwTyped
<1>3. /\ twSleep'[k] = [twSleep[k] EXCEPT !.st = "arming", !.deadline = twNow + twSleep[k].delay]
      /\ \A m \in TwKeys : m # k => twSleep'[m] = twSleep[m]
  BY <1>1, <1>2
<1>4. /\ twSleep'[k] \in TwSleeps /\ twSleep'[k].st = "arming" /\ twSleep'[k].cancel = twSleep[k].cancel
      /\ twSleep'[k].answers = twSleep[k].answers /\ twSleep'[k].deadline = twNow + twSleep[k].delay
  <2>1. PICK d : d = twNow + twSleep[k].delay
    OBVIOUS
  <2>2. d \in Nat
    BY <1>2, <2>1 DEF TwSleeps
  <2>3. twSleep'[k] = [twSleep[k] EXCEPT !.st = "arming", !.deadline = d] /\ twSleep[k] \in TwSleeps
    BY <1>2, <1>3, <2>1
  <2> QED BY <2>1, <2>2, <2>3 DEF TwSleeps
<1>5. twSleep' \in [TwKeys -> TwSleeps]
  <2>1. twSleep' = [twSleep EXCEPT ![k] = twSleep'[k]]
    BY <1>1, <1>2
  <2> QED BY <1>2, <1>4, <2>1
<1>6. TwTyped' /\ TwGood(twWheel)' /\ TwTimes'
  BY <1>1, <1>5 DEF TwInductive, TwTyped, TwTimes
<1>7. \A m \in TwKeys : m # k => (TwPends(twSleep'[m]) <=> TwPends(twSleep[m]))
  BY <1>3 DEF TwPends
<1>8. TwQueued'
  <2>1. \A i \in 1 .. Len(twIn) : twIn[i].key # k /\ twIn[i].key \in TwKeys
    BY <1>1, TwKnows
  <2>2. \A i \in 1 .. Len(twIn) : twSleep'[twIn[i].key] = twSleep[twIn[i].key]
    BY <2>1, <1>3
  <2>3. UNCHANGED <<twIn, twWheel, twRun>>
    BY <1>1
  <2>4. TwQueued
    BY DEF TwInductive
  <2> QED BY <2>2, <2>3, <2>4, SMTT(30) DEF TwQueued
<1>9. TwWaiting'
  <2>1. \A x \in TwEvent : x.key \in TwKeys
    BY DEF TwEvent
  <2> QED BY <1>1, <1>3, <1>7, <2>1, TwKnows DEF TwInductive, TwWaiting
<1>10. TwExpired'
  <2>1. \A i \in 1 .. Len(twRun.out) : twRun.out[i].key # k /\ twRun.out[i].key \in TwKeys
    BY <1>1, TwKnows
  <2>2. \A i \in 1 .. Len(twRun.out) : twSleep'[twRun.out[i].key] = twSleep[twRun.out[i].key]
    BY <2>1, <1>3
  <2> QED BY <1>1, <2>2 DEF TwInductive, TwExpired
<1>11. TwAnswered'
  BY <1>1, <1>3, <1>4 DEF TwInductive, TwAnswered
<1> QED BY <1>6, <1>8, <1>9, <1>10, <1>11 DEF TwInductive

\* One more command in incoming.
LEMMA TwMoreIn ==
  ASSUME TwInductive, NEW c \in TwCommands, twIn' = Append(twIn, c)
  PROVE  /\ twIn' \in Seq(TwCommands) /\ Len(twIn') = Len(twIn) + 1 /\ twIn'[Len(twIn) + 1] = c
         /\ \A i \in 1 .. Len(twIn') : i = Len(twIn) + 1 \/ (i \in 1 .. Len(twIn) /\ twIn'[i] = twIn[i])
<1>1. twIn \in Seq(TwCommands) /\ Len(twIn) \in Nat
  BY TwKnows DEF TwInductive, TwTyped
<1>2. /\ Append(twIn, c) \in Seq(TwCommands) /\ Len(Append(twIn, c)) = Len(twIn) + 1
      /\ \A i \in 1 .. Len(twIn) + 1 : Append(twIn, c)[i] = IF i = Len(twIn) + 1 THEN c ELSE twIn[i]
  BY <1>1, AppendProperties
<1> QED BY <1>1, <1>2

\* timeout pushes the arm of a timer that is nowhere.
LEMMA TwArmKeeps == ASSUME TwInductive, NEW k \in TwKeys, TwArm(k) PROVE TwInductive'
<1> DEFINE c == [op |-> "arm", key |-> k, expire |-> TwExpire(twSleep[k].deadline)]
           n == Len(twIn)
<1>1. /\ twSleep[k].st = "arming" /\ twSleep' = [twSleep EXCEPT ![k].st = "armed"]
      /\ twIn' = Append(twIn, c) /\ UNCHANGED <<twWheel, twNow, twRun>>
  BY DEF TwArm
<1>2. twSleep \in [TwKeys -> TwSleeps]
  BY DEF TwInductive, TwTyped
<1>3. /\ twSleep'[k] = [twSleep[k] EXCEPT !.st = "armed"]
      /\ \A m \in TwKeys : m # k => twSleep'[m] = twSleep[m]
  BY <1>1, <1>2
<1>4. /\ twSleep'[k] \in TwSleeps /\ twSleep'[k].st = "armed" /\ twSleep'[k].cancel = twSleep[k].cancel
      /\ twSleep'[k].answers = twSleep[k].answers /\ twSleep'[k].deadline = twSleep[k].deadline
      /\ twSleep[k].deadline \in Nat
  BY <1>2, <1>3 DEF TwSleeps
<1>5. twSleep' \in [TwKeys -> TwSleeps]
  BY <1>1, <1>2, <1>3, <1>4
<1>6. c \in TwCommands /\ c.op = "arm" /\ c.key = k /\ c.expire = TwExpire(twSleep'[k].deadline)
  BY <1>4, TwExpireIs DEF TwCommands
<1> HIDE DEF c
<1>7. /\ twIn' \in Seq(TwCommands) /\ Len(twIn') = n + 1 /\ twIn'[n + 1] = c /\ n \in Nat
      /\ \A i \in 1 .. Len(twIn') : i = n + 1 \/ (i \in 1 .. n /\ twIn'[i] = twIn[i])
  BY <1>1, <1>6, TwMoreIn, TwKnows
<1>8. TwTyped' /\ TwGood(twWheel)' /\ TwTimes'
  BY <1>1, <1>5, <1>7 DEF TwInductive, TwTyped, TwTimes
<1>9. (\A m \in TwKeys : m # k => (TwPends(twSleep'[m]) <=> TwPends(twSleep[m]))) /\ TwPends(twSleep'[k])
  <2>1. twSleep[k].cancel = "no" /\ twSleep[k].answers = 0
    BY <1>1 DEF TwInductive, TwAnswered
  <2> QED BY <1>3, <1>4, <2>1 DEF TwPends
<1>10. /\ \A i \in 1 .. n : twIn[i].key # k /\ twIn[i].key \in TwKeys
       /\ \A x \in TwEvent : TwHas(twWheel, x) => x.key # k
       /\ \A j \in 1 .. Len(twRun.out) : twRun.out[j].key # k
  BY <1>1, TwKnows
<1>11. TwQueued'
  <2>1. ASSUME NEW i \in 1 .. Len(twIn')
        PROVE  /\ twIn'[i].op = "arm" =>
                    /\ TwPends(twSleep'[twIn'[i].key])
                    /\ twIn'[i].expire = TwExpire(twSleep'[twIn'[i].key].deadline)
                    /\ \A x \in TwEvent : TwHas(twWheel, x) => x.key # twIn'[i].key
                    /\ \A j \in 1 .. Len(twRun.out) : twRun.out[j].key # twIn'[i].key
               /\ twIn'[i].op = "cancel" => twSleep'[twIn'[i].key].cancel = "asked"
    <3>1. CASE i = n + 1
      BY <3>1, <1>6, <1>7, <1>9, <1>10
    <3>2. CASE i \in 1 .. n /\ twIn'[i] = twIn[i]
      <4>1. twIn[i].key # k /\ twIn[i].key \in TwKeys
        BY <3>2, <1>10
      <4>2. twSleep'[twIn[i].key] = twSleep[twIn[i].key] /\ (TwPends(twSleep'[twIn[i].key]) <=> TwPends(twSleep[twIn[i].key]))
        BY <4>1, <1>3, <1>9
      <4> QED BY <3>2, <4>2 DEF TwInductive, TwQueued
    <3> QED BY <3>1, <3>2, <1>7
  <2>2. ASSUME NEW i \in 1 .. Len(twIn'), NEW j \in 1 .. Len(twIn'), i < j, twIn'[i].key = twIn'[j].key
        PROVE  twIn'[i].op = "arm" /\ twIn'[j].op = "cancel"
    <3>1. i \in 1 .. n /\ twIn'[i] = twIn[i]
      BY <2>2, <1>7
    <3>2. j # n + 1
      BY <2>2, <3>1, <1>6, <1>7, <1>10
    <3>3. j \in 1 .. n /\ twIn'[j] = twIn[j]
      BY <3>2, <1>7
    <3> QED BY <2>2, <3>1, <3>3 DEF TwInductive, TwQueued
  <2> QED BY <1>1, <2>1, <2>2 DEF TwQueued
<1>12. TwWaiting'
  <2>1. \A x \in TwEvent : x.key \in TwKeys
    BY DEF TwEvent
  <2> QED BY <1>1, <1>3, <1>9, <1>10, <2>1 DEF TwInductive, TwWaiting
<1>13. TwExpired'
  BY <1>1, <1>3, <1>9, <1>10, TwKnows DEF TwInductive, TwExpired
<1>14. TwAnswered'
  BY <1>1, <1>3, <1>4 DEF TwInductive, TwAnswered
<1> QED BY <1>8, <1>11, <1>12, <1>13, <1>14 DEF TwInductive

\* cancel is pushed once, behind its arm.
LEMMA TwCancelKeeps == ASSUME TwInductive, NEW k \in TwKeys, TwCancel(k) PROVE TwInductive'
<1> DEFINE c == [op |-> "cancel", key |-> k, expire |-> 0]
           n == Len(twIn)
<1>1. /\ twSleep[k].st = "armed" /\ twSleep[k].cancel = "no" /\ twSleep' = [twSleep EXCEPT ![k].cancel = "asked"]
      /\ twIn' = Append(twIn, c) /\ UNCHANGED <<twWheel, twNow, twRun>>
  BY DEF TwCancel
<1>2. twSleep \in [TwKeys -> TwSleeps]
  BY DEF TwInductive, TwTyped
<1>3. /\ twSleep'[k] = [twSleep[k] EXCEPT !.cancel = "asked"]
      /\ \A m \in TwKeys : m # k => twSleep'[m] = twSleep[m]
  BY <1>1, <1>2
<1>4. /\ twSleep'[k] \in TwSleeps /\ twSleep'[k].st = "armed" /\ twSleep'[k].cancel = "asked"
      /\ twSleep'[k].answers = twSleep[k].answers /\ twSleep'[k].deadline = twSleep[k].deadline
  BY <1>1, <1>2, <1>3 DEF TwSleeps
<1>5. twSleep' \in [TwKeys -> TwSleeps]
  BY <1>1, <1>2, <1>3, <1>4
<1>6. c \in TwCommands /\ c.op = "cancel" /\ c.key = k
  BY DEF TwCommands
<1> HIDE DEF c
<1>7. /\ twIn' \in Seq(TwCommands) /\ Len(twIn') = n + 1 /\ twIn'[n + 1] = c /\ n \in Nat
      /\ \A i \in 1 .. Len(twIn') : i = n + 1 \/ (i \in 1 .. n /\ twIn'[i] = twIn[i])
  BY <1>1, <1>6, TwMoreIn, TwKnows
<1>8. TwTyped' /\ TwGood(twWheel)' /\ TwTimes'
  BY <1>1, <1>5, <1>7 DEF TwInductive, TwTyped, TwTimes
<1>9. \A m \in TwKeys : (TwPends(twSleep[m]) => TwPends(twSleep'[m])) /\ twSleep'[m].deadline = twSleep[m].deadline
                        /\ (twSleep[m].cancel = "asked" => twSleep'[m].cancel = "asked")
  BY <1>1, <1>3, <1>4 DEF TwPends
<1>10. TwQueued'
  <2>1. ASSUME NEW i \in 1 .. Len(twIn')
        PROVE  /\ twIn'[i].op = "arm" =>
                    /\ TwPends(twSleep'[twIn'[i].key])
                    /\ twIn'[i].expire = TwExpire(twSleep'[twIn'[i].key].deadline)
                    /\ \A x \in TwEvent : TwHas(twWheel, x) => x.key # twIn'[i].key
                    /\ \A j \in 1 .. Len(twRun.out) : twRun.out[j].key # twIn'[i].key
               /\ twIn'[i].op = "cancel" => twSleep'[twIn'[i].key].cancel = "asked"
    <3>1. CASE i = n + 1
      BY <3>1, <1>4, <1>6, <1>7
    <3>2. CASE i \in 1 .. n /\ twIn'[i] = twIn[i]
      <4>1. twIn[i].key \in TwKeys
        BY <3>2, TwKnows
      <4> QED BY <3>2, <4>1, <1>9 DEF TwInductive, TwQueued
    <3> QED BY <3>1, <3>2, <1>7
  <2>2. ASSUME NEW i \in 1 .. Len(twIn'), NEW j \in 1 .. Len(twIn'), i < j, twIn'[i].key = twIn'[j].key
        PROVE  twIn'[i].op = "arm" /\ twIn'[j].op = "cancel"
    <3>1. i \in 1 .. n /\ twIn'[i] = twIn[i]
      BY <2>2, <1>7
    <3>2. CASE j = n + 1
      <4>1. twIn[i].key = k /\ twIn[i].op \in {"arm", "cancel"} /\ twIn'[j].op = "cancel"
        BY <2>2, <3>1, <3>2, <1>6, <1>7, TwKnows DEF TwCommands
      <4>2. twIn[i].op # "cancel"
        BY <3>1, <4>1, <1>1 DEF TwInductive, TwQueued
      <4> QED BY <3>1, <4>1, <4>2
    <3>3. CASE j \in 1 .. n /\ twIn'[j] = twIn[j]
      BY <2>2, <3>1, <3>3 DEF TwInductive, TwQueued
    <3> QED BY <3>2, <3>3, <1>7
  <2> QED BY <1>1, <2>1, <2>2 DEF TwQueued
<1>11. TwWaiting'
  <2>1. \A x \in TwEvent : x.key \in TwKeys
    BY DEF TwEvent
  <2> QED BY <1>1, <1>9, <2>1 DEF TwInductive, TwWaiting
<1>12. TwExpired'
  BY <1>1, <1>9, TwKnows DEF TwInductive, TwExpired
<1>13. TwAnswered'
  BY <1>1, <1>3, <1>4 DEF TwInductive, TwAnswered
<1> QED BY <1>8, <1>10, <1>11, <1>12, <1>13 DEF TwInductive

\* incoming without its first command.
LEMMA TwLessIn ==
  ASSUME TwInductive, twIn # <<>>, twIn' = Tail(twIn)
  PROVE  /\ Head(twIn) = twIn[1] /\ 1 \in 1 .. Len(twIn) /\ twIn' \in Seq(TwCommands)
         /\ \A i \in 1 .. Len(twIn') : i \in Nat /\ i + 1 \in 1 .. Len(twIn) /\ twIn'[i] = twIn[i + 1] /\ 1 < i + 1
<1>1. twIn \in Seq(TwCommands) /\ Len(twIn) \in Nat /\ Len(twIn) # 0
  BY TwKnows, EmptySeq DEF TwInductive, TwTyped
<1>2. /\ Head(twIn) = twIn[1] /\ Tail(twIn) \in Seq(TwCommands) /\ Len(Tail(twIn)) = Len(twIn) - 1
      /\ \A i \in 1 .. Len(twIn) - 1 : Tail(twIn)[i] = twIn[i + 1]
  BY <1>1, HeadTailProperties
<1> QED BY <1>1, <1>2

\* What is left of the queue is in the same order.
LEMMA TwOrderIn ==
  ASSUME TwInductive, twIn # <<>>, twIn' = Tail(twIn),
         NEW i \in 1 .. Len(twIn'), NEW j \in 1 .. Len(twIn'), i < j, twIn'[i].key = twIn'[j].key
  PROVE  twIn'[i].op = "arm" /\ twIn'[j].op = "cancel"
<1>1. /\ i \in Nat /\ i + 1 \in 1 .. Len(twIn) /\ twIn'[i] = twIn[i + 1]
      /\ j \in Nat /\ j + 1 \in 1 .. Len(twIn) /\ twIn'[j] = twIn[j + 1]
  BY TwLessIn
<1>2. i + 1 < j + 1 /\ twIn[i + 1].key = twIn[j + 1].key
  BY <1>1
<1>3. \A a, b \in 1 .. Len(twIn) :
         a < b /\ twIn[a].key = twIn[b].key => twIn[a].op = "arm" /\ twIn[b].op = "cancel"
  BY DEF TwInductive, TwQueued
<1> QED BY <1>1, <1>2, <1>3

\* An arm leaves the queue for the wheel, in one step.
LEMMA TwPopArmKeeps ==
  ASSUME TwInductive, TwPop, Head(twIn).op = "arm"
  PROVE  TwInductive'
<1> DEFINE c == twIn[1]
           k == c.key
           e == [key |-> k, expire |-> c.expire]
           d == [key |-> k, expire |-> TwDue(twWheel.time, e)]
<1>1. twRun.pc = "drain" /\ twIn # <<>> /\ twIn' = Tail(twIn) /\ UNCHANGED <<twNow, twRun, twSleep>>
  BY DEF TwPop
<1>2. /\ Head(twIn) = c /\ 1 \in 1 .. Len(twIn) /\ twIn' \in Seq(TwCommands)
      /\ \A i \in 1 .. Len(twIn') : i \in Nat /\ i + 1 \in 1 .. Len(twIn) /\ twIn'[i] = twIn[i + 1] /\ 1 < i + 1
  BY <1>1, TwLessIn
<1>3. c.op = "arm" /\ twWheel' = TwAdd(twWheel, e)
  BY <1>2 DEF TwPop
<1>4. c \in TwCommands /\ k \in TwKeys /\ c.expire \in Nat
  BY <1>2, TwKnows DEF TwCommands
<1>5. /\ TwPends(twSleep[k]) /\ c.expire = TwExpire(twSleep[k].deadline)
      /\ \A x \in TwEvent : TwHas(twWheel, x) => x.key # k
      /\ \A j \in 1 .. Len(twRun.out) : twRun.out[j].key # k
  BY <1>2, <1>3 DEF TwInductive, TwQueued
<1>6. c.expire < TwEnd
  BY <1>4, <1>5 DEF TwInductive, TwAnswered, TwPends
<1>7. /\ twWheel \in TwWheels /\ TwExactBut(twWheel, {}) /\ TwPlaced(twWheel) /\ twWheel.time < TwEnd
      /\ twWheel.time \in Nat
  BY TwWheelIs DEF TwInductive, TwGood
<1>8. e \in TwEvent /\ e.key = k /\ e.expire = c.expire
  BY <1>4 DEF TwEvent
<1>9. d \in TwEvent /\ d.key = k /\ d.expire >= c.expire
  BY <1>4, <1>7, <1>8 DEF TwEvent, TwDue
<1> HIDE DEF c, d, k, e
<1>10. /\ twWheel' \in TwWheels /\ twWheel'.time = twWheel.time
       /\ TwExactBut(twWheel', {}) /\ TwPlaced(twWheel')
       /\ \A x \in TwEvent : TwHas(twWheel', x) <=> TwHas(twWheel, x) \/ x = d
  <2>1. \A x \in TwEvent : TwHas(twWheel, x) => x.key # e.key
    BY <1>5, <1>8
  <2>2. PICK v : v = TwAdd(twWheel, e)
    OBVIOUS
  <2>3. /\ v \in TwWheels /\ v.time = twWheel.time
        /\ TwExactBut(v, {} \ {e.key}) /\ TwPlaced(v)
        /\ \A x \in TwEvent : TwHas(v, x) <=>
             TwHas(twWheel, x) \/ x = [key |-> e.key, expire |-> TwDue(twWheel.time, e)]
    BY <1>6, <1>7, <1>8, <2>1, <2>2, TwAddIs
  <2>4. {} \ {e.key} = {}
    OBVIOUS
  <2>5. [key |-> e.key, expire |-> TwDue(twWheel.time, e)] = d
    BY <1>8 DEF d
  <2> QED BY <1>3, <2>2, <2>3, <2>4, <2>5
<1>11. TwTyped' /\ TwGood(twWheel)' /\ TwAnswered'
  BY <1>1, <1>2, <1>7, <1>10 DEF TwInductive, TwTyped, TwGood, TwAnswered
<1>12. TwTimes'
  BY <1>1, <1>10 DEF TwInductive, TwTimes
<1>13. ASSUME NEW i \in 1 .. Len(twIn'), twIn'[i].op = "arm" PROVE twIn'[i].key # k
  BY <1>2, <1>13 DEF TwInductive, TwQueued, k, c
<1>14. TwQueued'
  <2>1. ASSUME NEW i \in 1 .. Len(twIn')
        PROVE  /\ twIn'[i].op = "arm" =>
                    /\ TwPends(twSleep[twIn'[i].key])
                    /\ twIn'[i].expire = TwExpire(twSleep[twIn'[i].key].deadline)
                    /\ \A x \in TwEvent : TwHas(twWheel, x) => x.key # twIn'[i].key
                    /\ \A j \in 1 .. Len(twRun.out) : twRun.out[j].key # twIn'[i].key
               /\ twIn'[i].op = "cancel" => twSleep[twIn'[i].key].cancel = "asked"
    BY <1>2 DEF TwInductive, TwQueued
  <2>2. ASSUME NEW i \in 1 .. Len(twIn'), twIn'[i].op = "arm", NEW x \in TwEvent, TwHas(twWheel', x)
        PROVE  x.key # twIn'[i].key
    BY <2>1, <2>2, <1>9, <1>10, <1>13
  <2>3. ASSUME NEW i \in 1 .. Len(twIn'), NEW j \in 1 .. Len(twIn'), i < j, twIn'[i].key = twIn'[j].key
        PROVE  twIn'[i].op = "arm" /\ twIn'[j].op = "cancel"
    BY <1>1, <2>3, TwOrderIn
  <2> QED BY <1>1, <2>1, <2>2, <2>3 DEF TwQueued
<1>15. TwWaiting'
  <2> SUFFICES ASSUME NEW x \in TwEvent, TwHas(twWheel', x)
               PROVE  /\ TwPends(twSleep[x.key]) /\ x.expire >= TwExpire(twSleep[x.key].deadline)
                      /\ \A j \in 1 .. Len(twRun.out) : twRun.out[j].key # x.key
    BY <1>1 DEF TwWaiting
  <2>1. CASE TwHas(twWheel, x)
    BY <2>1 DEF TwInductive, TwWaiting
  <2>2. CASE x = d
    BY <2>2, <1>5, <1>9
  <2> QED BY <2>1, <2>2, <1>10
<1>16. TwExpired'
  BY <1>1 DEF TwInductive, TwExpired
<1> QED BY <1>11, <1>12, <1>14, <1>15, <1>16 DEF TwInductive

\* A cancel takes its timer out of the wheel; its arm was handled before it.
LEMMA TwPopCancelKeeps ==
  ASSUME TwInductive, TwPop, Head(twIn).op # "arm"
  PROVE  TwInductive'
<1> DEFINE c == twIn[1]
           k == c.key
<1>1. twRun.pc = "drain" /\ twIn # <<>> /\ twIn' = Tail(twIn) /\ UNCHANGED <<twNow, twRun>>
  BY DEF TwPop
<1>2. /\ Head(twIn) = c /\ 1 \in 1 .. Len(twIn) /\ twIn' \in Seq(TwCommands)
      /\ \A i \in 1 .. Len(twIn') : i \in Nat /\ i + 1 \in 1 .. Len(twIn) /\ twIn'[i] = twIn[i + 1] /\ 1 < i + 1
  BY <1>1, TwLessIn
<1>3. /\ twWheel' = TwCancelled(twWheel, k)
      /\ twSleep' = [twSleep EXCEPT ![k].cancel = "done"]
  BY <1>2 DEF TwPop
<1>4. c \in TwCommands /\ k \in TwKeys /\ c.op = "cancel"
  BY <1>2, TwKnows DEF TwCommands
<1>5. twSleep[k].cancel = "asked" /\ twRun.out = <<>>
  BY <1>1, <1>2, <1>4 DEF TwInductive, TwQueued, TwTimes
<1>6. \A i \in 1 .. Len(twIn') : twIn'[i].key # k
  <2> SUFFICES ASSUME NEW i \in 1 .. Len(twIn'), twIn'[i].key = k PROVE FALSE
    OBVIOUS
  <2>1. 1 < i + 1 /\ i + 1 \in 1 .. Len(twIn) /\ twIn[1].key = twIn[i + 1].key
    BY <1>2
  <2>2. twIn[1].op = "arm"
    BY <1>2, <2>1 DEF TwInductive, TwQueued
  <2> QED BY <2>2, <1>4
<1>7. twSleep \in [TwKeys -> TwSleeps]
  BY DEF TwInductive, TwTyped
<1> HIDE DEF c, k
<1>8. /\ twSleep'[k] = [twSleep[k] EXCEPT !.cancel = "done"]
      /\ \A m \in TwKeys : m # k => twSleep'[m] = twSleep[m]
  BY <1>3, <1>4, <1>7
<1>9. /\ twSleep'[k] \in TwSleeps /\ twSleep'[k].st = twSleep[k].st
      /\ twSleep'[k].answers = twSleep[k].answers /\ twSleep'[k].deadline = twSleep[k].deadline
  BY <1>4, <1>7, <1>8 DEF TwSleeps
<1>10. twSleep' \in [TwKeys -> TwSleeps]
  BY <1>3, <1>4, <1>7, <1>8, <1>9
<1>11. /\ TwGood(twWheel') /\ twWheel'.time = twWheel.time
       /\ \A x \in TwEvent : TwHas(twWheel', x) <=> TwHas(twWheel, x) /\ x.key # k
  BY <1>3, <1>4, TwCancelIs DEF TwInductive
<1>12. TwTyped' /\ TwGood(twWheel)'
  BY <1>1, <1>2, <1>10, <1>11 DEF TwInductive, TwTyped, TwGood
<1>13. TwTimes'
  BY <1>1, <1>11 DEF TwInductive, TwTimes
<1>14. TwQueued'
  <2>1. ASSUME NEW i \in 1 .. Len(twIn')
        PROVE  /\ twIn'[i].op = "arm" =>
                    /\ TwPends(twSleep[twIn'[i].key])
                    /\ twIn'[i].expire = TwExpire(twSleep[twIn'[i].key].deadline)
                    /\ \A x \in TwEvent : TwHas(twWheel, x) => x.key # twIn'[i].key
                    /\ \A j \in 1 .. Len(twRun.out) : twRun.out[j].key # twIn'[i].key
               /\ twIn'[i].op = "cancel" => twSleep[twIn'[i].key].cancel = "asked"
               /\ twSleep'[twIn'[i].key] = twSleep[twIn'[i].key]
    <3>1. twIn'[i] = twIn[i + 1] /\ i + 1 \in 1 .. Len(twIn) /\ twIn[i + 1].key \in TwKeys
      BY <1>2, TwKnows
    <3>2. twSleep'[twIn'[i].key] = twSleep[twIn'[i].key]
      BY <1>6, <1>8, <3>1
    <3> QED BY <3>1, <3>2 DEF TwInductive, TwQueued
  <2>2. ASSUME NEW i \in 1 .. Len(twIn'), twIn'[i].op = "arm", NEW x \in TwEvent, TwHas(twWheel', x)
        PROVE  x.key # twIn'[i].key
    BY <2>1, <2>2, <1>11
  <2>3. ASSUME NEW i \in 1 .. Len(twIn'), NEW j \in 1 .. Len(twIn'), i < j, twIn'[i].key = twIn'[j].key
        PROVE  twIn'[i].op = "arm" /\ twIn'[j].op = "cancel"
    BY <1>1, <2>3, TwOrderIn
  <2> QED BY <1>1, <2>1, <2>2, <2>3 DEF TwQueued
<1>15. TwWaiting'
  <2> SUFFICES ASSUME NEW x \in TwEvent, TwHas(twWheel', x)
               PROVE  /\ TwPends(twSleep'[x.key]) /\ x.expire >= TwExpire(twSleep'[x.key].deadline)
                      /\ \A j \in 1 .. Len(twRun.out) : twRun.out[j].key # x.key
    BY <1>1 DEF TwWaiting
  <2>1. TwHas(twWheel, x) /\ x.key # k /\ x.key \in TwKeys
    BY <1>11 DEF TwEvent
  <2>2. twSleep'[x.key] = twSleep[x.key]
    BY <1>8, <2>1
  <2> QED BY <2>1, <2>2 DEF TwInductive, TwWaiting
<1>16. TwExpired'
  <2>1. Len(twRun'.out) = 0
    BY <1>1, <1>5
  <2> QED BY <2>1 DEF TwExpired
<1>17. TwAnswered'
  <2> SUFFICES ASSUME NEW m \in TwKeys
               PROVE  /\ twSleep'[m].st # "armed" => twSleep'[m].cancel = "no" /\ twSleep'[m].answers = 0
                      /\ twSleep'[m].st # "new" => TwExpire(twSleep'[m].deadline) < TwEnd
                      /\ twSleep'[m].answers # 0 => twSleep'[m].answers = 1 /\ twSleep'[m].deadline <= twNow
    BY <1>1 DEF TwAnswered
  <2>1. /\ twSleep[m].st # "armed" => twSleep[m].cancel = "no" /\ twSleep[m].answers = 0
        /\ twSleep[m].st # "new" => TwExpire(twSleep[m].deadline) < TwEnd
        /\ twSleep[m].answers # 0 => twSleep[m].answers = 1 /\ twSleep[m].deadline <= twNow
    BY DEF TwInductive, TwAnswered
  <2>2. CASE m # k
    BY <1>8, <2>1, <2>2, Zenon
  <2>3. CASE m = k
    <3>1. twSleep[m].st = "armed"
      BY <1>5, <2>1, <2>3
    <3> QED BY <1>9, <2>1, <2>3, <3>1
  <2> QED BY <2>2, <2>3
<1> QED BY <1>12, <1>13, <1>14, <1>15, <1>16, <1>17 DEF TwInductive

\* A turn of update's loop moves what is due to the expired list.
LEMMA TwUpdateKeeps == TwInductive /\ TwUpdate => TwInductive'
<1> SUFFICES ASSUME TwInductive, TwUpdate PROVE TwInductive'
  OBVIOUS
<1> DEFINE w == twWheel
           diff == twRun.target - w.time
           r == TwAdvance(w, diff)
           o == twRun.out
           now == IF diff = 0 THEN w.time ELSE w.time + 1
<1>1. /\ twRun.pc \in {"drain", "turn"} /\ twWheel' = r[1]
      /\ twRun' = [twRun EXCEPT !.out = @ \o r[2], !.pc = IF diff > 1 THEN "turn" ELSE "send"]
      /\ UNCHANGED <<twIn, twNow, twSleep>>
  BY DEF TwUpdate
<1>2. /\ twRun \in [pc : {"idle", "drain", "turn", "send"}, target : Nat, out : Seq(TwEvent)]
      /\ twRun.target \in Nat /\ o \in Seq(TwEvent) /\ twNow \in Nat /\ TwGood(w) /\ w.time \in Nat
  BY TwWheelIs DEF TwInductive, TwTyped, TwGood
<1>3. /\ diff \in Nat /\ w.time + diff = twRun.target /\ twRun.target < TwEnd /\ w.time <= twRun.target
      /\ (twRun.pc = "turn" => diff # 0)
  <2>1. w.time <= twRun.target /\ twNow < TwEnd * TwTick /\ twRun.target * TwTick <= twNow
        /\ (twRun.pc = "turn" => w.time < twRun.target)
    BY DEF TwInductive, TwTimes
  <2>2. twRun.target < TwEnd
    BY <1>2, <2>1, TwTicks
  <2> QED BY <1>2, <2>1, <2>2
<1>4. TwTurn(w, r[1], r[2], now)
  <2> HIDE DEF diff
  <2> QED BY <1>2, <1>3, TwAdvanceIs
<1>5. /\ now \in Nat /\ now <= twRun.target /\ (diff > 1 => now < twRun.target) /\ (~(diff > 1) => now = twRun.target)
  BY <1>2, <1>3
<1> HIDE DEF r, now
<1>6. /\ TwGood(twWheel') /\ twWheel'.time = now /\ r[2] \in Seq(TwEvent)
      /\ \A x \in TwEvent : TwHas(twWheel', x) <=> TwHas(w, x) /\ x.expire > now
      /\ \A i \in 1 .. Len(r[2]) : TwHas(w, r[2][i]) /\ r[2][i].expire <= now
      /\ \A i, j \in 1 .. Len(r[2]) : i # j => r[2][i].key # r[2][j].key
  BY <1>1, <1>4 DEF TwTurn
<1> DEFINE b == r[2]
           n == Len(o)
<1>7. /\ o \o b \in Seq(TwEvent) /\ Len(o \o b) = n + Len(b) /\ n \in Nat /\ Len(b) \in Nat
      /\ \A i \in 1 .. n + Len(b) : (o \o b)[i] = IF i <= n THEN o[i] ELSE b[i - n]
  BY <1>2, <1>6, ConcatProperties, LenProperties
<1>8. /\ twRun'.out = o \o b /\ twRun'.target = twRun.target
      /\ twRun'.pc = (IF diff > 1 THEN "turn" ELSE "send")
      /\ twRun' \in [pc : {"idle", "drain", "turn", "send"}, target : Nat, out : Seq(TwEvent)]
  <2> HIDE DEF diff
  <2> QED BY <1>1, <1>2, <1>7
<1>9. \A i \in 1 .. Len(b) : b[i] \in TwEvent
  BY <1>6, ElementOfSeq
<1>10. ASSUME NEW i \in 1 .. Len(twRun'.out)
       PROVE  \/ i \in 1 .. n /\ twRun'.out[i] = o[i]
              \/ i - n \in 1 .. Len(b) /\ twRun'.out[i] = b[i - n]
  <2> HIDE DEF b, n, o
  <2>1. twRun'.out = o \o b
    BY <1>8
  <2>2. i \in 1 .. n + Len(b) /\ twRun'.out[i] = IF i <= n THEN o[i] ELSE b[i - n]
    BY <1>7, <2>1
  <2> QED BY <1>7, <2>2
<1> HIDE DEF b, n, o, w
<1>11. ASSUME NEW i \in 1 .. Len(b)
       PROVE  /\ TwPends(twSleep[b[i].key]) /\ b[i].expire >= TwExpire(twSleep[b[i].key].deadline)
              /\ b[i].expire <= twRun.target
              /\ \A j \in 1 .. n : o[j].key # b[i].key
  <2>1. TwHas(w, b[i]) /\ b[i] \in TwEvent /\ b[i].expire <= now
    BY <1>6, <1>9 DEF b
  <2>2. b[i].expire <= twRun.target
    BY <2>1, <1>2, <1>5 DEF TwEvent
  <2> QED BY <2>1, <2>2 DEF TwInductive, TwWaiting, w, o, n
<1>12. ASSUME NEW x \in TwEvent, TwHas(twWheel', x), NEW j \in 1 .. Len(twRun'.out)
       PROVE  twRun'.out[j].key # x.key
  <2>1. TwHas(w, x) /\ x.expire > now
    BY <1>6, <1>12
  <2>2. CASE j \in 1 .. n /\ twRun'.out[j] = o[j]
    BY <2>1, <2>2 DEF TwInductive, TwWaiting, w, o, n
  <2>3. CASE j - n \in 1 .. Len(b) /\ twRun'.out[j] = b[j - n]
    <3>1. TwHas(w, b[j - n]) /\ b[j - n].expire <= now /\ b[j - n].expire \in Nat
      BY <2>3, <1>6, <1>9 DEF b, TwEvent
    <3>2. b[j - n].key # x.key
      <4> SUFFICES ASSUME b[j - n].key = x.key PROVE FALSE
        OBVIOUS
      <4>1. b[j - n] = x
        BY <1>2, <2>1, <3>1, TwSameKey
      <4> QED BY <2>1, <3>1, <4>1, <1>5
    <3> QED BY <2>3, <3>2
  <2> QED BY <2>2, <2>3, <1>10
<1>13. TwTyped' /\ TwGood(twWheel)'
  BY <1>1, <1>6, <1>8 DEF TwInductive, TwTyped, TwGood
<1>14. TwTimes'
  <2>1. twNow' < TwEnd * TwTick /\ twRun'.target * TwTick <= twNow'
    BY <1>1, <1>8 DEF TwInductive, TwTimes
  <2>2. \A x \in TwEvent : TwHas(twWheel', x) => x.expire > twWheel'.time
    BY <1>6
  <2>3. twRun'.pc \in {"turn", "send"}
    BY <1>8
  <2>4. twRun'.pc = "turn" => diff > 1
    BY <1>8
  <2>5. twRun'.pc = "send" => ~(diff > 1)
    BY <1>8
  <2> HIDE DEF diff
  <2> QED BY <2>1, <2>2, <2>3, <2>4, <2>5, <1>5, <1>6, <1>8 DEF TwTimes
<1>15. TwQueued'
  <2>1. ASSUME NEW i \in 1 .. Len(twIn), twIn[i].op = "arm"
        PROVE  /\ \A x \in TwEvent : TwHas(twWheel', x) => x.key # twIn[i].key
               /\ \A j \in 1 .. Len(twRun'.out) : twRun'.out[j].key # twIn[i].key
    <3>1. /\ \A x \in TwEvent : TwHas(w, x) => x.key # twIn[i].key
          /\ \A j \in 1 .. n : o[j].key # twIn[i].key
      BY <2>1 DEF TwInductive, TwQueued, w, o, n
    <3>2. \A j \in 1 .. Len(b) : b[j].key # twIn[i].key
      BY <3>1, <1>6, <1>9 DEF b
    <3>3. \A j \in 1 .. Len(twRun'.out) : twRun'.out[j].key # twIn[i].key
      BY <3>1, <3>2, <1>10
    <3> QED BY <3>1, <3>3, <1>6
  <2>2. TwQueued /\ UNCHANGED <<twIn, twSleep>>
    BY <1>1 DEF TwInductive
  <2> QED BY <2>1, <2>2, SMTT(30) DEF TwQueued
<1>16. TwWaiting'
  <2>1. ASSUME NEW x \in TwEvent, TwHas(twWheel', x)
        PROVE  TwPends(twSleep[x.key]) /\ x.expire >= TwExpire(twSleep[x.key].deadline)
    BY <2>1, <1>6 DEF TwInductive, TwWaiting, w
  <2> QED BY <1>1, <1>12, <2>1 DEF TwWaiting
<1>17. TwExpired'
  <2>1. ASSUME NEW i \in 1 .. n
        PROVE  TwPends(twSleep[o[i].key]) /\ o[i].expire >= TwExpire(twSleep[o[i].key].deadline)
               /\ o[i].expire <= twRun.target
    BY DEF TwInductive, TwExpired, o, n
  <2>2. ASSUME NEW i \in 1 .. n, NEW j \in 1 .. n, i # j PROVE o[i].key # o[j].key
    BY <2>2 DEF TwInductive, TwExpired, o, n
  <2>3. ASSUME NEW i \in 1 .. Len(twRun'.out)
        PROVE  LET x == twRun'.out[i]
               IN  TwPends(twSleep[x.key]) /\ x.expire >= TwExpire(twSleep[x.key].deadline) /\ x.expire <= twRun.target
    BY <1>10, <1>11, <2>1
  <2>4. ASSUME NEW i \in 1 .. Len(twRun'.out), NEW j \in 1 .. Len(twRun'.out), i # j
        PROVE  twRun'.out[i].key # twRun'.out[j].key
    <3>1. CASE i \in 1 .. n /\ twRun'.out[i] = o[i] /\ j \in 1 .. n /\ twRun'.out[j] = o[j]
      BY <2>2, <2>4, <3>1
    <3>2. CASE i \in 1 .. n /\ twRun'.out[i] = o[i] /\ j - n \in 1 .. Len(b) /\ twRun'.out[j] = b[j - n]
      BY <1>11, <3>2
    <3>3. CASE i - n \in 1 .. Len(b) /\ twRun'.out[i] = b[i - n] /\ j \in 1 .. n /\ twRun'.out[j] = o[j]
      BY <1>11, <3>3
    <3>4. CASE i - n \in 1 .. Len(b) /\ twRun'.out[i] = b[i - n] /\ j - n \in 1 .. Len(b) /\ twRun'.out[j] = b[j - n]
      <4>1. i - n # j - n
        BY <1>7, <1>8, <2>4
      <4> QED BY <1>6, <3>4, <4>1 DEF b
    <3> QED BY <1>10, <3>1, <3>2, <3>3, <3>4
  <2> QED BY <1>1, <1>8, <2>3, <2>4 DEF TwExpired
<1>18. TwAnswered'
  BY <1>1 DEF TwInductive, TwAnswered
<1> QED BY <1>13, <1>14, <1>15, <1>16, <1>17, <1>18 DEF TwInductive

\* Of the expired timers at most one has a given key.
LEMMA TwOnce ==
  ASSUME TwInductive, NEW k \in TwKeys
  PROVE  LET s == {i \in 1 .. Len(twRun.out) : twRun.out[i].key = k}
         IN  \/ Cardinality(s) = 0
             \/ Cardinality(s) = 1 /\ \E i \in 1 .. Len(twRun.out) : twRun.out[i].key = k
<1> DEFINE s == {i \in 1 .. Len(twRun.out) : twRun.out[i].key = k}
<1>1. CASE s = {}
  BY <1>1, FS_EmptySet
<1>2. CASE s # {}
  <2>1. PICK i \in s : TRUE
    BY <1>2
  <2>2. \A j \in s : j = i
    BY <2>1 DEF TwInductive, TwExpired
  <2>3. s = {i}
    BY <2>1, <2>2
  <2>4. Cardinality(s) = 1
    <3> HIDE DEF s
    <3> QED BY <2>3, FS_Singleton
  <2> QED BY <2>1, <2>4
<1> QED BY <1>1, <1>2

\* idle answers the expired timers, each of which was pending.
LEMMA TwSendKeeps == TwInductive /\ TwSend => TwInductive'
<1> SUFFICES ASSUME TwInductive, TwSend PROVE TwInductive'
  OBVIOUS
<1> DEFINE add(k) == Cardinality({i \in 1 .. Len(twRun.out) : twRun.out[i].key = k})
           sent(k) == \E i \in 1 .. Len(twRun.out) : twRun.out[i].key = k
<1>1. /\ twRun.pc = "send"
      /\ twSleep' = [k \in TwKeys |-> [twSleep[k] EXCEPT !.answers = @ + add(k)]]
      /\ twRun' = [twRun EXCEPT !.pc = "idle", !.out = <<>>]
      /\ UNCHANGED <<twWheel, twIn, twNow>>
  BY DEF TwSend
<1>2. /\ twRun \in [pc : {"idle", "drain", "turn", "send"}, target : Nat, out : Seq(TwEvent)]
      /\ twRun.target \in Nat /\ twNow \in Nat /\ \A k \in TwKeys : twSleep[k] \in TwSleeps
  BY DEF TwInductive, TwTyped
<1>3. \A k \in TwKeys : (add(k) = 0 \/ add(k) = 1) /\ (add(k) # 0 => sent(k))
  BY TwOnce
<1>4. \A k \in TwKeys : ~sent(k) => add(k) = 0
  BY <1>3, FS_EmptySet
<1> HIDE DEF add, sent
<1>5. ASSUME NEW k \in TwKeys
      PROVE  /\ twSleep'[k] \in TwSleeps /\ twSleep'[k].st = twSleep[k].st /\ twSleep'[k].cancel = twSleep[k].cancel
             /\ twSleep'[k].deadline = twSleep[k].deadline /\ twSleep'[k].answers = twSleep[k].answers + add(k)
             /\ twSleep[k].deadline \in Nat /\ twSleep[k].answers \in Nat
  <2>1. twSleep[k] \in TwSleeps /\ add(k) \in Nat
    BY <1>2, <1>3
  <2>2. twSleep[k].answers + add(k) \in Nat
    BY <2>1 DEF TwSleeps
  <2>3. twSleep'[k] = [twSleep[k] EXCEPT !.answers = twSleep[k].answers + add(k)]
    BY <1>1
  <2> QED BY <2>1, <2>2, <2>3 DEF TwSleeps
<1>6. twSleep' \in [TwKeys -> TwSleeps]
  BY <1>1, <1>5
<1>7. ASSUME NEW k \in TwKeys, ~sent(k)
      PROVE  /\ TwPends(twSleep'[k]) <=> TwPends(twSleep[k])
             /\ twSleep'[k].deadline = twSleep[k].deadline /\ twSleep'[k].cancel = twSleep[k].cancel
             /\ twSleep'[k].answers = twSleep[k].answers
  BY <1>4, <1>5, <1>7 DEF TwPends
<1>8. /\ twRun'.pc = "idle" /\ twRun'.target = twRun.target /\ twRun'.out = <<>> /\ Len(twRun'.out) = 0
      /\ twRun' \in [pc : {"idle", "drain", "turn", "send"}, target : Nat, out : Seq(TwEvent)]
  <2>1. /\ twRun'.pc = "idle" /\ twRun'.target = twRun.target /\ twRun'.out = <<>>
        /\ <<>> \in Seq(TwEvent) /\ Len(<<>>) = 0
    BY <1>1, <1>2
  <2>2. twRun' = [pc |-> "idle", target |-> twRun.target, out |-> <<>>]
    BY <1>1, <1>2
  <2>3. PICK s \in Seq(TwEvent) : s = <<>>
    BY <2>1
  <2>4. twRun' \in [pc : {"idle", "drain", "turn", "send"}, target : Nat, out : Seq(TwEvent)]
    BY <1>2, <2>2, <2>3
  <2> QED BY <2>1, <2>4
<1>9. TwTyped' /\ TwGood(twWheel)'
  BY <1>1, <1>6, <1>8 DEF TwInductive, TwTyped
<1>10. TwTimes'
  BY <1>1, <1>8 DEF TwInductive, TwTimes
<1>11. TwExpired'
  BY <1>8 DEF TwExpired
<1>12. TwQueued'
  <2>1. ASSUME NEW i \in 1 .. Len(twIn)
        PROVE  /\ twIn[i].op = "arm" =>
                    /\ TwPends(twSleep'[twIn[i].key])
                    /\ twIn[i].expire = TwExpire(twSleep'[twIn[i].key].deadline)
                    /\ \A x \in TwEvent : TwHas(twWheel, x) => x.key # twIn[i].key
               /\ twIn[i].op = "cancel" => twSleep'[twIn[i].key].cancel = "asked"
    <3>1. twIn[i].key \in TwKeys
      BY TwKnows
    <3>2. /\ twIn[i].op = "arm" =>
               /\ TwPends(twSleep[twIn[i].key])
               /\ twIn[i].expire = TwExpire(twSleep[twIn[i].key].deadline)
               /\ \A x \in TwEvent : TwHas(twWheel, x) => x.key # twIn[i].key
               /\ ~sent(twIn[i].key)
          /\ twIn[i].op = "cancel" => twSleep[twIn[i].key].cancel = "asked"
      BY DEF TwInductive, TwQueued, sent
    <3> QED BY <1>5, <1>7, <3>1, <3>2
  <2>2. \A i, j \in 1 .. Len(twIn) :
          i < j /\ twIn[i].key = twIn[j].key => twIn[i].op = "arm" /\ twIn[j].op = "cancel"
    BY DEF TwInductive, TwQueued
  <2> QED BY <1>1, <1>8, <2>1, <2>2 DEF TwQueued
<1>13. TwWaiting'
  <2> SUFFICES ASSUME NEW x \in TwEvent, TwHas(twWheel, x)
               PROVE  TwPends(twSleep'[x.key]) /\ x.expire >= TwExpire(twSleep'[x.key].deadline)
    BY <1>1, <1>8 DEF TwWaiting
  <2>1. /\ x.key \in TwKeys /\ ~sent(x.key) /\ TwPends(twSleep[x.key])
        /\ x.expire >= TwExpire(twSleep[x.key].deadline)
    BY DEF TwInductive, TwWaiting, TwEvent, sent
  <2> QED BY <2>1, <1>7
<1>14. TwAnswered'
  <2> SUFFICES ASSUME NEW k \in TwKeys
               PROVE  /\ twSleep'[k].st # "armed" => twSleep'[k].cancel = "no" /\ twSleep'[k].answers = 0
                      /\ twSleep'[k].st # "new" => TwExpire(twSleep'[k].deadline) < TwEnd
                      /\ twSleep'[k].answers # 0 => twSleep'[k].answers = 1 /\ twSleep'[k].deadline <= twNow
    BY <1>1 DEF TwAnswered
  <2>0. /\ twSleep[k].st # "armed" => twSleep[k].cancel = "no" /\ twSleep[k].answers = 0
        /\ twSleep[k].st # "new" => TwExpire(twSleep[k].deadline) < TwEnd
        /\ twSleep[k].answers # 0 => twSleep[k].answers = 1 /\ twSleep[k].deadline <= twNow
    BY DEF TwInductive, TwAnswered
  <2>1. CASE ~sent(k)
    BY <2>0, <2>1, <1>5, <1>7
  <2>2. CASE sent(k)
    <3>1. PICK i \in 1 .. Len(twRun.out) : twRun.out[i].key = k
      BY <2>2 DEF sent
    <3> DEFINE e == twRun.out[i].expire
    <3>2. /\ twSleep[k].st = "armed" /\ twSleep[k].answers = 0
          /\ e >= TwExpire(twSleep[k].deadline) /\ e <= twRun.target
      BY <3>1 DEF TwInductive, TwExpired, TwPends
    <3>3. e \in Nat
      BY TwKnows DEF TwEvent
    <3> HIDE DEF e
    <3>4. TwExpire(twSleep[k].deadline) \in Nat /\ TwExpire(twSleep[k].deadline) <= twRun.target
      <4>1. twSleep[k].deadline \in Nat
        BY <1>5
      <4>2. TwExpire(twSleep[k].deadline) \in Nat
        BY <4>1, TwExpireIs
      <4> QED BY <1>2, <3>2, <3>3, <4>2
    <3>5. twSleep[k].deadline <= twRun.target * TwTick
      BY <1>2, <1>5, <3>4, TwExpireIs
    <3>6. twRun.target * TwTick <= twNow /\ twRun.target * TwTick \in Nat
      BY <1>2, TwNumbers DEF TwInductive, TwTimes
    <3>7. twSleep[k].deadline <= twNow
      BY <1>2, <1>5, <3>5, <3>6
    <3>8. twSleep'[k].answers = 0 + add(k) /\ (add(k) = 0 \/ add(k) = 1)
      BY <1>3, <1>5, <3>2
    <3>9. twSleep'[k].answers = 0 \/ twSleep'[k].answers = 1
      BY <3>8
    <3>10. twSleep'[k].st = "armed" /\ twSleep'[k].deadline = twSleep[k].deadline
      BY <3>2, <1>5
    <3> QED BY <2>0, <3>2, <3>7, <3>9, <3>10
  <2> QED BY <2>1, <2>2
<1> QED BY <1>9, <1>10, <1>11, <1>12, <1>13, <1>14 DEF TwInductive

\* A bucket has at most as many timers as there are.
LEMMA TwFew ==
  ASSUME NEW w, TwGood(w), NEW p \in TwPlaces, NEW i \in 1 .. Len(w.at[p])
  PROVE  i \in 1 .. TwTimers
<1> DEFINE q == w.at[p]
           n == Len(q)
           S == 1 .. n
           T == 1 .. TwTimers
           f == [j \in S |-> q[j].key]
<1>1. q \in Seq(TwEvent) /\ n \in Nat /\ TwTimers \in Nat
  BY TwWheelIs, LenProperties, TwNumbers DEF TwGood
<1>2. \A j \in S : q[j].key \in T
  <2>1. \A j \in S : q[j] \in TwEvent
    <3> HIDE DEF q
    <3> QED BY <1>1, ElementOfSeq
  <2>2. \A x \in TwEvent : x.key \in T
    BY DEF TwEvent, TwKeys
  <2> HIDE DEF q, S, T
  <2> QED BY <2>1, <2>2
<1>3. \A j \in S : w.loc[q[j].key] = [place |-> p, index |-> j]
  BY DEF TwGood, TwExactBut
<1> HIDE DEF q
<1>4. f \in [S -> T]
  <2> HIDE DEF S, T
  <2> QED BY <1>2
<1>5. ASSUME NEW a \in S, NEW b \in S, f[a] = f[b] PROVE a = b
  <2>1. q[a].key = q[b].key
    BY <1>5
  <2>2. [place |-> p, index |-> a] = [place |-> p, index |-> b]
    <3> HIDE DEF S
    <3>1. w.loc[q[a].key] = [place |-> p, index |-> a]
      BY <1>3
    <3>2. w.loc[q[b].key] = [place |-> p, index |-> b]
      BY <1>3
    <3> QED BY <2>1, <3>1, <3>2
  <2> QED BY <2>2
<1>6. f \in Injection(S, T)
  <2> HIDE DEF f, S, T
  <2>1. DOMAIN f = S
    BY <1>4
  <2>2. IsInjective(f)
    BY <1>5, <2>1 DEF IsInjective
  <2> QED BY <1>4, <2>2 DEF Injection
<1>7. IsFiniteSet(T) /\ Cardinality(T) = TwTimers /\ Cardinality(S) = n
  <2> HIDE DEF n
  <2>1. /\ IsFiniteSet(1 .. TwTimers)
        /\ Cardinality(1 .. TwTimers) = IF 1 > TwTimers THEN 0 ELSE TwTimers - 1 + 1
        /\ Cardinality(1 .. n) = IF 1 > n THEN 0 ELSE n - 1 + 1
    BY <1>1, FS_Interval
  <2> QED BY <1>1, <2>1
<1>8. Cardinality(S) <= Cardinality(T)
  <2> HIDE DEF f, S, T
  <2> QED BY <1>6, <1>7, FS_Injection
<1>9. n <= TwTimers /\ i \in 1 .. n
  BY <1>7, <1>8 DEF q
<1> HIDE DEF n
<1> QED BY <1>1, <1>9

\* The invariant has what the runs check.
LEMMA TwSafeIs == TwInductive => TwSafe
<1> SUFFICES ASSUME TwInductive PROVE TwSafe
  OBVIOUS
<1>1. /\ TwGood(twWheel) /\ twWheel \in TwWheels /\ TwExactBut(twWheel, {})
      /\ \A k \in TwKeys : twSleep[k] \in TwSleeps
      /\ twRun.target \in Nat
  BY DEF TwInductive, TwGood, TwTyped
<1>2. \A h \in TwHeld : /\ h[1] \in TwPlaces /\ h[2] \in 1 .. Len(twWheel.at[h[1]])
                        /\ twWheel.at[h[1]][h[2]] \in TwEvent
  <2> SUFFICES ASSUME NEW h \in TwHeld
               PROVE  /\ h[1] \in TwPlaces /\ h[2] \in 1 .. Len(twWheel.at[h[1]])
                      /\ twWheel.at[h[1]][h[2]] \in TwEvent
    OBVIOUS
  <2>1. h[1] \in TwPlaces /\ h[2] \in 1 .. TwTimers /\ h[2] <= Len(twWheel.at[h[1]])
    BY DEF TwHeld
  <2>2. twWheel.at[h[1]] \in Seq(TwEvent) /\ Len(twWheel.at[h[1]]) \in Nat
    BY <1>1, <2>1, TwWheelIs, LenProperties
  <2>3. h[2] \in 1 .. Len(twWheel.at[h[1]])
    BY <2>1, <2>2, TwNumbers
  <2> QED BY <2>1, <2>2, <2>3, ElementOfSeq
<1>3. TwIndexed
  <2>1. \A h \in TwHeld : twWheel.loc[twWheel.at[h[1]][h[2]].key] = [place |-> h[1], index |-> h[2]]
    BY <1>1, <1>2 DEF TwExactBut
  <2>2. ASSUME NEW k \in TwKeys, twWheel.loc[k].index # 0
        PROVE  /\ <<twWheel.loc[k].place, twWheel.loc[k].index>> \in TwHeld
               /\ twWheel.at[twWheel.loc[k].place][twWheel.loc[k].index].key = k
    <3> DEFINE p == twWheel.loc[k].place
               i == twWheel.loc[k].index
    <3>1. p \in TwPlaces /\ i \in 1 .. Len(twWheel.at[p]) /\ twWheel.at[p][i].key = k
      BY <1>1, <2>2 DEF TwWheels, TwExactBut
    <3> HIDE DEF p, i
    <3>2. i \in 1 .. TwTimers
      BY <1>1, <3>1, TwFew
    <3>3. i <= Len(twWheel.at[p])
      BY <1>1, <3>1, TwWheelIs, LenProperties
    <3>4. <<p, i>> \in TwHeld
      BY <3>1, <3>2, <3>3 DEF TwHeld
    <3> QED BY <3>1, <3>4 DEF p, i
  <2> QED BY <2>1, <2>2 DEF TwIndexed
<1>4. TwPunctual
  <2>1. ASSUME NEW k \in TwKeys, twSleep[k].answers > 0
        PROVE  twSleep[k].answers = 1 /\ twNow >= twSleep[k].deadline
    <3>1. twSleep[k].answers \in Nat /\ twSleep[k].answers # 0
      BY <1>1, <2>1 DEF TwSleeps
    <3> QED BY <3>1 DEF TwInductive, TwAnswered
  <2>2. ASSUME NEW i \in 1 .. Len(twRun.out)
        PROVE  LET k == twRun.out[i].key
               IN  twSleep[k].cancel # "done" /\ twSleep[k].answers = 0 /\ twRun.target * TwTick >= twSleep[k].deadline
    <3> DEFINE x == twRun.out[i]
               k == x.key
    <3>1. TwPends(twSleep[k]) /\ x.expire >= TwExpire(twSleep[k].deadline) /\ x.expire <= twRun.target
      BY DEF TwInductive, TwExpired
    <3>2. x \in TwEvent
      BY TwKnows
    <3> HIDE DEF x
    <3>3. x.expire \in Nat /\ k \in TwKeys
      BY <3>2 DEF TwEvent
    <3>4. twSleep[k].deadline \in Nat
      BY <1>1, <3>3 DEF TwSleeps
    <3>5. TwExpire(twSleep[k].deadline) \in Nat
      BY <3>4, TwExpireIs
    <3>6. TwExpire(twSleep[k].deadline) <= twRun.target
      BY <1>1, <3>1, <3>3, <3>5
    <3>7. twSleep[k].deadline <= twRun.target * TwTick
      BY <1>1, <3>4, <3>6, TwExpireIs
    <3> QED BY <3>1, <3>7 DEF TwPends, x
  <2>3. ASSUME twRun.pc \in {"send", "idle"}, NEW h \in TwHeld
        PROVE  twWheel.at[h[1]][h[2]].expire > twRun.target
    <3>1. TwHas(twWheel, twWheel.at[h[1]][h[2]]) /\ twWheel.at[h[1]][h[2]] \in TwEvent
      BY <1>2 DEF TwHas
    <3>2. twWheel.time = twRun.target /\ \A x \in TwEvent : TwHas(twWheel, x) => x.expire > twWheel.time
      BY <2>3 DEF TwInductive, TwTimes
    <3> QED BY <3>1, <3>2
  <2> QED BY <2>1, <2>2, <2>3 DEF TwPunctual
<1> QED BY <1>3, <1>4 DEF TwSafe

\* Through every arm, cancel, wake-up, turn of the wheel and answer, the wheel's index is
\* exact, each timer is on the lowest level and in the slot in which its time comes, and
\* a timer is in one of the queue, the wheel and the expired list (WheelTimer, Wheel).
THEOREM TwInductiveAlways == TwSpec => []TwInductive
<1>1. TwInit => TwInductive
  BY TwInitInductive
<1>2. TwInductive /\ [TwNext]_twVars => TwInductive'
  <2> SUFFICES ASSUME TwInductive, [TwNext]_twVars PROVE TwInductive'
    OBVIOUS
  <2>1. CASE TwClock
    BY <2>1, TwClockKeeps
  <2>2. CASE TwWake
    BY <2>2, TwWakeKeeps
  <2>3. CASE TwPop
    BY <2>3, TwPopArmKeeps, TwPopCancelKeeps
  <2>4. CASE TwUpdate
    BY <2>4, TwUpdateKeeps
  <2>5. CASE TwSend
    BY <2>5, TwSendKeeps
  <2>6. ASSUME NEW k \in TwKeys, TwTimeout(k) \/ TwArm(k) \/ TwCancel(k) PROVE TwInductive'
    BY <2>6, TwTimeoutKeeps, TwArmKeeps, TwCancelKeeps
  <2>7. CASE UNCHANGED twVars
    BY <2>7 DEF twVars, TwInductive, TwTyped, TwGood, TwTimes, TwQueued, TwWaiting, TwExpired, TwAnswered
  <2> QED BY <2>1, <2>2, <2>3, <2>4, <2>5, <2>6, <2>7 DEF TwNext
<1> QED BY <1>1, <1>2, PTL DEF TwSpec

\* A sleep of any number of timers on a wheel of any size is answered once, never before
\* its deadline and never after its cancel was handled; cancel removes the timer that it
\* is asked to; and when the timer's thread sleeps, nothing that it knows is overdue
\* (Wheel::add, cancel, shift, execute; WheelTimer::update).
THEOREM TwAlways == TwSpec => []TwSafe
BY TwInductiveAlways, TwSafeIs, PTL

(***************************************************************************)
(* Logger.  The records of the mailbox, the output and the disk.           *)
(***************************************************************************)
LgPosted == [line : Nat, size : Nat]
LgPrinted == [line : Nat, n : Nat]
LgFileKind == [at : Nat, date : Nat, len : Nat]
LgDiskFile == [bytes : Nat, lines : Nat, spoilt : BOOLEAN, torn : BOOLEAN]
LgWorlds == [file : LgFileKind, disk : Seq(LgDiskFile), moved : BOOLEAN, out : Seq(LgPrinted),
             faults : Nat]
LgTyped ==
  /\ lgBox \in Seq(LgPosted) /\ lgFile \in LgFileKind /\ lgDisk \in Seq(LgDiskFile)
  /\ lgMoved \in BOOLEAN /\ lgDropped \in Nat /\ lgOut \in Seq(LgPrinted) /\ lgTaken \in Nat
  /\ lgDay \in Nat /\ lgUsed \in [lines : Nat, hups : Nat, faults : Nat]

\* Lines have a size; the lines of a mailbox have the numbers that follow those
\* taken from it, one by one, up to the last line posted.
LgLast(box, taken, k) == IF k = 0 THEN taken ELSE box[k].line
LgWaiting(box, k, i) ==
  /\ k = 0 \/ box[k].line # 0
  /\ \A j \in k + 1 .. i - 1 : box[j].line = 0
LgQueued(box, taken, posted) ==
  /\ \A i \in DOMAIN box : box[i].line # 0 =>
       /\ box[i].size # 0
       /\ \E k \in 0 .. i - 1 : LgWaiting(box, k, i) /\ box[i].line = LgLast(box, taken, k) + 1
  /\ \E k \in 0 .. Len(box) :
       LgWaiting(box, k, Len(box) + 1) /\ LgLast(box, taken, k) = posted

\* The length of the open file against the file on disk: short of what failing
\* writes left there.
LgLength(len, f) == len <= f.bytes /\ (f.torn \/ len = f.bytes)

\* The files of a world: the open one is on disk with its length, a file without
\* bytes has no line, a file that was torn was spoilt, and a long file has a single
\* line or was spoilt by a fault.
LgFiles(w) ==
  /\ w.file.at \in 0 .. Len(w.disk)
  /\ w.file.at # 0 => LgLength(w.file.len, w.disk[w.file.at])
  /\ \A i \in DOMAIN w.disk :
       /\ w.disk[i].bytes = 0 => w.disk[i].lines = 0
       /\ w.disk[i].torn => w.disk[i].spoilt
       /\ LgMaxFile # 0 /\ w.disk[i].bytes > LgMaxFile =>
            w.disk[i].lines = 1 \/ w.disk[i].spoilt

LgInv ==
  /\ LgTyped /\ LgQueued(lgBox, lgTaken, lgUsed.lines) /\ lgDropped <= lgTaken
  /\ LgAccount /\ LgFiles(LgWorld)

\* The last line that came out has this number, and one notice of n lines follows it.
LgNoticed(out, number, n) ==
  \E k \in 0 .. Len(out) : \E j \in LgNotices(out, k, Len(out) + 1) :
    /\ LgLastBefore(out, k, Len(out) + 1) /\ LgNotices(out, k, Len(out) + 1) = {j}
    /\ LgNumber(out, k) = number /\ out[j].n = n

(* What is printed next changes nothing that was said of the places before.*)
LEMMA PrintedStays ==
  ASSUME NEW out \in Seq(LgPrinted), NEW e \in LgPrinted,
         NEW i \in 1 .. Len(out) + 1, NEW k \in 0 .. i - 1
  PROVE  LET o == Append(out, e)
         IN  /\ LgLastBefore(o, k, i) <=> LgLastBefore(out, k, i)
             /\ LgNotices(o, k, i) = LgNotices(out, k, i)
             /\ LgNumber(o, k) = LgNumber(out, k)
<1> DEFINE o == Append(out, e)
<1>1. /\ \A j \in 1 .. Len(out) : o[j] = out[j]
      /\ Len(out) \in Nat /\ (k = 0 \/ k \in 1 .. Len(out))
  OBVIOUS
<1>2. \A j \in k + 1 .. i - 1 : j \in 1 .. Len(out)
  BY <1>1
<1> HIDE DEF o
<1>3. LgLastBefore(o, k, i) <=> LgLastBefore(out, k, i)
  BY <1>1, <1>2 DEF LgLastBefore
<1>4. LgNotices(o, k, i) = LgNotices(out, k, i)
  BY <1>1, <1>2 DEF LgNotices
<1>5. LgNumber(o, k) = LgNumber(out, k)
  BY <1>1 DEF LgNumber
<1> QED  BY <1>3, <1>4, <1>5 DEF o

(* The order of the output is kept if the entry that is added is no line,  *)
(* or the line that is due.                                                *)
LEMMA OrderGrows ==
  ASSUME NEW out \in Seq(LgPrinted), NEW e \in LgPrinted, LgInOrder(out),
         e.line # 0 =>
           \E k \in 0 .. Len(out) :
             /\ LgLastBefore(out, k, Len(out) + 1)
             /\ \/ LgNotices(out, k, Len(out) + 1) = {} /\ e.line = LgNumber(out, k) + 1
                \/ \E j \in LgNotices(out, k, Len(out) + 1) :
                     /\ LgNotices(out, k, Len(out) + 1) = {j}
                     /\ e.line = LgNumber(out, k) + out[j].n + 1
  PROVE  LgInOrder(Append(out, e))
<1> DEFINE o == Append(out, e)
<1>1. /\ o \in Seq(LgPrinted) /\ DOMAIN o = 1 .. Len(out) + 1 /\ o[Len(out) + 1] = e
      /\ Len(out) \in Nat /\ \A j \in 1 .. Len(out) : o[j] = out[j]
      /\ DOMAIN out = 1 .. Len(out)
  OBVIOUS
<1>2. \A i \in 1 .. Len(out) + 1 : \A k \in 0 .. i - 1 :
        /\ LgLastBefore(o, k, i) <=> LgLastBefore(out, k, i)
        /\ LgNotices(o, k, i) = LgNotices(out, k, i)
        /\ LgNumber(o, k) = LgNumber(out, k)
  BY PrintedStays
<1>3. \A i \in 1 .. Len(out) + 1 : \A k \in 0 .. i - 1 : \A j \in LgNotices(out, k, i) :
        o[j] = out[j]
  BY <1>1 DEF LgNotices
<1> HIDE DEF o
<1>4. SUFFICES ASSUME NEW i \in DOMAIN o, o[i].line # 0
               PROVE  \E k \in 0 .. i - 1 :
                        /\ LgLastBefore(o, k, i)
                        /\ \/ LgNotices(o, k, i) = {} /\ o[i].line = LgNumber(o, k) + 1
                           \/ \E j \in LgNotices(o, k, i) :
                                /\ LgNotices(o, k, i) = {j}
                                /\ o[i].line = LgNumber(o, k) + o[j].n + 1
  BY DEF LgInOrder, o
<1>5. CASE i \in 1 .. Len(out)
  <2>1. o[i] = out[i]
    BY <1>1, <1>5
  <2>2. PICK k \in 0 .. i - 1 :
          /\ LgLastBefore(out, k, i)
          /\ \/ LgNotices(out, k, i) = {} /\ out[i].line = LgNumber(out, k) + 1
             \/ \E j \in LgNotices(out, k, i) :
                  /\ LgNotices(out, k, i) = {j}
                  /\ out[i].line = LgNumber(out, k) + out[j].n + 1
    BY <1>1, <1>4, <1>5, <2>1 DEF LgInOrder
  <2>3. i \in 1 .. Len(out) + 1
    BY <1>1, <1>5
  <2> QED  BY <1>2, <1>3, <2>1, <2>2, <2>3
<1>6. CASE i = Len(out) + 1
  <2>1. o[i] = e /\ 0 .. i - 1 = 0 .. Len(out) /\ i \in 1 .. Len(out) + 1
    BY <1>1, <1>6
  <2>2. PICK k \in 0 .. i - 1 :
          /\ LgLastBefore(out, k, i)
          /\ \/ LgNotices(out, k, i) = {} /\ e.line = LgNumber(out, k) + 1
             \/ \E j \in LgNotices(out, k, i) :
                  /\ LgNotices(out, k, i) = {j} /\ e.line = LgNumber(out, k) + out[j].n + 1
    BY <1>4, <1>6, <2>1
  <2> QED  BY <1>2, <1>3, <2>1, <2>2
<1> QED  BY <1>1, <1>5, <1>6

(* A line of the logger about itself.                                      *)
LEMMA OwnLine ==
  ASSUME NEW out \in Seq(LgPrinted), NEW e \in LgPrinted, e.line = 0, e.n = 0,
         NEW m, NEW n
  PROVE  /\ LgInOrder(out) => LgInOrder(Append(out, e))
         /\ LgEndsWith(out, m) => LgEndsWith(Append(out, e), m)
         /\ LgNoticed(out, m, n) => LgNoticed(Append(out, e), m, n)
<1> DEFINE o == Append(out, e)
           l == Len(out)
<1>1. /\ Len(o) = l + 1 /\ l \in Nat /\ o[l + 1] = e
      /\ \A j \in 1 .. l : o[j] = out[j]
  OBVIOUS
<1>2. LgInOrder(out) => LgInOrder(o)
  BY OrderGrows
<1>3. ASSUME NEW k \in 0 .. l
      PROVE  /\ LgLastBefore(out, k, l + 1) => LgLastBefore(o, k, l + 2)
             /\ LgNotices(o, k, l + 2) = LgNotices(out, k, l + 1)
             /\ LgNumber(o, k) = LgNumber(out, k)
  <2>1. /\ LgLastBefore(o, k, l + 1) <=> LgLastBefore(out, k, l + 1)
        /\ LgNotices(o, k, l + 1) = LgNotices(out, k, l + 1)
        /\ LgNumber(o, k) = LgNumber(out, k)
    <3>1. l + 1 \in 1 .. Len(out) + 1 /\ k \in 0 .. (l + 1) - 1
      BY <1>1
    <3> QED  BY <3>1, PrintedStays
  <2>2. k + 1 .. (l + 2) - 1 = (k + 1 .. (l + 1) - 1) \cup {l + 1}
    BY <1>1
  <2> HIDE DEF o, l
  <2>3. LgLastBefore(o, k, l + 1) => LgLastBefore(o, k, l + 2)
    BY <1>1, <2>2 DEF LgLastBefore
  <2>4. LgNotices(o, k, l + 2) = LgNotices(o, k, l + 1)
    BY <1>1, <2>2 DEF LgNotices
  <2> QED  BY <2>1, <2>3, <2>4
<1>4. \A k \in 0 .. l : \A j \in LgNotices(out, k, l + 1) : o[j] = out[j]
  BY <1>1 DEF LgNotices
<1>5. 0 .. l \subseteq 0 .. Len(o) /\ Len(o) + 1 = l + 2
  BY <1>1
<1> HIDE DEF o
<1>6. LgEndsWith(out, m) => LgEndsWith(o, m)
  BY <1>3, <1>5 DEF LgEndsWith
<1>7. LgNoticed(out, m, n) => LgNoticed(o, m, n)
  <2> SUFFICES ASSUME LgNoticed(out, m, n)
               PROVE  LgNoticed(o, m, n)
    OBVIOUS
  <2>1. PICK k \in 0 .. l : \E j \in LgNotices(out, k, l + 1) :
          /\ LgLastBefore(out, k, l + 1) /\ LgNotices(out, k, l + 1) = {j}
          /\ LgNumber(out, k) = m /\ out[j].n = n
    BY DEF LgNoticed
  <2>2. PICK j \in LgNotices(out, k, l + 1) :
          /\ LgLastBefore(out, k, l + 1) /\ LgNotices(out, k, l + 1) = {j}
          /\ LgNumber(out, k) = m /\ out[j].n = n
    BY <2>1
  <2>3. /\ LgLastBefore(o, k, l + 2) /\ LgNotices(o, k, l + 2) = {j}
        /\ LgNumber(o, k) = m /\ o[j].n = n
    BY <1>3, <1>4, <2>2
  <2> QED  BY <1>5, <2>3 DEF LgNoticed
<1> QED  BY <1>2, <1>6, <1>7 DEF o

(* A notice after the last line.                                           *)
LEMMA NoticeLine ==
  ASSUME NEW out \in Seq(LgPrinted), NEW n \in Nat \ {0}, NEW m, LgEndsWith(out, m)
  PROVE  LgNoticed(Append(out, [line |-> 0, n |-> n]), m, n)
<1> DEFINE e == [line |-> 0, n |-> n]
           o == Append(out, e)
           l == Len(out)
<1>1. /\ Len(o) = l + 1 /\ l \in Nat /\ o[l + 1] = e /\ e \in LgPrinted
      /\ e.line = 0 /\ e.n = n
  BY DEF LgPrinted
<1> HIDE DEF e
<1>2. PICK k \in 0 .. l : /\ LgLastBefore(out, k, l + 1) /\ LgNotices(out, k, l + 1) = {}
                          /\ LgNumber(out, k) = m
  BY DEF LgEndsWith
<1>3. /\ LgLastBefore(o, k, l + 1) /\ LgNotices(o, k, l + 1) = {}
      /\ LgNumber(o, k) = m
  <2>1. l + 1 \in 1 .. Len(out) + 1 /\ k \in 0 .. (l + 1) - 1
    BY <1>1, <1>2
  <2>2. /\ LgLastBefore(o, k, l + 1) <=> LgLastBefore(out, k, l + 1)
        /\ LgNotices(o, k, l + 1) = LgNotices(out, k, l + 1)
        /\ LgNumber(o, k) = LgNumber(out, k)
    BY <1>1, <2>1, PrintedStays
  <2> QED  BY <1>2, <2>2
<1>4. /\ k + 1 .. (l + 2) - 1 = (k + 1 .. (l + 1) - 1) \cup {l + 1}
      /\ k \in 0 .. Len(o) /\ Len(o) + 1 = l + 2
  BY <1>1
<1> HIDE DEF o, l
<1>5. LgLastBefore(o, k, l + 2)
  BY <1>1, <1>3, <1>4 DEF LgLastBefore
<1>6. LgNotices(o, k, l + 2) = {l + 1}
  BY <1>1, <1>3, <1>4 DEF LgNotices
<1> QED  BY <1>1, <1>3, <1>4, <1>5, <1>6 DEF LgNoticed, o, e

(* A line: the number that is due after the last one, or after a notice.   *)
LEMMA NextLine ==
  ASSUME NEW out \in Seq(LgPrinted), NEW m \in Nat, NEW number \in Nat \ {0}, LgInOrder(out),
         \/ LgEndsWith(out, m) /\ number = m + 1
         \/ \E n \in Nat : LgNoticed(out, m, n) /\ number = m + n + 1
  PROVE  LET o == Append(out, [line |-> number, n |-> 0])
         IN  LgInOrder(o) /\ LgEndsWith(o, number)
<1> DEFINE e == [line |-> number, n |-> 0]
           o == Append(out, e)
           l == Len(out)
<1>1. /\ Len(o) = l + 1 /\ l \in Nat /\ o[l + 1] = e /\ e \in LgPrinted
      /\ e.line = number /\ e.n = 0
  BY DEF LgPrinted
<1> HIDE DEF e
<1>2. \E k \in 0 .. l :
        /\ LgLastBefore(out, k, l + 1)
        /\ \/ LgNotices(out, k, l + 1) = {} /\ e.line = LgNumber(out, k) + 1
           \/ \E j \in LgNotices(out, k, l + 1) :
                LgNotices(out, k, l + 1) = {j} /\ e.line = LgNumber(out, k) + out[j].n + 1
  <2>1. CASE LgEndsWith(out, m) /\ number = m + 1
    BY <1>1, <2>1 DEF LgEndsWith
  <2>2. CASE \E n \in Nat : LgNoticed(out, m, n) /\ number = m + n + 1
    BY <1>1, <2>2 DEF LgNoticed
  <2> QED  BY <2>1, <2>2
<1>3. LgInOrder(o)
  BY <1>1, <1>2, OrderGrows
<1>4. /\ l + 1 \in 0 .. Len(o) /\ Len(o) + 1 = l + 2
      /\ (l + 1) + 1 .. (l + 2) - 1 = {} /\ l + 1 # 0
  BY <1>1
<1> HIDE DEF o, l
<1>5. /\ LgLastBefore(o, l + 1, l + 2) /\ LgNotices(o, l + 1, l + 2) = {}
      /\ LgNumber(o, l + 1) = number
  BY <1>1, <1>4 DEF LgLastBefore, LgNotices, LgNumber
<1>6. LgEndsWith(o, number)
  BY <1>4, <1>5 DEF LgEndsWith
<1> QED  BY <1>3, <1>6 DEF o, e

\* A line of this size may go to the open file.
LgFits(w, size) ==
  w.file.at # 0 =>
    \/ LgMaxFile = 0 \/ w.file.len = 0 \/ w.file.len + size <= LgMaxFile
    \/ w.disk[w.file.at].spoilt

(* The open file of a world, replaced by f, with the rest of the disk.     *)
LEMMA FileChanges ==
  ASSUME NEW w \in LgWorlds, LgFiles(w), w.file.at # 0, NEW f \in LgDiskFile, NEW v \in LgWorlds,
         v.disk = [w.disk EXCEPT ![w.file.at] = f], v.file.at = w.file.at,
         LgLength(v.file.len, f), f.bytes = 0 => f.lines = 0, f.torn => f.spoilt,
         LgMaxFile # 0 /\ f.bytes > LgMaxFile => f.lines = 1 \/ f.spoilt
  PROVE  LgFiles(v) /\ v.disk[v.file.at] = f
<1>1. /\ w.disk \in Seq(LgDiskFile) /\ w.file.at \in DOMAIN w.disk
      /\ DOMAIN w.disk = 1 .. Len(w.disk) /\ Len(w.disk) \in Nat
  BY DEF LgFiles, LgWorlds, LgFileKind
<1>2. /\ Len(v.disk) = Len(w.disk) /\ DOMAIN v.disk = DOMAIN w.disk /\ v.disk[w.file.at] = f
      /\ \A i \in DOMAIN w.disk : i # w.file.at => v.disk[i] = w.disk[i]
  BY <1>1
<1> QED  BY <1>1, <1>2 DEF LgFiles

(* The disk and the open file after a fault.                               *)
LEMMA SpoilKeeps ==
  ASSUME NEW w \in LgWorlds, LgFiles(w), w.file.at # 0
  PROVE  LET v == LgSpoil(w)
         IN  /\ v \in LgWorlds /\ LgFiles(v) /\ v.file = w.file /\ v.out = w.out
             /\ v.disk[v.file.at].spoilt
<1> DEFINE v == LgSpoil(w)
           f == [w.disk[w.file.at] EXCEPT !.spoilt = TRUE]
           d == [w.disk EXCEPT ![w.file.at] = f]
<1>1. /\ w.disk \in Seq(LgDiskFile) /\ w.file.at \in DOMAIN w.disk /\ w.file \in LgFileKind
      /\ w.disk[w.file.at] \in LgDiskFile /\ w.faults \in Nat
  BY DEF LgFiles, LgWorlds, LgFileKind
<1>2. /\ f \in LgDiskFile /\ f.spoilt /\ f.bytes = w.disk[w.file.at].bytes
      /\ f.lines = w.disk[w.file.at].lines /\ f.torn = w.disk[w.file.at].torn
  BY <1>1 DEF LgDiskFile
<1>3. v = [w EXCEPT !.disk = d, !.faults = w.faults + 1]
  BY DEF LgSpoil, LgWorlds
<1>4. d \in Seq(LgDiskFile) /\ w.faults + 1 \in Nat
  BY <1>1, <1>2
<1> HIDE DEF f, v, d
<1>5. v \in LgWorlds /\ v.file = w.file /\ v.out = w.out /\ v.disk = d
  BY <1>3, <1>4 DEF LgWorlds
<1>6. LgLength(w.file.len, f) /\ (f.bytes = 0 => f.lines = 0) /\ (f.torn => f.spoilt)
  BY <1>1, <1>2 DEF LgFiles, LgLength
<1>7. LgFiles(v) /\ v.disk[v.file.at] = f
  <2>1. v.disk = [w.disk EXCEPT ![w.file.at] = f]
    BY <1>5 DEF d
  <2>2. LgMaxFile # 0 /\ f.bytes > LgMaxFile => f.lines = 1 \/ f.spoilt
    BY <1>2
  <2>3. v.file.at = w.file.at /\ LgLength(v.file.len, f)
    BY <1>5, <1>6
  <2> QED  BY <1>2, <1>5, <1>6, <2>1, <2>2, <2>3, FileChanges
<1> QED  BY <1>2, <1>5, <1>7 DEF v

(* A write that failed: a part of it is on disk, and the length is as it    *)
(* was.                                                                    *)
LEMMA TearKeeps ==
  ASSUME NEW w \in LgWorlds, LgFiles(w), w.file.at # 0, NEW part \in Nat
  PROVE  LET v == LgTear(w, part)
         IN  /\ v \in LgWorlds /\ LgFiles(v) /\ v.file = w.file /\ v.out = w.out
             /\ v.disk[v.file.at].spoilt
<1> DEFINE v == LgTear(w, part)
           g == w.disk[w.file.at]
           b == g.bytes + part
           f == [g EXCEPT !.bytes = b, !.spoilt = TRUE, !.torn = TRUE]
           d == [w.disk EXCEPT ![w.file.at] = f]
<1>1. /\ w.disk \in Seq(LgDiskFile) /\ w.file.at \in DOMAIN w.disk /\ w.file \in LgFileKind
      /\ g \in LgDiskFile /\ w.faults \in Nat
  BY DEF LgFiles, LgWorlds, LgFileKind
<1>2. v = [w EXCEPT !.disk = d, !.faults = w.faults + 1]
  BY DEF LgTear, LgWorlds
<1>3. b \in Nat /\ g.bytes <= b /\ (b = 0 => g.bytes = 0) /\ w.faults + 1 \in Nat
  <2>1. g.bytes \in Nat
    BY <1>1 DEF LgDiskFile
  <2> HIDE DEF g
  <2> QED  BY <1>1, <2>1
<1>4. g.bytes = 0 => g.lines = 0
  BY <1>1 DEF LgFiles
<1>5. w.file.len <= g.bytes /\ w.file.len \in Nat /\ g.bytes \in Nat
  BY <1>1 DEF LgFiles, LgLength, LgFileKind, LgDiskFile
<1> HIDE DEF b, g
<1>6. f \in LgDiskFile /\ f.spoilt /\ f.torn /\ f.bytes = b /\ f.lines = g.lines
  BY <1>1, <1>3 DEF LgDiskFile
<1>7. d \in Seq(LgDiskFile)
  BY <1>1, <1>6
<1> HIDE DEF f, v, d
<1>8. v \in LgWorlds /\ v.file = w.file /\ v.out = w.out /\ v.disk = d
  BY <1>2, <1>3, <1>7 DEF LgWorlds
<1>9. LgLength(v.file.len, f) /\ (f.bytes = 0 => f.lines = 0)
  BY <1>3, <1>4, <1>5, <1>6, <1>8 DEF LgLength
<1>10. LgFiles(v) /\ v.disk[v.file.at] = f
  <2>1. v.disk = [w.disk EXCEPT ![w.file.at] = f] /\ v.file.at = w.file.at
    BY <1>8 DEF d
  <2> QED  BY <1>6, <1>8, <1>9, <2>1, FileChanges
<1> QED  BY <1>6, <1>8, <1>10 DEF v

LEMMA LongerFile ==
  ASSUME NEW g \in LgDiskFile, NEW size \in Nat
  PROVE  LET f == [g EXCEPT !.bytes = @ + size, !.lines = @ + 1]
         IN  /\ f \in LgDiskFile /\ f.bytes = g.bytes + size /\ f.lines = g.lines + 1
             /\ f.spoilt = g.spoilt /\ f.torn = g.torn
<1> DEFINE b == g.bytes + size
           l == g.lines + 1
           f == [g EXCEPT !.bytes = b, !.lines = l]
<1>1. b \in Nat /\ l \in Nat
  BY DEF LgDiskFile
<1> HIDE DEF b, l
<1>2. /\ f \in LgDiskFile /\ f.bytes = b /\ f.lines = l /\ f.spoilt = g.spoilt
      /\ f.torn = g.torn
  BY <1>1 DEF LgDiskFile
<1> QED  BY <1>2 DEF b, l

(* write_unrotated, with a line that fits.                                 *)
LEMMA UnrotatedKeeps ==
  ASSUME LgAssumption, NEW w \in LgWorlds, LgFiles(w), NEW size \in Nat \ {0}, LgFits(w, size),
         NEW v \in LgWriteUnrotated(w, size)
  PROVE  /\ v \in LgWorlds /\ LgFiles(v) /\ v.out = w.out /\ v.file.at = w.file.at
         /\ w.file.at # 0 /\ w.disk[w.file.at].spoilt => v.disk[w.file.at].spoilt
<1>1. CASE w.file.at = 0
  BY <1>1 DEF LgWriteUnrotated
<1>2. CASE w.file.at # 0 /\ \E part \in 0 .. size - 1 : v = LgTear(w, part)
  BY <1>2, TearKeeps
<1>3. CASE /\ w.file.at # 0
           /\ v = [w EXCEPT !.disk[w.file.at].bytes = @ + size, !.disk[w.file.at].lines = @ + 1,
                            !.file.len = @ + size]
  <2> DEFINE g == w.disk[w.file.at]
             f == [g EXCEPT !.bytes = @ + size, !.lines = @ + 1]
             d == [w.disk EXCEPT ![w.file.at] = f]
             h == [w.file EXCEPT !.len = @ + size]
  <2>1. /\ w.disk \in Seq(LgDiskFile) /\ w.file.at \in DOMAIN w.disk /\ w.file \in LgFileKind
        /\ g \in LgDiskFile /\ LgLength(w.file.len, g) /\ (g.bytes = 0 => g.lines = 0)
        /\ (g.torn => g.spoilt)
    BY <1>3 DEF LgFiles, LgWorlds, LgFileKind
  <2>0. LgMaxFile = 0 \/ g.bytes = 0 \/ g.bytes + size <= LgMaxFile \/ g.spoilt
    BY <1>3, <2>1 DEF LgFits, LgLength
  <2>10. v = [w EXCEPT !.disk = d, !.file = h]
    BY <1>3, <2>1 DEF LgWorlds
  <2> HIDE DEF g
  <2>2. /\ f \in LgDiskFile /\ f.bytes = g.bytes + size /\ f.lines = g.lines + 1
        /\ f.spoilt = g.spoilt /\ f.torn = g.torn
    BY <2>1, LongerFile
  <2>3. h \in LgFileKind /\ h.at = w.file.at /\ h.len = w.file.len + size
    BY <2>1 DEF LgFileKind
  <2>5. d \in Seq(LgDiskFile)
    BY <2>1, <2>2
  <2> HIDE DEF f, d, h
  <2>6. v \in LgWorlds /\ v.out = w.out /\ v.disk = d /\ v.file = h
    BY <2>3, <2>5, <2>10 DEF LgWorlds
  <2>7. /\ f.bytes # 0 /\ LgLength(v.file.len, f) /\ v.file.at = w.file.at
        /\ f.torn => f.spoilt
    <3>1. g.bytes \in Nat /\ w.file.len \in Nat
      BY <2>1 DEF LgDiskFile, LgFileKind
    <3>2. w.file.len <= g.bytes /\ (g.torn \/ w.file.len = g.bytes)
      BY <2>1 DEF LgLength
    <3>3. f.bytes # 0 /\ h.len <= f.bytes /\ (w.file.len = g.bytes => h.len = f.bytes)
      BY <2>2, <2>3, <3>1, <3>2
    <3>4. LgLength(h.len, f)
      BY <2>2, <3>2, <3>3, Zenon DEF LgLength
    <3>5. f.torn => f.spoilt
      BY <2>1, <2>2, Zenon
    <3> QED  BY <2>3, <2>6, <3>3, <3>4, <3>5, Zenon
  <2>8. LgMaxFile # 0 /\ f.bytes > LgMaxFile => f.lines = 1 \/ f.spoilt
    BY <2>0, <2>1, <2>2 DEF LgDiskFile, LgAssumption
  <2>9. LgFiles(v) /\ v.disk[v.file.at] = f
    <3>1. v.disk = [w.disk EXCEPT ![w.file.at] = f]
      BY <2>6 DEF d
    <3> QED  BY <1>3, <2>2, <2>6, <2>7, <2>8, <3>1, FileChanges, ZenonT(40)
  <2> QED  BY <2>2, <2>6, <2>7, <2>9 DEF g
<1> QED  BY <1>1, <1>2, <1>3 DEF LgWriteUnrotated

(* open_new: a world with a new empty file in use.                         *)
LEMMA OpenKeeps ==
  ASSUME LgAssumption, NEW w \in LgWorlds, LgFiles(w), lgDay \in Nat
  PROVE  LET v == LgOpenNew(w)
         IN  v \in LgWorlds /\ LgFiles(v) /\ v.out = w.out /\ v.file.len = 0
<1> DEFINE v == LgOpenNew(w)
           d == Append(w.disk, LgEmptyFile)
           f == [at |-> Len(w.disk) + 1, date |-> lgDay, len |-> 0]
<1>1. /\ w.disk \in Seq(LgDiskFile) /\ LgEmptyFile \in LgDiskFile /\ Len(w.disk) \in Nat
      /\ LgEmptyFile.bytes = 0 /\ LgEmptyFile.lines = 0 /\ ~LgEmptyFile.torn
  BY DEF LgWorlds, LgEmptyFile, LgDiskFile
<1>2. /\ d \in Seq(LgDiskFile) /\ DOMAIN d = 1 .. Len(w.disk) + 1 /\ Len(d) = Len(w.disk) + 1
      /\ d[Len(w.disk) + 1] = LgEmptyFile /\ \A i \in 1 .. Len(w.disk) : d[i] = w.disk[i]
      /\ DOMAIN w.disk = 1 .. Len(w.disk)
  BY <1>1
<1>3. f \in LgFileKind /\ f.at = Len(w.disk) + 1 /\ f.len = 0
  BY <1>1 DEF LgFileKind
<1> HIDE DEF d, f
<1>4. v = [w EXCEPT !.disk = d, !.moved = FALSE, !.file = f]
  BY DEF LgOpenNew, LgWorlds, d, f
<1> HIDE DEF v
<1>5. v \in LgWorlds /\ v.disk = d /\ v.file = f /\ v.out = w.out
  BY <1>2, <1>3, <1>4 DEF LgWorlds
<1>6. LgFiles(v)
  <2>1. v.file.at \in 0 .. Len(v.disk) /\ LgLength(v.file.len, v.disk[v.file.at])
    BY <1>1, <1>2, <1>3, <1>5 DEF LgLength
  <2>2. ASSUME NEW i \in DOMAIN v.disk
        PROVE  /\ v.disk[i].bytes = 0 => v.disk[i].lines = 0
               /\ v.disk[i].torn => v.disk[i].spoilt
               /\ LgMaxFile # 0 /\ v.disk[i].bytes > LgMaxFile =>
                    v.disk[i].lines = 1 \/ v.disk[i].spoilt
    <3>1. CASE i \in DOMAIN w.disk
      BY <1>2, <1>5, <3>1 DEF LgFiles
    <3>2. CASE i = Len(w.disk) + 1
      BY <1>1, <1>2, <1>5, <3>2 DEF LgAssumption
    <3> QED  BY <1>1, <1>2, <1>5, <3>1, <3>2
  <2> QED  BY <2>1, <2>2 DEF LgFiles
<1> QED  BY <1>3, <1>5, <1>6 DEF v

(* Printing changes the output only.                                       *)
LEMMA PrintKeeps ==
  ASSUME NEW w \in LgWorlds, LgFiles(w), NEW e \in LgPrinted
  PROVE  LET v == [w EXCEPT !.out = Append(@, e)]
         IN  /\ v \in LgWorlds /\ LgFiles(v) /\ v.out = Append(w.out, e)
             /\ v.file = w.file /\ v.disk = w.disk
<1> DEFINE v == [w EXCEPT !.out = Append(@, e)]
<1>1. w.out \in Seq(LgPrinted) /\ Append(w.out, e) \in Seq(LgPrinted)
  BY DEF LgWorlds
<1>2. /\ v \in LgWorlds /\ v.out = Append(w.out, e) /\ v.file = w.file /\ v.disk = w.disk
  BY <1>1 DEF LgWorlds
<1> HIDE DEF v
<1>3. LgFiles(v)
  BY <1>2 DEF LgFiles
<1> QED  BY <1>2, <1>3 DEF v

LgOwn == [line |-> 0, n |-> 0]

(* The rotation of write: afterwards the line fits.                        *)
LEMMA RotatedKeeps ==
  ASSUME LgAssumption, NEW w \in LgWorlds, LgFiles(w), NEW size \in Nat \ {0}, lgDay \in Nat,
         NEW v \in LgRotated(w, size)
  PROVE  /\ v \in LgWorlds /\ LgFiles(v) /\ LgFits(v, size)
         /\ v.out \in {w.out, Append(w.out, LgOwn)}
<1>1. CASE (w.file.at = 0 \/ ~LgShouldRotate(w.file, size)) /\ v = w
  <2>1. w.file.len \in Nat
    BY DEF LgWorlds, LgFileKind
  <2>2. LgFits(w, size)
    BY <1>1, <2>1 DEF LgFits, LgShouldRotate, LgAssumption
  <2> QED  BY <1>1, <2>2
<1>2. CASE v = LgOpenNew(w)
  BY <1>2, OpenKeeps DEF LgFits
<1>3. CASE /\ w.file.at # 0
           /\ v \in LgWriteUnrotated([LgSpoil(w) EXCEPT !.out = Append(@, LgOwn)], 1)
  <2> DEFINE s == LgSpoil(w)
             u == [s EXCEPT !.out = Append(@, LgOwn)]
  <2>1. /\ s \in LgWorlds /\ LgFiles(s) /\ s.file = w.file /\ s.out = w.out
        /\ s.disk[s.file.at].spoilt
    BY <1>3, SpoilKeeps
  <2>2. LgOwn \in LgPrinted /\ 1 \in Nat \ {0}
    BY DEF LgOwn, LgPrinted
  <2> HIDE DEF s
  <2>3. /\ u \in LgWorlds /\ LgFiles(u) /\ u.out = Append(w.out, LgOwn)
        /\ u.file = w.file /\ u.disk = s.disk
    BY <2>1, <2>2, PrintKeeps
  <2>4. LgFits(u, 1) /\ u.disk[u.file.at].spoilt
    BY <2>1, <2>3 DEF LgFits
  <2>5. v \in LgWriteUnrotated(u, 1)
    BY <1>3 DEF s
  <2> HIDE DEF u
  <2>6. /\ v \in LgWorlds /\ LgFiles(v) /\ v.out = u.out /\ v.file.at = u.file.at
        /\ u.file.at # 0 /\ u.disk[u.file.at].spoilt => v.disk[u.file.at].spoilt
    BY <2>2, <2>3, <2>4, <2>5, UnrotatedKeeps
  <2> QED  BY <1>3, <2>3, <2>4, <2>6 DEF LgFits
<1> QED  BY <1>1, <1>2, <1>3 DEF LgRotated, LgOwn

(* write: an entry is printed, perhaps with a line about a rotation that   *)
(* failed behind it.                                                       *)
LEMMA WriteKeeps ==
  ASSUME LgAssumption, NEW w \in LgWorlds, LgFiles(w), NEW e \in LgPrinted,
         NEW size \in Nat \ {0}, lgDay \in Nat, NEW v \in LgWrite(w, e, size)
  PROVE  /\ v \in LgWorlds /\ LgFiles(v)
         /\ v.out \in {Append(w.out, e), Append(Append(w.out, e), LgOwn)}
<1> DEFINE p == [w EXCEPT !.out = Append(@, e)]
<1>1. p \in LgWorlds /\ LgFiles(p) /\ p.out = Append(w.out, e)
  BY PrintKeeps
<1>2. PICK u \in LgRotated(p, size) : v \in LgWriteUnrotated(u, size)
  BY DEF LgWrite
<1> HIDE DEF p
<1>3. /\ u \in LgWorlds /\ LgFiles(u) /\ LgFits(u, size)
      /\ u.out \in {p.out, Append(p.out, LgOwn)}
  BY <1>1, <1>2, RotatedKeeps
<1>4. v \in LgWorlds /\ LgFiles(v) /\ v.out = u.out
  BY <1>2, <1>3, UnrotatedKeeps
<1> QED  BY <1>1, <1>3, <1>4

(* A line or a SIGHUP joins the mailbox.                                   *)
LEMMA BoxGrows ==
  ASSUME NEW box \in Seq(LgPosted), NEW e \in LgPosted, NEW taken \in Nat, NEW posted \in Nat,
         LgQueued(box, taken, posted), e.line # 0 => e.line = posted + 1 /\ e.size # 0
  PROVE  LgQueued(Append(box, e), taken, IF e.line = 0 THEN posted ELSE posted + 1)
<1> DEFINE o == Append(box, e)
           l == Len(box)
<1>1. /\ Len(o) = l + 1 /\ l \in Nat /\ o[l + 1] = e /\ DOMAIN o = 1 .. l + 1
      /\ DOMAIN box = 1 .. l /\ \A j \in 1 .. l : o[j] = box[j]
  OBVIOUS
<1> HIDE DEF o, l
<1>2. ASSUME NEW i \in 1 .. l + 1, NEW k \in 0 .. i - 1
      PROVE  /\ LgWaiting(o, k, i) <=> LgWaiting(box, k, i)
             /\ LgLast(o, taken, k) = LgLast(box, taken, k)
  <2>1. (k = 0 \/ k \in 1 .. l) /\ \A j \in k + 1 .. i - 1 : j \in 1 .. l
    BY <1>1
  <2> QED  BY <1>1, <2>1 DEF LgWaiting, LgLast
<1>3. PICK last \in 0 .. l : LgWaiting(box, last, l + 1) /\ LgLast(box, taken, last) = posted
  BY DEF LgQueued, l
<1>4. ASSUME NEW i \in DOMAIN o, o[i].line # 0
      PROVE  /\ o[i].size # 0
             /\ \E k \in 0 .. i - 1 : LgWaiting(o, k, i) /\ o[i].line = LgLast(o, taken, k) + 1
  <2>1. CASE i \in 1 .. l
    <3>1. o[i] = box[i] /\ i \in DOMAIN box /\ i \in 1 .. l + 1
      BY <1>1, <2>1
    <3>2. box[i].size # 0 /\ \E k \in 0 .. i - 1 :
            LgWaiting(box, k, i) /\ box[i].line = LgLast(box, taken, k) + 1
      BY <1>4, <3>1 DEF LgQueued
    <3> QED  BY <1>2, <3>1, <3>2
  <2>2. CASE i = l + 1
    <3>1. o[i] = e /\ last \in 0 .. i - 1 /\ i \in 1 .. l + 1
      BY <1>1, <2>2
    <3> QED  BY <1>2, <1>3, <1>4, <2>2, <3>1
  <2> QED  BY <1>1, <2>1, <2>2
<1>5. \E k \in 0 .. Len(o) : /\ LgWaiting(o, k, Len(o) + 1)
                             /\ LgLast(o, taken, k) = IF e.line = 0 THEN posted ELSE posted + 1
  <2>1. CASE e.line = 0
    <3>1. LgWaiting(o, last, l + 1) /\ LgLast(o, taken, last) = posted
      BY <1>1, <1>2, <1>3
    <3>2. last + 1 .. (l + 2) - 1 = (last + 1 .. (l + 1) - 1) \cup {l + 1}
      BY <1>1
    <3>3. LgWaiting(o, last, l + 2)
      BY <1>1, <2>1, <3>1, <3>2 DEF LgWaiting
    <3> QED  BY <1>1, <2>1, <3>1, <3>3
  <2>2. CASE e.line # 0
    <3>1. LgWaiting(o, l + 1, l + 2) /\ LgLast(o, taken, l + 1) = posted + 1
      BY <1>1, <2>2 DEF LgWaiting, LgLast
    <3> QED  BY <1>1, <2>2, <3>1
  <2> QED  BY <2>1, <2>2
<1> QED  BY <1>4, <1>5 DEF LgQueued, o

(* The first message is taken.  If it is a line it is the next one.        *)
LEMMA BoxShrinks ==
  ASSUME NEW box \in Seq(LgPosted), box # <<>>, NEW taken \in Nat, NEW posted \in Nat,
         LgQueued(box, taken, posted)
  PROVE  /\ Head(box).line # 0 => Head(box).line = taken + 1 /\ Head(box).size # 0
         /\ LgQueued(Tail(box), IF Head(box).line = 0 THEN taken ELSE taken + 1, posted)
<1> DEFINE o == Tail(box)
           l == Len(box)
           t == IF Head(box).line = 0 THEN taken ELSE taken + 1
<1>1. /\ l \in Nat \ {0} /\ Len(o) = l - 1 /\ DOMAIN o = 1 .. l - 1 /\ DOMAIN box = 1 .. l
      /\ Head(box) = box[1] /\ \A j \in 1 .. l - 1 : o[j] = box[j + 1]
      /\ box[1] \in LgPosted /\ o \in Seq(LgPosted)
  OBVIOUS
<1>2. Head(box).line # 0 => Head(box).line = taken + 1 /\ Head(box).size # 0
  <2> HAVE Head(box).line # 0
  <2>1. PICK k \in 0 .. 1 - 1 : LgWaiting(box, k, 1) /\ box[1].line = LgLast(box, taken, k) + 1
    BY <1>1 DEF LgQueued
  <2>2. k = 0
    OBVIOUS
  <2> QED  BY <1>1, <2>1, <2>2 DEF LgQueued, LgLast
<1> HIDE DEF o, l
\* The last line before place i of the mailbox is the last one before i - 1 of the rest.
<1>3. ASSUME NEW i \in 2 .. l + 1, NEW k \in 0 .. i - 1, LgWaiting(box, k, i)
      PROVE  \E m \in 0 .. i - 2 :
               LgWaiting(o, m, i - 1) /\ LgLast(o, t, m) = LgLast(box, taken, k)
  <2>1. CASE k = 0
    <3>1. box[1].line = 0 /\ t = taken
      BY <1>1, <1>3, <2>1 DEF LgWaiting
    <3>2. LgWaiting(o, 0, i - 1)
      <4>1. ASSUME NEW j \in 0 + 1 .. (i - 1) - 1
            PROVE  o[j].line = 0
        <5>1. o[j] = box[j + 1] /\ j + 1 \in k + 1 .. i - 1
          BY <1>1, <2>1
        <5> QED  BY <1>3, <5>1 DEF LgWaiting
      <4> QED  BY <4>1 DEF LgWaiting
    <3> QED  BY <2>1, <3>1, <3>2 DEF LgLast
  <2>2. CASE k # 0
    <3>1. k \in 1 .. l /\ k - 1 \in 0 .. i - 2 /\ box[k].line # 0
      BY <1>1, <1>3, <2>2 DEF LgWaiting
    <3>2. ASSUME NEW j \in (k - 1) + 1 .. (i - 1) - 1
          PROVE  o[j].line = 0
      <4>1. o[j] = box[j + 1] /\ j + 1 \in k + 1 .. i - 1
        BY <1>1, <3>1
      <4> QED  BY <1>3, <4>1 DEF LgWaiting
    <3>3. CASE k = 1
      BY <1>1, <1>2, <3>1, <3>2, <3>3 DEF LgWaiting, LgLast
    <3>4. CASE k # 1
      <4>1. o[k - 1] = box[k] /\ k - 1 # 0
        BY <1>1, <3>1, <3>4
      <4>2. LgWaiting(o, k - 1, i - 1) /\ LgLast(o, t, k - 1) = LgLast(box, taken, k)
        BY <2>2, <3>1, <3>2, <4>1 DEF LgWaiting, LgLast
      <4> QED  BY <3>1, <4>2
    <3> QED  BY <3>3, <3>4
  <2> QED  BY <2>1, <2>2
<1>4. ASSUME NEW i \in DOMAIN o, o[i].line # 0
      PROVE  /\ o[i].size # 0
             /\ \E k \in 0 .. i - 1 : LgWaiting(o, k, i) /\ o[i].line = LgLast(o, t, k) + 1
  <2>1. o[i] = box[i + 1] /\ i + 1 \in DOMAIN box /\ i + 1 \in 2 .. l + 1 /\ i \in Nat
    BY <1>1
  <2>2. box[i + 1].size # 0
    BY <1>4, <2>1 DEF LgQueued
  <2>3. PICK k \in 0 .. (i + 1) - 1 :
          LgWaiting(box, k, i + 1) /\ box[i + 1].line = LgLast(box, taken, k) + 1
    BY <1>4, <2>1 DEF LgQueued
  <2>4. PICK m \in 0 .. (i + 1) - 2 :
          LgWaiting(o, m, (i + 1) - 1) /\ LgLast(o, t, m) = LgLast(box, taken, k)
    BY <1>3, <2>1, <2>3
  <2>5. (i + 1) - 1 = i /\ m \in 0 .. i - 1
    BY <2>1
  <2> QED  BY <2>1, <2>2, <2>3, <2>4, <2>5
<1>5. \E k \in 0 .. Len(o) : LgWaiting(o, k, Len(o) + 1) /\ LgLast(o, t, k) = posted
  <2>1. PICK k \in 0 .. l : LgWaiting(box, k, l + 1) /\ LgLast(box, taken, k) = posted
    BY DEF LgQueued, l
  <2>2. l + 1 \in 2 .. l + 1 /\ k \in 0 .. (l + 1) - 1
    BY <1>1
  <2>3. PICK m \in 0 .. (l + 1) - 2 :
          LgWaiting(o, m, (l + 1) - 1) /\ LgLast(o, t, m) = LgLast(box, taken, k)
    BY <1>3, <2>1, <2>2
  <2>4. (l + 1) - 1 = Len(o) + 1 /\ m \in 0 .. Len(o)
    BY <1>1
  <2> QED  BY <2>1, <2>3, <2>4
<1> QED  BY <1>2, <1>4, <1>5 DEF LgQueued, o

LEMMA WorldTyped ==
  ASSUME LgTyped
  PROVE  /\ LgWorld \in LgWorlds /\ LgWorld.out = lgOut /\ LgWorld.file = lgFile
         /\ LgWorld.disk = lgDisk
  BY DEF LgTyped, LgWorld, LgWorlds

\* The files stay sound when the open file and the disk stay.
LEMMA FilesStay ==
  ASSUME LgFiles(LgWorld), lgFile' = lgFile, lgDisk' = lgDisk
  PROVE  LgFiles(LgWorld)'
  BY DEF LgFiles, LgWorld

\* What a message leaves behind is the new state.
LEMMA CommitKeeps ==
  ASSUME LgTyped, NEW w \in LgWorlds, LgFiles(w), LgCommit(w)
  PROVE  /\ lgFile' \in LgFileKind /\ lgDisk' \in Seq(LgDiskFile) /\ lgMoved' \in BOOLEAN
         /\ lgOut' = w.out /\ lgOut' \in Seq(LgPrinted)
         /\ lgUsed' \in [lines : Nat, hups : Nat, faults : Nat] /\ lgUsed'.lines = lgUsed.lines
         /\ LgFiles(LgWorld)'
<1>1. /\ lgFile' = w.file /\ lgDisk' = w.disk /\ lgMoved' = w.moved /\ lgOut' = w.out
      /\ lgUsed' = [lgUsed EXCEPT !.faults = w.faults]
  BY DEF LgCommit
<1>2. /\ w.file \in LgFileKind /\ w.disk \in Seq(LgDiskFile) /\ w.moved \in BOOLEAN
      /\ w.out \in Seq(LgPrinted) /\ w.faults \in Nat
  BY DEF LgWorlds
<1>3. lgUsed' \in [lines : Nat, hups : Nat, faults : Nat] /\ lgUsed'.lines = lgUsed.lines
  BY <1>1, <1>2 DEF LgTyped
<1>4. LgFiles(LgWorld)'
  BY <1>1 DEF LgFiles, LgWorld
<1> QED  BY <1>1, <1>2, <1>3, <1>4

LEMMA LgPostKeeps ==
  ASSUME LgAssumption, LgInv, LgPost
  PROVE  LgInv'
<1>1. PICK size \in 1 .. 2 : lgBox' = Append(lgBox, [line |-> lgUsed.lines + 1, size |-> size])
  BY DEF LgPost
<1>2. /\ lgUsed' = [lgUsed EXCEPT !.lines = @ + 1] /\ lgFile' = lgFile /\ lgDisk' = lgDisk
      /\ UNCHANGED <<lgMoved, lgDropped, lgOut, lgTaken, lgDay>>
  BY DEF LgPost
<1> DEFINE e == [line |-> lgUsed.lines + 1, size |-> size]
<1>3. /\ lgUsed \in [lines : Nat, hups : Nat, faults : Nat] /\ lgBox \in Seq(LgPosted)
      /\ lgUsed.lines \in Nat /\ lgTaken \in Nat
  BY DEF LgInv, LgTyped
<1>4. /\ e \in LgPosted /\ e.line = lgUsed.lines + 1 /\ e.line # 0 /\ e.size # 0
  BY <1>3 DEF LgPosted
<1>5. /\ lgUsed'.lines = lgUsed.lines + 1 /\ lgUsed' \in [lines : Nat, hups : Nat, faults : Nat]
  BY <1>2, <1>3
<1> HIDE DEF e
<1>6. LgQueued(lgBox', lgTaken', lgUsed'.lines)
  <2>1. LgQueued(Append(lgBox, e), lgTaken, IF e.line = 0 THEN lgUsed.lines ELSE lgUsed.lines + 1)
    BY <1>3, <1>4, BoxGrows DEF LgInv
  <2> QED  BY <1>1, <1>2, <1>4, <1>5, <2>1 DEF e
<1>7. LgTyped'
  BY <1>1, <1>2, <1>3, <1>4, <1>5 DEF LgInv, LgTyped, e
<1>8. LgFiles(LgWorld)'
  BY <1>2, FilesStay DEF LgInv
<1> QED  BY <1>2, <1>6, <1>7, <1>8 DEF LgInv, LgAccount

LEMMA LgHupKeeps ==
  ASSUME LgAssumption, LgInv, LgHup
  PROVE  LgInv'
<1> DEFINE e == [line |-> 0, size |-> 0]
<1>2. /\ lgBox' = Append(lgBox, e) /\ lgUsed' = [lgUsed EXCEPT !.hups = @ + 1]
      /\ lgFile' = lgFile /\ lgDisk' = lgDisk
      /\ UNCHANGED <<lgMoved, lgDropped, lgOut, lgTaken, lgDay>>
  BY DEF LgHup
<1>3. /\ lgUsed \in [lines : Nat, hups : Nat, faults : Nat] /\ lgBox \in Seq(LgPosted)
      /\ lgUsed.lines \in Nat /\ lgTaken \in Nat
  BY DEF LgInv, LgTyped
<1>4. e \in LgPosted /\ e.line = 0
  BY DEF LgPosted
<1>5. lgUsed'.lines = lgUsed.lines /\ lgUsed' \in [lines : Nat, hups : Nat, faults : Nat]
  BY <1>2, <1>3
<1> HIDE DEF e
<1>6. LgQueued(lgBox', lgTaken', lgUsed'.lines)
  <2>1. LgQueued(Append(lgBox, e), lgTaken, IF e.line = 0 THEN lgUsed.lines ELSE lgUsed.lines + 1)
    BY <1>3, <1>4, BoxGrows DEF LgInv
  <2> QED  BY <1>2, <1>4, <1>5, <2>1
<1>7. LgTyped'
  BY <1>2, <1>3, <1>4, <1>5 DEF LgInv, LgTyped
<1>8. LgFiles(LgWorld)'
  BY <1>2, FilesStay DEF LgInv
<1> QED  BY <1>2, <1>6, <1>7, <1>8 DEF LgInv, LgAccount

(* Another day, and a file that somebody renames.                          *)
LEMMA LgAroundKeeps ==
  ASSUME LgAssumption, LgInv, LgMidnight \/ LgMove
  PROVE  LgInv'
<1>1. /\ UNCHANGED <<lgBox, lgFile, lgDisk, lgDropped, lgOut, lgTaken, lgUsed>>
      /\ lgDay' \in Nat /\ lgMoved' \in BOOLEAN
  <2>1. lgDay \in Nat /\ lgMoved \in BOOLEAN
    BY DEF LgInv, LgTyped
  <2>2. CASE LgMidnight
    BY <2>1, <2>2 DEF LgMidnight
  <2>3. CASE LgMove
    BY <2>1, <2>3 DEF LgMove
  <2> QED  BY <2>2, <2>3
<1>2. LgTyped'
  BY <1>1 DEF LgInv, LgTyped
<1>3. LgFiles(LgWorld)'
  BY <1>1, FilesStay DEF LgInv
<1> QED  BY <1>1, <1>2, <1>3 DEF LgInv, LgAccount

(* The mailbox after the first message was taken.                          *)
LEMMA TakenKeeps ==
  ASSUME LgInv, lgBox # <<>>, lgBox' = Tail(lgBox), lgUsed'.lines = lgUsed.lines,
         lgTaken' = IF Head(lgBox).line = 0 THEN lgTaken ELSE lgTaken + 1
  PROVE  /\ lgBox' \in Seq(LgPosted) /\ LgQueued(lgBox', lgTaken', lgUsed'.lines)
         /\ Head(lgBox) \in LgPosted
         /\ Head(lgBox).line # 0 => Head(lgBox).line = lgTaken + 1 /\ Head(lgBox).size \in Nat \ {0}
<1>1. /\ lgBox \in Seq(LgPosted) /\ lgTaken \in Nat /\ lgUsed.lines \in Nat
      /\ LgQueued(lgBox, lgTaken, lgUsed.lines)
  BY DEF LgInv, LgTyped
<1>2. Head(lgBox) \in LgPosted /\ lgBox' \in Seq(LgPosted)
  BY <1>1
<1>3. /\ Head(lgBox).line # 0 => Head(lgBox).line = lgTaken + 1 /\ Head(lgBox).size # 0
      /\ LgQueued(Tail(lgBox), IF Head(lgBox).line = 0 THEN lgTaken ELSE lgTaken + 1, lgUsed.lines)
  BY <1>1, BoxShrinks
<1>4. Head(lgBox).size \in Nat
  BY <1>2 DEF LgPosted
<1> QED  BY <1>2, <1>3, <1>4

(* A line dropped: it is counted, and the output ends where it did.        *)
LEMMA LgDropKeeps ==
  ASSUME LgAssumption, LgInv, LgDrop
  PROVE  LgInv'
<1>1. /\ lgBox # <<>> /\ Head(lgBox).line # 0 /\ lgDropped' = lgDropped + 1
      /\ lgBox' = Tail(lgBox) /\ lgTaken' = lgTaken + 1 /\ lgFile' = lgFile /\ lgDisk' = lgDisk
      /\ UNCHANGED <<lgMoved, lgOut, lgDay, lgUsed>>
  BY DEF LgDrop
<1>2. lgBox' \in Seq(LgPosted) /\ LgQueued(lgBox', lgTaken', lgUsed'.lines)
  BY <1>1, TakenKeeps
<1>3. lgTaken \in Nat /\ lgDropped \in Nat
  BY DEF LgInv, LgTyped
<1>4. LgTyped' /\ lgDropped' <= lgTaken'
  BY <1>1, <1>2, <1>3 DEF LgInv, LgTyped
<1>5. lgTaken' - lgDropped' = lgTaken - lgDropped
  BY <1>1, <1>3
<1>6. LgAccount'
  BY <1>1, <1>5 DEF LgInv, LgAccount
<1>7. LgFiles(LgWorld)'
  BY <1>1, FilesStay DEF LgInv
<1> QED  BY <1>2, <1>4, <1>6, <1>7 DEF LgInv

(* A line printed: behind the notice of what was dropped, if any.          *)
LEMMA LgLineKeeps ==
  ASSUME LgAssumption, LgInv, LgLine
  PROVE  LgInv'
<1> DEFINE line == [line |-> Head(lgBox).line, n |-> 0]
           size == Head(lgBox).size
           notice == [line |-> 0, n |-> lgDropped]
           m == lgTaken - lgDropped
<1>1. /\ lgBox # <<>> /\ Head(lgBox).line # 0 /\ lgDropped' = 0
      /\ lgBox' = Tail(lgBox) /\ lgTaken' = lgTaken + 1 /\ lgDay' = lgDay
  BY DEF LgLine, LgAfterNotice
<1>2. PICK v \in (IF lgDropped = 0 THEN {LgWorld} ELSE LgWrite(LgWorld, notice, 1)) :
        \E w \in LgWrite(v, line, size) : LgCommit(w)
  BY DEF LgLine
<1>3. PICK w \in LgWrite(v, line, size) : LgCommit(w)
  BY <1>2
<1>4. /\ LgTyped /\ lgTaken \in Nat /\ lgDropped \in Nat /\ lgDay \in Nat /\ m \in Nat
      /\ lgOut \in Seq(LgPrinted) /\ LgFiles(LgWorld)
      /\ LgInOrder(lgOut) /\ LgEndsWith(lgOut, m)
  BY DEF LgInv, LgTyped, LgAccount
<1>5. LgWorld \in LgWorlds /\ LgWorld.out = lgOut
  BY <1>4, WorldTyped
<1>6. /\ Head(lgBox) \in LgPosted /\ Head(lgBox).line = lgTaken + 1 /\ size \in Nat \ {0}
  <2>1. lgUsed'.lines = lgUsed.lines
    BY <1>3, <1>4 DEF LgCommit, LgTyped
  <2> QED  BY <1>1, <2>1, TakenKeeps
<1>7. /\ line \in LgPrinted /\ notice \in LgPrinted /\ notice.line = 0
      /\ LgOwn \in LgPrinted /\ LgOwn.line = 0 /\ LgOwn.n = 0
  BY <1>4, <1>6 DEF LgPrinted, LgPosted, LgOwn
<1> HIDE DEF m
<1>8. /\ v \in LgWorlds /\ LgFiles(v) /\ v.out \in Seq(LgPrinted) /\ LgInOrder(v.out)
      /\ \/ LgEndsWith(v.out, m) /\ Head(lgBox).line = m + 1
         \/ \E n \in Nat : LgNoticed(v.out, m, n) /\ Head(lgBox).line = m + n + 1
  <2>1. CASE lgDropped = 0
    BY <1>2, <1>4, <1>5, <1>6, <2>1 DEF m
  <2>2. CASE lgDropped # 0
    <3>1. v \in LgWrite(LgWorld, notice, 1) /\ 1 \in Nat \ {0} /\ lgDropped \in Nat \ {0}
      BY <1>2, <1>4, <2>2
    <3>2. /\ v \in LgWorlds /\ LgFiles(v)
          /\ v.out \in {Append(lgOut, notice), Append(Append(lgOut, notice), LgOwn)}
      BY <1>4, <1>5, <1>7, <3>1, WriteKeeps
    <3> DEFINE o == Append(lgOut, notice)
    <3>3. o \in Seq(LgPrinted) /\ Append(o, LgOwn) \in Seq(LgPrinted)
      BY <1>4, <1>7
    <3>4. LgNoticed(o, m, lgDropped)
      BY <1>4, <3>1, NoticeLine
    <3>5. LgInOrder(o)
      BY <1>4, <1>7, OrderGrows
    <3> HIDE DEF o
    <3>6. LgInOrder(Append(o, LgOwn)) /\ LgNoticed(Append(o, LgOwn), m, lgDropped)
      BY <1>7, <3>3, <3>4, <3>5, OwnLine
    <3>7. Head(lgBox).line = m + lgDropped + 1
      BY <1>4, <1>6 DEF m
    <3>8. v.out = o \/ v.out = Append(o, LgOwn)
      BY <3>2 DEF o
    <3>9. LgInOrder(v.out) /\ LgNoticed(v.out, m, lgDropped) /\ v.out \in Seq(LgPrinted)
      BY <3>3, <3>4, <3>5, <3>6, <3>8
    <3> QED  BY <1>4, <3>2, <3>7, <3>9
  <2> QED  BY <2>1, <2>2
<1>9. /\ w \in LgWorlds /\ LgFiles(w)
      /\ w.out \in {Append(v.out, line), Append(Append(v.out, line), LgOwn)}
  BY <1>3, <1>4, <1>6, <1>7, <1>8, WriteKeeps
<1>10. LgInOrder(w.out) /\ LgEndsWith(w.out, lgTaken + 1)
  <2> DEFINE number == Head(lgBox).line
             o == Append(v.out, line)
  <2>1. number \in Nat \ {0} /\ number = lgTaken + 1
    BY <1>4, <1>6
  <2>2. LgInOrder(o) /\ LgEndsWith(o, number)
    BY <1>4, <1>8, <2>1, NextLine
  <2>3. o \in Seq(LgPrinted)
    BY <1>7, <1>8
  <2> HIDE DEF o
  <2>4. LgInOrder(Append(o, LgOwn)) /\ LgEndsWith(Append(o, LgOwn), number)
    BY <1>7, <2>2, <2>3, OwnLine
  <2>5. w.out = o \/ w.out = Append(o, LgOwn)
    BY <1>9 DEF o
  <2> QED  BY <2>1, <2>2, <2>4, <2>5
<1> HIDE DEF line, size, notice
<1>11. /\ lgFile' \in LgFileKind /\ lgDisk' \in Seq(LgDiskFile) /\ lgMoved' \in BOOLEAN
       /\ lgOut' = w.out /\ lgOut' \in Seq(LgPrinted)
       /\ lgUsed' \in [lines : Nat, hups : Nat, faults : Nat] /\ lgUsed'.lines = lgUsed.lines
       /\ LgFiles(LgWorld)'
  BY <1>3, <1>4, <1>9, CommitKeeps
<1>12. lgBox' \in Seq(LgPosted) /\ LgQueued(lgBox', lgTaken', lgUsed'.lines)
  BY <1>1, <1>11, TakenKeeps
<1>13. LgTyped' /\ lgDropped' <= lgTaken'
  BY <1>1, <1>4, <1>11, <1>12 DEF LgTyped
<1>14. LgAccount'
  <2>1. lgTaken' - lgDropped' = lgTaken + 1
    BY <1>1, <1>4
  <2> QED  BY <1>10, <1>11, <2>1 DEF LgAccount
<1> QED  BY <1>11, <1>12, <1>13, <1>14 DEF LgInv

(* SIGHUP: the file is opened again, or a line says that it was not.       *)
LEMMA LgReopenKeeps ==
  ASSUME LgAssumption, LgInv, LgReopen
  PROVE  LgInv'
<1>1. /\ lgBox # <<>> /\ Head(lgBox).line = 0 /\ lgBox' = Tail(lgBox)
      /\ lgDropped' = lgDropped /\ lgTaken' = lgTaken /\ lgDay' = lgDay
  BY DEF LgReopen
<1>2. /\ LgTyped /\ lgDay \in Nat /\ lgOut \in Seq(LgPrinted) /\ LgFiles(LgWorld)
      /\ LgInOrder(lgOut) /\ LgEndsWith(lgOut, lgTaken - lgDropped)
  BY DEF LgInv, LgTyped, LgAccount
<1>3. /\ LgWorld \in LgWorlds /\ LgWorld.out = lgOut /\ LgWorld.file = lgFile
      /\ LgWorld.disk = lgDisk
  BY <1>2, WorldTyped
<1>4. LgOwn \in LgPrinted /\ LgOwn.line = 0 /\ LgOwn.n = 0
  BY DEF LgPrinted, LgOwn
<1>5. PICK w \in (IF lgFile.at = 0 THEN {LgWorld}
                  ELSE {LgReopened(LgWorld)} \cup
                       IF ~LgMayFail(LgWorld) THEN {}
                       ELSE LgWrite([LgWorld EXCEPT !.faults = @ + 1], [line |-> 0, n |-> 0], 1)) :
             LgCommit(w)
  BY DEF LgReopen
<1>6. /\ w \in LgWorlds /\ LgFiles(w)
      /\ w.out \in {lgOut, Append(lgOut, LgOwn), Append(Append(lgOut, LgOwn), LgOwn)}
  <2>1. CASE w = LgWorld
    BY <1>2, <1>3, <2>1
  <2>2. CASE lgFile.at # 0 /\ w = LgReopened(LgWorld) /\ LgWorld.moved
    <3>1. w = LgOpenNew(LgWorld)
      BY <2>2 DEF LgReopened
    <3> QED  BY <1>2, <1>3, <3>1, OpenKeeps
  <2>3. CASE lgFile.at # 0 /\ w = LgReopened(LgWorld) /\ ~LgWorld.moved
    <3> DEFINE h == lgDisk[lgFile.at]
               b == h.bytes
               f == [lgFile EXCEPT !.date = lgDay, !.len = b]
               g == [h EXCEPT !.torn = FALSE]
               d == [lgDisk EXCEPT ![lgFile.at] = g]
    <3>1. w = [LgWorld EXCEPT !.file = f, !.disk = d]
      BY <1>3, <2>3 DEF LgReopened, LgWorlds
    <3>2. /\ lgFile \in LgFileKind /\ lgDisk \in Seq(LgDiskFile) /\ lgFile.at \in DOMAIN lgDisk
          /\ h \in LgDiskFile /\ (h.bytes = 0 => h.lines = 0)
          /\ (LgMaxFile # 0 /\ h.bytes > LgMaxFile => h.lines = 1 \/ h.spoilt)
      BY <1>2, <1>3, <2>3 DEF LgTyped, LgFiles, LgFileKind
    <3>3. b \in Nat
      BY <3>2 DEF LgDiskFile
    <3> HIDE DEF h
    <3>4. /\ g \in LgDiskFile /\ g.bytes = b /\ g.lines = h.lines /\ g.spoilt = h.spoilt /\ ~g.torn
      BY <3>2 DEF LgDiskFile
    <3> HIDE DEF b
    <3>5. f \in LgFileKind /\ f.at = lgFile.at /\ f.len = b
      BY <1>2, <3>2, <3>3 DEF LgFileKind
    <3>6. d \in Seq(LgDiskFile)
      BY <3>2, <3>4
    <3> HIDE DEF f, g, d
    <3>7. w \in LgWorlds /\ w.file = f /\ w.disk = d /\ w.out = lgOut
      BY <1>3, <3>1, <3>5, <3>6 DEF LgWorlds
    <3>8. LgLength(w.file.len, g) /\ w.file.at = lgFile.at
      BY <3>3, <3>4, <3>5, <3>7 DEF LgLength
    <3>9. /\ (g.bytes = 0 => g.lines = 0) /\ (g.torn => g.spoilt)
          /\ (LgMaxFile # 0 /\ g.bytes > LgMaxFile => g.lines = 1 \/ g.spoilt)
      BY <3>2, <3>4 DEF b
    <3>10. w.disk = [LgWorld.disk EXCEPT ![LgWorld.file.at] = g]
      BY <1>3, <3>7 DEF d
    <3>11. LgFiles(w)
      BY <1>2, <1>3, <2>3, <3>4, <3>7, <3>8, <3>9, <3>10, FileChanges
    <3> QED  BY <3>7, <3>11
  <2>4. CASE w \in LgWrite([LgWorld EXCEPT !.faults = @ + 1], [line |-> 0, n |-> 0], 1)
    <3> DEFINE u == [LgWorld EXCEPT !.faults = @ + 1]
    <3>1. /\ u \in LgWorlds /\ u.file = LgWorld.file /\ u.disk = LgWorld.disk /\ u.out = lgOut
      BY <1>3, SMTT(30) DEF LgWorlds
    <3>2. w \in LgWrite(u, LgOwn, 1) /\ 1 \in Nat \ {0}
      BY <2>4 DEF LgOwn
    <3> HIDE DEF u
    <3>3. LgFiles(u)
      BY <1>2, <3>1 DEF LgFiles
    <3>4. /\ w \in LgWorlds /\ LgFiles(w)
          /\ w.out \in {Append(u.out, LgOwn), Append(Append(u.out, LgOwn), LgOwn)}
      BY <1>2, <1>4, <3>1, <3>2, <3>3, WriteKeeps
    <3> QED  BY <3>1, <3>4
  <2> QED  BY <1>5, <2>1, <2>2, <2>3, <2>4
<1>7. LgInOrder(w.out) /\ LgEndsWith(w.out, lgTaken - lgDropped)
  <2> DEFINE o == Append(lgOut, LgOwn)
  <2>1. LgInOrder(o) /\ LgEndsWith(o, lgTaken - lgDropped) /\ o \in Seq(LgPrinted)
    BY <1>2, <1>4, OwnLine
  <2> HIDE DEF o
  <2>2. LgInOrder(Append(o, LgOwn)) /\ LgEndsWith(Append(o, LgOwn), lgTaken - lgDropped)
    BY <1>4, <2>1, OwnLine
  <2>3. w.out = lgOut \/ w.out = o \/ w.out = Append(o, LgOwn)
    BY <1>6 DEF o
  <2> QED  BY <1>2, <2>1, <2>2, <2>3
<1>8. /\ lgFile' \in LgFileKind /\ lgDisk' \in Seq(LgDiskFile) /\ lgMoved' \in BOOLEAN
      /\ lgOut' = w.out /\ lgOut' \in Seq(LgPrinted)
      /\ lgUsed' \in [lines : Nat, hups : Nat, faults : Nat] /\ lgUsed'.lines = lgUsed.lines
      /\ LgFiles(LgWorld)'
  BY <1>2, <1>5, <1>6, CommitKeeps
<1>9. lgBox' \in Seq(LgPosted) /\ LgQueued(lgBox', lgTaken', lgUsed'.lines)
  BY <1>1, <1>8, TakenKeeps
<1>10. LgTyped' /\ lgDropped' <= lgTaken'
  BY <1>1, <1>2, <1>8, <1>9 DEF LgInv, LgTyped
<1>11. LgAccount'
  BY <1>1, <1>7, <1>8 DEF LgAccount
<1> QED  BY <1>8, <1>9, <1>10, <1>11 DEF LgInv

LEMMA LgStart ==
  ASSUME LgAssumption, LgInit
  PROVE  LgInv
<1>1. /\ LgEmptyFile \in LgDiskFile /\ LgEmptyFile.bytes = 0 /\ LgEmptyFile.lines = 0
      /\ ~LgEmptyFile.torn
  BY DEF LgEmptyFile, LgDiskFile
<1>2. LgTyped
  <2>1. /\ lgBox = <<>> /\ lgOut = <<>> /\ lgMoved = FALSE /\ lgDropped = 0 /\ lgTaken = 0
        /\ lgDay = 1 /\ lgUsed = [lines |-> 0, hups |-> 0, faults |-> 0]
        /\ lgDisk = <<>> \/ lgDisk = <<LgEmptyFile>>
    BY DEF LgInit
  <2>2. lgFile \in LgFileKind
    BY DEF LgInit, LgFileKind
  <2>3. lgDisk \in Seq(LgDiskFile)
    <3>1. <<>> \in Seq(LgDiskFile) /\ <<LgEmptyFile>> \in Seq(LgDiskFile)
      BY <1>1
    <3> QED  BY <2>1, <3>1
  <2>4. lgBox \in Seq(LgPosted) /\ lgOut \in Seq(LgPrinted)
    BY <2>1
  <2>5. lgMoved \in BOOLEAN
    BY <2>1
  <2>6. lgDropped \in Nat /\ lgTaken \in Nat /\ lgDay \in Nat
    BY <2>1
  <2>7. lgUsed \in [lines : Nat, hups : Nat, faults : Nat]
    BY <2>1
  <2> QED  BY <2>2, <2>3, <2>4, <2>5, <2>6, <2>7 DEF LgTyped
<1>3. LgQueued(lgBox, lgTaken, lgUsed.lines)
  BY DEF LgInit, LgQueued, LgWaiting, LgLast
<1>4. LgAccount
  BY DEF LgInit, LgAccount, LgInOrder, LgEndsWith, LgLastBefore, LgNotices, LgNumber
<1>5. LgFiles(LgWorld)
  <2>1. LgWorld.file = lgFile /\ LgWorld.disk = lgDisk
    BY DEF LgWorld
  <2>2. CASE lgFile = [at |-> 0, date |-> 0, len |-> 0] /\ lgDisk = <<>>
    BY <2>1, <2>2 DEF LgFiles
  <2>3. CASE lgFile = [at |-> 1, date |-> 1, len |-> 0] /\ lgDisk = <<LgEmptyFile>>
    <3>1. /\ lgFile.at = 1 /\ lgFile.len = 0 /\ Len(lgDisk) = 1 /\ DOMAIN lgDisk = {1}
          /\ lgDisk[1] = LgEmptyFile
      BY <2>3
    <3>2. LgLength(0, LgEmptyFile)
      BY <1>1 DEF LgLength
    <3> QED  BY <1>1, <2>1, <3>1, <3>2 DEF LgFiles, LgAssumption
  <2> QED  BY <2>2, <2>3 DEF LgInit
<1> QED  BY <1>2, <1>3, <1>4, <1>5 DEF LgInv, LgInit

(* The logger's account, its mailbox and its files are inductive           *)
(* (rskynet-logger: dispatch, Backpressure::decide, LogFile).              *)
THEOREM LgInductive == LgSpec => []LgInv
<1>1. LgInit => LgInv
  BY LgStart, LgAssumption
<1>2. LgInv /\ [LgNext]_lgVars => LgInv'
  <2> SUFFICES ASSUME LgInv, [LgNext]_lgVars
               PROVE  LgInv'
    OBVIOUS
  <2>1. CASE LgNext
    BY <2>1, LgAssumption, LgPostKeeps, LgHupKeeps, LgAroundKeeps, LgDropKeeps, LgLineKeeps,
       LgReopenKeeps DEF LgNext
  <2>2. CASE UNCHANGED lgVars
    BY <2>2, FilesStay DEF lgVars, LgInv, LgTyped, LgAccount
  <2> QED  BY <2>1, <2>2
<1> QED  BY <1>1, <1>2, PTL DEF LgSpec

(* No line and no dropped line is unaccounted for, and log files stay      *)
(* bounded (dispatch, Backpressure::decide, should_rotate, reopen).        *)
THEOREM LgAlways == LgSpec => []LgKept
<1>1. LgInv => LgKept
  BY DEF LgInv, LgKept, LgBounded, LgFiles, LgLength, LgWorld
<1> QED  BY <1>1, LgInductive, PTL
=============================================================================
