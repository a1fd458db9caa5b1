---------------------------- MODULE HandleTable ----------------------------
(***************************************************************************)
(* The handle table (rskynet-core/src/handle.rs): an array of slots that   *)
(* doubles when it is full, a name table replaced as a whole, writers      *)
(* under one lock, readers without any.  Every load and every store of a   *)
(* swappable pointer is a step of its own; an array that has been replaced *)
(* stays readable for whoever loaded it.                                   *)
(*                                                                         *)
(* A slot holds 0 when empty, else the handle of the service in it.        *)
(***************************************************************************)
EXTENDS Integers, FiniteSets, Sequences

CONSTANTS HtWriters, HtReaders, HtNameSet,
          HtInitSize,     \* DEFAULT_SLOT_SIZE
          HtMaxHandle     \* bound: handles given out (the code stops at 2^64 - 1)

ASSUME HtAssumption == /\ HtInitSize \in Nat \ {0}
                       /\ HtMaxHandle \in Nat \ {0}
                       /\ "free" \notin HtWriters

VARIABLES
  htArrays,   \* every slot array there has been, the last one being current
  htNames,    \* the name table: a partial function from names to handles
  htNext,     \* the handle tried first by the next registration
  htLock,     \* the writer inside the alloc mutex, or "free"
  htWriter,   \* per writer [pc, handle, name, copy]
  htReader,   \* per reader [pc, op, handle, array, at, found, held, met]
  htLive      \* history: the handles registered and not yet retired

htVars == <<htArrays, htNames, htNext, htLock, htWriter, htReader, htLive>>

HtHandles == 1 .. HtMaxHandle

\* handle & (len - 1), the length being a power of two.
HtSlot(array, h) == h % Len(array)

\* An array is kept as a sequence: slot i is element i + 1.
HtAt(array, h) == array[HtSlot(array, h) + 1]
HtStore(array, slot, value) == [array EXCEPT ![slot + 1] = value]
HtFresh(size) == [i \in 1 .. size |-> 0]

HtCurrent == htArrays[Len(htArrays)]

HtIdle == [pc |-> "idle", handle |-> 0, name |-> 0, copy |-> <<>>]
HtResting == [pc |-> "idle", op |-> "none", handle |-> 0, array |-> 0, at |-> 0,
              found |-> {}, held |-> {}, met |-> {}]

HtInit ==
  /\ htArrays = <<HtFresh(HtInitSize)>>
  /\ htNames = <<>>
  /\ htNext = 1
  /\ htLock = "free"
  /\ htWriter = [w \in HtWriters |-> HtIdle]
  /\ htReader = [r \in HtReaders |-> HtResting]
  /\ htLive = {}

\* The handles a registration tries: from next on, as many as there are slots;
\* the first whose slot is empty is taken.
HtTried(array) == {h \in htNext .. htNext + Len(array) - 1 : HtAt(array, h) = 0}
HtChosen(array) == CHOOSE h \in HtTried(array) : \A g \in HtTried(array) : h <= g

\* Readers under way remember whom they met: the services registered at some
\* moment of the call (met) and those registered at every moment (held).
HtWitness(live) ==
  htReader' = [r \in HtReaders |->
    IF htReader[r].pc = "idle" THEN htReader[r]
    ELSE [htReader[r] EXCEPT !.met = @ \cup live, !.held = @ \cap live]]

-----------------------------------------------------------------------------
(* Writers.  alloc.lock() *)
HtAcquire(w, pc, h, n) ==
  /\ htWriter[w].pc = "idle"
  /\ htLock = "free"
  /\ htLock' = w
  /\ htWriter' = [htWriter EXCEPT ![w] = [HtIdle EXCEPT !.pc = pc, !.handle = h, !.name = n]]
  /\ UNCHANGED <<htArrays, htNames, htNext, htReader, htLive>>

HtRelease(w) ==
  /\ htLock' = "free"
  /\ htWriter' = [htWriter EXCEPT ![w] = HtIdle]

HtRegister(w) == htNext <= HtMaxHandle /\ HtAcquire(w, "probe", 0, 0)
\* Mutant: retire without the writers' lock.
HtRetireUnlocked(w) ==
  \E h \in HtHandles :
    /\ htWriter[w].pc = "idle"
    /\ htWriter' = [htWriter EXCEPT ![w] = [HtIdle EXCEPT !.pc = "retire", !.handle = h]]
    /\ UNCHANGED <<htArrays, htNames, htNext, htLock, htReader, htLive>>
HtRetire(w) == \E h \in HtHandles : HtAcquire(w, "retire", h, 0)
HtRegisterName(w) ==
  \E h \in HtHandles, n \in HtNameSet : HtAcquire(w, "name", h, n)

\* register_with: a free slot among the tried ones receives the service.
HtPlace(w) ==
  /\ htWriter[w].pc = "probe"
  /\ HtTried(HtCurrent) # {}
  /\ \E h \in {HtChosen(HtCurrent)} :
       /\ h <= HtMaxHandle
       /\ htArrays' = [htArrays EXCEPT ![Len(htArrays)] = HtStore(@, HtSlot(@, h), h)]
       /\ htNext' = h + 1
       /\ htLive' = htLive \cup {h}
       /\ HtWitness(htLive \cup {h})
  /\ HtRelease(w)
  /\ UNCHANGED htNames

\* Mutant: slots keep their index when the array doubles.
HtMovedInPlace(array) == array \o HtFresh(Len(array))
\* grow: every service of the old array, at its place in one twice as long.
HtMoved(array) ==
  [i \in 1 .. 2 * Len(array) |->
     LET here == {array[j] : j \in {k \in DOMAIN array :
                    array[k] # 0 /\ array[k] % (2 * Len(array)) = i - 1}}
     IN IF here = {} THEN 0 ELSE CHOOSE h \in here : TRUE]

HtGrow(w) ==
  /\ htWriter[w].pc = "probe"
  /\ HtTried(HtCurrent) = {}
  /\ htWriter' = [htWriter EXCEPT ![w].pc = "swap", ![w].copy = HtMoved(HtCurrent)]
  /\ UNCHANGED <<htArrays, htNames, htNext, htLock, htReader, htLive>>
HtSwap(w) ==
  /\ htWriter[w].pc = "swap"
  /\ htArrays' = Append(htArrays, htWriter[w].copy)
  /\ htWriter' = [htWriter EXCEPT ![w].pc = "probe", ![w].copy = <<>>]
  /\ UNCHANGED <<htNames, htNext, htLock, htReader, htLive>>

\* retire: the slot first, then, if it has names, a name table without them.
HtClear(w) ==
  /\ htWriter[w].pc = "retire"
  /\ \E h \in {htWriter[w].handle} :
       \/ /\ HtAt(HtCurrent, h) # h
          /\ HtRelease(w)
          /\ UNCHANGED <<htArrays, htLive, htReader>>
       \/ /\ HtAt(HtCurrent, h) = h
          /\ htArrays' = [htArrays EXCEPT ![Len(htArrays)] = HtStore(@, HtSlot(@, h), 0)]
          /\ htLive' = htLive \ {h}
          /\ HtWitness(htLive \ {h})
          /\ htWriter' = [htWriter EXCEPT ![w].pc = "unname"]
          /\ UNCHANGED htLock
  /\ UNCHANGED <<htNames, htNext>>
HtUnname(w) ==
  /\ htWriter[w].pc = "unname"
  /\ htNames' = [n \in {m \in DOMAIN htNames : htNames[m] # htWriter[w].handle} |-> htNames[n]]
  /\ HtRelease(w)
  /\ UNCHANGED <<htArrays, htNext, htReader, htLive>>

\* register_name: a live service only, and never over an existing name.
HtName(w) ==
  /\ htWriter[w].pc = "name"
  /\ \E h \in {htWriter[w].handle}, n \in {htWriter[w].name} :
       \/ /\ HtAt(HtCurrent, h) # h \/ n \in DOMAIN htNames
          /\ UNCHANGED htNames
       \/ /\ HtAt(HtCurrent, h) = h
          /\ n \notin DOMAIN htNames
          /\ htNames' = [m \in DOMAIN htNames \cup {n} |-> IF m = n THEN h ELSE htNames[m]]
  /\ HtRelease(w)
  /\ UNCHANGED <<htArrays, htNext, htReader, htLive>>

-----------------------------------------------------------------------------
(* Readers.  The array is loaded first, its slots afterwards. *)
HtBegin(r, op, h) ==
  /\ htReader[r].pc = "idle"
  /\ htReader' = [htReader EXCEPT ![r] =
       [pc |-> "slot", op |-> op, handle |-> h, array |-> Len(htArrays), at |-> 1,
        found |-> {}, held |-> htLive, met |-> htLive]]
  /\ UNCHANGED <<htArrays, htNames, htNext, htLock, htWriter, htLive>>

HtGrab(r) == \E h \in HtHandles : HtBegin(r, "grab", h)
HtContexts(r) == HtBegin(r, "all", 0)
\* Sending by name: find_name, then a grab of what it said.
HtFindName(r) == \E n \in DOMAIN htNames : HtBegin(r, "grab", htNames[n])

\* Mutant: whatever sits in the slot is taken for the service asked for.
HtMatchesAny(slot, h) == slot # 0
HtMatches(slot, h) == slot = h

HtGrabSlot(r) ==
  /\ htReader[r].pc = "slot"
  /\ htReader[r].op = "grab"
  /\ \E slot \in {HtAt(htArrays[htReader[r].array], htReader[r].handle)} :
       htReader' = [htReader EXCEPT ![r].pc = "answer",
         ![r].found = IF HtMatches(slot, htReader[r].handle) THEN {slot} ELSE {}]
  /\ UNCHANGED <<htArrays, htNames, htNext, htLock, htWriter, htLive>>

HtWalkSlot(r) ==
  /\ htReader[r].pc = "slot"
  /\ htReader[r].op = "all"
  /\ \E array \in {htArrays[htReader[r].array]} :
       htReader' = [htReader EXCEPT
         ![r].found = @ \cup ({array[htReader[r].at]} \ {0}),
         ![r].at = @ + 1,
         ![r].pc = IF htReader[r].at = Len(array) THEN "answer" ELSE "slot"]
  /\ UNCHANGED <<htArrays, htNames, htNext, htLock, htWriter, htLive>>

HtReturn(r) ==
  /\ htReader[r].pc = "answer"
  /\ htReader' = [htReader EXCEPT ![r] = HtResting]
  /\ UNCHANGED <<htArrays, htNames, htNext, htLock, htWriter, htLive>>

HtNext ==
  \/ \E w \in HtWriters :
       \/ HtRegister(w) \/ HtRetire(w) \/ HtRegisterName(w) \/ HtPlace(w) \/ HtGrow(w)
       \/ HtSwap(w) \/ HtClear(w) \/ HtUnname(w) \/ HtName(w)
  \/ \E r \in HtReaders :
       HtGrab(r) \/ HtContexts(r) \/ HtFindName(r) \/ HtGrabSlot(r) \/ HtWalkSlot(r) \/ HtReturn(r)

HtSpec == HtInit /\ [][HtNext]_htVars
-----------------------------------------------------------------------------
\* No answer of a lock-free reader is one that was false during its whole
\* call, however many times the array was replaced under it: grab finds the
\* service if it was registered throughout, finds it only if it was registered
\* at some moment, and finds no other; contexts lists every service that was
\* registered throughout and none that never was.
HtReadsTrue ==
  \A r \in HtReaders : htReader[r].pc = "answer" =>
    \E asked \in {IF htReader[r].op = "grab" THEN {htReader[r].handle} ELSE HtHandles} :
      /\ htReader[r].held \cap asked \subseteq htReader[r].found
      /\ htReader[r].found \subseteq htReader[r].met \cap asked

\* Whenever no writer is inside, the current array holds exactly the live
\* services, each where its handle points, every handle given out is behind
\* next, and names lead to live services only: growing loses nobody, and
\* nobody who was retired comes back with the copy.
HtTable ==
  htLock = "free" =>
    /\ \A h \in htLive : HtAt(HtCurrent, h) = h /\ h < htNext
    /\ {HtCurrent[i] : i \in DOMAIN HtCurrent} \ {0} = htLive
    /\ \A n \in DOMAIN htNames : htNames[n] \in htLive

\* Lock-free readers never see a state the table was not in, and writers leave it
\* whole (grab, contexts, register_with, retire, grow).
HtSafe == HtReadsTrue /\ HtTable
=============================================================================
