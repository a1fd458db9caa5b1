--------------------------- MODULE ExclusiveProofs ---------------------------
(***************************************************************************)
(* Proofs about the exclusive thread, for any number of other threads,     *)
(* posts and wake-ups, and any slack of the drain's budget.  The inductive *)
(* invariant says what the owner's place tells about the mailbox state     *)
(* (Positions), who is still on the way to wake it (Announcements), and    *)
(* that the drain's budget covers the ready items and two items for every  *)
(* message of the backlog (Backlog).                                       *)
(***************************************************************************)
EXTENDS ExclusiveService, FiniteSetTheorems, TLAPS

(* Where the others stand; where the owner has the mailbox, where it has   *)
(* given it up, and where the service is being, or has been, destroyed.    *)
OtherPC == {"out", "enqueue", "load", "swap_idle", "swap_running", "mark_queued"}
HasPC   == {"run_service", "burst", "ready", "message", "empty", "reset", "work", "ran",
            "final_budget", "final_check", "drain_ready", "drain_queue", "release",
            "release_reset"}
GaveUpPC == {"mark_running", "idle", "park", "account", "gone"}
EndPC    == {"drain_ready", "drain_queue", "release", "release_reset", "account", "gone"}
OwnerPC  == HasPC \cup GaveUpPC \cup {"final", "final_end"}
LookPC   == {"burst", "ready", "message", "empty", "reset"}

Types ==
    /\ state \in States
    /\ queue \in Nat /\ ready \in Nat /\ len \in Nat /\ streak \in 0..READY_BURST
    /\ posted \in Nat /\ woken \in Nat /\ handled \in Nat
    /\ budget \in Nat /\ backlog \in Nat /\ covered \in Nat
    /\ permit \in BOOLEAN /\ closing \in BOOLEAN /\ opened \in BOOLEAN
    /\ dead \in BOOLEAN /\ destroyed \in BOOLEAN
    /\ pc \in [Threads -> OtherPC \cup OwnerPC]

Positions ==
    /\ pc[Owner] \in OwnerPC
    /\ \A t \in Others : pc[t] \in OtherPC
    /\ pc[Owner] \in HasPC => state \in {"RUNNING", "NOTIFIED"}
    /\ pc[Owner] \in GaveUpPC => state \in {"IDLE", "QUEUED"}

(* Once the loop has been left, everything there is belongs to the drain.  *)
Phases ==
    /\ pc[Owner] = "final" => dead /\ ~closing
    /\ pc[Owner] \in {"mark_running", "run_service", "park"} => ~closing
    /\ pc[Owner] \in EndPC \cup {"final_budget", "final_check", "final_end"} => closing
    /\ closing => dead
    /\ opened => pc[Owner] = "work"
    /\ destroyed => pc[Owner] = "gone"

Notifying == \E t \in Others : pc[t] \in NotifyPC

(* Work the owner's scan has missed is announced; a service that has been  *)
(* claimed while its owner is idle is about to interrupt it.               *)
Announcements ==
    /\ pc[Owner] \in {"message", "empty"} /\ ready > 0 => state = "NOTIFIED" \/ Notifying
    /\ pc[Owner] = "empty" /\ queue > 0 => state = "NOTIFIED" \/ Notifying
    /\ pc[Owner] \in {"idle", "park"} /\ state = "IDLE" /\ (queue > 0 \/ ready > 0) => Notifying
    /\ pc[Owner] = "park" /\ state = "IDLE" /\ dead => Notifying
    /\ pc[Owner] \in {"idle", "park"} /\ state = "QUEUED" =>
         permit \/ \E t \in Others : pc[t] = "mark_queued"

(* What the drain has still to run before the backlog is handled.          *)
Late == woken - covered
Need == ready + (IF opened THEN 1 ELSE 0) + 2 * (backlog - handled) + DRAIN_SLACK - Late

Backlog ==
    /\ covered <= woken
    /\ ~dead => backlog = 0
    /\ pc[Owner] \notin EndPC => backlog <= handled + queue
    /\ closing /\ pc[Owner] \in {"empty", "idle"} => backlog <= handled
    /\ pc[Owner] \in EndPC \cup {"final_end"} => (Late <= DRAIN_SLACK + 1 => backlog <= handled)
    /\ closing /\ pc[Owner] \in LookPC => backlog <= handled \/ Need <= budget + 1
    /\ closing /\ pc[Owner] \in {"final_check", "work", "ran"} =>
         backlog <= handled \/ Need <= budget

ExclInv == Types /\ LenCoversQueue /\ Positions /\ Phases /\ Announcements /\ Backlog

-----------------------------------------------------------------------------
USE MailboxAssumption, ExclusiveAssumption
USE DEF Goto, Others, OtherPC, HasPC, GaveUpPC, EndPC, OwnerPC, LookPC, NotifyPC, States,
        box, life, hist, own

(* The threads between counting and queueing a message are finitely many,  *)
(* so `len` is at least the length of the queue.                           *)
LEMMA LenAtLeastQueue ==
    ASSUME ExclInv
    PROVE  Cardinality(Enqueuing) \in Nat /\ IsFiniteSet(Enqueuing) /\ queue <= len
  <1>1. IsFiniteSet(Enqueuing)
    BY FS_Subset DEF Enqueuing
  <1>2. Cardinality(Enqueuing) \in Nat
    BY <1>1, FS_CardinalityType
  <1>3. QED
    BY <1>1, <1>2 DEF ExclInv, Types, LenCoversQueue

(* The owner starts with an empty mailbox that is marked as queued.        *)
LEMMA InitInv == ExclInit => ExclInv
  <1> SUFFICES ASSUME ExclInit PROVE ExclInv
    OBVIOUS
  <1>1. /\ pc[Owner] = "mark_running" /\ \A t \in Others : pc[t] = "out"
        /\ pc \in [Threads -> OtherPC \cup OwnerPC]
    BY DEF ExclInit
  <1>2. Types
    <2>1. /\ permit \in BOOLEAN /\ closing \in BOOLEAN /\ opened \in BOOLEAN
          /\ dead \in BOOLEAN /\ destroyed \in BOOLEAN
      BY DEF ExclInit
    <2>2. QED
      BY <1>1, <2>1 DEF ExclInit, Types
  <1>3. LenCoversQueue
    <2>1. Enqueuing = {}
      BY <1>1 DEF Enqueuing
    <2>2. QED
      BY <2>1, FS_EmptySet DEF ExclInit, LenCoversQueue
  <1>4. Positions /\ Phases /\ Announcements /\ Backlog
    BY <1>1 DEF ExclInit, Positions, Phases, Announcements, Backlog, Late, Need
  <1>5. QED
    BY <1>2, <1>3, <1>4 DEF ExclInv

(* PostMessage preserves the invariant. *)
LEMMA PostMessageStep ==
    ASSUME ExclInv, NEW t \in Others, PostMessage(t), UNCHANGED own PROVE ExclInv'
  <1> USE DEF Post, PostMessage
  <1>1. queue <= len /\ Cardinality(Enqueuing) \in Nat /\ IsFiniteSet(Enqueuing)
    BY LenAtLeastQueue
  <1>2. Types'
    BY <1>1 DEF ExclInv, Types, Positions
  <1>3. LenCoversQueue'
    <2>1. Enqueuing' = Enqueuing \cup {t} /\ t \notin Enqueuing
      BY DEF ExclInv, Types, Enqueuing
    <2>2. Cardinality(Enqueuing') = Cardinality(Enqueuing) + 1
      BY <1>1, <2>1, FS_AddElement
    <2>3. QED
      BY <1>1, <2>2 DEF ExclInv, Types, LenCoversQueue
  <1>4. Positions'
    BY <1>1 DEF ExclInv, Types, Positions
  <1>5. Phases'
    BY <1>1 DEF ExclInv, Types, Positions, Phases
  <1>6. Announcements'
    BY <1>1 DEF ExclInv, Types, Positions, Phases, Announcements, Notifying
  <1>7. Backlog'
    BY <1>1 DEF ExclInv, Types, Positions, Phases, Backlog, Need, Late
  <1>8. QED
    BY <1>2, <1>3, <1>4, <1>5, <1>6, <1>7 DEF ExclInv

(* Enqueue preserves the invariant. *)
LEMMA EnqueueStep ==
    ASSUME ExclInv, NEW t \in Others, Enqueue(t), UNCHANGED own PROVE ExclInv'
  <1> USE DEF Enqueue
  <1>1. queue <= len /\ Cardinality(Enqueuing) \in Nat /\ IsFiniteSet(Enqueuing)
    BY LenAtLeastQueue
  <1>2. Types'
    BY <1>1 DEF ExclInv, Types, Positions
  <1>3. LenCoversQueue'
    <2>1. Enqueuing' = Enqueuing \ {t} /\ t \in Enqueuing
      BY DEF ExclInv, Types, Enqueuing
    <2>2. Cardinality(Enqueuing') = Cardinality(Enqueuing) - 1
      BY <1>1, <2>1, FS_RemoveElement
    <2>3. QED
      BY <1>1, <2>2 DEF ExclInv, Types, LenCoversQueue
  <1>4. Positions'
    BY <1>1 DEF ExclInv, Types, Positions
  <1>5. Phases'
    BY <1>1 DEF ExclInv, Types, Positions, Phases
  <1>6. Announcements'
    BY <1>1 DEF ExclInv, Types, Positions, Phases, Announcements, Notifying
  <1>7. Backlog'
    BY <1>1 DEF ExclInv, Types, Positions, Phases, Backlog, Need, Late
  <1>8. QED
    BY <1>2, <1>3, <1>4, <1>5, <1>6, <1>7 DEF ExclInv

(* WakeTask preserves the invariant. *)
LEMMA WakeTaskStep ==
    ASSUME ExclInv, NEW t \in Others, WakeTask(t), UNCHANGED own PROVE ExclInv'
  <1> USE DEF WakeTask
  <1>1. queue <= len /\ Cardinality(Enqueuing) \in Nat /\ IsFiniteSet(Enqueuing)
    BY LenAtLeastQueue
  <1>2. Types'
    BY <1>1 DEF ExclInv, Types, Positions
  <1>3. LenCoversQueue'
    <2>1. Enqueuing' = Enqueuing
      BY DEF ExclInv, Types, Positions, Enqueuing
    <2>2. QED
      BY <1>1, <2>1 DEF ExclInv, Types, LenCoversQueue
  <1>4. Positions'
    BY <1>1 DEF ExclInv, Types, Positions
  <1>5. Phases'
    BY <1>1 DEF ExclInv, Types, Positions, Phases
  <1>6. Announcements'
    BY <1>1 DEF ExclInv, Types, Positions, Phases, Announcements, Notifying
  <1>7. Backlog'
    BY <1>1 DEF ExclInv, Types, Positions, Phases, Backlog, Need, Late
  <1>8. QED
    BY <1>2, <1>3, <1>4, <1>5, <1>6, <1>7 DEF ExclInv

(* NotifyLoad preserves the invariant. *)
LEMMA NotifyLoadStep ==
    ASSUME ExclInv, NEW t \in Others, NotifyLoad(t), UNCHANGED own PROVE ExclInv'
  <1> USE DEF NotifyLoad, Looked
  <1>1. queue <= len /\ Cardinality(Enqueuing) \in Nat /\ IsFiniteSet(Enqueuing)
    BY LenAtLeastQueue
  <1>2. Types'
    BY <1>1 DEF ExclInv, Types, Positions
  <1>3. LenCoversQueue'
    <2>1. Enqueuing' = Enqueuing
      BY DEF ExclInv, Types, Positions, Enqueuing
    <2>2. QED
      BY <1>1, <2>1 DEF ExclInv, Types, LenCoversQueue
  <1>4. Positions'
    BY <1>1 DEF ExclInv, Types, Positions
  <1>5. Phases'
    BY <1>1 DEF ExclInv, Types, Positions, Phases
  <1>6. Announcements'
    BY <1>1 DEF ExclInv, Types, Positions, Phases, Announcements, Notifying
  <1>7. Backlog'
    BY <1>1 DEF ExclInv, Types, Positions, Phases, Backlog, Need, Late
  <1>8. QED
    BY <1>2, <1>3, <1>4, <1>5, <1>6, <1>7 DEF ExclInv

(* SwapIdle preserves the invariant. *)
LEMMA SwapIdleStep ==
    ASSUME ExclInv, NEW t \in Others, SwapIdle(t), UNCHANGED own PROVE ExclInv'
  <1> USE DEF SwapIdle, Looked
  <1>1. queue <= len /\ Cardinality(Enqueuing) \in Nat /\ IsFiniteSet(Enqueuing)
    BY LenAtLeastQueue
  <1>2. Types'
    BY <1>1 DEF ExclInv, Types, Positions
  <1>3. LenCoversQueue'
    <2>1. Enqueuing' = Enqueuing
      BY DEF ExclInv, Types, Positions, Enqueuing
    <2>2. QED
      BY <1>1, <2>1 DEF ExclInv, Types, LenCoversQueue
  <1>4. Positions'
    BY <1>1 DEF ExclInv, Types, Positions
  <1>5. Phases'
    BY <1>1 DEF ExclInv, Types, Positions, Phases
  <1>6. Announcements'
    BY <1>1 DEF ExclInv, Types, Positions, Phases, Announcements, Notifying
  <1>7. Backlog'
    BY <1>1 DEF ExclInv, Types, Positions, Phases, Backlog, Need, Late
  <1>8. QED
    BY <1>2, <1>3, <1>4, <1>5, <1>6, <1>7 DEF ExclInv

(* SwapRunning preserves the invariant. *)
LEMMA SwapRunningStep ==
    ASSUME ExclInv, NEW t \in Others, SwapRunning(t), UNCHANGED own PROVE ExclInv'
  <1> USE DEF SwapRunning, Looked
  <1>1. queue <= len /\ Cardinality(Enqueuing) \in Nat /\ IsFiniteSet(Enqueuing)
    BY LenAtLeastQueue
  <1>2. Types'
    BY <1>1 DEF ExclInv, Types, Positions
  <1>3. LenCoversQueue'
    <2>1. Enqueuing' = Enqueuing
      BY DEF ExclInv, Types, Positions, Enqueuing
    <2>2. QED
      BY <1>1, <2>1 DEF ExclInv, Types, LenCoversQueue
  <1>4. Positions'
    BY <1>1 DEF ExclInv, Types, Positions
  <1>5. Phases'
    BY <1>1 DEF ExclInv, Types, Positions, Phases
  <1>6. Announcements'
    BY <1>1 DEF ExclInv, Types, Positions, Phases, Announcements, Notifying
  <1>7. Backlog'
    BY <1>1 DEF ExclInv, Types, Positions, Phases, Backlog, Need, Late
  <1>8. QED
    BY <1>2, <1>3, <1>4, <1>5, <1>6, <1>7 DEF ExclInv

(* RetireExclusive preserves the invariant. *)
LEMMA RetireExclusiveStep ==
    ASSUME ExclInv, NEW t \in Others, RetireExclusive(t) PROVE ExclInv'
  <1> USE DEF RetireExclusive, Retire
  <1>1. queue <= len /\ Cardinality(Enqueuing) \in Nat /\ IsFiniteSet(Enqueuing)
    BY LenAtLeastQueue
  <1>2. Types'
    BY <1>1 DEF ExclInv, Types, Positions
  <1>3. LenCoversQueue'
    <2>1. Enqueuing' = Enqueuing
      BY DEF ExclInv, Types, Positions, Enqueuing
    <2>2. QED
      BY <1>1, <2>1 DEF ExclInv, Types, LenCoversQueue
  <1>4. Positions'
    BY <1>1 DEF ExclInv, Types, Positions
  <1>5. Phases'
    BY <1>1 DEF ExclInv, Types, Positions, Phases
  <1>6. Announcements'
    BY <1>1 DEF ExclInv, Types, Positions, Phases, Announcements, Notifying
  <1>7. Backlog'
    BY <1>1 DEF ExclInv, Types, Positions, Phases, Backlog, Need, Late
  <1>8. QED
    BY <1>2, <1>3, <1>4, <1>5, <1>6, <1>7 DEF ExclInv

(* Interrupt preserves the invariant. *)
LEMMA InterruptStep ==
    ASSUME ExclInv, NEW t \in Others, Interrupt(t) PROVE ExclInv'
  <1> USE DEF Interrupt
  <1>1. queue <= len /\ Cardinality(Enqueuing) \in Nat /\ IsFiniteSet(Enqueuing)
    BY LenAtLeastQueue
  <1>2. Types'
    BY <1>1 DEF ExclInv, Types, Positions
  <1>3. LenCoversQueue'
    <2>1. Enqueuing' = Enqueuing
      BY DEF ExclInv, Types, Positions, Enqueuing
    <2>2. QED
      BY <1>1, <2>1 DEF ExclInv, Types, LenCoversQueue
  <1>4. Positions'
    BY <1>1 DEF ExclInv, Types, Positions
  <1>5. Phases'
    BY <1>1 DEF ExclInv, Types, Positions, Phases
  <1>6. Announcements'
    BY <1>1 DEF ExclInv, Types, Positions, Phases, Announcements, Notifying
  <1>7. Backlog'
    BY <1>1 DEF ExclInv, Types, Positions, Phases, Backlog, Need, Late
  <1>8. QED
    BY <1>2, <1>3, <1>4, <1>5, <1>6, <1>7 DEF ExclInv

(* Claim preserves the invariant. *)
LEMMA ClaimStep ==
    ASSUME ExclInv, Claim PROVE ExclInv'
  <1> USE DEF Claim, MarkRunning
  <1>1. queue <= len /\ Cardinality(Enqueuing) \in Nat /\ IsFiniteSet(Enqueuing)
    BY LenAtLeastQueue
  <1>2. Types'
    BY <1>1 DEF ExclInv, Types, Positions
  <1>3. LenCoversQueue'
    <2>1. Enqueuing' = Enqueuing
      BY DEF ExclInv, Types, Positions, Enqueuing
    <2>2. QED
      BY <1>1, <2>1 DEF ExclInv, Types, LenCoversQueue
  <1>4. Positions'
    BY <1>1 DEF ExclInv, Types, Positions
  <1>5. Phases'
    BY <1>1 DEF ExclInv, Types, Positions, Phases
  <1>6. Announcements'
    BY <1>1 DEF ExclInv, Types, Positions, Phases, Announcements, Notifying
  <1>7. Backlog'
    BY <1>1 DEF ExclInv, Types, Positions, Phases, Backlog, Need, Late
  <1>8. QED
    BY <1>2, <1>3, <1>4, <1>5, <1>6, <1>7 DEF ExclInv

(* RunExclusive preserves the invariant. *)
LEMMA RunExclusiveStep ==
    ASSUME ExclInv, RunExclusive PROVE ExclInv'
  <1> USE DEF RunExclusive
  <1>1. queue <= len /\ Cardinality(Enqueuing) \in Nat /\ IsFiniteSet(Enqueuing)
    BY LenAtLeastQueue
  <1>2. Types'
    BY <1>1 DEF ExclInv, Types, Positions
  <1>3. LenCoversQueue'
    <2>1. Enqueuing' = Enqueuing
      BY DEF ExclInv, Types, Positions, Enqueuing
    <2>2. QED
      BY <1>1, <2>1 DEF ExclInv, Types, LenCoversQueue
  <1>4. Positions'
    BY <1>1 DEF ExclInv, Types, Positions
  <1>5. Phases'
    BY <1>1 DEF ExclInv, Types, Positions, Phases
  <1>6. Announcements'
    BY <1>1 DEF ExclInv, Types, Positions, Phases, Announcements, Notifying
  <1>7. Backlog'
    BY <1>1 DEF ExclInv, Types, Positions, Phases, Backlog, Need, Late
  <1>8. QED
    BY <1>2, <1>3, <1>4, <1>5, <1>6, <1>7 DEF ExclInv

(* TakeBurst preserves the invariant. *)
LEMMA TakeBurstStep ==
    ASSUME ExclInv, TakeBurst(Owner),
           opened' = (handled' # handled), UNCHANGED <<permit, closing, budget, backlog, covered>>
    PROVE  ExclInv'
  <1> USE DEF TakeBurst, TakeMessage
  <1>1. queue <= len /\ Cardinality(Enqueuing) \in Nat /\ IsFiniteSet(Enqueuing)
    BY LenAtLeastQueue
  <1>2. Types'
    BY <1>1 DEF ExclInv, Types, Positions
  <1>3. LenCoversQueue'
    <2>1. Enqueuing' = Enqueuing
      BY DEF ExclInv, Types, Positions, Enqueuing
    <2>2. QED
      BY <1>1, <2>1 DEF ExclInv, Types, LenCoversQueue
  <1>4. Positions'
    BY <1>1 DEF ExclInv, Types, Positions
  <1>5. Phases'
    BY <1>1 DEF ExclInv, Types, Positions, Phases
  <1>6. Announcements'
    BY <1>1 DEF ExclInv, Types, Positions, Phases, Announcements, Notifying
  <1>7. Backlog'
    BY <1>1 DEF ExclInv, Types, Positions, Phases, Backlog, Need, Late
  <1>8. QED
    BY <1>2, <1>3, <1>4, <1>5, <1>6, <1>7 DEF ExclInv

(* TakeReady preserves the invariant. *)
LEMMA TakeReadyStep ==
    ASSUME ExclInv, TakeReady(Owner),
           opened' = (handled' # handled), UNCHANGED <<permit, closing, budget, backlog, covered>>
    PROVE  ExclInv'
  <1> USE DEF TakeReady
  <1>1. queue <= len /\ Cardinality(Enqueuing) \in Nat /\ IsFiniteSet(Enqueuing)
    BY LenAtLeastQueue
  <1>2. Types'
    BY <1>1 DEF ExclInv, Types, Positions
  <1>3. LenCoversQueue'
    <2>1. Enqueuing' = Enqueuing
      BY DEF ExclInv, Types, Positions, Enqueuing
    <2>2. QED
      BY <1>1, <2>1 DEF ExclInv, Types, LenCoversQueue
  <1>4. Positions'
    BY <1>1 DEF ExclInv, Types, Positions
  <1>5. Phases'
    BY <1>1 DEF ExclInv, Types, Positions, Phases
  <1>6. Announcements'
    BY <1>1 DEF ExclInv, Types, Positions, Phases, Announcements, Notifying
  <1>7. Backlog'
    BY <1>1 DEF ExclInv, Types, Positions, Phases, Backlog, Need, Late
  <1>8. QED
    BY <1>2, <1>3, <1>4, <1>5, <1>6, <1>7 DEF ExclInv

(* TakeQueue preserves the invariant. *)
LEMMA TakeQueueStep ==
    ASSUME ExclInv, TakeQueue(Owner),
           opened' = (handled' # handled), UNCHANGED <<permit, closing, budget, backlog, covered>>
    PROVE  ExclInv'
  <1> USE DEF TakeQueue, TakeMessage
  <1>1. queue <= len /\ Cardinality(Enqueuing) \in Nat /\ IsFiniteSet(Enqueuing)
    BY LenAtLeastQueue
  <1>2. Types'
    BY <1>1 DEF ExclInv, Types, Positions
  <1>3. LenCoversQueue'
    <2>1. Enqueuing' = Enqueuing
      BY DEF ExclInv, Types, Positions, Enqueuing
    <2>2. QED
      BY <1>1, <2>1 DEF ExclInv, Types, LenCoversQueue
  <1>4. Positions'
    BY <1>1 DEF ExclInv, Types, Positions
  <1>5. Phases'
    BY <1>1 DEF ExclInv, Types, Positions, Phases
  <1>6. Announcements'
    BY <1>1 DEF ExclInv, Types, Positions, Phases, Announcements, Notifying
  <1>7. Backlog'
    BY <1>1 DEF ExclInv, Types, Positions, Phases, Backlog, Need, Late
  <1>8. QED
    BY <1>2, <1>3, <1>4, <1>5, <1>6, <1>7 DEF ExclInv

(* TakeNothing preserves the invariant. *)
LEMMA TakeNothingStep ==
    ASSUME ExclInv, TakeNothing(Owner),
           opened' = (handled' # handled), UNCHANGED <<permit, closing, budget, backlog, covered>>
    PROVE  ExclInv'
  <1> USE DEF TakeNothing
  <1>1. queue <= len /\ Cardinality(Enqueuing) \in Nat /\ IsFiniteSet(Enqueuing)
    BY LenAtLeastQueue
  <1>2. Types'
    BY <1>1 DEF ExclInv, Types, Positions
  <1>3. LenCoversQueue'
    <2>1. Enqueuing' = Enqueuing
      BY DEF ExclInv, Types, Positions, Enqueuing
    <2>2. QED
      BY <1>1, <2>1 DEF ExclInv, Types, LenCoversQueue
  <1>4. Positions'
    BY <1>1 DEF ExclInv, Types, Positions
  <1>5. Phases'
    BY <1>1 DEF ExclInv, Types, Positions, Phases
  <1>6. Announcements'
    BY <1>1 DEF ExclInv, Types, Positions, Phases, Announcements, Notifying
  <1>7. Backlog'
    BY <1>1 DEF ExclInv, Types, Positions, Phases, Backlog, Need, Late
  <1>8. QED
    BY <1>2, <1>3, <1>4, <1>5, <1>6, <1>7 DEF ExclInv

(* ResetAndRescan preserves the invariant. *)
LEMMA ResetAndRescanStep ==
    ASSUME ExclInv, ResetAndRescan(Owner),
           opened' = (handled' # handled), UNCHANGED <<permit, closing, budget, backlog, covered>>
    PROVE  ExclInv'
  <1> USE DEF ResetAndRescan
  <1>1. queue <= len /\ Cardinality(Enqueuing) \in Nat /\ IsFiniteSet(Enqueuing)
    BY LenAtLeastQueue
  <1>2. Types'
    BY <1>1 DEF ExclInv, Types, Positions
  <1>3. LenCoversQueue'
    <2>1. Enqueuing' = Enqueuing
      BY DEF ExclInv, Types, Positions, Enqueuing
    <2>2. QED
      BY <1>1, <2>1 DEF ExclInv, Types, LenCoversQueue
  <1>4. Positions'
    BY <1>1 DEF ExclInv, Types, Positions
  <1>5. Phases'
    BY <1>1 DEF ExclInv, Types, Positions, Phases
  <1>6. Announcements'
    BY <1>1 DEF ExclInv, Types, Positions, Phases, Announcements, Notifying
  <1>7. Backlog'
    BY <1>1 DEF ExclInv, Types, Positions, Phases, Backlog, Need, Late
  <1>8. QED
    BY <1>2, <1>3, <1>4, <1>5, <1>6, <1>7 DEF ExclInv

(* Work preserves the invariant. *)
LEMMA WorkStep ==
    ASSUME ExclInv, Work PROVE ExclInv'
  <1> USE DEF Work
  <1>1. queue <= len /\ Cardinality(Enqueuing) \in Nat /\ IsFiniteSet(Enqueuing)
    BY LenAtLeastQueue
  <1>2. Types'
    <2>1. opened' \in BOOLEAN
      OBVIOUS
    <2>2. /\ state' \in States /\ ready' \in Nat
          /\ pc' \in [Threads -> OtherPC \cup OwnerPC]
      BY DEF ExclInv, Types
    <2>3. QED
      BY <2>1, <2>2 DEF ExclInv, Types
  <1>3. LenCoversQueue'
    <2>1. Enqueuing' = Enqueuing
      BY DEF ExclInv, Types, Positions, Enqueuing
    <2>2. QED
      BY <1>1, <2>1 DEF ExclInv, Types, LenCoversQueue
  <1>4. Positions'
    BY <1>1 DEF ExclInv, Types, Positions
  <1>5. Phases'
    BY <1>1 DEF ExclInv, Types, Positions, Phases
  <1>6. Announcements'
    BY <1>1 DEF ExclInv, Types, Positions, Phases, Announcements, Notifying
  <1>7. Backlog'
    BY <1>1 DEF ExclInv, Types, Positions, Phases, Backlog, Need, Late
  <1>8. QED
    BY <1>2, <1>3, <1>4, <1>5, <1>6, <1>7 DEF ExclInv

(* AfterItem preserves the invariant. *)
LEMMA AfterItemStep ==
    ASSUME ExclInv, AfterItem PROVE ExclInv'
  <1> USE DEF AfterItem
  <1>1. queue <= len /\ Cardinality(Enqueuing) \in Nat /\ IsFiniteSet(Enqueuing)
    BY LenAtLeastQueue
  <1>2. Types'
    BY <1>1 DEF ExclInv, Types, Positions
  <1>3. LenCoversQueue'
    <2>1. Enqueuing' = Enqueuing
      BY DEF ExclInv, Types, Positions, Enqueuing
    <2>2. QED
      BY <1>1, <2>1 DEF ExclInv, Types, LenCoversQueue
  <1>4. Positions'
    BY <1>1 DEF ExclInv, Types, Positions
  <1>5. Phases'
    BY <1>1 DEF ExclInv, Types, Positions, Phases
  <1>6. Announcements'
    BY <1>1 DEF ExclInv, Types, Positions, Phases, Announcements, Notifying
  <1>7. Backlog'
    BY <1>1 DEF ExclInv, Types, Positions, Phases, Backlog, Need, Late
  <1>8. QED
    BY <1>2, <1>3, <1>4, <1>5, <1>6, <1>7 DEF ExclInv

(* Idle preserves the invariant. *)
LEMMA IdleStep ==
    ASSUME ExclInv, Idle PROVE ExclInv'
  <1> USE DEF Idle
  <1>1. queue <= len /\ Cardinality(Enqueuing) \in Nat /\ IsFiniteSet(Enqueuing)
    BY LenAtLeastQueue
  <1>2. Types'
    BY <1>1 DEF ExclInv, Types, Positions
  <1>3. LenCoversQueue'
    <2>1. Enqueuing' = Enqueuing
      BY DEF ExclInv, Types, Positions, Enqueuing
    <2>2. QED
      BY <1>1, <2>1 DEF ExclInv, Types, LenCoversQueue
  <1>4. Positions'
    BY <1>1 DEF ExclInv, Types, Positions
  <1>5. Phases'
    BY <1>1 DEF ExclInv, Types, Positions, Phases
  <1>6. Announcements'
    BY <1>1 DEF ExclInv, Types, Positions, Phases, Announcements, Notifying
  <1>7. Backlog'
    BY <1>1 DEF ExclInv, Types, Positions, Phases, Backlog, Need, Late
  <1>8. QED
    BY <1>2, <1>3, <1>4, <1>5, <1>6, <1>7 DEF ExclInv

(* Unpark preserves the invariant. *)
LEMMA UnparkStep ==
    ASSUME ExclInv, Unpark PROVE ExclInv'
  <1> USE DEF Unpark
  <1>1. queue <= len /\ Cardinality(Enqueuing) \in Nat /\ IsFiniteSet(Enqueuing)
    BY LenAtLeastQueue
  <1>2. Types'
    BY <1>1 DEF ExclInv, Types, Positions
  <1>3. LenCoversQueue'
    <2>1. Enqueuing' = Enqueuing
      BY DEF ExclInv, Types, Positions, Enqueuing
    <2>2. QED
      BY <1>1, <2>1 DEF ExclInv, Types, LenCoversQueue
  <1>4. Positions'
    BY <1>1 DEF ExclInv, Types, Positions
  <1>5. Phases'
    BY <1>1 DEF ExclInv, Types, Positions, Phases
  <1>6. Announcements'
    BY <1>1 DEF ExclInv, Types, Positions, Phases, Announcements, Notifying
  <1>7. Backlog'
    BY <1>1 DEF ExclInv, Types, Positions, Phases, Backlog, Need, Late
  <1>8. QED
    BY <1>2, <1>3, <1>4, <1>5, <1>6, <1>7 DEF ExclInv

(* IdleHookReturns preserves the invariant. *)
LEMMA IdleHookReturnsStep ==
    ASSUME ExclInv, IdleHookReturns PROVE ExclInv'
  <1> USE DEF IdleHookReturns
  <1>1. queue <= len /\ Cardinality(Enqueuing) \in Nat /\ IsFiniteSet(Enqueuing)
    BY LenAtLeastQueue
  <1>2. Types'
    BY <1>1 DEF ExclInv, Types, Positions
  <1>3. LenCoversQueue'
    <2>1. Enqueuing' = Enqueuing
      BY DEF ExclInv, Types, Positions, Enqueuing
    <2>2. QED
      BY <1>1, <2>1 DEF ExclInv, Types, LenCoversQueue
  <1>4. Positions'
    BY <1>1 DEF ExclInv, Types, Positions
  <1>5. Phases'
    BY <1>1 DEF ExclInv, Types, Positions, Phases
  <1>6. Announcements'
    BY <1>1 DEF ExclInv, Types, Positions, Phases, Announcements, Notifying
  <1>7. Backlog'
    BY <1>1 DEF ExclInv, Types, Positions, Phases, Backlog, Need, Late
  <1>8. QED
    BY <1>2, <1>3, <1>4, <1>5, <1>6, <1>7 DEF ExclInv

(* Final preserves the invariant. *)
LEMMA FinalStep ==
    ASSUME ExclInv, Final PROVE ExclInv'
  <1> USE DEF Final
  <1>1. queue <= len /\ Cardinality(Enqueuing) \in Nat /\ IsFiniteSet(Enqueuing)
    BY LenAtLeastQueue
  <1>2. Types'
    BY <1>1 DEF ExclInv, Types, Positions
  <1>3. LenCoversQueue'
    <2>1. Enqueuing' = Enqueuing
      BY DEF ExclInv, Types, Positions, Enqueuing
    <2>2. QED
      BY <1>1, <2>1 DEF ExclInv, Types, LenCoversQueue
  <1>4. Positions'
    BY <1>1 DEF ExclInv, Types, Positions
  <1>5. Phases'
    BY <1>1 DEF ExclInv, Types, Positions, Phases
  <1>6. Announcements'
    BY <1>1 DEF ExclInv, Types, Positions, Phases, Announcements, Notifying
  <1>7. Backlog'
    BY <1>1 DEF ExclInv, Types, Positions, Phases, Backlog, Need, Late
  <1>8. QED
    BY <1>2, <1>3, <1>4, <1>5, <1>6, <1>7 DEF ExclInv

(* FinalBudget preserves the invariant. *)
LEMMA FinalBudgetStep ==
    ASSUME ExclInv, FinalBudget PROVE ExclInv'
  <1> USE DEF FinalBudget, DrainBudget
  <1>1. queue <= len /\ Cardinality(Enqueuing) \in Nat /\ IsFiniteSet(Enqueuing)
    BY LenAtLeastQueue
  <1>2. Types'
    BY <1>1 DEF ExclInv, Types, Positions
  <1>3. LenCoversQueue'
    <2>1. Enqueuing' = Enqueuing
      BY DEF ExclInv, Types, Positions, Enqueuing
    <2>2. QED
      BY <1>1, <2>1 DEF ExclInv, Types, LenCoversQueue
  <1>4. Positions'
    BY <1>1 DEF ExclInv, Types, Positions
  <1>5. Phases'
    BY <1>1 DEF ExclInv, Types, Positions, Phases
  <1>6. Announcements'
    BY <1>1 DEF ExclInv, Types, Positions, Phases, Announcements, Notifying
  <1>7. Backlog'
    BY <1>1 DEF ExclInv, Types, Positions, Phases, Backlog, Need, Late
  <1>8. QED
    BY <1>2, <1>3, <1>4, <1>5, <1>6, <1>7 DEF ExclInv

(* FinalCheck preserves the invariant. *)
LEMMA FinalCheckStep ==
    ASSUME ExclInv, FinalCheck PROVE ExclInv'
  <1> USE DEF FinalCheck
  <1>1. queue <= len /\ Cardinality(Enqueuing) \in Nat /\ IsFiniteSet(Enqueuing)
    BY LenAtLeastQueue
  <1>2. Types'
    BY <1>1 DEF ExclInv, Types, Positions
  <1>3. LenCoversQueue'
    <2>1. Enqueuing' = Enqueuing
      BY DEF ExclInv, Types, Positions, Enqueuing
    <2>2. QED
      BY <1>1, <2>1 DEF ExclInv, Types, LenCoversQueue
  <1>4. Positions'
    BY <1>1 DEF ExclInv, Types, Positions
  <1>5. Phases'
    BY <1>1 DEF ExclInv, Types, Positions, Phases
  <1>6. Announcements'
    BY <1>1 DEF ExclInv, Types, Positions, Phases, Announcements, Notifying
  <1>7. Backlog'
    BY <1>1 DEF ExclInv, Types, Positions, Phases, Backlog, Need, Late
  <1>8. QED
    BY <1>2, <1>3, <1>4, <1>5, <1>6, <1>7 DEF ExclInv

(* FinalEnd preserves the invariant. *)
LEMMA FinalEndStep ==
    ASSUME ExclInv, FinalEnd PROVE ExclInv'
  <1> USE DEF FinalEnd
  <1>1. queue <= len /\ Cardinality(Enqueuing) \in Nat /\ IsFiniteSet(Enqueuing)
    BY LenAtLeastQueue
  <1>2. Types'
    BY <1>1 DEF ExclInv, Types, Positions
  <1>3. LenCoversQueue'
    <2>1. Enqueuing' = Enqueuing
      BY DEF ExclInv, Types, Positions, Enqueuing
    <2>2. QED
      BY <1>1, <2>1 DEF ExclInv, Types, LenCoversQueue
  <1>4. Positions'
    BY <1>1 DEF ExclInv, Types, Positions
  <1>5. Phases'
    BY <1>1 DEF ExclInv, Types, Positions, Phases
  <1>6. Announcements'
    BY <1>1 DEF ExclInv, Types, Positions, Phases, Announcements, Notifying
  <1>7. Backlog'
    BY <1>1 DEF ExclInv, Types, Positions, Phases, Backlog, Need, Late
  <1>8. QED
    BY <1>2, <1>3, <1>4, <1>5, <1>6, <1>7 DEF ExclInv

(* DrainReady preserves the invariant. *)
LEMMA DrainReadyStep ==
    ASSUME ExclInv, DrainReady(Owner), UNCHANGED own PROVE ExclInv'
  <1> USE DEF DrainReady
  <1>1. queue <= len /\ Cardinality(Enqueuing) \in Nat /\ IsFiniteSet(Enqueuing)
    BY LenAtLeastQueue
  <1>2. Types'
    BY <1>1 DEF ExclInv, Types, Positions
  <1>3. LenCoversQueue'
    <2>1. Enqueuing' = Enqueuing
      BY DEF ExclInv, Types, Positions, Enqueuing
    <2>2. QED
      BY <1>1, <2>1 DEF ExclInv, Types, LenCoversQueue
  <1>4. Positions'
    BY <1>1 DEF ExclInv, Types, Positions
  <1>5. Phases'
    BY <1>1 DEF ExclInv, Types, Positions, Phases
  <1>6. Announcements'
    BY <1>1 DEF ExclInv, Types, Positions, Phases, Announcements, Notifying
  <1>7. Backlog'
    BY <1>1 DEF ExclInv, Types, Positions, Phases, Backlog, Need, Late
  <1>8. QED
    BY <1>2, <1>3, <1>4, <1>5, <1>6, <1>7 DEF ExclInv

(* DrainQueue preserves the invariant. *)
LEMMA DrainQueueStep ==
    ASSUME ExclInv, DrainQueue(Owner), UNCHANGED own PROVE ExclInv'
  <1> USE DEF DrainQueue
  <1>1. queue <= len /\ Cardinality(Enqueuing) \in Nat /\ IsFiniteSet(Enqueuing)
    BY LenAtLeastQueue
  <1>2. Types'
    BY <1>1 DEF ExclInv, Types, Positions
  <1>3. LenCoversQueue'
    <2>1. Enqueuing' = Enqueuing
      BY DEF ExclInv, Types, Positions, Enqueuing
    <2>2. QED
      BY <1>1, <2>1 DEF ExclInv, Types, LenCoversQueue
  <1>4. Positions'
    BY <1>1 DEF ExclInv, Types, Positions
  <1>5. Phases'
    BY <1>1 DEF ExclInv, Types, Positions, Phases
  <1>6. Announcements'
    BY <1>1 DEF ExclInv, Types, Positions, Phases, Announcements, Notifying
  <1>7. Backlog'
    BY <1>1 DEF ExclInv, Types, Positions, Phases, Backlog, Need, Late
  <1>8. QED
    BY <1>2, <1>3, <1>4, <1>5, <1>6, <1>7 DEF ExclInv

(* Release preserves the invariant. *)
LEMMA ReleaseStep ==
    ASSUME ExclInv, Release(Owner), UNCHANGED own PROVE ExclInv'
  <1> USE DEF Release
  <1>1. queue <= len /\ Cardinality(Enqueuing) \in Nat /\ IsFiniteSet(Enqueuing)
    BY LenAtLeastQueue
  <1>2. Types'
    BY <1>1 DEF ExclInv, Types, Positions
  <1>3. LenCoversQueue'
    <2>1. Enqueuing' = Enqueuing
      BY DEF ExclInv, Types, Positions, Enqueuing
    <2>2. QED
      BY <1>1, <2>1 DEF ExclInv, Types, LenCoversQueue
  <1>4. Positions'
    BY <1>1 DEF ExclInv, Types, Positions
  <1>5. Phases'
    BY <1>1 DEF ExclInv, Types, Positions, Phases
  <1>6. Announcements'
    BY <1>1 DEF ExclInv, Types, Positions, Phases, Announcements, Notifying
  <1>7. Backlog'
    BY <1>1 DEF ExclInv, Types, Positions, Phases, Backlog, Need, Late
  <1>8. QED
    BY <1>2, <1>3, <1>4, <1>5, <1>6, <1>7 DEF ExclInv

(* ReleaseReset preserves the invariant. *)
LEMMA ReleaseResetStep ==
    ASSUME ExclInv, ReleaseReset(Owner), UNCHANGED own PROVE ExclInv'
  <1> USE DEF ReleaseReset
  <1>1. queue <= len /\ Cardinality(Enqueuing) \in Nat /\ IsFiniteSet(Enqueuing)
    BY LenAtLeastQueue
  <1>2. Types'
    BY <1>1 DEF ExclInv, Types, Positions
  <1>3. LenCoversQueue'
    <2>1. Enqueuing' = Enqueuing
      BY DEF ExclInv, Types, Positions, Enqueuing
    <2>2. QED
      BY <1>1, <2>1 DEF ExclInv, Types, LenCoversQueue
  <1>4. Positions'
    BY <1>1 DEF ExclInv, Types, Positions
  <1>5. Phases'
    BY <1>1 DEF ExclInv, Types, Positions, Phases
  <1>6. Announcements'
    BY <1>1 DEF ExclInv, Types, Positions, Phases, Announcements, Notifying
  <1>7. Backlog'
    BY <1>1 DEF ExclInv, Types, Positions, Phases, Backlog, Need, Late
  <1>8. QED
    BY <1>2, <1>3, <1>4, <1>5, <1>6, <1>7 DEF ExclInv

(* End preserves the invariant. *)
LEMMA EndStep ==
    ASSUME ExclInv, End PROVE ExclInv'
  <1> USE DEF End
  <1>1. queue <= len /\ Cardinality(Enqueuing) \in Nat /\ IsFiniteSet(Enqueuing)
    BY LenAtLeastQueue
  <1>2. Types'
    BY <1>1 DEF ExclInv, Types, Positions
  <1>3. LenCoversQueue'
    <2>1. Enqueuing' = Enqueuing
      BY DEF ExclInv, Types, Positions, Enqueuing
    <2>2. QED
      BY <1>1, <2>1 DEF ExclInv, Types, LenCoversQueue
  <1>4. Positions'
    BY <1>1 DEF ExclInv, Types, Positions
  <1>5. Phases'
    BY <1>1 DEF ExclInv, Types, Positions, Phases
  <1>6. Announcements'
    BY <1>1 DEF ExclInv, Types, Positions, Phases, Announcements, Notifying
  <1>7. Backlog'
    BY <1>1 DEF ExclInv, Types, Positions, Phases, Backlog, Need, Late
  <1>8. QED
    BY <1>2, <1>3, <1>4, <1>5, <1>6, <1>7 DEF ExclInv

(* Every step of the specification preserves the invariant.                *)
LEMMA NextInv == ExclInv /\ [ExclNext]_exclVars => ExclInv'
  <1> SUFFICES ASSUME ExclInv, [ExclNext]_exclVars PROVE ExclInv'
    OBVIOUS
  <1>1. CASE Scan
    BY <1>1, TakeBurstStep, TakeReadyStep, TakeQueueStep, TakeNothingStep, ResetAndRescanStep
    DEF Scan, TakeWork
  <1>2. CASE Cleanup
    BY <1>2, DrainReadyStep, DrainQueueStep, ReleaseStep, ReleaseResetStep DEF Cleanup
  <1>3. CASE OwnerStep
    BY <1>1, <1>2, <1>3, ClaimStep, RunExclusiveStep, WorkStep, AfterItemStep, IdleStep,
       UnparkStep, FinalStep, FinalBudgetStep, FinalCheckStep, FinalEndStep, EndStep
    DEF OwnerStep
  <1>4. ASSUME NEW t \in Others, Post(t) \/ RetireExclusive(t) \/ Interrupt(t)
        PROVE  ExclInv'
    BY <1>4, PostMessageStep, EnqueueStep, WakeTaskStep, NotifyLoadStep, SwapIdleStep,
       SwapRunningStep, RetireExclusiveStep, InterruptStep DEF Post
  <1>5. CASE UNCHANGED exclVars
    BY <1>5 DEF exclVars, vars, ExclInv, Types, LenCoversQueue, Enqueuing, Positions, Phases,
                Announcements, Notifying, Backlog, Need, Late
  <1>6. QED
    BY <1>3, <1>4, <1>5, IdleHookReturnsStep DEF ExclNext

(* The inductive invariant holds whatever the exclusive thread, its posters *)
(* and the thread that retires it do (exclusive_loop, wake, drain_service). *)
THEOREM ExclInductive == ExclSpec => []ExclInv
  BY InitInv, NextInv, PTL DEF ExclSpec

(* The exclusive thread keeps its types, finds the mailbox in a state that *)
(* take_work and release expect, and has handled what was waiting when it  *)
(* was killed before it destroys the service (exclusive_loop,              *)
(* drain_service), whatever other threads post and wake meanwhile.         *)
THEOREM ExclusiveSound == ExclSpec => []ExclSound
  <1>1. ASSUME ExclInv PROVE ExclSound
    <2>1. ExclTypeOK
      <3>1. pc \in [Threads -> PC \cup {"park", "final", "final_budget", "final_check",
                                        "final_end", "gone"}]
        BY <1>1 DEF ExclInv, Types, PC, TokenPC, PushPC, RunPC, ScanPC, CleanPC
      <3>2. {permit, closing, opened, dead, destroyed} \subseteq BOOLEAN
        BY <1>1 DEF ExclInv, Types
      <3>3. QED
        BY <1>1, <3>1, <3>2 DEF ExclInv, Types, ExclTypeOK
    <2>2. NoStatePanic
      BY <1>1 DEF ExclInv, Positions, NoStatePanic
    <2>3. BacklogHandled
      BY <1>1 DEF ExclInv, Types, Phases, Backlog, Late, BacklogHandled
    <2>4. QED
      BY <2>1, <2>2, <2>3 DEF ExclSound
  <1>2. QED
    BY <1>1, ExclInductive, PTL

(* The exclusive thread never sleeps on a message, a ready task or its own *)
(* death without somebody being about to interrupt it (exclusive_loop,     *)
(* wake): the notifier's swap and the permit are enough for any number of  *)
(* posters.                                                                *)
THEOREM ExclusiveNeverSleeps == ExclSpec => []NeverSleepsOnWork
  <1>1. ASSUME ExclInv PROVE NeverSleepsOnWork
    BY <1>1 DEF ExclInv, Types, Positions, Announcements, Notifying, NeverSleepsOnWork
  <1>2. QED
    BY <1>1, ExclInductive, PTL
=============================================================================
