---------------------------- MODULE MailboxProofs ----------------------------
(***************************************************************************)
(* Proofs about the mailbox for any number of threads, posts and wake-ups. *)
(* IInv is inductive: the one token and what its holder knows about the    *)
(* state make the plain stores of mark_queued and mark_running harmless;   *)
(* "work missed by the holder is announced" makes the final swap to IDLE   *)
(* safe.                                                                   *)
(***************************************************************************)
EXTENDS Mailbox, FiniteSetTheorems, TLAPS

USE MailboxAssumption
USE DEF Goto, Holds, Announced, PC, TokenPC, RunPC, CleanPC, ScanPC, PushPC,
        NotifyPC, WorkPC, States, box, life, hist

TokenPart == OneToken /\ OwnerKnowsState /\ NoOrphan
WorkPart  == MissedWorkAnnounced /\ NoLostWork /\ NoLostKill
RestPart  == CleaningEndsWork /\ OvertakingFollowsStreak /\ CountBelowInterval

USE DEF TokenPart, WorkPart, RestPart

(* The parts together are the inductive invariant. *)
LEMMA PartsAreIInv ==
    IInv <=> TypeOK /\ LenCoversQueue /\ TokenPart /\ WorkPart /\ RestPart
  BY DEF IInv

(* The number of threads between counting and queueing a message is a      *)
(* natural number, so `len` is at least the length of the queue.           *)
LEMMA LenAtLeastQueue ==
    ASSUME TypeOK, LenCoversQueue
    PROVE  Cardinality(Enqueuing) \in Nat /\ IsFiniteSet(Enqueuing) /\ queue <= len
  <1>1. IsFiniteSet(Enqueuing)
    BY FS_Subset DEF Enqueuing
  <1>2. Cardinality(Enqueuing) \in Nat
    BY <1>1, FS_CardinalityType
  <1>3. QED
    BY <1>1, <1>2 DEF TypeOK, LenCoversQueue

(* In the initial state the creating thread holds the only token. *)
LEMMA InitIInv == Init => IInv
  <1> SUFFICES ASSUME Init PROVE IInv
    OBVIOUS
  <1>1. PICK creator \in Threads :
          pc = [t \in Threads |-> IF t = creator THEN "mark_queued" ELSE "out"]
    BY DEF Init
  <1>2. TypeOK
    <2>1. pc \in [Threads -> PC]
      BY <1>1
    <2>2. dead \in BOOLEAN /\ destroyed \in BOOLEAN
      BY DEF Init
    <2>3. QED
      BY <2>1, <2>2 DEF Init, TypeOK
  <1>3. LenCoversQueue
    <2>1. Enqueuing = {}
      BY <1>1 DEF Enqueuing
    <2>2. QED
      BY <2>1, FS_EmptySet DEF Init, LenCoversQueue
  <1>4. TokenPart
    BY <1>1 DEF Init, OneToken, OwnerKnowsState, NoOrphan
  <1>5. WorkPart
    BY <1>1 DEF Init, MissedWorkAnnounced, NoLostWork, NoLostKill
  <1>6. RestPart
    BY <1>1 DEF Init, CleaningEndsWork, OvertakingFollowsStreak, CountBelowInterval
  <1>7. QED
    BY <1>2, <1>3, <1>4, <1>5, <1>6, PartsAreIInv

(* PostMessage preserves every part of the inductive invariant. *)
LEMMA PostMessageStep ==
    ASSUME IInv, NEW t \in Threads, PostMessage(t) PROVE IInv'
  <1> USE DEF PostMessage
  <1>1. queue <= len /\ Cardinality(Enqueuing) \in Nat /\ IsFiniteSet(Enqueuing)
    BY LenAtLeastQueue DEF IInv
  <1>2. TypeOK'
    BY <1>1 DEF IInv, TypeOK, CountBelowInterval
  <1>3. LenCoversQueue'
    <2>1. Enqueuing' = Enqueuing \cup {t} /\ t \notin Enqueuing
      BY DEF IInv, TypeOK, Enqueuing
    <2>2. Cardinality(Enqueuing') = Cardinality(Enqueuing) + 1
      BY <1>1, <2>1, FS_AddElement
    <2>3. QED
      BY <1>1, <2>2 DEF IInv, TypeOK, LenCoversQueue
  <1>4. TokenPart'
    BY DEF IInv, TypeOK, OneToken, OwnerKnowsState, NoOrphan
  <1>5. WorkPart'
    BY DEF IInv, TypeOK, OneToken, OwnerKnowsState,
           MissedWorkAnnounced, NoLostWork, NoLostKill
  <1>6. RestPart'
    BY DEF IInv, TypeOK, OneToken, CleaningEndsWork, OvertakingFollowsStreak,
           CountBelowInterval
  <1>7. QED
    BY <1>2, <1>3, <1>4, <1>5, <1>6 DEF IInv

(* Enqueue preserves every part of the inductive invariant. *)
LEMMA EnqueueStep ==
    ASSUME IInv, NEW t \in Threads, Enqueue(t) PROVE IInv'
  <1> USE DEF Enqueue
  <1>1. queue <= len /\ Cardinality(Enqueuing) \in Nat /\ IsFiniteSet(Enqueuing)
    BY LenAtLeastQueue DEF IInv
  <1>2. TypeOK'
    BY <1>1 DEF IInv, TypeOK, CountBelowInterval
  <1>3. LenCoversQueue'
    <2>1. Enqueuing' = Enqueuing \ {t} /\ t \in Enqueuing
      BY DEF IInv, TypeOK, Enqueuing
    <2>2. Cardinality(Enqueuing') = Cardinality(Enqueuing) - 1
      BY <1>1, <2>1, FS_RemoveElement
    <2>3. QED
      BY <1>1, <2>2 DEF IInv, TypeOK, LenCoversQueue
  <1>4. TokenPart'
    BY DEF IInv, TypeOK, OneToken, OwnerKnowsState, NoOrphan
  <1>5. WorkPart'
    BY DEF IInv, TypeOK, OneToken, OwnerKnowsState,
           MissedWorkAnnounced, NoLostWork, NoLostKill
  <1>6. RestPart'
    BY DEF IInv, TypeOK, OneToken, CleaningEndsWork, OvertakingFollowsStreak,
           CountBelowInterval
  <1>7. QED
    BY <1>2, <1>3, <1>4, <1>5, <1>6 DEF IInv

(* WakeTask preserves every part of the inductive invariant. *)
LEMMA WakeTaskStep ==
    ASSUME IInv, NEW t \in Threads, WakeTask(t) PROVE IInv'
  <1> USE DEF WakeTask
  <1>1. queue <= len /\ Cardinality(Enqueuing) \in Nat /\ IsFiniteSet(Enqueuing)
    BY LenAtLeastQueue DEF IInv
  <1>2. TypeOK'
    BY <1>1 DEF IInv, TypeOK, CountBelowInterval
  <1>3. LenCoversQueue'
    <2>1. Enqueuing' = Enqueuing
      BY DEF IInv, TypeOK, Enqueuing
    <2>2. QED
      BY <1>1, <2>1 DEF IInv, TypeOK, LenCoversQueue
  <1>4. TokenPart'
    BY DEF IInv, TypeOK, OneToken, OwnerKnowsState, NoOrphan
  <1>5. WorkPart'
    BY DEF IInv, TypeOK, OneToken, OwnerKnowsState,
           MissedWorkAnnounced, NoLostWork, NoLostKill
  <1>6. RestPart'
    BY DEF IInv, TypeOK, OneToken, CleaningEndsWork, OvertakingFollowsStreak,
           CountBelowInterval
  <1>7. QED
    BY <1>2, <1>3, <1>4, <1>5, <1>6 DEF IInv

(* Retire preserves every part of the inductive invariant. *)
LEMMA RetireStep ==
    ASSUME IInv, NEW t \in Threads, Retire(t) PROVE IInv'
  <1> USE DEF Retire
  <1>1. queue <= len /\ Cardinality(Enqueuing) \in Nat /\ IsFiniteSet(Enqueuing)
    BY LenAtLeastQueue DEF IInv
  <1>2. TypeOK'
    BY <1>1 DEF IInv, TypeOK, CountBelowInterval
  <1>3. LenCoversQueue'
    <2>1. Enqueuing' = Enqueuing
      BY DEF IInv, TypeOK, Enqueuing
    <2>2. QED
      BY <1>1, <2>1 DEF IInv, TypeOK, LenCoversQueue
  <1>4. TokenPart'
    BY DEF IInv, TypeOK, OneToken, OwnerKnowsState, NoOrphan
  <1>5. WorkPart'
    BY DEF IInv, TypeOK, OneToken, OwnerKnowsState,
           MissedWorkAnnounced, NoLostWork, NoLostKill
  <1>6. RestPart'
    BY DEF IInv, TypeOK, OneToken, CleaningEndsWork, OvertakingFollowsStreak,
           CountBelowInterval
  <1>7. QED
    BY <1>2, <1>3, <1>4, <1>5, <1>6 DEF IInv

(* NotifyLoad preserves every part of the inductive invariant. *)
LEMMA NotifyLoadStep ==
    ASSUME IInv, NEW t \in Threads, NotifyLoad(t) PROVE IInv'
  <1> USE DEF NotifyLoad, Looked
  <1>1. queue <= len /\ Cardinality(Enqueuing) \in Nat /\ IsFiniteSet(Enqueuing)
    BY LenAtLeastQueue DEF IInv
  <1>2. TypeOK'
    BY <1>1 DEF IInv, TypeOK, CountBelowInterval
  <1>3. LenCoversQueue'
    <2>1. Enqueuing' = Enqueuing
      BY DEF IInv, TypeOK, Enqueuing
    <2>2. QED
      BY <1>1, <2>1 DEF IInv, TypeOK, LenCoversQueue
  <1>4. TokenPart'
    BY DEF IInv, TypeOK, OneToken, OwnerKnowsState, NoOrphan
  <1>5. WorkPart'
    BY DEF IInv, TypeOK, OneToken, OwnerKnowsState,
           MissedWorkAnnounced, NoLostWork, NoLostKill
  <1>6. RestPart'
    BY DEF IInv, TypeOK, OneToken, CleaningEndsWork, OvertakingFollowsStreak,
           CountBelowInterval
  <1>7. QED
    BY <1>2, <1>3, <1>4, <1>5, <1>6 DEF IInv

(* SwapIdle preserves every part of the inductive invariant. *)
LEMMA SwapIdleStep ==
    ASSUME IInv, NEW t \in Threads, SwapIdle(t) PROVE IInv'
  <1> USE DEF SwapIdle, Looked
  <1>1. queue <= len /\ Cardinality(Enqueuing) \in Nat /\ IsFiniteSet(Enqueuing)
    BY LenAtLeastQueue DEF IInv
  <1>2. TypeOK'
    BY <1>1 DEF IInv, TypeOK, CountBelowInterval
  <1>3. LenCoversQueue'
    <2>1. Enqueuing' = Enqueuing
      BY DEF IInv, TypeOK, Enqueuing
    <2>2. QED
      BY <1>1, <2>1 DEF IInv, TypeOK, LenCoversQueue
  <1>4. TokenPart'
    BY DEF IInv, TypeOK, OneToken, OwnerKnowsState, NoOrphan
  <1>5. WorkPart'
    BY DEF IInv, TypeOK, OneToken, OwnerKnowsState,
           MissedWorkAnnounced, NoLostWork, NoLostKill
  <1>6. RestPart'
    BY DEF IInv, TypeOK, OneToken, CleaningEndsWork, OvertakingFollowsStreak,
           CountBelowInterval
  <1>7. QED
    BY <1>2, <1>3, <1>4, <1>5, <1>6 DEF IInv

(* SwapRunning preserves every part of the inductive invariant. *)
LEMMA SwapRunningStep ==
    ASSUME IInv, NEW t \in Threads, SwapRunning(t) PROVE IInv'
  <1> USE DEF SwapRunning, Looked
  <1>1. queue <= len /\ Cardinality(Enqueuing) \in Nat /\ IsFiniteSet(Enqueuing)
    BY LenAtLeastQueue DEF IInv
  <1>2. TypeOK'
    BY <1>1 DEF IInv, TypeOK, CountBelowInterval
  <1>3. LenCoversQueue'
    <2>1. Enqueuing' = Enqueuing
      BY DEF IInv, TypeOK, Enqueuing
    <2>2. QED
      BY <1>1, <2>1 DEF IInv, TypeOK, LenCoversQueue
  <1>4. TokenPart'
    BY DEF IInv, TypeOK, OneToken, OwnerKnowsState, NoOrphan
  <1>5. WorkPart'
    BY DEF IInv, TypeOK, OneToken, OwnerKnowsState,
           MissedWorkAnnounced, NoLostWork, NoLostKill
  <1>6. RestPart'
    BY DEF IInv, TypeOK, OneToken, CleaningEndsWork, OvertakingFollowsStreak,
           CountBelowInterval
  <1>7. QED
    BY <1>2, <1>3, <1>4, <1>5, <1>6 DEF IInv

(* MarkQueued preserves every part of the inductive invariant. *)
LEMMA MarkQueuedStep ==
    ASSUME IInv, NEW t \in Threads, MarkQueued(t) PROVE IInv'
  <1> USE DEF MarkQueued
  <1>1. queue <= len /\ Cardinality(Enqueuing) \in Nat /\ IsFiniteSet(Enqueuing)
    BY LenAtLeastQueue DEF IInv
  <1>2. TypeOK'
    BY <1>1 DEF IInv, TypeOK, CountBelowInterval
  <1>3. LenCoversQueue'
    <2>1. Enqueuing' = Enqueuing
      BY DEF IInv, TypeOK, Enqueuing
    <2>2. QED
      BY <1>1, <2>1 DEF IInv, TypeOK, LenCoversQueue
  <1>4. TokenPart'
    BY DEF IInv, TypeOK, OneToken, OwnerKnowsState, NoOrphan
  <1>5. WorkPart'
    BY DEF IInv, TypeOK, OneToken, OwnerKnowsState,
           MissedWorkAnnounced, NoLostWork, NoLostKill
  <1>6. RestPart'
    BY DEF IInv, TypeOK, OneToken, CleaningEndsWork, OvertakingFollowsStreak,
           CountBelowInterval
  <1>7. QED
    BY <1>2, <1>3, <1>4, <1>5, <1>6 DEF IInv

(* Insert preserves every part of the inductive invariant. *)
LEMMA InsertStep ==
    ASSUME IInv, NEW t \in Threads, Insert(t) PROVE IInv'
  <1> USE DEF Insert
  <1>1. queue <= len /\ Cardinality(Enqueuing) \in Nat /\ IsFiniteSet(Enqueuing)
    BY LenAtLeastQueue DEF IInv
  <1>2. TypeOK'
    BY <1>1 DEF IInv, TypeOK, CountBelowInterval
  <1>3. LenCoversQueue'
    <2>1. Enqueuing' = Enqueuing
      BY DEF IInv, TypeOK, Enqueuing
    <2>2. QED
      BY <1>1, <2>1 DEF IInv, TypeOK, LenCoversQueue
  <1>4. TokenPart'
    BY DEF IInv, TypeOK, OneToken, OwnerKnowsState, NoOrphan
  <1>5. WorkPart'
    BY DEF IInv, TypeOK, OneToken, OwnerKnowsState,
           MissedWorkAnnounced, NoLostWork, NoLostKill
  <1>6. RestPart'
    BY DEF IInv, TypeOK, OneToken, CleaningEndsWork, OvertakingFollowsStreak,
           CountBelowInterval
  <1>7. QED
    BY <1>2, <1>3, <1>4, <1>5, <1>6 DEF IInv

(* Pop preserves every part of the inductive invariant. *)
LEMMA PopStep ==
    ASSUME IInv, NEW t \in Threads, Pop(t) PROVE IInv'
  <1> USE DEF Pop
  <1>1. queue <= len /\ Cardinality(Enqueuing) \in Nat /\ IsFiniteSet(Enqueuing)
    BY LenAtLeastQueue DEF IInv
  <1>2. TypeOK'
    BY <1>1 DEF IInv, TypeOK, CountBelowInterval
  <1>3. LenCoversQueue'
    <2>1. Enqueuing' = Enqueuing
      BY DEF IInv, TypeOK, Enqueuing
    <2>2. QED
      BY <1>1, <2>1 DEF IInv, TypeOK, LenCoversQueue
  <1>4. TokenPart'
    BY DEF IInv, TypeOK, OneToken, OwnerKnowsState, NoOrphan
  <1>5. WorkPart'
    BY DEF IInv, TypeOK, OneToken, OwnerKnowsState,
           MissedWorkAnnounced, NoLostWork, NoLostKill
  <1>6. RestPart'
    BY DEF IInv, TypeOK, OneToken, CleaningEndsWork, OvertakingFollowsStreak,
           CountBelowInterval
  <1>7. QED
    BY <1>2, <1>3, <1>4, <1>5, <1>6 DEF IInv

(* MarkRunning preserves every part of the inductive invariant. *)
LEMMA MarkRunningStep ==
    ASSUME IInv, NEW t \in Threads, MarkRunning(t) PROVE IInv'
  <1> USE DEF MarkRunning
  <1>1. queue <= len /\ Cardinality(Enqueuing) \in Nat /\ IsFiniteSet(Enqueuing)
    BY LenAtLeastQueue DEF IInv
  <1>2. TypeOK'
    BY <1>1 DEF IInv, TypeOK, CountBelowInterval
  <1>3. LenCoversQueue'
    <2>1. Enqueuing' = Enqueuing
      BY DEF IInv, TypeOK, Enqueuing
    <2>2. QED
      BY <1>1, <2>1 DEF IInv, TypeOK, LenCoversQueue
  <1>4. TokenPart'
    BY DEF IInv, TypeOK, OneToken, OwnerKnowsState, NoOrphan
  <1>5. WorkPart'
    BY DEF IInv, TypeOK, OneToken, OwnerKnowsState,
           MissedWorkAnnounced, NoLostWork, NoLostKill
  <1>6. RestPart'
    BY DEF IInv, TypeOK, OneToken, CleaningEndsWork, OvertakingFollowsStreak,
           CountBelowInterval
  <1>7. QED
    BY <1>2, <1>3, <1>4, <1>5, <1>6 DEF IInv

(* RunService preserves every part of the inductive invariant. *)
LEMMA RunServiceStep ==
    ASSUME IInv, NEW t \in Threads, RunService(t) PROVE IInv'
  <1> USE DEF RunService
  <1>1. queue <= len /\ Cardinality(Enqueuing) \in Nat /\ IsFiniteSet(Enqueuing)
    BY LenAtLeastQueue DEF IInv
  <1>2. TypeOK'
    BY <1>1 DEF IInv, TypeOK, CountBelowInterval
  <1>3. LenCoversQueue'
    <2>1. Enqueuing' = Enqueuing
      BY DEF IInv, TypeOK, Enqueuing
    <2>2. QED
      BY <1>1, <2>1 DEF IInv, TypeOK, LenCoversQueue
  <1>4. TokenPart'
    BY DEF IInv, TypeOK, OneToken, OwnerKnowsState, NoOrphan
  <1>5. WorkPart'
    BY DEF IInv, TypeOK, OneToken, OwnerKnowsState,
           MissedWorkAnnounced, NoLostWork, NoLostKill
  <1>6. RestPart'
    BY DEF IInv, TypeOK, OneToken, CleaningEndsWork, OvertakingFollowsStreak,
           CountBelowInterval
  <1>7. QED
    BY <1>2, <1>3, <1>4, <1>5, <1>6 DEF IInv

(* TakeBurst preserves every part of the inductive invariant. *)
LEMMA TakeBurstStep ==
    ASSUME IInv, NEW t \in Threads, TakeBurst(t) PROVE IInv'
  <1> USE DEF TakeBurst, TakeMessage
  <1>1. queue <= len /\ Cardinality(Enqueuing) \in Nat /\ IsFiniteSet(Enqueuing)
    BY LenAtLeastQueue DEF IInv
  <1>2. TypeOK'
    BY <1>1 DEF IInv, TypeOK, CountBelowInterval
  <1>3. LenCoversQueue'
    <2>1. Enqueuing' = Enqueuing
      BY DEF IInv, TypeOK, Enqueuing
    <2>2. QED
      BY <1>1, <2>1 DEF IInv, TypeOK, LenCoversQueue
  <1>4. TokenPart'
    BY DEF IInv, TypeOK, OneToken, OwnerKnowsState, NoOrphan
  <1>5. WorkPart'
    BY DEF IInv, TypeOK, OneToken, OwnerKnowsState,
           MissedWorkAnnounced, NoLostWork, NoLostKill
  <1>6. RestPart'
    BY DEF IInv, TypeOK, OneToken, CleaningEndsWork, OvertakingFollowsStreak,
           CountBelowInterval
  <1>7. QED
    BY <1>2, <1>3, <1>4, <1>5, <1>6 DEF IInv

(* TakeReady preserves every part of the inductive invariant. *)
LEMMA TakeReadyStep ==
    ASSUME IInv, NEW t \in Threads, TakeReady(t) PROVE IInv'
  <1> USE DEF TakeReady
  <1>1. queue <= len /\ Cardinality(Enqueuing) \in Nat /\ IsFiniteSet(Enqueuing)
    BY LenAtLeastQueue DEF IInv
  <1>2. TypeOK'
    BY <1>1 DEF IInv, TypeOK, CountBelowInterval
  <1>3. LenCoversQueue'
    <2>1. Enqueuing' = Enqueuing
      BY DEF IInv, TypeOK, Enqueuing
    <2>2. QED
      BY <1>1, <2>1 DEF IInv, TypeOK, LenCoversQueue
  <1>4. TokenPart'
    BY DEF IInv, TypeOK, OneToken, OwnerKnowsState, NoOrphan
  <1>5. WorkPart'
    BY DEF IInv, TypeOK, OneToken, OwnerKnowsState,
           MissedWorkAnnounced, NoLostWork, NoLostKill
  <1>6. RestPart'
    BY DEF IInv, TypeOK, OneToken, CleaningEndsWork, OvertakingFollowsStreak,
           CountBelowInterval
  <1>7. QED
    BY <1>2, <1>3, <1>4, <1>5, <1>6 DEF IInv

(* TakeQueue preserves every part of the inductive invariant. *)
LEMMA TakeQueueStep ==
    ASSUME IInv, NEW t \in Threads, TakeQueue(t) PROVE IInv'
  <1> USE DEF TakeQueue, TakeMessage
  <1>1. queue <= len /\ Cardinality(Enqueuing) \in Nat /\ IsFiniteSet(Enqueuing)
    BY LenAtLeastQueue DEF IInv
  <1>2. TypeOK'
    BY <1>1 DEF IInv, TypeOK, CountBelowInterval
  <1>3. LenCoversQueue'
    <2>1. Enqueuing' = Enqueuing
      BY DEF IInv, TypeOK, Enqueuing
    <2>2. QED
      BY <1>1, <2>1 DEF IInv, TypeOK, LenCoversQueue
  <1>4. TokenPart'
    BY DEF IInv, TypeOK, OneToken, OwnerKnowsState, NoOrphan
  <1>5. WorkPart'
    BY DEF IInv, TypeOK, OneToken, OwnerKnowsState,
           MissedWorkAnnounced, NoLostWork, NoLostKill
  <1>6. RestPart'
    BY DEF IInv, TypeOK, OneToken, CleaningEndsWork, OvertakingFollowsStreak,
           CountBelowInterval
  <1>7. QED
    BY <1>2, <1>3, <1>4, <1>5, <1>6 DEF IInv

(* TakeNothing preserves every part of the inductive invariant. *)
LEMMA TakeNothingStep ==
    ASSUME IInv, NEW t \in Threads, TakeNothing(t) PROVE IInv'
  <1> USE DEF TakeNothing
  <1>1. queue <= len /\ Cardinality(Enqueuing) \in Nat /\ IsFiniteSet(Enqueuing)
    BY LenAtLeastQueue DEF IInv
  <1>2. TypeOK'
    BY <1>1 DEF IInv, TypeOK, CountBelowInterval
  <1>3. LenCoversQueue'
    <2>1. Enqueuing' = Enqueuing
      BY DEF IInv, TypeOK, Enqueuing
    <2>2. QED
      BY <1>1, <2>1 DEF IInv, TypeOK, LenCoversQueue
  <1>4. TokenPart'
    BY DEF IInv, TypeOK, OneToken, OwnerKnowsState, NoOrphan
  <1>5. WorkPart'
    BY DEF IInv, TypeOK, OneToken, OwnerKnowsState,
           MissedWorkAnnounced, NoLostWork, NoLostKill
  <1>6. RestPart'
    BY DEF IInv, TypeOK, OneToken, CleaningEndsWork, OvertakingFollowsStreak,
           CountBelowInterval
  <1>7. QED
    BY <1>2, <1>3, <1>4, <1>5, <1>6 DEF IInv

(* ResetAndRescan preserves every part of the inductive invariant. *)
LEMMA ResetAndRescanStep ==
    ASSUME IInv, NEW t \in Threads, ResetAndRescan(t) PROVE IInv'
  <1> USE DEF ResetAndRescan
  <1>1. queue <= len /\ Cardinality(Enqueuing) \in Nat /\ IsFiniteSet(Enqueuing)
    BY LenAtLeastQueue DEF IInv
  <1>2. TypeOK'
    BY <1>1 DEF IInv, TypeOK, CountBelowInterval
  <1>3. LenCoversQueue'
    <2>1. Enqueuing' = Enqueuing
      BY DEF IInv, TypeOK, Enqueuing
    <2>2. QED
      BY <1>1, <2>1 DEF IInv, TypeOK, LenCoversQueue
  <1>4. TokenPart'
    BY DEF IInv, TypeOK, OneToken, OwnerKnowsState, NoOrphan
  <1>5. WorkPart'
    BY DEF IInv, TypeOK, OneToken, OwnerKnowsState,
           MissedWorkAnnounced, NoLostWork, NoLostKill
  <1>6. RestPart'
    BY DEF IInv, TypeOK, OneToken, CleaningEndsWork, OvertakingFollowsStreak,
           CountBelowInterval
  <1>7. QED
    BY <1>2, <1>3, <1>4, <1>5, <1>6 DEF IInv

(* RunWork preserves every part of the inductive invariant. *)
LEMMA RunWorkStep ==
    ASSUME IInv, NEW t \in Threads, RunWork(t) PROVE IInv'
  <1> USE DEF RunWork
  <1>1. queue <= len /\ Cardinality(Enqueuing) \in Nat /\ IsFiniteSet(Enqueuing)
    BY LenAtLeastQueue DEF IInv
  <1>2. TypeOK'
    BY <1>1 DEF IInv, TypeOK, CountBelowInterval
  <1>3. LenCoversQueue'
    <2>1. Enqueuing' = Enqueuing
      BY DEF IInv, TypeOK, Enqueuing
    <2>2. QED
      BY <1>1, <2>1 DEF IInv, TypeOK, LenCoversQueue
  <1>4. TokenPart'
    BY DEF IInv, TypeOK, OneToken, OwnerKnowsState, NoOrphan
  <1>5. WorkPart'
    BY DEF IInv, TypeOK, OneToken, OwnerKnowsState,
           MissedWorkAnnounced, NoLostWork, NoLostKill
  <1>6. RestPart'
    BY DEF IInv, TypeOK, OneToken, CleaningEndsWork, OvertakingFollowsStreak,
           CountBelowInterval
  <1>7. QED
    BY <1>2, <1>3, <1>4, <1>5, <1>6 DEF IInv

(* AfterWork preserves every part of the inductive invariant. *)
LEMMA AfterWorkStep ==
    ASSUME IInv, NEW t \in Threads, AfterWork(t) PROVE IInv'
  <1> USE DEF AfterWork
  <1>1. queue <= len /\ Cardinality(Enqueuing) \in Nat /\ IsFiniteSet(Enqueuing)
    BY LenAtLeastQueue DEF IInv
  <1>2. TypeOK'
    BY <1>1 DEF IInv, TypeOK, CountBelowInterval
  <1>3. LenCoversQueue'
    <2>1. Enqueuing' = Enqueuing
      BY DEF IInv, TypeOK, Enqueuing
    <2>2. QED
      BY <1>1, <2>1 DEF IInv, TypeOK, LenCoversQueue
  <1>4. TokenPart'
    BY DEF IInv, TypeOK, OneToken, OwnerKnowsState, NoOrphan
  <1>5. WorkPart'
    BY DEF IInv, TypeOK, OneToken, OwnerKnowsState,
           MissedWorkAnnounced, NoLostWork, NoLostKill
  <1>6. RestPart'
    BY DEF IInv, TypeOK, OneToken, CleaningEndsWork, OvertakingFollowsStreak,
           CountBelowInterval
  <1>7. QED
    BY <1>2, <1>3, <1>4, <1>5, <1>6 DEF IInv

(* Yield preserves every part of the inductive invariant. *)
LEMMA YieldStep ==
    ASSUME IInv, NEW t \in Threads, Yield(t) PROVE IInv'
  <1> USE DEF Yield
  <1>1. queue <= len /\ Cardinality(Enqueuing) \in Nat /\ IsFiniteSet(Enqueuing)
    BY LenAtLeastQueue DEF IInv
  <1>2. TypeOK'
    BY <1>1 DEF IInv, TypeOK, CountBelowInterval
  <1>3. LenCoversQueue'
    <2>1. Enqueuing' = Enqueuing
      BY DEF IInv, TypeOK, Enqueuing
    <2>2. QED
      BY <1>1, <2>1 DEF IInv, TypeOK, LenCoversQueue
  <1>4. TokenPart'
    BY DEF IInv, TypeOK, OneToken, OwnerKnowsState, NoOrphan
  <1>5. WorkPart'
    BY DEF IInv, TypeOK, OneToken, OwnerKnowsState,
           MissedWorkAnnounced, NoLostWork, NoLostKill
  <1>6. RestPart'
    BY DEF IInv, TypeOK, OneToken, CleaningEndsWork, OvertakingFollowsStreak,
           CountBelowInterval
  <1>7. QED
    BY <1>2, <1>3, <1>4, <1>5, <1>6 DEF IInv

(* RecheckDead preserves every part of the inductive invariant. *)
LEMMA RecheckDeadStep ==
    ASSUME IInv, NEW t \in Threads, RecheckDead(t) PROVE IInv'
  <1> USE DEF RecheckDead
  <1>1. queue <= len /\ Cardinality(Enqueuing) \in Nat /\ IsFiniteSet(Enqueuing)
    BY LenAtLeastQueue DEF IInv
  <1>2. TypeOK'
    BY <1>1 DEF IInv, TypeOK, CountBelowInterval
  <1>3. LenCoversQueue'
    <2>1. Enqueuing' = Enqueuing
      BY DEF IInv, TypeOK, Enqueuing
    <2>2. QED
      BY <1>1, <2>1 DEF IInv, TypeOK, LenCoversQueue
  <1>4. TokenPart'
    BY DEF IInv, TypeOK, OneToken, OwnerKnowsState, NoOrphan
  <1>5. WorkPart'
    BY DEF IInv, TypeOK, OneToken, OwnerKnowsState,
           MissedWorkAnnounced, NoLostWork, NoLostKill
  <1>6. RestPart'
    BY DEF IInv, TypeOK, OneToken, CleaningEndsWork, OvertakingFollowsStreak,
           CountBelowInterval
  <1>7. QED
    BY <1>2, <1>3, <1>4, <1>5, <1>6 DEF IInv

(* DrainReady preserves every part of the inductive invariant. *)
LEMMA DrainReadyStep ==
    ASSUME IInv, NEW t \in Threads, DrainReady(t) PROVE IInv'
  <1> USE DEF DrainReady
  <1>1. queue <= len /\ Cardinality(Enqueuing) \in Nat /\ IsFiniteSet(Enqueuing)
    BY LenAtLeastQueue DEF IInv
  <1>2. TypeOK'
    BY <1>1 DEF IInv, TypeOK, CountBelowInterval
  <1>3. LenCoversQueue'
    <2>1. Enqueuing' = Enqueuing
      BY DEF IInv, TypeOK, Enqueuing
    <2>2. QED
      BY <1>1, <2>1 DEF IInv, TypeOK, LenCoversQueue
  <1>4. TokenPart'
    BY DEF IInv, TypeOK, OneToken, OwnerKnowsState, NoOrphan
  <1>5. WorkPart'
    BY DEF IInv, TypeOK, OneToken, OwnerKnowsState,
           MissedWorkAnnounced, NoLostWork, NoLostKill
  <1>6. RestPart'
    BY DEF IInv, TypeOK, OneToken, CleaningEndsWork, OvertakingFollowsStreak,
           CountBelowInterval
  <1>7. QED
    BY <1>2, <1>3, <1>4, <1>5, <1>6 DEF IInv

(* DrainQueue preserves every part of the inductive invariant. *)
LEMMA DrainQueueStep ==
    ASSUME IInv, NEW t \in Threads, DrainQueue(t) PROVE IInv'
  <1> USE DEF DrainQueue
  <1>1. queue <= len /\ Cardinality(Enqueuing) \in Nat /\ IsFiniteSet(Enqueuing)
    BY LenAtLeastQueue DEF IInv
  <1>2. TypeOK'
    BY <1>1 DEF IInv, TypeOK, CountBelowInterval
  <1>3. LenCoversQueue'
    <2>1. Enqueuing' = Enqueuing
      BY DEF IInv, TypeOK, Enqueuing
    <2>2. QED
      BY <1>1, <2>1 DEF IInv, TypeOK, LenCoversQueue
  <1>4. TokenPart'
    BY DEF IInv, TypeOK, OneToken, OwnerKnowsState, NoOrphan
  <1>5. WorkPart'
    BY DEF IInv, TypeOK, OneToken, OwnerKnowsState,
           MissedWorkAnnounced, NoLostWork, NoLostKill
  <1>6. RestPart'
    BY DEF IInv, TypeOK, OneToken, CleaningEndsWork, OvertakingFollowsStreak,
           CountBelowInterval
  <1>7. QED
    BY <1>2, <1>3, <1>4, <1>5, <1>6 DEF IInv

(* Release preserves every part of the inductive invariant. *)
LEMMA ReleaseStep ==
    ASSUME IInv, NEW t \in Threads, Release(t) PROVE IInv'
  <1> USE DEF Release
  <1>1. queue <= len /\ Cardinality(Enqueuing) \in Nat /\ IsFiniteSet(Enqueuing)
    BY LenAtLeastQueue DEF IInv
  <1>2. TypeOK'
    BY <1>1 DEF IInv, TypeOK, CountBelowInterval
  <1>3. LenCoversQueue'
    <2>1. Enqueuing' = Enqueuing
      BY DEF IInv, TypeOK, Enqueuing
    <2>2. QED
      BY <1>1, <2>1 DEF IInv, TypeOK, LenCoversQueue
  <1>4. TokenPart'
    BY DEF IInv, TypeOK, OneToken, OwnerKnowsState, NoOrphan
  <1>5. WorkPart'
    BY DEF IInv, TypeOK, OneToken, OwnerKnowsState,
           MissedWorkAnnounced, NoLostWork, NoLostKill
  <1>6. RestPart'
    BY DEF IInv, TypeOK, OneToken, CleaningEndsWork, OvertakingFollowsStreak,
           CountBelowInterval
  <1>7. QED
    BY <1>2, <1>3, <1>4, <1>5, <1>6 DEF IInv

(* ReleaseReset preserves every part of the inductive invariant. *)
LEMMA ReleaseResetStep ==
    ASSUME IInv, NEW t \in Threads, ReleaseReset(t) PROVE IInv'
  <1> USE DEF ReleaseReset
  <1>1. queue <= len /\ Cardinality(Enqueuing) \in Nat /\ IsFiniteSet(Enqueuing)
    BY LenAtLeastQueue DEF IInv
  <1>2. TypeOK'
    BY <1>1 DEF IInv, TypeOK, CountBelowInterval
  <1>3. LenCoversQueue'
    <2>1. Enqueuing' = Enqueuing
      BY DEF IInv, TypeOK, Enqueuing
    <2>2. QED
      BY <1>1, <2>1 DEF IInv, TypeOK, LenCoversQueue
  <1>4. TokenPart'
    BY DEF IInv, TypeOK, OneToken, OwnerKnowsState, NoOrphan
  <1>5. WorkPart'
    BY DEF IInv, TypeOK, OneToken, OwnerKnowsState,
           MissedWorkAnnounced, NoLostWork, NoLostKill
  <1>6. RestPart'
    BY DEF IInv, TypeOK, OneToken, CleaningEndsWork, OvertakingFollowsStreak,
           CountBelowInterval
  <1>7. QED
    BY <1>2, <1>3, <1>4, <1>5, <1>6 DEF IInv

(* Account preserves every part of the inductive invariant. *)
LEMMA AccountStep ==
    ASSUME IInv, NEW t \in Threads, Account(t) PROVE IInv'
  <1> USE DEF Account
  <1>1. queue <= len /\ Cardinality(Enqueuing) \in Nat /\ IsFiniteSet(Enqueuing)
    BY LenAtLeastQueue DEF IInv
  <1>2. TypeOK'
    BY <1>1 DEF IInv, TypeOK, CountBelowInterval
  <1>3. LenCoversQueue'
    <2>1. Enqueuing' = Enqueuing
      BY DEF IInv, TypeOK, Enqueuing
    <2>2. QED
      BY <1>1, <2>1 DEF IInv, TypeOK, LenCoversQueue
  <1>4. TokenPart'
    BY DEF IInv, TypeOK, OneToken, OwnerKnowsState, NoOrphan
  <1>5. WorkPart'
    BY DEF IInv, TypeOK, OneToken, OwnerKnowsState,
           MissedWorkAnnounced, NoLostWork, NoLostKill
  <1>6. RestPart'
    BY DEF IInv, TypeOK, OneToken, CleaningEndsWork, OvertakingFollowsStreak,
           CountBelowInterval
  <1>7. QED
    BY <1>2, <1>3, <1>4, <1>5, <1>6 DEF IInv

(* Every step of the specification preserves the inductive invariant. *)
LEMMA NextIInv == IInv /\ [Next]_vars => IInv'
  <1> SUFFICES ASSUME IInv, [Next]_vars PROVE IInv'
    OBVIOUS
  <1>1. CASE UNCHANGED vars
    <2>1. Enqueuing' = Enqueuing
      BY <1>1 DEF vars, Enqueuing
    <2>2. TypeOK' /\ LenCoversQueue'
      BY <1>1, <2>1 DEF vars, IInv, TypeOK, LenCoversQueue
    <2>3. TokenPart' /\ WorkPart' /\ RestPart'
      BY <1>1 DEF vars, IInv, OneToken, OwnerKnowsState, NoOrphan,
         MissedWorkAnnounced, NoLostWork, NoLostKill, CleaningEndsWork,
         OvertakingFollowsStreak, CountBelowInterval
    <2>4. QED
      BY <2>2, <2>3 DEF IInv
  <1>2. ASSUME NEW t \in Threads, Start(t) \/ Continue(t)
        PROVE  IInv'
    BY <1>2, PostMessageStep, EnqueueStep, WakeTaskStep, RetireStep,
       NotifyLoadStep, SwapIdleStep, SwapRunningStep,
       MarkQueuedStep, InsertStep, PopStep, MarkRunningStep,
       RunServiceStep, TakeBurstStep, TakeReadyStep,
       TakeQueueStep, TakeNothingStep, ResetAndRescanStep,
       RunWorkStep, AfterWorkStep, YieldStep, RecheckDeadStep,
       DrainReadyStep, DrainQueueStep, ReleaseStep,
       ReleaseResetStep, AccountStep
       DEF Start, Continue, Notify, Push, TakeWork, Run, Destroy
  <1>3. QED
    BY <1>1, <1>2 DEF Next

(* The inductive invariant holds in every reachable state. *)
THEOREM Inductive == Spec => []IInv
  BY InitIInv, NextIInv, PTL DEF Spec

(* For any number of threads: at most one runs or cleans the service, so   *)
(* the unlocked containers inside a service are never shared.              *)
THEOREM OneExecutor == Spec => []SingleExecutor
  <1>1. IInv => SingleExecutor
    BY DEF IInv, OneToken, SingleExecutor
  <1>2. QED
    BY <1>1, Inductive, PTL

(* The mailbox and its threads' program counters keep their types, and the *)
(* panics of take_work and release are unreachable.                        *)
THEOREM PanicUnreachable == Spec => []MailboxSound
  <1>1. IInv => MailboxSound
    BY DEF IInv, OwnerKnowsState, NoStatePanic, MailboxSound
  <1>2. QED
    BY <1>1, Inductive, PTL

(* No work and no kill is ever forgotten by an idle service, and no        *)
(* service is marked busy without an owner.                                *)
THEOREM NothingLost == Spec => []NoLoss
  <1>1. IInv => NoLoss
    BY DEF IInv, NoLoss
  <1>2. QED
    BY <1>1, Inductive, PTL

(* The unsigned message counter never wraps below zero. *)
THEOREM LenNeverWraps == Spec => []LenCoversQueue
  <1>1. IInv => LenCoversQueue
    BY DEF IInv
  <1>2. QED
    BY <1>1, Inductive, PTL

(* For every READY_BURST: that many ready items at most overtake a waiting *)
(* message.                                                                *)
THEOREM MessagesNotStarved == Spec => []BoundedOvertaking
  <1>1. IInv => BoundedOvertaking
    BY DEF IInv, TypeOK, OvertakingFollowsStreak, BoundedOvertaking
  <1>2. QED
    BY <1>1, Inductive, PTL

(* A destroyed service runs nothing, as an action property. *)
THEOREM DestroyedIsFinal == Spec => NoWorkAfterDestroy
  <1>1. IInv /\ [Next]_vars
          => [destroyed => handled' = handled
                           /\ \A t \in Threads : pc'[t] # "work"]_vars
    <2> SUFFICES ASSUME IInv, IInv', Next, destroyed
                 PROVE  handled' = handled /\ \A t \in Threads : pc'[t] # "work"
      BY NextIInv
    <2>1. destroyed'
      BY DEF Next, Start, Continue, Notify, Push, TakeWork, Run, Destroy, PostMessage, Enqueue, WakeTask, Retire, NotifyLoad, SwapIdle, SwapRunning, MarkQueued, Insert, Pop, MarkRunning, RunService, TakeBurst, TakeReady, TakeQueue, TakeNothing, ResetAndRescan, RunWork, AfterWork, Yield, RecheckDead, DrainReady, DrainQueue, Release, ReleaseReset, Account, TakeMessage
    <2>2. \A t \in Threads : pc'[t] # "work" /\ pc[t] \notin WorkPC
      BY <2>1 DEF IInv, CleaningEndsWork
    <2>3. handled' = handled
      BY <2>2 DEF Next, Start, Continue, Notify, Push, TakeWork, Run, Destroy, PostMessage, Enqueue, WakeTask, Retire, NotifyLoad, SwapIdle, SwapRunning, MarkQueued, Insert, Pop, MarkRunning, RunService, TakeBurst, TakeReady, TakeQueue, TakeNothing, ResetAndRescan, RunWork, AfterWork, Yield, RecheckDead, DrainReady, DrainQueue, Release, ReleaseReset, Account, TakeMessage
    <2>4. QED
      BY <2>2, <2>3
  <1>2. QED
    BY <1>1, Inductive, PTL DEF Spec, NoWorkAfterDestroy
-----------------------------------------------------------------------------
(* The four states implement the run token. *)

(* The holder, when there is one, is the owner of the token. *)
LEMMA HolderIsOwner ==
    ASSUME OneToken, NEW t \in Threads, Holds(t) PROVE TokenOwner = t
  BY DEF OneToken, TokenOwner

(* The same in the next state. *)
LEMMA HolderIsNextOwner ==
    ASSUME OneToken', NEW t \in Threads, Holds(t)' PROVE TokenOwner' = t
  BY DEF OneToken, TokenOwner

(* Without a holder the token is in a run queue or with nobody. *)
LEMMA NoHolderOwner ==
    /\ (\A t \in Threads : ~Holds(t))
         => TokenOwner = IF runq > 0 THEN RunQueue ELSE Nobody
    /\ (\A t \in Threads : ~Holds(t)')
         => TokenOwner' = IF runq' > 0 THEN RunQueue ELSE Nobody
  BY DEF TokenOwner

(* A step that neither moves the service in or out of a run queue nor      *)
(* changes who holds it leaves the token where it is.                      *)
LEMMA TokenUnmoved ==
    ASSUME IInv, IInv', runq' = runq, \A t \in Threads : Holds(t)' <=> Holds(t)
    PROVE  TokenOwner' = TokenOwner
  <1>1. CASE \E t \in Threads : Holds(t)
    BY <1>1, HolderIsOwner, HolderIsNextOwner DEF IInv
  <1>2. CASE \A t \in Threads : ~Holds(t)
    <2>1. \A t \in Threads : ~Holds(t)'
      BY <1>2
    <2>2. QED
      BY <1>2, <2>1, NoHolderOwner
  <1>3. QED
    BY <1>1, <1>2

(* Every step of a thread moves the token as RunToken allows, or not at    *)
(* all.                                                                    *)
LEMMA StepMovesToken ==
    ASSUME IInv, IInv', NEW t \in Threads, Start(t) \/ Continue(t)
    PROVE  Token!Next \/ TokenOwner' = TokenOwner
  <1> USE DEF IInv
  <1>1. CASE SwapIdle(t)
    <2>1. CASE state = "IDLE"
      <3>1. TokenOwner = Nobody
        BY <2>1, NoHolderOwner DEF OneToken, TypeOK
      <3>2. TokenOwner' = t
        BY <1>1, <2>1, HolderIsNextOwner DEF SwapIdle, TypeOK
      <3>3. QED
        BY <3>1, <3>2 DEF Token!Next, Token!Acquire
    <2>2. CASE state # "IDLE"
      BY <1>1, <2>2, TokenUnmoved DEF SwapIdle, TypeOK, Looked
    <2>3. QED
      BY <2>1, <2>2
  <1>2. CASE Insert(t)
    <2>1. TokenOwner = t
      BY <1>2, HolderIsOwner DEF Insert
    <2>2. runq' > 0 /\ \A u \in Threads : ~Holds(u)'
      BY <1>2 DEF Insert, OneToken, TypeOK
    <2>3. TokenOwner' = RunQueue
      BY <2>2, NoHolderOwner
    <2>4. QED
      BY <2>1, <2>3 DEF Token!Next, Token!Enqueue
  <1>3. CASE Pop(t)
    <2>1. TokenOwner = RunQueue
      BY <1>3, NoHolderOwner DEF Pop, OneToken, TypeOK
    <2>2. TokenOwner' = t
      BY <1>3, HolderIsNextOwner DEF Pop, TypeOK
    <2>3. QED
      BY <2>1, <2>2 DEF Token!Next, Token!Dequeue
  <1>4. CASE (TakeNothing(t) \/ Release(t)) /\ state = "RUNNING"
    <2>1. TokenOwner = t
      BY <1>4, HolderIsOwner DEF TakeNothing, Release
    <2>2. state' = "IDLE"
      BY <1>4 DEF TakeNothing, Release
    <2>3. TokenOwner' = Nobody
      BY <2>2, NoHolderOwner DEF OneToken
    <2>4. QED
      BY <2>1, <2>3 DEF Token!Next, Token!Release
  <1>5. CASE (TakeNothing(t) \/ Release(t)) /\ state # "RUNNING"
    BY <1>5, TokenUnmoved DEF TakeNothing, Release, TypeOK
  <1>6. CASE PostMessage(t)
    BY <1>6, TokenUnmoved DEF PostMessage, TypeOK
  <1>7. CASE Enqueue(t)
    BY <1>7, TokenUnmoved DEF Enqueue, TypeOK
  <1>8. CASE WakeTask(t)
    BY <1>8, TokenUnmoved DEF WakeTask, TypeOK
  <1>9. CASE Retire(t)
    BY <1>9, TokenUnmoved DEF Retire, TypeOK
  <1>10. CASE NotifyLoad(t)
    BY <1>10, TokenUnmoved DEF NotifyLoad, Looked, TypeOK
  <1>11. CASE SwapRunning(t)
    BY <1>11, TokenUnmoved DEF SwapRunning, Looked, TypeOK
  <1>12. CASE MarkQueued(t)
    BY <1>12, TokenUnmoved DEF MarkQueued, TypeOK
  <1>13. CASE MarkRunning(t)
    BY <1>13, TokenUnmoved DEF MarkRunning, TypeOK
  <1>14. CASE RunService(t)
    BY <1>14, TokenUnmoved DEF RunService, TypeOK
  <1>15. CASE TakeBurst(t)
    BY <1>15, TokenUnmoved DEF TakeBurst, TakeMessage, TypeOK
  <1>16. CASE TakeReady(t)
    BY <1>16, TokenUnmoved DEF TakeReady, TypeOK
  <1>17. CASE TakeQueue(t)
    BY <1>17, TokenUnmoved DEF TakeQueue, TakeMessage, TypeOK
  <1>18. CASE ResetAndRescan(t)
    BY <1>18, TokenUnmoved DEF ResetAndRescan, TypeOK
  <1>19. CASE RunWork(t)
    BY <1>19, TokenUnmoved DEF RunWork, TypeOK
  <1>20. CASE AfterWork(t)
    BY <1>20, TokenUnmoved DEF AfterWork, TypeOK
  <1>21. CASE Yield(t)
    BY <1>21, TokenUnmoved DEF Yield, TypeOK
  <1>22. CASE RecheckDead(t)
    BY <1>22, TokenUnmoved DEF RecheckDead, TypeOK
  <1>23. CASE DrainReady(t)
    BY <1>23, TokenUnmoved DEF DrainReady, TypeOK
  <1>24. CASE DrainQueue(t)
    BY <1>24, TokenUnmoved DEF DrainQueue, TypeOK
  <1>25. CASE ReleaseReset(t)
    BY <1>25, TokenUnmoved DEF ReleaseReset, TypeOK
  <1>26. CASE Account(t)
    BY <1>26, TokenUnmoved DEF Account, TypeOK
  <1>27. QED
    BY <1>1, <1>2, <1>3, <1>4, <1>5, <1>6, <1>7, <1>8, <1>9, <1>10, <1>11, <1>12, <1>13, <1>14, <1>15, <1>16, <1>17, <1>18, <1>19, <1>20, <1>21, <1>22, <1>23, <1>24, <1>25, <1>26
       DEF Start, Continue, Notify, Push, TakeWork, Run, Destroy

(* The mailbox, with its run queue abstracted to a counter, implements the *)
(* abstract run token.                                                     *)
THEOREM ImplementsRunToken == Spec => RefinesRunToken
  <1>1. Init => Token!Init
    <2> SUFFICES ASSUME Init PROVE Token!Init
      OBVIOUS
    <2>1. PICK creator \in Threads :
            pc = [t \in Threads |-> IF t = creator THEN "mark_queued" ELSE "out"]
      BY DEF Init
    <2>2. TokenOwner = creator
      BY <2>1, InitIInv, HolderIsOwner DEF IInv
    <2>3. QED
      BY <2>2 DEF Token!Init
  <1>2. IInv /\ [Next]_vars => [Token!Next]_TokenOwner
    <2> SUFFICES ASSUME IInv, [Next]_vars PROVE Token!Next \/ TokenOwner' = TokenOwner
      OBVIOUS
    <2>1. IInv'
      BY NextIInv
    <2>2. CASE UNCHANGED vars
      BY <2>1, <2>2, TokenUnmoved DEF vars
    <2>3. CASE Next
      BY <2>1, <2>3, StepMovesToken DEF Next
    <2>4. QED
      BY <2>2, <2>3
  <1>3. QED
    BY <1>1, <1>2, Inductive, PTL DEF Spec, RefinesRunToken, Token!Spec
=============================================================================
