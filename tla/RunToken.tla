------------------------------ MODULE RunToken ------------------------------
(***************************************************************************)
(* What the run-queue protocol promises about one service, in the          *)
(* abstract: the right to touch the service is a single token.  Nobody has *)
(* it while the service is idle; the thread whose notification finds the   *)
(* service idle gets it; it travels through a run queue from one thread to *)
(* another; and only its owner can put it down.  Everything that is not    *)
(* locked inside a service (task set, session table, SvcCell) rests on it. *)
(***************************************************************************)

CONSTANTS Threads,   (* every thread that may notify, queue or run the service *)
          Nobody,    (* the service is idle                                    *)
          RunQueue   (* the service waits in a run queue                       *)

VARIABLE owner

(* The thread that creates a service owns it until it publishes it. *)
Init == owner \in Threads

Acquire(t) == owner = Nobody   /\ owner' = t
Enqueue(t) == owner = t        /\ owner' = RunQueue
Dequeue(t) == owner = RunQueue /\ owner' = t
Release(t) == owner = t        /\ owner' = Nobody

Next == \E t \in Threads : Acquire(t) \/ Enqueue(t) \/ Dequeue(t) \/ Release(t)

Spec == Init /\ [][Next]_owner
=============================================================================
