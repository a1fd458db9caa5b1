----------------------------- MODULE StealQueue -----------------------------
(***************************************************************************)
(* What a local run queue promises (rskynet-core/src/bwos.rs, the methods  *)
(* of Owner and Stealer): its owner gets back the newest value still in    *)
(* it, and is told "none" only when nothing is left; a thief takes some    *)
(* value; no value is taken twice, and none disappears.                    *)
(***************************************************************************)
EXTENDS Integers

VARIABLES live,    \* the values in the queue; a later push has a greater value
          got,     \* what the owner's last pop returned: -1 under way, 0 none
          taken    \* the values that have left it

sqVars == <<live, got, taken>>

Init == live = {} /\ got = 0 /\ taken = {}

Push == \E v \in live' \ live :
  /\ v \in Nat /\ \A u \in live \cup taken : u < v
  /\ live' = live \cup {v}
  /\ UNCHANGED <<got, taken>>

Ask == got' = -1 /\ UNCHANGED <<live, taken>>

Pop == /\ got = -1
       /\ \E v \in live :
            /\ \A u \in live : u <= v
            /\ live' = live \ {v}
            /\ got' = v
            /\ taken' = taken \cup {v}

Empty == got = -1 /\ live = {} /\ got' = 0 /\ UNCHANGED <<live, taken>>

Steal == \E v \in live :
  /\ live' = live \ {v}
  /\ taken' = taken \cup {v}
  /\ UNCHANGED got

Next == Push \/ Ask \/ Pop \/ Empty \/ Steal

Spec == Init /\ [][Next]_sqVars
=============================================================================
