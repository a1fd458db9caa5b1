----------------------------- MODULE MCProgress -----------------------------
(***************************************************************************)
(* What must eventually happen, for TLC: a node that ends, calls on a      *)
(* worker's local queue that return, cluster nodes that find each other    *)
(* again, and an endless poll that is reported; with the local queue's     *)
(* safety and its refinement. The models share no variable; which of them  *)
(* a behaviour is about is chosen at the start, and the others rest in an  *)
(* initial state. Fairness is that of each model, for the one that is      *)
(* chosen.                                                                 *)
(***************************************************************************)
EXTENDS Node, Bwos, Cluster, Monitor

CONSTANTS log, first, second

BootOneService == <<log, first>>

(* Who dials whom, how many requests each node makes, and how many cuts or *)
(* restarts happen.                                                        *)
Quiet == [seeded |-> {}, ops |-> <<1, 0>>, faults |-> 0]
LinkMenus == {Quiet,
              [seeded |-> {1}, ops |-> <<1, 0>>, faults |-> 1],
              [seeded |-> {1, 2}, ops |-> <<0, 0>>, faults |-> 0]}

VARIABLE part

ProgressInit ==
  /\ part \in {"node", "queue", "cluster", "monitor"}
  /\ Init /\ BwInit /\ MnInit
  /\ ClInit /\ (part # "cluster" => clMenu = Quiet)

ProgressNext ==
  /\ UNCHANGED part
  /\ \/ part = "node"    /\ Next   /\ UNCHANGED <<bwVars, clVars, mnVars>>
     \/ part = "queue"   /\ BwNext /\ UNCHANGED <<vars, clVars, mnVars>>
     \/ part = "cluster" /\ ClNext /\ UNCHANGED <<vars, bwVars, mnVars>>
     \/ part = "monitor" /\ MnNext /\ UNCHANGED <<vars, bwVars, clVars>>

(* As in Node, Bwos, Cluster and Monitor, for the model that is chosen.    *)
NodeRuns == /\ WF_vars(part = "node" /\ MainStep)
            /\ \A t \in Threads : WF_vars(part = "node" /\ Step(t))

QueueRuns == /\ WF_bwVars(part = "queue" /\ BwOwnerStep)
             /\ \A t \in BwThieves : WF_bwVars(part = "queue" /\ BwThiefStep(t))

ClusterRuns ==
  /\ \A n \in ClNodes, c \in 1 .. ClConns :
       /\ WF_clVars(part = "cluster" /\ ClConnect(n, c))
       /\ WF_clVars(part = "cluster" /\ ClAccept(n, c))
       /\ WF_clVars(part = "cluster" /\ ClDisconnected(n, c))
       /\ WF_clVars(part = "cluster" /\ ClInput(n, c))
  /\ WF_clVars(part = "cluster" /\ ClTaskStep)

ProgressSpec ==
  /\ ProgressInit /\ [][ProgressNext]_<<part, vars, bwVars, clVars, mnVars>>
  /\ NodeRuns /\ QueueRuns /\ ClusterRuns
  /\ WF_mnVars(part = "monitor" /\ MnLook)
=============================================================================
