------------------------------- MODULE MCNode -------------------------------
(* Node for TLC.  The logger has its own thread; `sig` is a reserved       *)
(* exclusive service like rskynet-signal; the rest are shared.             *)
EXTENDS Node, TLC

CONSTANTS log, sig, a, b

BootOneService == <<log, a>>
BootWithSignal == <<log, sig, a>>
=============================================================================
