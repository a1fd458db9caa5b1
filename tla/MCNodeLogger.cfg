SPECIFICATION Spec
CONSTANTS
  log = log
  sig = sig
  a = a
  b = b
  Workers = {w}
  Callers = {}
  Main = Main
  Users = {sig}
  Shared = {a}
  Exclusive = {log, sig}
  Reserved = {log, sig}
  Logger = log
  BootOrder <- BootWithSignal
  Awaited = {log, sig, a}
  None = None
  DRAIN_BUDGET = 1
  MaxWakes = 0
  MaxCalls = 1
  MayAbort = TRUE
  AbortInBoot = FALSE
CHECK_DEADLOCK FALSE
INVARIANTS
  LoggerLast
