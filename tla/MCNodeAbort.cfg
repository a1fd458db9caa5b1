SPECIFICATION FairSpec
CONSTANTS
  log = log
  sig = sig
  a = a
  b = b
  Workers = {w}
  Callers = {c}
  Main = Main
  Users = {c}
  Shared = {a}
  Exclusive = {log}
  Reserved = {log}
  Logger = log
  BootOrder <- BootOneService
  Awaited = {log, a}
  None = None
  DRAIN_BUDGET = 1
  MaxWakes = 0
  MaxCalls = 1
  MayAbort = TRUE
  AbortInBoot = TRUE
CHECK_DEADLOCK FALSE
PROPERTIES
  StartReturns
