SPECIFICATION ProgressSpec
CONSTANTS
  log = log
  first = first
  second = second
  Workers = {w}
  Callers = {}
  Main = Main
  Users = {w, Main}
  Shared = {first, second}
  Exclusive = {log}
  Reserved = {log}
  Logger = log
  BootOrder <- BootOneService
  Awaited = {log, first}
  None = None
  DRAIN_BUDGET = 2
  MaxWakes = 1
  MaxCalls = 2
  MayAbort = TRUE
  AbortInBoot = FALSE
  BwThieves = {t1, t2}
  BwBlocks = 2
  BwSize = 2
  BwMaxGen = 2
  BwMaxPush = 5
  ClConns = 2
  ClMaxDials = 2
  ClMaxOps = 1
  ClMenus <- LinkMenus
  MnPolls = 3
INVARIANTS
  OrderlyEnd
  MnNoFalseAlarm
  BwExact
PROPERTIES
  BwSound
  NodeEnds
  BwReturns
  ClReconnects
  MnReported
CHECK_DEADLOCK FALSE
