SPECIFICATION PlatformSpec
CONSTANTS
  log = log
  first = first
  second = second
  Workers = {w}
  Callers = {c}
  Main = Main
  Users = {w, c, Main}
  Shared = {first, second}
  Exclusive = {log}
  Reserved = {log}
  Logger = log
  BootOrder <- BootOneService
  Awaited = {log, first}
  None = None
  DRAIN_BUDGET = 1
  MaxWakes = 1
  MaxCalls = 2
  MayAbort = TRUE
  AbortInBoot = TRUE
  TwNear = 2
  TwLevel = 2
  TwLevels = 2
  TwTick = 2
  TwEnd = 8
  TwTimers = 2
  TwLate = 2
  TwArmBy = 2
  TwMenus <- Delays
  HtWriters = {w1, w2}
  HtReaders = {r1}
  HtNameSet = {n1}
  HtInitSize = 1
  HtMaxHandle = 3
  NetOwners = {o1}
  NetCapacity = 2
  NetMaxId = 4
  NetMaxReq = 3
  NetMenus <- SocketMenus
  NetRoom = 1
  NetWarn = 1
  NetHigh = 2
  NetLow = 1
  TlsMaxConn = 2
  TlsMaxHandshakes = 1
  TlsMaxId = 2
  TlsMaxSock = 2
  TlsMaxReq = 2
  TlsMaxData = 1
  QuicMaxConn = 2
  QuicMaxHandshakes = 1
  QuicHigh = 2
  QuicLow = 0
  QuicMaxId = 2
  QuicMaxSock = 2
  QuicMaxReq = 2
  QuicMenus <- PacketMenus
  HcOrigins = {"a", "b"}
  HcMaxConn = 1
  HcPerOrigin = 1
  HcMaxIdle = 1
  HcIdlePerOrigin = 1
  HcHigh = 2
  HcLow = 0
  HcMaxTr = 2
  HcMaxReq = 4
  HcMenus <- ExchangeMenus
  HsTrs = {1}
  HsHigh = 2
  HsLow = 0
  HsMaxReq = 2
  HsMaxTok = 4
  WsHigh = 2
  WsLow = 1
  WsMaxData = 3
  LgMaxQueue = 2
  LgMaxFile = 3
  LgDaily = TRUE
  LgLines = 5
  LgDays = 2
  LgHups = 1
  LgFaults = 1
  PlCount = 3
  PlCallers = {p1, p2}
  PlMenus <- PluginMenus
  ClConns = 2
  ClMaxDials = 2
  ClMaxOps = 1
  ClMenus <- LinkMenus
INVARIANTS
  Counted
  ShutdownSealed
  TwSafe
  HtSafe
  SocketsSafe
  TlsSafe
  QuicKept
  ClientSafe
  HsSafe
  WsSafe
  ClAnswered
  ClAgree
  LgKept
  PluginsSafe
PROPERTIES
  QuitHasReason
CHECK_DEADLOCK FALSE
