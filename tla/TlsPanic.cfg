SPECIFICATION TlsSpec
CONSTANTS
  TlsMaxConn = 2
  TlsMaxHandshakes = 1
  TlsMaxId = 2
  TlsMaxSock = 2
  TlsMaxReq = 2
  TlsMaxData = 1
INVARIANTS
  TlsNoPanic
CHECK_DEADLOCK FALSE
