SPECIFICATION Spec
CONSTANTS
  LOGIN = LOGIN
  c1 = c1
  c2 = c2
  NoConn = NoConn
  NoMsg = NoMsg
  w1 = w1
  w2 = w2
  ServerType = {LOGIN}
  Conn = {c1}
  Worker = {w1}
  TypeOf <- OneConnection
  HeartBeat = {LOGIN}
  MaxPackets = 1
  MaxRequests = 2
  UninitPostMessage = {TRUE}
INVARIANTS
  EndIsReported

PROPERTIES
  CloseReturns
  DispatchReturns
  DeadConnectionLeaves
CHECK_DEADLOCK FALSE
