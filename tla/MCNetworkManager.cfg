SPECIFICATION Spec
CONSTANTS
  LOGIN = LOGIN
  c1 = c1
  c2 = c2
  NoConn = NoConn
  NoMsg = NoMsg
  w1 = w1
  w2 = w2
  ServerType = {LOGIN}
  Conn = {c1, c2}
  Worker = {w1, w2}
  TypeOf <- Reconnect
  HeartBeat = {}
  MaxPackets = 1
  MaxRequests = 1
  UninitPostMessage = {TRUE, FALSE}
SYMMETRY WorkerSymmetry
INVARIANTS
  TypeOK
  OneDispatcher
  OnePerServer
  NoLeakNoDangling
  DeadSlotHasNotice
PROPERTIES
  SerialSpec
