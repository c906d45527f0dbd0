SPECIFICATION ConnSpec
CONSTANTS
  LOGIN = LOGIN
  MAP = MAP
  loginConn = loginConn
  mapConn = mapConn
  NoConn = NoConn
  ServerType = {LOGIN, MAP}
  Conn = {loginConn, mapConn}
  TypeOf <- MCTypeOf
  HeartBeat = {LOGIN}
  MaxPackets = 1
  UninitPostMessage = {TRUE, FALSE}
INVARIANTS
  ConnectionTypeOK
  OneOutcome
  NoHandlerAfterDestroy
PROPERTIES
  JoinedDestructorIsSilent
CHECK_DEADLOCK FALSE
