SPECIFICATION Spec
CONSTANTS
  Conns = {c1}
  NoConn = NoConn
  StackWords <- MCStackWords
  Parked <- MCParked
  LeftP <- MCLeftP
  Requests <- MCRequestsAny
  MaxSent = 2
  Backlog = 10
PROPERTY OnlyWrittenCommandsRun
CHECK_DEADLOCK FALSE
