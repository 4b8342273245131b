SPECIFICATION FairSpec
CONSTANTS
  Conns = {c1, c2}
  NoConn = NoConn
  StackWords <- MCStackCommand
  Parked <- MCParked
  LeftP <- MCNoP
  Requests <- MCRequestsLive
  MaxSent = 2
  Backlog = 10
PROPERTIES ConfirmedIsCarriedOut ServedIsAnswered
CHECK_DEADLOCK FALSE
