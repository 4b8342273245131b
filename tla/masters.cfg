SPECIFICATION Spec
CONSTANTS
  Conns = {c1, c2}
  NoConn = NoConn
  StackWords <- MCStackWords
  Parked <- MCParked
  LeftP <- MCLeftP
  Requests <- MCRequests
  MaxSent = 2
  Backlog = 10
SYMMETRY Symmetry
INVARIANTS TypeOK StateMatchesCommand PincersTrackGripper ArmWhereServerThinks CommandOfThisSession EachRequestAnsweredOnce
CHECK_DEADLOCK FALSE
