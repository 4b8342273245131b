SPECIFICATION Spec
CONSTANTS
  Conns = {c1, c2}
  NoConn = NoConn
  StackWords <- MCStackWords
  Parked <- MCParked
  LeftP <- MCLeftP
  StackInts = {10}
  Typed <- MCTyped
  MaxOptions = 2
  MaxTimeouts = 1
  Backlog = 10
  Positions <- MCPositions
SYMMETRY Symmetry
INVARIANTS TypeOK PincersSuitMove
PROPERTIES MessageTellsPincers ClientIsMaster
CHECK_DEADLOCK FALSE
