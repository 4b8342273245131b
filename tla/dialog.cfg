SPECIFICATION FairSpec
CONSTANTS
  Commands <- MCWhole
  MaxCommands = 12
INVARIANTS DialogInv Synchronised
PROPERTIES IsExchange CallsReturn
CHECK_DEADLOCK FALSE
