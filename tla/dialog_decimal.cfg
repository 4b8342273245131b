SPECIFICATION Spec
CONSTANTS
  Commands <- MCDecimal
  MaxCommands = 2
INVARIANT Synchronised
CHECK_DEADLOCK FALSE
