SPECIFICATION Spec
CONSTANTS
  Programs <- MCRviz
  Typed <- MCTyped
  InputFails = FALSE
  MaxKeys = 1
  MaxMessages = 2
PROPERTIES NoMoveInContact
CHECK_DEADLOCK FALSE
