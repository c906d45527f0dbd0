SPECIFICATION Spec
CONSTANTS
  p1 = p1
  p2 = p2
  Task = {p1, p2}
  MaxStates = 2
PROPERTIES
  SucceededMovesOn
CHECK_DEADLOCK FALSE
