SPECIFICATION Spec
CONSTANTS
  p1 = p1
  p2 = p2
  p3 = p3
  Main = Main
  Task = {p1, p2, p3}
  MaxCreations = 2
INVARIANTS
  CurrentCallbackOnly
CHECK_DEADLOCK FALSE
