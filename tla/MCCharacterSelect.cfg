SPECIFICATION Spec
CONSTANTS
  p1 = p1
  p2 = p2
  p3 = p3
  Main = Main
  Task = {p1, p2, p3}
  MaxCreations = 3
INVARIANTS
  TypeOK
  OnePrompt
  DestroyedIsUnreachable
PROPERTIES
  CreationIsAnswered
CHECK_DEADLOCK FALSE
