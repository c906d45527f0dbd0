SPECIFICATION Spec
CONSTANTS
  p1 = p1
  p2 = p2
  Task = {p1, p2}
  MaxStates = 5
INVARIANTS
  TypeOK
  OnePrompt
  AnswersAreDue
  OnlyPinCodeDangles
PROPERTIES
  NeverStranded
CHECK_DEADLOCK FALSE
