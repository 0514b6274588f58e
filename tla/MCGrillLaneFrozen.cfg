CONSTANTS
  a = a
  b = b
  c = c
  NoDecision = NoDecision
  Decision = {a, b, c}
  Marks <- MCMarks
  MaxGestures = 3
  MaxEpochs = 2
  MaxChanges = 1
SPECIFICATION Spec
INVARIANT FailureHasAWayOut
CHECK_DEADLOCK FALSE
