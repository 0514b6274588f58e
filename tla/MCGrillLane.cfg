CONSTANTS
  a = a
  b = b
  c = c
  NoDecision = NoDecision
  Decision = {a, b, c}
  Marks <- MCMarks
  MaxGestures = 3
  MaxEpochs = 2
  MaxChanges = 1
SPECIFICATION Spec
INVARIANTS
  TypeOK
  OneHolder
PROPERTIES
  OnlyTheHolderRules
  IsWaitingBoard
CHECK_DEADLOCK FALSE
