SPECIFICATION Spec
CONSTANTS
  a = a
  b = b
  c1 = c1
  c2 = c2
  Worker = {w1, w2}
  Client = {c1, c2}
  NoClient = NoClient
  Word = {a, b}
  Topic <- Topics
  MaxCalls = 3
CHECK_DEADLOCK FALSE
INVARIANTS
  TypeOK
  HoldsGranted
  StandsInTree
  AnswersRight
