SPECIFICATION Spec
CONSTANTS
  Id = {1, 2}
  ForeignId = {2, 3}
  Foreign = Foreign
  MaxTransports = 3
  MaxMessages = 3
  MaxAlloc = 2
CHECK_DEADLOCK FALSE
INVARIANTS
  TypeOK
  ReleasedOnRequest
PROPERTIES
  DeliversOnce
