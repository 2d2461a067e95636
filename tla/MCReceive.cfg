SPECIFICATION FairSpec
CONSTANTS
  Packet <- MCPacket
  None = None
  Past = {0, 200}
  Worker = {w1, w2}
  MaxPackets = 2
  MaxTasks = 2
  Piece = {1, 60, 129}
  Payloads = {0, 124}
CHECK_DEADLOCK FALSE
INVARIANTS
  TypeOK
  HandledInOrder
  NeverRefused
  SentOnAlike
  NothingLeft
PROPERTIES
  AllHandled
