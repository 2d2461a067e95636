SPECIFICATION FairSpec
CONSTANTS
  s1 = s1
  s2 = s2
  w1 = w1
  w2 = w2
  Session = {s1, s2}
  Worker = {w1, w2}
  Main = Main
  PubQoS = {2}
  SubQoS = {0, 1}
  PubId = {2}
  IdSpace = 3
  NoSession = NoSession
  MaxMessages = 2
  MaxCalls = 2
  MaxChanges = 1
CHECK_DEADLOCK FALSE
INVARIANTS
  TypeOK
  Kept
  NeverRaised
  OnceFresh
  IdsDistinct
PROPERTIES
  RoutingEnds
