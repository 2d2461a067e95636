SPECIFICATION FairSpec
CONSTANTS
  c1 = c1
  c2 = c2
  pub = pub
  ack = ack
  unsub = unsub
  bad = bad
  ping = ping
  k1 = k1
  k2 = k2
  k3 = k3
  NoClient = NoClient
  NoPacket = NoPacket
  Client = {c1}
  KeepAlive = {1}
  CleanSession = {FALSE}
  Level = {4}
  Route = {pub}
  Flow = {ack}
  Unsub = {}
  Bad = {}
  Oob = {}
  Task = {k1}
  GRACE = 1
  MaxTransports = 2
  MaxSessions = 2
  MaxTime = 2
CHECK_DEADLOCK FALSE
PROPERTIES
  SilentDisconnected
