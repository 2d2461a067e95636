SPECIFICATION Spec
CONSTANTS
  Plus <- MCPlus
  Hash <- MCHash
  Word <- Words
  Client = {c1}
  QoS = {1}
  Filter <- Wild
  Topic <- Concrete
  Char <- Chars
  Slash = "/"
  String <- Strings
  c1 = c1
INVARIANTS
  EachLevelANode
