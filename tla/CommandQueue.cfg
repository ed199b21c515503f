SPECIFICATION FairSpec
CONSTANTS
  c1 = c1
  c2 = c2
  p1 = p1
  d1 = d1
  NoConn = NoConn
  NoOne = NoOne
  Cap = 2
  Conns = {c1, c2}
  Senders = {p1}
  Disconnectors = {d1}
CHECK_DEADLOCK FALSE
INVARIANTS
  TypeOK
  HeldChannelIsCurrent
PROPERTIES
  NoticeIsLast
  DisconnectCloses
  SendReturns
