SPECIFICATION SessionsSpec
CONSTANTS
  u1 = u1
  s1 = s1
  s2 = s2
  c1 = c1
  c2 = c2
  c3 = c3
  NoSession = NoSession
  NoConn = NoConn
  Sessions = {s1, s2}
  Users = {u1}
  Conns = {c1, c2, c3}
  Modes = {"monitor"}
  Overlap = TRUE
  OwnerOf <- MCOwnerOf
  SessionOf <- MCSessionOf
INVARIANTS
  SessionsTypeOK
  PublisherIsLive
  OneMonitorRow
  NoGhostMonitor
PROPERTIES
  OnlyPublisherDisconnects
