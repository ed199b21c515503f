SPECIFICATION LookupSpec
CONSTANTS
  u1 = u1
  u2 = u2
  s1 = s1
  s2 = s2
  s3 = s3
  c1 = c1
  c2 = c2
  c3 = c3
  NoConn = NoConn
  NoSession = NoSession
  Users = {u1}
  Sessions = {s1, s2}
  Conns = {c1, c2, c3}
  OwnerOf <- OneUserOwnerOf
  SessionOf <- OverlapSessionOf
  Modes = {"monitor", "temple"}
  Overlap = TRUE
  r1 = r1
  Readers = {}
  AskedFor <- MCAskedFor
INVARIANTS
  SingleMonitor
