SPECIFICATION LookupFairSpec
CONSTANTS
  u1 = u1
  u2 = u2
  s1 = s1
  s2 = s2
  s3 = s3
  c1 = c1
  c2 = c2
  c3 = c3
  NoConn = NoConn
  NoSession = NoSession
  Users = {u1, u2}
  Sessions = {s1, s2, s3}
  Conns = {c1, c2, c3}
  OwnerOf <- MCOwnerOf
  SessionOf <- MCSessionOf
  Modes = {"monitor", "temple"}
  Overlap = FALSE
  r1 = r1
  Readers = {r1}
  AskedFor <- MCAskedFor
INVARIANTS
  TypeOK
  SingleMonitor
  ClaimBacked
PROPERTIES
  AnswerExact
  RejectionJustified
  SlotRefinement
  SlotFreedRefinement
