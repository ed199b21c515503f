SPECIFICATION ViewersSpec
CONSTANTS
  u1 = u1
  s1 = s1
  s2 = s2
  c1 = c1
  c2 = c2
  v1 = v1
  NoSession = NoSession
  NoConn = NoConn
  Sessions = {s1, s2}
  Users = {u1}
  Conns = {c1, c2}
  Modes = {"monitor"}
  Overlap = FALSE
  Watchers = {v1}
  MaxVersion = 4
  OwnerOf <- MCOwnerOf
  SessionOf <- MCSessionOf
  AccountOf <- MCAccountOf
CHECK_DEADLOCK FALSE
INVARIANTS
  ViewersTypeOK
  FollowsMonitor
  SeesRoom
