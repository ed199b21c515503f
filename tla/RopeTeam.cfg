SPECIFICATION Spec
CONSTANTS
  m1 = m1
  m2 = m2
  Sessions = {m1, m2}
  NoSession = NoSession
  NoRequest = NoRequest
  MaxTeam = 2
  MaxJoins = 1
  MaxPending = 1
SYMMETRY Symmetry
INVARIANTS
  TypeOK
  MarksEarned
  MarkedOnce
PROPERTIES
  CycleKeepsTeam
