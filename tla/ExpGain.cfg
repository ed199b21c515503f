SPECIFICATION Spec
CONSTANTS
  s1 = s1
  s2 = s2
  r1 = r1
  Sessions = {s1, s2}
  Resets = {r1}
  Ticker = Ticker
  None = None
  MaxRisen = 1
  MaxDay = 1
  MaxRestarts = 1
  MaxFailures = 1
SYMMETRY Symmetry
INVARIANTS
  TypeOK
  NeverOvercounted
  CleanIsSaved
