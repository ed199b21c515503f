SPECIFICATION FairSpec
CONSTANTS
  m1 = m1
  m2 = m2
  Members = {m1, m2}
  Leader = m1
  MaxCycle = 1
  MaxFaults = 1
  MaxDrops = 1
  MaxLost = 1
  MaxTrouble = 1
CHECK_DEADLOCK FALSE
INVARIANTS
  TypeOK
  NoEarlyDisband
PROPERTIES
  DisbandInTime
  RoundRefinement
  CycleEnds
