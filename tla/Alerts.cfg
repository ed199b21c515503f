SPECIFICATION Spec
CONSTANTS
  s1 = s1
  s2 = s2
  Sessions = {s1, s2}
  Interval = 2
  Window = 1
  Never = Never
  NoScan = NoScan
  NoRule = NoRule
  MaxTime = 3
SYMMETRY Symmetry
INVARIANTS
  TypeOK
PROPERTIES
  Spaced
  SoundOnce
  OneLateAlert
