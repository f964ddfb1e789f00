CONSTANTS
  Sessions = {s1, s2}
  Instances = {i1}
  Threads = {t1, t2}
  MaxCrashes = 1
  None = None
SPECIFICATION Spec
SYMMETRY Symmetry
INVARIANT TypeOK IndexesAgree
PROPERTY ClosedIsFinal
CHECK_DEADLOCK FALSE
