SPECIFICATION Spec
CONSTANTS
  Instance = {i1, i2}
  Task = {t1}
  Proc = {1, 2, 3}
  MaxBoots = 1
  MaxMixed = 1
  MaxSubs = 1
  NoInstance = NoInstance
  NoProc = NoProc
SYMMETRY Symmetry
INVARIANTS NoRunningTwins
CHECK_DEADLOCK FALSE
