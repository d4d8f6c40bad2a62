SPECIFICATION Spec
CONSTANTS
  Instance = {i1}
  Task = {t1, t2}
  Proc = {1, 2, 3}
  MaxBoots = 3
  MaxMixed = 1
  MaxSubs = 1
  NoInstance = NoInstance
  NoProc = NoProc
SYMMETRY Symmetry
INVARIANTS RegistryMatchesRow QuietUnlessRunning StopCancelsBeforeRestart
PROPERTIES RowsFollowTable
CHECK_DEADLOCK FALSE
