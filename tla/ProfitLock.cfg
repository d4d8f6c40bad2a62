\* An entry at 10, a trigger at 10 percent, a trail of 10, a cap of 30.
SPECIFICATION Spec
CONSTANTS
  Price = {9, 10, 11, 12, 13}
  TriggerPct = 10
  TrailPct = 10
  CapPct = 30
  Task = {t1, t2}
  MaxGen = 2
  MaxOrders = 3
  ExchangeFaults = TRUE
SYMMETRY Symmetry
INVARIANTS TypeOK OneExit LockedIsSold LockTrailsHigh ExecutingHasOrder
PROPERTIES LockRatchets
CHECK_DEADLOCK FALSE
